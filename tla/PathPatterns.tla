----------------------------- MODULE PathPatterns -----------------------------
(***************************************************************************)
(* The two pattern matchers of src/vault/policy.rs.  The index and the     *)
(* reader leave out what matches_vault_path_pattern matches: it tries one  *)
(* form of pattern after the other and scans the text for the pieces of a  *)
(* wildcard pattern.  PathPolicy denies what the regular expression of     *)
(* compile_deny_pattern matches.  Patterns and paths are sequences of      *)
(* symbols; "S" is .sync-conflict-.  Unicode composition is left out.      *)
(***************************************************************************)
EXTENDS Naturals, Sequences

CONSTANTS
    Symbols,
    Lower,     \* the symbol that stands for each one when case is ignored
    Patterns,  \* the patterns that are configured
    Pieces,    \* what str::split('*') makes of each pattern
    Paths      \* the paths that are asked for

VARIABLES
    pattern,   \* the one rule
    path,      \* the path a call asks for
    phase,     \* of the scan, or its answer
    matched,   \* how many pieces the scan has found
    from       \* where the text begins that is left to scan

vars == <<pattern, path, phase, matched, from>>

\* lit is what follows the first k symbols of text.
OccursAt(lit, text, k) ==
    k + Len(lit) <= Len(text) /\ \A x \in DOMAIN lit : text[k + x] = lit[x]
AlikeAt(lit, text, k) ==
    k + Len(lit) <= Len(text) /\ \A x \in DOMAIN lit : Lower[text[k + x]] = Lower[lit[x]]

HasStar(p) == \E i \in DOMAIN p : p[i] = "*"
SplitsAtStars(p, pieces) ==
    /\ pieces # <<>>
    /\ \E at \in [DOMAIN pieces -> 0..Len(p)] :
          /\ at[1] = 0 /\ at[Len(pieces)] + Len(pieces[Len(pieces)]) = Len(p)
          /\ \A i \in DOMAIN pieces : OccursAt(pieces[i], p, at[i]) /\ ~HasStar(pieces[i])
          /\ \A i \in 1..(Len(pieces) - 1) :
                /\ at[i + 1] = at[i] + Len(pieces[i]) + 1
                /\ p[at[i + 1]] = "*"

PatternAssumption ==
    /\ {"*", "/", "S"} \subseteq Symbols
    /\ Lower \in [Symbols -> Symbols] /\ Lower["S"] = "S"
    /\ \A s \in Symbols : Lower[s] = "*" <=> s = "*"
    /\ \A s \in Symbols : Lower[s] = "/" <=> s = "/"
    /\ Patterns \subseteq Seq(Symbols) /\ Paths \subseteq Seq(Symbols)
    /\ Pieces \in [Patterns -> Seq(Seq(Symbols))]
    /\ \A p \in Patterns : SplitsAtStars(p, Pieces[p])

Subtree == <<"/", "*", "*">>
AnySuffix == <<"*", "*", "/", "*">>
Conflicts == <<"*", "*", "/", "*", "S", "*">>

IsSubtree(p) == Len(p) >= 3 /\ OccursAt(Subtree, p, Len(p) - 3)
IsAnySuffix(p) == OccursAt(AnySuffix, p, 0)
Folder(p) == SubSeq(p, 1, Len(p) - 3)
Suffix(p) == SubSeq(p, 5, Len(p))

(***************************************************************************)
(* The scan: matches_vault_path_pattern and matches_wildcard               *)
(***************************************************************************)
TypeOK ==
    /\ pattern \in Patterns /\ path \in Paths \cup {<<>>}
    /\ phase \in {"idle", "asked", "scan", "yes", "no"}
    /\ matched \in 0..Len(Pieces[pattern]) /\ from \in 0..Len(path)

Init ==
    /\ pattern \in Patterns /\ path = <<>>
    /\ phase = "idle" /\ matched = 0 /\ from = 0

\* PathPolicy::replace.  Bound: one question in a behaviour.
Replace ==
    /\ phase = "idle" /\ pattern' \in Patterns
    /\ UNCHANGED <<path, phase, matched, from>>

\* is_blocked and path_matches_any_pattern
Ask ==
    /\ phase = "idle" /\ phase' = "asked" /\ path' \in Paths
    /\ UNCHANGED <<pattern, matched, from>>

Answer(holds) ==
    /\ phase' = IF holds THEN "yes" ELSE "no"
    /\ UNCHANGED <<pattern, path, matched, from>>

SubtreeRule ==
    /\ phase = "asked" /\ IsSubtree(pattern)
    /\ Answer(path = Folder(pattern) \/ OccursAt(Folder(pattern) \o <<"/">>, path, 0))

\* What follows the last slash contains the symbol.
InBasename(symbol, text) ==
    \E start \in 0..Len(text) :
        /\ start = 0 \/ text[start] = "/"
        /\ \A i \in (start + 1)..Len(text) : text[i] # "/"
        /\ \E i \in (start + 1)..Len(text) : text[i] = symbol

ConflictRule ==
    /\ phase = "asked" /\ ~IsSubtree(pattern) /\ pattern = Conflicts
    /\ Answer(InBasename("S", path))

EndsWith(text, lit) == Len(lit) <= Len(text) /\ OccursAt(lit, text, Len(text) - Len(lit))

SuffixRule ==
    /\ phase = "asked" /\ ~IsSubtree(pattern) /\ pattern # Conflicts /\ IsAnySuffix(pattern)
    /\ Answer(EndsWith(path, Suffix(pattern)))

ExactRule ==
    /\ phase = "asked" /\ ~IsSubtree(pattern) /\ ~HasStar(pattern)
    /\ Answer(pattern = path)

Piece(i) == Pieces[pattern][i]

FirstPiece ==
    /\ phase = "asked" /\ ~IsSubtree(pattern) /\ ~IsAnySuffix(pattern) /\ HasStar(pattern)
    /\ IF OccursAt(Piece(1), path, 0)
       THEN /\ phase' = "scan" /\ matched' = 1 /\ from' = Len(Piece(1))
            /\ UNCHANGED <<pattern, path>>
       ELSE Answer(FALSE)

\* str::find takes the first occurrence.
Occurrences(lit) == {k \in from..Len(path) : OccursAt(lit, path, k)}

MiddlePiece ==
    /\ phase = "scan" /\ matched + 1 < Len(Pieces[pattern])
    /\ \/ \E k \in Occurrences(Piece(matched + 1)) :
             /\ \A other \in Occurrences(Piece(matched + 1)) : k <= other
             /\ from' = k + Len(Piece(matched + 1)) /\ matched' = matched + 1
             /\ UNCHANGED <<pattern, path, phase>>
       \/ Occurrences(Piece(matched + 1)) = {} /\ Answer(FALSE)

\* Slip: the last piece may overlap those before it.
LastPieceOverlapping ==
    /\ phase = "scan" /\ matched + 1 = Len(Pieces[pattern])
    /\ Answer(EndsWith(path, Piece(matched + 1)))
LastPiece ==
    /\ phase = "scan" /\ matched + 1 = Len(Pieces[pattern])
    /\ Answer(from + Len(Piece(matched + 1)) <= Len(path) /\ EndsWith(path, Piece(matched + 1)))

Next ==
    \/ Replace \/ Ask
    \/ SubtreeRule \/ ConflictRule \/ SuffixRule \/ ExactRule
    \/ FirstPiece \/ MiddlePiece \/ LastPiece

Spec == Init /\ [][Next]_vars

(***************************************************************************)
(* PathPolicy: the regular expression                                      *)
(***************************************************************************)
\* A regular expression is a sequence of atoms, each a gap with a literal after it:
\* .* is the gap "any", [^/]* "name", (?:.*/)? "folders", (?:/.*)? "beneath".
Atom(gap, lit) == [gap |-> gap, lit |-> lit]

\* deny_pattern_source
DenySource(p) ==
    IF IsSubtree(p) THEN <<Atom("none", Folder(p)), Atom("beneath", <<>>)>>
    ELSE IF Len(p) = Len(Conflicts) /\ AlikeAt(p, Conflicts, 0)
    THEN <<Atom("folders", <<>>), Atom("name", <<"S">>), Atom("name", <<>>)>>
    ELSE IF IsAnySuffix(p) THEN <<Atom("any", Suffix(p))>>
    ELSE [i \in DOMAIN Pieces[p] |-> Atom(IF i = 1 THEN "none" ELSE "any", Pieces[p][i])]

\* The gap matches what lies between the first i and the first k symbols.
Spans(gap, text, i, k) ==
    /\ gap = "none" => i = k
    /\ gap = "name" => \A x \in (i + 1)..k : text[x] # "/"
    /\ gap = "folders" => i = k \/ text[k] = "/"
    /\ gap = "beneath" => i = k \/ text[i + 1] = "/"

Takes(atom, text, i, j) ==
    \E k \in i..j : Spans(atom.gap, text, i, k) /\ j = k + Len(atom.lit) /\ AlikeAt(atom.lit, text, k)

\* The first n atoms take what lies between the cuts, and so all before the end.
Aligned(re, n, text, cut) == cut[0] = 0 /\ \A x \in 1..n : Takes(re[x], text, cut[x - 1], cut[x])
Reaches(re, n, text, end) ==
    \E cut \in [0..n -> 0..Len(text)] : Aligned(re, n, text, cut) /\ cut[n] = end

\* Anchored at both ends and blind to case.
Blocked(p, text) == LET re == DenySource(p) IN Reaches(re, Len(re), text, Len(text))

\* The two matchers were written apart, one as a scan and one as a regular expression, and
\* one documentation covers both (docs/CONFIGURATION.md): what is left out of the index is
\* denied, and what is denied is left out if no upper case is involved.
InLowerCase(s) == \A i \in DOMAIN s : Lower[s[i]] = s[i]
MatchersAgree ==
    /\ phase = "yes" => Blocked(pattern, path)
    /\ phase = "no" /\ InLowerCase(pattern) /\ InLowerCase(path) => ~Blocked(pattern, path)
=============================================================================
