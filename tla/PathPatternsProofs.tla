------------------------- MODULE PathPatternsProofs -------------------------
(***************************************************************************)
(* Theorems about PathPatterns, for all patterns and paths over any        *)
(* symbols.  The scan stops where the first atoms of the regular           *)
(* expression can end at the earliest: that is its invariant.              *)
(***************************************************************************)
EXTENDS PathPatterns, TLAPS, WellFoundedInduction

(***************************************************************************)
(* Literals, pieces and paths.                                             *)
(***************************************************************************)

\* Of two literals of one length, one occurs in the other if they are equal.
LEMMA Whole ==
    ASSUME NEW lit \in Seq(Symbols), NEW text \in Seq(Symbols)
    PROVE  lit = text <=> Len(lit) = Len(text) /\ OccursAt(lit, text, 0)
<1>1. ASSUME Len(lit) = Len(text), OccursAt(lit, text, 0) PROVE lit = text
  <2>1. \A x \in 1..Len(lit) : text[0 + x] = lit[x] /\ 0 + x = x
    BY <1>1 DEF OccursAt
  <2>2. \A x \in 1..Len(lit) : text[x] = lit[x]
    BY <2>1
  <2> QED BY <1>1, <2>2
<1>2. OccursAt(lit, lit, 0)
  BY DEF OccursAt
<1> QED BY <1>1, <1>2

\* What occurs in a text without upper case has none either.
LEMMA PartInLowerCase ==
    ASSUME NEW lit \in Seq(Symbols), NEW text \in Seq(Symbols), NEW k \in Nat,
           OccursAt(lit, text, k), InLowerCase(text)
    PROVE  InLowerCase(lit)
<1>1. ASSUME NEW x \in 1..Len(lit) PROVE Lower[lit[x]] = lit[x]
  <2>1. text[k + x] = lit[x] /\ k + x \in 1..Len(text)
    BY <1>1 DEF OccursAt
  <2>2. Lower[text[k + x]] = text[k + x]
    BY <2>1 DEF InLowerCase
  <2> QED BY <2>1, <2>2
<1> QED BY <1>1 DEF InLowerCase

\* The pieces of a pattern, and its symbols.
LEMMA PieceTypes ==
    ASSUME PatternAssumption, NEW p \in Patterns
    PROVE  /\ Len(p) \in Nat /\ DOMAIN p = 1..Len(p) /\ \A i \in 1..Len(p) : p[i] \in Symbols
           /\ Len(Pieces[p]) \in Nat \ {0} /\ DOMAIN Pieces[p] = 1..Len(Pieces[p])
           /\ \A i \in 1..Len(Pieces[p]) :
                 /\ Pieces[p][i] \in Seq(Symbols)
                 /\ Len(Pieces[p][i]) \in Nat /\ DOMAIN Pieces[p][i] = 1..Len(Pieces[p][i])
                 /\ \A x \in 1..Len(Pieces[p][i]) : Pieces[p][i][x] \in Symbols
           /\ HasStar(p) <=> Len(Pieces[p]) > 1
           /\ ~HasStar(p) => Pieces[p][1] = p
           /\ InLowerCase(p) => \A i \in 1..Len(Pieces[p]) : InLowerCase(Pieces[p][i])
<1>1. p \in Seq(Symbols) /\ Pieces[p] \in Seq(Seq(Symbols)) /\ SplitsAtStars(p, Pieces[p])
  BY DEF PatternAssumption
<1>2. Len(Pieces[p]) \in Nat \ {0}
  BY <1>1 DEF SplitsAtStars
<1>3. \A i \in 1..Len(Pieces[p]) : Pieces[p][i] \in Seq(Symbols)
  BY <1>1
<1>4. PICK at \in [DOMAIN Pieces[p] -> 0..Len(p)] :
          /\ at[1] = 0 /\ at[Len(Pieces[p])] + Len(Pieces[p][Len(Pieces[p])]) = Len(p)
          /\ \A i \in DOMAIN Pieces[p] : OccursAt(Pieces[p][i], p, at[i]) /\ ~HasStar(Pieces[p][i])
          /\ \A i \in 1..(Len(Pieces[p]) - 1) :
                /\ at[i + 1] = at[i] + Len(Pieces[p][i]) + 1
                /\ p[at[i + 1]] = "*"
  BY <1>1 DEF SplitsAtStars
<1>5. ASSUME Len(Pieces[p]) > 1 PROVE HasStar(p)
  <2>1. p[at[2]] = "*" /\ at[2] \in 1..Len(p)
    BY <1>1, <1>2, <1>3, <1>4, <1>5
  <2> QED BY <2>1, <1>1 DEF HasStar
<1>6. ASSUME Len(Pieces[p]) = 1 PROVE Pieces[p][1] = p
  <2> DEFINE q == Pieces[p][1]
  <2>1. OccursAt(q, p, 0) /\ Len(q) = Len(p) /\ q \in Seq(Symbols)
    BY <1>1, <1>3, <1>4, <1>6
  <2> QED BY <1>1, <2>1, Whole
<1>7. ASSUME Len(Pieces[p]) = 1 PROVE ~HasStar(p)
  <2>1. ~HasStar(Pieces[p][1])
    BY <1>1, <1>4, <1>7
  <2> QED BY <2>1, <1>6, <1>7
<1>8. ASSUME InLowerCase(p), NEW i \in 1..Len(Pieces[p]) PROVE InLowerCase(Pieces[p][i])
  <2>1. OccursAt(Pieces[p][i], p, at[i]) /\ at[i] \in Nat /\ Pieces[p][i] \in Seq(Symbols)
    BY <1>1, <1>3, <1>4
  <2> QED BY <1>1, <1>8, <2>1, PartInLowerCase
<1>9. \A i \in 1..Len(Pieces[p]) : LET q == Pieces[p][i] IN
         /\ Len(q) \in Nat /\ DOMAIN q = 1..Len(q) /\ \A x \in 1..Len(q) : q[x] \in Symbols
  BY <1>3
<1>10. Len(p) \in Nat /\ DOMAIN p = 1..Len(p) /\ \A i \in 1..Len(p) : p[i] \in Symbols
  BY <1>1
<1>11. Len(Pieces[p]) = 1 \/ Len(Pieces[p]) > 1
  <2> DEFINE n == Len(Pieces[p])
  <2>1. n \in Nat \ {0}
    BY <1>2
  <2> HIDE DEF n
  <2>2. n = 1 \/ n > 1
    BY <2>1
  <2> QED BY <2>2 DEF n
<1>16. HasStar(p) <=> Len(Pieces[p]) > 1
  BY <1>5, <1>7, <1>11 DEF HasStar
<1>12. DOMAIN Pieces[p] = 1..Len(Pieces[p])
  BY <1>1
<1>13. \A i \in 1..Len(Pieces[p]) :
          /\ Pieces[p][i] \in Seq(Symbols)
          /\ Len(Pieces[p][i]) \in Nat /\ DOMAIN Pieces[p][i] = 1..Len(Pieces[p][i])
          /\ \A x \in 1..Len(Pieces[p][i]) : Pieces[p][i][x] \in Symbols
  BY <1>3, <1>9
<1>14. ~HasStar(p) => Pieces[p][1] = p
  BY <1>5, <1>6, <1>11
<1>15. InLowerCase(p) => \A i \in 1..Len(Pieces[p]) : InLowerCase(Pieces[p][i])
  BY <1>8
<1> QED BY <1>2, <1>10, <1>12, <1>13, <1>14, <1>15, <1>16

\* A path is a sequence of symbols, before the first question an empty one.
LEMMA PathTypes ==
    ASSUME PatternAssumption, TypeOK
    PROVE  /\ path \in Seq(Symbols) /\ Len(path) \in Nat /\ DOMAIN path = 1..Len(path)
           /\ \A i \in 1..Len(path) : path[i] \in Symbols
<1>1. <<>> \in Seq(Symbols)
  OBVIOUS
<1>2. path \in Seq(Symbols)
  BY <1>1 DEF TypeOK, PatternAssumption
<1> QED BY <1>2

\* Case makes no difference where there is none.
LEMMA CaseIgnored ==
    ASSUME NEW lit \in Seq(Symbols), NEW text \in Seq(Symbols), NEW k \in Nat
    PROVE  /\ OccursAt(lit, text, k) => AlikeAt(lit, text, k)
           /\ InLowerCase(lit) /\ InLowerCase(text) /\ AlikeAt(lit, text, k) => OccursAt(lit, text, k)
BY DEF OccursAt, AlikeAt, InLowerCase

\* The atoms of a pattern with stars.
LEMMA WildcardSource ==
    ASSUME PatternAssumption, NEW p \in Patterns, ~IsSubtree(p), ~IsAnySuffix(p)
    PROVE  /\ Len(DenySource(p)) = Len(Pieces[p])
           /\ \A i \in 1..Len(Pieces[p]) :
                 DenySource(p)[i] = Atom(IF i = 1 THEN "none" ELSE "any", Pieces[p][i])
<1>1. ASSUME Len(p) = Len(Conflicts), AlikeAt(p, Conflicts, 0) PROVE IsAnySuffix(p)
  <2>0. Len(p) = 6 /\ DOMAIN p = 1..6 /\ \A x \in 1..6 : p[x] \in Symbols
    BY <1>1, PieceTypes DEF Conflicts
  <2>1. \A x \in 1..6 : Lower[Conflicts[0 + x]] = Lower[p[x]] /\ 0 + x = x
    BY <1>1, <2>0 DEF AlikeAt
  <2>2. p[1] = "*" /\ p[2] = "*" /\ p[3] = "/" /\ p[4] = "*"
    BY <2>0, <2>1 DEF Conflicts, PatternAssumption
  <2> QED BY <2>0, <2>2 DEF IsAnySuffix, OccursAt, AnySuffix, Conflicts
<1>2. DenySource(p) = [i \in 1..Len(Pieces[p]) |-> Atom(IF i = 1 THEN "none" ELSE "any", Pieces[p][i])]
  BY <1>1, PieceTypes DEF DenySource
<1>3. Len(Pieces[p]) \in Nat
  BY PieceTypes
<1> QED BY <1>2, <1>3

(***************************************************************************)
(* The scan finds the leftmost alignment.                                  *)
(***************************************************************************)
\* One more atom.
LEMMA Extended ==
    ASSUME NEW re, NEW text \in Seq(Symbols), NEW m \in Nat, NEW n \in Nat, n = m + 1,
           NEW i \in 0..Len(text), Reaches(re, m, text, i),
           NEW j \in 0..Len(text), Takes(re[n], text, i, j)
    PROVE  Reaches(re, n, text, j)
<1>1. PICK cut \in [0..m -> 0..Len(text)] : Aligned(re, m, text, cut) /\ cut[m] = i
  BY DEF Reaches
<1> DEFINE longer == [x \in 0..n |-> IF x = n THEN j ELSE cut[x]]
<1>2. longer \in [0..n -> 0..Len(text)] /\ longer[n] = j /\ longer[0] = 0
  BY <1>1 DEF Aligned
<1>3. ASSUME NEW x \in 1..n PROVE Takes(re[x], text, longer[x - 1], longer[x])
  <2>1. CASE x = n
    <3>1. longer[x - 1] = i /\ longer[x] = j
      BY <1>1, <2>1
    <3> QED BY <2>1, <3>1
  <2>2. CASE x # n
    <3>1. longer[x - 1] = cut[x - 1] /\ longer[x] = cut[x] /\ x \in 1..m
      BY <2>2
    <3>2. Takes(re[x], text, cut[x - 1], cut[x])
      BY <1>1, <3>1 DEF Aligned
    <3> QED BY <3>1, <3>2
  <2> QED BY <2>1, <2>2
<1> QED BY <1>2, <1>3 DEF Reaches, Aligned

\* Fewer atoms, and the one that follows them.
LEMMA Shortened ==
    ASSUME NEW re, NEW text \in Seq(Symbols), NEW m \in Nat, NEW n \in Nat, m < n,
           NEW end, Reaches(re, n, text, end)
    PROVE  \E i, j \in 0..Len(text) :
              Reaches(re, m, text, i) /\ Takes(re[m + 1], text, i, j) /\ (n = m + 1 => j = end)
<1>1. PICK longer \in [0..n -> 0..Len(text)] : Aligned(re, n, text, longer) /\ longer[n] = end
  BY DEF Reaches
<1> DEFINE cut == [x \in 0..m |-> longer[x]]
<1>2. cut \in [0..m -> 0..Len(text)] /\ cut[m] = longer[m] /\ cut[0] = 0
  BY <1>1 DEF Aligned
<1>3. ASSUME NEW x \in 1..m PROVE Takes(re[x], text, cut[x - 1], cut[x])
  <2>1. cut[x - 1] = longer[x - 1] /\ cut[x] = longer[x] /\ x \in 1..n
    OBVIOUS
  <2>2. Takes(re[x], text, longer[x - 1], longer[x])
    BY <1>1, <2>1 DEF Aligned
  <2> QED BY <2>1, <2>2
<1>4. Reaches(re, m, text, longer[m])
  BY <1>2, <1>3 DEF Reaches, Aligned
<1>5. Takes(re[m + 1], text, longer[m], longer[m + 1])
  <2>1. m + 1 \in 1..n /\ (m + 1) - 1 = m
    OBVIOUS
  <2> QED BY <1>1, <2>1 DEF Aligned
<1>6. longer[m] \in 0..Len(text) /\ longer[m + 1] \in 0..Len(text) /\ (n = m + 1 => longer[m + 1] = end)
  BY <1>1
<1> QED BY <1>4, <1>5, <1>6

(***************************************************************************)
(* The rules that need no scan.                                            *)
(***************************************************************************)
Agrees(p, text, holds) ==
    /\ holds => Blocked(p, text)
    /\ InLowerCase(p) /\ InLowerCase(text) /\ Blocked(p, text) => holds

\* An atom whose gap takes what is between i and k.
LEMMA TakesWhere ==
    ASSUME NEW gap, NEW lit \in Seq(Symbols), NEW text \in Seq(Symbols),
           NEW i \in 0..Len(text), NEW j \in 0..Len(text)
    PROVE  Takes(Atom(gap, lit), text, i, j) <=>
              \E k \in i..j : Spans(gap, text, i, k) /\ j = k + Len(lit) /\ AlikeAt(lit, text, k)
BY DEF Takes, Atom

\* A part of a sequence occurs where it was taken from.
LEMMA PartOccurs ==
    ASSUME NEW p \in Seq(Symbols), NEW m \in Nat, NEW n \in Nat, m <= n, n <= Len(p)
    PROVE  LET s == SubSeq(p, m + 1, n)
           IN s \in Seq(Symbols) /\ Len(s) = n - m /\ Len(s) \in Nat /\ OccursAt(s, p, m)
<1> DEFINE s == SubSeq(p, m + 1, n)
<1>1. s \in Seq(Symbols)
  OBVIOUS
<1>2. Len(s) = n - m /\ Len(s) \in Nat
  OBVIOUS
<1>3. \A x \in 1..(n - m) : s[x] = p[m + x]
  OBVIOUS
<1>4. DOMAIN s = 1..(n - m)
  BY <1>1, <1>2
<1> QED BY <1>1, <1>2, <1>3, <1>4 DEF OccursAt

\* The folder of a subtree rule begins its pattern.
LEMMA FolderTypes ==
    ASSUME PatternAssumption, NEW p \in Patterns, IsSubtree(p)
    PROVE  /\ Folder(p) \in Seq(Symbols) /\ Len(Folder(p)) \in Nat
           /\ OccursAt(Folder(p), p, 0)
<1> DEFINE n == Len(p) - 3
<1>1. Len(p) \in Nat /\ Len(p) >= 3 /\ p \in Seq(Symbols)
  BY PieceTypes DEF IsSubtree, PatternAssumption
<1>2. n \in Nat /\ 0 <= n /\ n <= Len(p) /\ 0 \in Nat /\ 0 + 1 = 1
  BY <1>1
<1>3. Folder(p) = SubSeq(p, 0 + 1, n)
  BY <1>2 DEF Folder
<1> HIDE DEF n
<1> QED BY <1>1, <1>2, <1>3, PartOccurs

\* The subtree rule answers as the regular expression does.
LEMMA SubtreeAgrees ==
    ASSUME PatternAssumption, NEW p \in Patterns, NEW text \in Seq(Symbols), IsSubtree(p)
    PROVE  Agrees(p, text, text = Folder(p) \/ OccursAt(Folder(p) \o <<"/">>, text, 0))
<1> DEFINE f == Folder(p)
           holds == OccursAt(f, text, 0) /\ (Len(text) = Len(f) \/ text[Len(f) + 1] = "/")
<1>1. f \in Seq(Symbols) /\ Len(f) \in Nat /\ OccursAt(f, p, 0) /\ Len(text) \in Nat /\ "/" \in Symbols
  BY FolderTypes DEF PatternAssumption
<1> HIDE DEF f
<1>2. OccursAt(f \o <<"/">>, text, 0) <=> OccursAt(f, text, 0) /\ Len(text) # Len(f) /\ text[Len(f) + 1] = "/"
  <2>1. /\ Len(f \o <<"/">>) = Len(f) + 1 /\ (f \o <<"/">>)[Len(f) + 1] = "/"
        /\ \A x \in 1..Len(f) : (f \o <<"/">>)[x] = f[x]
    BY <1>1
  <2>2. DOMAIN (f \o <<"/">>) = 1..(Len(f) + 1) /\ DOMAIN f = 1..Len(f)
    BY <1>1, <2>1
  <2>3. \A x \in 1..(Len(f) + 1) : 0 + x = x
    BY <1>1
  <2> QED BY <1>1, <2>1, <2>2, <2>3 DEF OccursAt
<1>3. text = f \/ OccursAt(f \o <<"/">>, text, 0) <=> holds
  BY <1>1, <1>2, Whole DEF OccursAt
<1> DEFINE re == <<Atom("none", f), Atom("beneath", <<>>)>>
<1>4. DenySource(p) = re /\ Len(re) = 2
  BY DEF DenySource, f
<1>5. <<>> \in Seq(Symbols) /\ Len(<<>>) = 0 /\ \A k \in 0..Len(text) : AlikeAt(<<>>, text, k)
  BY <1>1 DEF AlikeAt
<1>6. ASSUME holds PROVE Blocked(p, text)
  <2> DEFINE cut == [x \in 0..2 |-> IF x = 0 THEN 0 ELSE IF x = 1 THEN Len(f) ELSE Len(text)]
  <2>1. Len(f) \in 0..Len(text) /\ Len(f) <= Len(text)
    BY <1>1, <1>6 DEF OccursAt
  <2>2. Takes(re[1], text, cut[0], cut[1])
    <3>1. Spans("none", text, 0, 0) /\ Len(f) = 0 + Len(f) /\ AlikeAt(f, text, 0)
      BY <1>1, <1>6, CaseIgnored DEF Spans
    <3> QED BY <1>1, <2>1, <3>1, TakesWhere
  <2>3. Takes(re[2], text, cut[1], cut[2])
    <3>1. Spans("beneath", text, Len(f), Len(text)) /\ Len(text) = Len(text) + Len(<<>>)
      BY <1>1, <1>5, <1>6 DEF Spans
    <3>2. Len(text) \in Len(f)..Len(text) /\ Len(text) \in 0..Len(text) /\ AlikeAt(<<>>, text, Len(text))
      BY <1>1, <1>5, <2>1
    <3>3. Takes(Atom("beneath", <<>>), text, Len(f), Len(text))
      BY <1>5, <2>1, <3>1, <3>2, TakesWhere
    <3> QED BY <3>3
  <2>4. cut \in [0..2 -> 0..Len(text)] /\ cut[0] = 0 /\ cut[2] = Len(text)
    BY <1>1, <2>1
  <2>5. \A x \in 1..2 : Takes(re[x], text, cut[x - 1], cut[x])
    <3>1. \A x \in 1..2 : x = 1 \/ x = 2
      OBVIOUS
    <3> QED BY <2>2, <2>3, <3>1
  <2> QED BY <1>4, <2>4, <2>5 DEF Blocked, Reaches, Aligned
<1>7. ASSUME InLowerCase(p), InLowerCase(text), Blocked(p, text) PROVE holds
  <2>1. PICK cut \in [0..2 -> 0..Len(text)] : Aligned(re, 2, text, cut) /\ cut[2] = Len(text)
    BY <1>4, <1>7 DEF Blocked, Reaches
  <2>2. Takes(Atom("none", f), text, 0, cut[1]) /\ Takes(Atom("beneath", <<>>), text, cut[1], Len(text))
    BY <2>1 DEF Aligned
  <2>3. cut[1] \in 0..Len(text) /\ 0 \in 0..Len(text) /\ Len(text) \in 0..Len(text)
    BY <1>1, <2>1
  <2>4. cut[1] = Len(f) /\ AlikeAt(f, text, 0)
    <3>1. PICK k \in 0..cut[1] : Spans("none", text, 0, k) /\ cut[1] = k + Len(f) /\ AlikeAt(f, text, k)
      BY <1>1, <2>2, <2>3, TakesWhere
    <3>2. k = 0
      BY <3>1 DEF Spans
    <3> QED BY <1>1, <3>1, <3>2
  <2>5. OccursAt(f, text, 0)
    <3>1. InLowerCase(f) /\ 0 \in Nat /\ p \in Seq(Symbols)
      BY <1>1, <1>7, PartInLowerCase DEF PatternAssumption
    <3> QED BY <1>1, <1>7, <2>4, <3>1, CaseIgnored
  <2>6. Len(f) = Len(text) \/ text[Len(f) + 1] = "/"
    <3>1. PICK k \in cut[1]..Len(text) :
             Spans("beneath", text, cut[1], k) /\ Len(text) = k + Len(<<>>) /\ AlikeAt(<<>>, text, k)
      BY <1>5, <2>2, <2>3, TakesWhere
    <3>2. k = Len(text)
      BY <1>1, <1>5, <3>1
    <3> QED BY <2>4, <3>1, <3>2 DEF Spans
  <2> QED BY <1>1, <2>5, <2>6
<1> QED BY <1>3, <1>6, <1>7 DEF Agrees, f

\* Every set of numbers that is not empty has a least one.
LEMMA LeastNumber == ASSUME NEW T, T \subseteq Nat, T # {} PROVE \E x \in T : \A y \in T : x <= y
<1> DEFINE R == {ss \in Nat \X Nat : ss[1] < ss[2]}
<1>1. IsWellFoundedOn(R, Nat)
  BY NatLessThanWellFounded DEF OpToRel
<1> HIDE DEF R
<1>2. PICK x \in T : \A y \in T : ~(<<y, x>> \in R)
  BY <1>1, WFMin
<1>3. \A y \in T : ~(y < x)
  BY <1>2 DEF R
<1> QED BY <1>3

\* Where the last component of a path begins.
LEMMA LastSlash ==
    ASSUME NEW text \in Seq(Symbols)
    PROVE  \E start \in 0..Len(text) :
              (start = 0 \/ text[start] = "/") /\ \A i \in (start + 1)..Len(text) : text[i] # "/"
<1> DEFINE T == {d \in 0..Len(text) : Len(text) - d = 0 \/ text[Len(text) - d] = "/"}
<1>1. Len(text) \in Nat /\ Len(text) \in T /\ T \subseteq Nat
  OBVIOUS
<1>2. PICK d \in T : \A e \in T : d <= e
  BY <1>1, LeastNumber
<1>3. ASSUME NEW i \in (Len(text) - d + 1)..Len(text), text[i] = "/" PROVE FALSE
  <2>1. Len(text) - i \in 0..Len(text) /\ Len(text) - (Len(text) - i) = i /\ Len(text) - i < d
    BY <1>1, <1>2
  <2>2. Len(text) - i \in T
    BY <1>3, <2>1
  <2> QED BY <1>1, <1>2, <2>1, <2>2
<1>4. Len(text) - d \in 0..Len(text) /\ (Len(text) - d = 0 \/ text[Len(text) - d] = "/")
  BY <1>1, <1>2
<1> QED BY <1>3, <1>4

\* What the regular expression for conflict copies denies.
LEMMA ConflictMeaning ==
    ASSUME PatternAssumption, NEW p \in Patterns, NEW text \in Seq(Symbols), ~IsSubtree(p),
           Len(p) = Len(Conflicts), AlikeAt(p, Conflicts, 0)
    PROVE  Blocked(p, text) <=>
              \E start \in 0..Len(text) :
                  /\ start = 0 \/ text[start] = "/"
                  /\ \A i \in (start + 1)..Len(text) : text[i] # "/"
                  /\ \E i \in (start + 1)..Len(text) : Lower[text[i]] = "S"
<1> DEFINE re == <<Atom("folders", <<>>), Atom("name", <<"S">>), Atom("name", <<>>)>>
<1>1. DenySource(p) = re /\ Len(re) = 3
  BY DEF DenySource
<1>2. Len(text) \in Nat /\ \A i \in 1..Len(text) : text[i] \in Symbols
  OBVIOUS
<1>3. /\ <<>> \in Seq(Symbols) /\ Len(<<>>) = 0 /\ \A k \in 0..Len(text) : AlikeAt(<<>>, text, k)
      /\ <<"S">> \in Seq(Symbols) /\ Len(<<"S">>) = 1
  BY <1>2 DEF AlikeAt, PatternAssumption
<1>4. \A k \in 0..Len(text) : AlikeAt(<<"S">>, text, k) <=> k < Len(text) /\ Lower[text[k + 1]] = "S"
  <2>1. DOMAIN <<"S">> = {1} /\ <<"S">>[1] = "S" /\ Lower["S"] = "S"
    BY DEF PatternAssumption
  <2> QED BY <1>2, <1>3, <2>1 DEF AlikeAt
<1>5. ASSUME NEW start \in 0..Len(text), start = 0 \/ text[start] = "/",
             \A i \in (start + 1)..Len(text) : text[i] # "/",
             NEW i \in (start + 1)..Len(text), Lower[text[i]] = "S"
      PROVE  Blocked(p, text)
  <2> DEFINE cut == [x \in 0..3 |-> IF x = 0 THEN 0 ELSE IF x = 1 THEN start ELSE IF x = 2 THEN i ELSE Len(text)]
  <2>1. cut \in [0..3 -> 0..Len(text)] /\ cut[0] = 0 /\ cut[3] = Len(text)
    BY <1>2
  <2>2. Takes(Atom("folders", <<>>), text, 0, start)
    <3>1. Spans("folders", text, 0, start) /\ start = start + Len(<<>>) /\ start \in 0..start /\ 0 \in 0..Len(text)
      BY <1>2, <1>3, <1>5 DEF Spans
    <3> QED BY <1>3, <3>1, TakesWhere
  <2>3. Takes(Atom("name", <<"S">>), text, start, i)
    <3> DEFINE k == i - 1
    <3>1. k \in start..i /\ k \in 0..Len(text) /\ k < Len(text) /\ k + 1 = i /\ i \in 0..Len(text)
      BY <1>2
    <3>2. Spans("name", text, start, k) /\ i = k + Len(<<"S">>) /\ AlikeAt(<<"S">>, text, k)
      BY <1>2, <1>3, <1>4, <1>5, <3>1 DEF Spans
    <3> QED BY <1>3, <3>1, <3>2, TakesWhere
  <2>4. Takes(Atom("name", <<>>), text, i, Len(text))
    <3>1. Len(text) \in i..Len(text) /\ Len(text) \in 0..Len(text) /\ i \in 0..Len(text)
      BY <1>2
    <3>2. Spans("name", text, i, Len(text)) /\ Len(text) = Len(text) + Len(<<>>)
      BY <1>2, <1>3, <1>5 DEF Spans
    <3> QED BY <1>3, <3>1, <3>2, TakesWhere
  <2>5. \A x \in 1..3 : Takes(re[x], text, cut[x - 1], cut[x])
    <3>1. \A x \in 1..3 : x = 1 \/ x = 2 \/ x = 3
      OBVIOUS
    <3> QED BY <2>2, <2>3, <2>4, <3>1
  <2> QED BY <1>1, <2>1, <2>5 DEF Blocked, Reaches, Aligned
<1>6. ASSUME Blocked(p, text)
      PROVE  \E start \in 0..Len(text) :
                  /\ start = 0 \/ text[start] = "/"
                  /\ \A i \in (start + 1)..Len(text) : text[i] # "/"
                  /\ \E i \in (start + 1)..Len(text) : Lower[text[i]] = "S"
  <2>1. PICK cut \in [0..3 -> 0..Len(text)] : Aligned(re, 3, text, cut) /\ cut[3] = Len(text)
    BY <1>1, <1>6 DEF Blocked, Reaches
  <2>2. /\ Takes(Atom("folders", <<>>), text, 0, cut[1])
        /\ Takes(Atom("name", <<"S">>), text, cut[1], cut[2])
        /\ Takes(Atom("name", <<>>), text, cut[2], Len(text))
    BY <2>1 DEF Aligned
  <2>3. cut[1] \in 0..Len(text) /\ cut[2] \in 0..Len(text) /\ 0 \in 0..Len(text) /\ Len(text) \in 0..Len(text)
    BY <1>2, <2>1
  <2>4. cut[1] = 0 \/ text[cut[1]] = "/"
    <3>1. PICK k \in 0..cut[1] :
             Spans("folders", text, 0, k) /\ cut[1] = k + Len(<<>>) /\ AlikeAt(<<>>, text, k)
      BY <1>3, <2>2, <2>3, TakesWhere
    <3> QED BY <1>3, <2>3, <3>1 DEF Spans
  <2>5. PICK k \in cut[1]..cut[2] :
           Spans("name", text, cut[1], k) /\ cut[2] = k + Len(<<"S">>) /\ AlikeAt(<<"S">>, text, k)
    BY <1>3, <2>2, <2>3, TakesWhere
  <2>6. k + 1 = cut[2] /\ k \in 0..Len(text) /\ k + 1 \in (cut[1] + 1)..Len(text) /\ Lower[text[k + 1]] = "S"
    BY <1>2, <1>3, <1>4, <2>3, <2>5
  <2>7. \A x \in (cut[2] + 1)..Len(text) : text[x] # "/"
    <3>1. PICK l \in cut[2]..Len(text) :
             Spans("name", text, cut[2], l) /\ Len(text) = l + Len(<<>>) /\ AlikeAt(<<>>, text, l)
      BY <1>3, <2>2, <2>3, TakesWhere
    <3> QED BY <1>2, <1>3, <2>3, <3>1 DEF Spans
  <2>8. text[k + 1] # "/"
    BY <1>2, <2>6 DEF PatternAssumption
  <2>9. \A x \in (cut[1] + 1)..Len(text) : text[x] # "/"
    <3>1. \A x \in (cut[1] + 1)..k : text[x] # "/"
      BY <2>5 DEF Spans
    <3>2. \A x \in (cut[1] + 1)..Len(text) : x \in (cut[1] + 1)..k \/ x = k + 1 \/ x \in (cut[2] + 1)..Len(text)
      BY <1>2, <2>3, <2>6
    <3> QED BY <2>7, <2>8, <3>1, <3>2
  <2> QED BY <2>3, <2>4, <2>6, <2>9
<1> QED BY <1>5, <1>6

\* The rule for conflict copies answers as the regular expression does.
LEMMA ConflictAgrees ==
    ASSUME PatternAssumption, NEW p \in Patterns, NEW text \in Seq(Symbols), ~IsSubtree(p), p = Conflicts
    PROVE  Agrees(p, text, InBasename("S", text))
<1>1. Len(p) = Len(Conflicts) /\ AlikeAt(p, Conflicts, 0)
  BY DEF AlikeAt, Conflicts
<1>2. \A i \in 1..Len(text) : text[i] = "S" => Lower[text[i]] = "S"
  BY DEF PatternAssumption
<1>3. InLowerCase(text) => \A i \in 1..Len(text) : Lower[text[i]] = "S" => text[i] = "S"
  BY DEF InLowerCase
<1>4. \A start \in 0..Len(text) : (start + 1)..Len(text) \subseteq 1..Len(text)
  OBVIOUS
<1>5. InBasename("S", text) => Blocked(p, text)
  BY <1>1, <1>2, <1>4, ConflictMeaning DEF InBasename
<1>6. InLowerCase(text) /\ Blocked(p, text) => InBasename("S", text)
  BY <1>1, <1>3, <1>4, ConflictMeaning DEF InBasename
<1> QED BY <1>5, <1>6 DEF Agrees

\* The suffix of a suffix rule ends its pattern.
LEMMA SuffixTypes ==
    ASSUME PatternAssumption, NEW p \in Patterns, IsAnySuffix(p)
    PROVE  /\ Suffix(p) \in Seq(Symbols) /\ Len(Suffix(p)) = Len(p) - 4 /\ Len(Suffix(p)) \in Nat
           /\ OccursAt(Suffix(p), p, 4) /\ Len(p) \in Nat /\ Len(p) >= 4
<1> DEFINE n == Len(p)
<1>1. p \in Seq(Symbols) /\ n \in Nat /\ n >= 4
  BY PieceTypes DEF IsAnySuffix, OccursAt, AnySuffix, PatternAssumption
<1>2. Suffix(p) = SubSeq(p, 4 + 1, n)
  BY DEF Suffix
<1>3. 4 \in Nat /\ 4 <= n /\ n <= n /\ n <= Len(p)
  BY <1>1
<1> HIDE DEF n
<1>4. /\ Suffix(p) \in Seq(Symbols) /\ Len(Suffix(p)) = n - 4 /\ Len(Suffix(p)) \in Nat
      /\ OccursAt(Suffix(p), p, 4)
  BY <1>1, <1>2, <1>3, PartOccurs
<1> QED BY <1>1, <1>4 DEF n

\* Blind to case, the pattern for conflict copies is a suffix rule with two symbols more.
LEMMA ConflictSpellings ==
    ASSUME PatternAssumption, NEW p \in Patterns, Len(p) = Len(Conflicts), AlikeAt(p, Conflicts, 0)
    PROVE  /\ Len(p) = 6 /\ p[1] = "*" /\ p[2] = "*" /\ p[3] = "/" /\ p[4] = "*"
           /\ p[5] \in Symbols /\ Lower[p[5]] = "S" /\ p[6] = "*"
           /\ IsAnySuffix(p)
           /\ InLowerCase(p) => p = Conflicts
<1>1. Len(p) = 6 /\ DOMAIN p = 1..6 /\ \A x \in 1..6 : p[x] \in Symbols
  BY PieceTypes DEF Conflicts
<1>2. \A x \in 1..6 : Lower[Conflicts[0 + x]] = Lower[p[x]] /\ 0 + x = x
  BY <1>1 DEF AlikeAt
<1>3. p[1] = "*" /\ p[2] = "*" /\ p[3] = "/" /\ p[4] = "*" /\ Lower[p[5]] = "S" /\ p[6] = "*"
  BY <1>1, <1>2 DEF Conflicts, PatternAssumption
<1>4. IsAnySuffix(p)
  BY <1>1, <1>3 DEF IsAnySuffix, OccursAt, AnySuffix
<1>5. ASSUME InLowerCase(p) PROVE p = Conflicts
  <2>1. p[5] = "S"
    BY <1>1, <1>3, <1>5 DEF InLowerCase
  <2>2. p \in Seq(Symbols) /\ Conflicts \in Seq(Symbols) /\ Len(Conflicts) = 6
    BY DEF Conflicts, PatternAssumption
  <2>3. \A x \in 1..6 : p[x] = Conflicts[x]
    BY <1>3, <2>1 DEF Conflicts
  <2> QED BY <1>1, <2>2, <2>3
<1> QED BY <1>1, <1>3, <1>4, <1>5

\* The suffix rule answers as the regular expression does, also for the spellings of the
\* pattern for conflict copies that only the regular expression knows.
LEMMA SuffixAgrees ==
    ASSUME PatternAssumption, NEW p \in Patterns, NEW text \in Seq(Symbols),
           ~IsSubtree(p), p # Conflicts, IsAnySuffix(p)
    PROVE  Agrees(p, text, EndsWith(text, Suffix(p)))
<1> DEFINE f == Suffix(p)
<1>1. f \in Seq(Symbols) /\ Len(f) \in Nat /\ Len(f) = Len(p) - 4 /\ OccursAt(f, p, 4) /\ Len(text) \in Nat
      /\ p \in Seq(Symbols) /\ \A x \in 1..Len(text) : text[x] \in Symbols
  BY SuffixTypes DEF PatternAssumption
<1>2. CASE Len(p) = Len(Conflicts) /\ AlikeAt(p, Conflicts, 0)
  <2>1. ASSUME EndsWith(text, f) PROVE Blocked(p, text)
    <3>1. Len(f) = 2 /\ DOMAIN f = 1..2
      <4>1. Len(p) = 6
        BY <1>2, ConflictSpellings
      <4>2. Len(f) = 2
        BY <1>1, <4>1
      <4>3. DOMAIN f = 1..Len(f)
        BY <1>1
      <4> HIDE DEF f
      <4> QED BY <4>2, <4>3
    <3>2. f[1] = p[5] /\ f[2] = p[6]
      <4>1. \A x \in 1..2 : p[4 + x] = f[x]
        BY <1>1, <3>1 DEF OccursAt
      <4>2. 1 \in 1..2 /\ 2 \in 1..2 /\ 4 + 1 = 5 /\ 4 + 2 = 6
        OBVIOUS
      <4> QED BY <4>1, <4>2
    <3> DEFINE n == Len(text) - 2
    <3>3. n \in Nat /\ n + 2 = Len(text) /\ text[n + 1] = f[1] /\ text[n + 2] = f[2]
      <4>1. OccursAt(f, text, n) /\ 2 <= Len(text)
        BY <2>1, <3>1 DEF EndsWith
      <4>2. \A x \in 1..2 : text[n + x] = f[x]
        BY <3>1, <4>1 DEF OccursAt
      <4> QED BY <1>1, <4>1, <4>2
    <3>4. Lower[text[n + 1]] = "S" /\ text[n + 2] = "*"
      BY <1>2, <3>2, <3>3, ConflictSpellings
    <3>5. text[n + 1] # "/" /\ text[n + 2] # "/"
      BY <1>1, <3>3, <3>4 DEF PatternAssumption
    <3>6. PICK start \in 0..Len(text) :
             (start = 0 \/ text[start] = "/") /\ \A i \in (start + 1)..Len(text) : text[i] # "/"
      BY LastSlash
    <3>7. n + 1 \in (start + 1)..Len(text)
      BY <3>3, <3>5, <3>6
    <3> QED BY <1>2, <3>4, <3>6, <3>7, ConflictMeaning
  <2>2. ~InLowerCase(p)
    BY <1>2, ConflictSpellings
  <2> QED BY <2>1, <2>2 DEF Agrees
<1>3. CASE ~(Len(p) = Len(Conflicts) /\ AlikeAt(p, Conflicts, 0))
  <2> DEFINE re == <<Atom("any", f)>>
  <2>1. DenySource(p) = re /\ Len(re) = 1
    BY <1>3 DEF DenySource
  <2>2. ASSUME EndsWith(text, f) PROVE Blocked(p, text)
    <3> DEFINE cut == [x \in 0..1 |-> IF x = 0 THEN 0 ELSE Len(text)]
               k == Len(text) - Len(f)
    <3>1. k \in 0..Len(text) /\ Len(text) = k + Len(f) /\ k \in Nat /\ OccursAt(f, text, k)
      BY <1>1, <2>2 DEF EndsWith
    <3>2. Spans("any", text, 0, k) /\ AlikeAt(f, text, k)
      BY <1>1, <3>1, CaseIgnored DEF Spans
    <3> HIDE DEF k, f
    <3>3. 0 \in 0..Len(text) /\ Len(text) \in 0..Len(text)
      BY <1>1
    <3>4. Takes(Atom("any", f), text, 0, Len(text))
      BY <1>1, <3>1, <3>2, <3>3, TakesWhere
    <3> USE DEF f
    <3>5. \A x \in 1..1 : Takes(re[x], text, cut[x - 1], cut[x])
      BY <3>4
    <3>6. cut \in [0..1 -> 0..Len(text)] /\ cut[0] = 0 /\ cut[1] = Len(text)
      BY <1>1
    <3> QED BY <2>1, <3>5, <3>6 DEF Blocked, Reaches, Aligned
  <2>3. ASSUME InLowerCase(p), InLowerCase(text), Blocked(p, text) PROVE EndsWith(text, f)
    <3>1. PICK cut \in [0..1 -> 0..Len(text)] : Aligned(re, 1, text, cut) /\ cut[1] = Len(text)
      BY <2>1, <2>3 DEF Blocked, Reaches
    <3>2. Takes(Atom("any", f), text, 0, Len(text))
      BY <3>1 DEF Aligned
    <3>3. PICK k \in 0..Len(text) : Spans("any", text, 0, k) /\ Len(text) = k + Len(f) /\ AlikeAt(f, text, k)
      <4>1. 0 \in 0..Len(text) /\ Len(text) \in 0..Len(text)
        BY <1>1
      <4> QED BY <1>1, <3>2, <4>1, TakesWhere
    <3>4. OccursAt(f, text, k) /\ k = Len(text) - Len(f) /\ Len(f) <= Len(text)
      <4>1. InLowerCase(f) /\ k \in Nat
        BY <1>1, <2>3, PartInLowerCase
      <4> QED BY <1>1, <2>3, <3>3, <4>1, CaseIgnored
    <3> QED BY <3>4 DEF EndsWith
  <2> QED BY <2>2, <2>3 DEF Agrees
<1> QED BY <1>2, <1>3

\* A pattern without stars is compared as the regular expression compares it.
LEMMA ExactAgrees ==
    ASSUME PatternAssumption, NEW p \in Patterns, NEW text \in Seq(Symbols), ~IsSubtree(p), ~HasStar(p)
    PROVE  Agrees(p, text, p = text)
<1>1. p \in Seq(Symbols) /\ Len(p) \in Nat /\ Len(text) \in Nat
  BY DEF PatternAssumption
<1>2. ~IsAnySuffix(p)
  <2>1. ASSUME IsAnySuffix(p) PROVE p[0 + 1] = "*" /\ 1 \in DOMAIN p
    BY <1>1, <2>1 DEF IsAnySuffix, OccursAt, AnySuffix
  <2> QED BY <2>1 DEF HasStar
<1>3. Pieces[p][1] = p /\ Len(Pieces[p]) = 1
  <2> DEFINE n == Len(Pieces[p])
  <2>1. n \in Nat \ {0} /\ ~(n > 1)
    BY PieceTypes
  <2> HIDE DEF n
  <2>2. n = 1
    BY <2>1
  <2> QED BY <2>2, PieceTypes DEF n
<1>4. Len(DenySource(p)) = 1 /\ DenySource(p)[1] = Atom("none", p)
  BY <1>2, <1>3, WildcardSource
<1>5. Takes(Atom("none", p), text, 0, Len(text)) <=> Len(text) = Len(p) /\ AlikeAt(p, text, 0)
  BY <1>1, TakesWhere DEF Spans
<1>6. ASSUME p = text PROVE Blocked(p, text)
  <2> DEFINE cut == [x \in 0..1 |-> IF x = 0 THEN 0 ELSE Len(text)]
  <2>1. Takes(Atom("none", p), text, 0, Len(text))
    BY <1>1, <1>5, <1>6, Whole, CaseIgnored
  <2>2. cut \in [0..1 -> 0..Len(text)] /\ cut[0] = 0 /\ cut[1] = Len(text)
    BY <1>1
  <2>3. \A x \in 1..1 : Takes(DenySource(p)[x], text, cut[x - 1], cut[x])
    BY <1>4, <2>1
  <2> QED BY <1>4, <2>2, <2>3 DEF Blocked, Reaches, Aligned
<1>7. ASSUME InLowerCase(p), InLowerCase(text), Blocked(p, text) PROVE p = text
  <2>1. PICK cut \in [0..1 -> 0..Len(text)] : Aligned(DenySource(p), 1, text, cut) /\ cut[1] = Len(text)
    BY <1>4, <1>7 DEF Blocked, Reaches
  <2>2. Takes(Atom("none", p), text, 0, Len(text))
    BY <1>4, <2>1 DEF Aligned
  <2> QED BY <1>1, <1>5, <1>7, <2>2, Whole, CaseIgnored
<1> QED BY <1>6, <1>7 DEF Agrees

(***************************************************************************)
(* The steps of the scan.                                                  *)
(***************************************************************************)
\* The first n atoms can end here, and nowhere before if case plays no part.
Leftmost(p, text, n, end) ==
    /\ Reaches(DenySource(p), n, text, end)
    /\ InLowerCase(p) /\ InLowerCase(text) =>
          \A i \in 0..Len(text) : Reaches(DenySource(p), n, text, i) => end <= i

Wild(p) == p \in Patterns /\ ~IsSubtree(p) /\ ~IsAnySuffix(p) /\ HasStar(p)

\* The atoms of a pattern that is scanned for.
LEMMA WildTypes ==
    ASSUME PatternAssumption, NEW p, Wild(p), NEW text \in Seq(Symbols),
           NEW i \in 0..Len(text), NEW j \in 0..Len(text)
    PROVE  /\ Len(Pieces[p]) \in Nat /\ Len(Pieces[p]) > 1 /\ Len(DenySource(p)) = Len(Pieces[p])
           /\ Takes(DenySource(p)[1], text, 0, j) <=> j = Len(Pieces[p][1]) /\ AlikeAt(Pieces[p][1], text, 0)
           /\ \A m \in 1..Len(Pieces[p]) :
                 LET lit == Pieces[p][m]
                 IN /\ lit \in Seq(Symbols) /\ Len(lit) \in Nat /\ (InLowerCase(p) => InLowerCase(lit))
                    /\ m # 1 => Takes(DenySource(p)[m], text, i, j) <=>
                                   \E k \in i..j : j = k + Len(lit) /\ AlikeAt(lit, text, k)
<1>1. /\ Len(Pieces[p]) \in Nat /\ Len(Pieces[p]) > 1 /\ Len(DenySource(p)) = Len(Pieces[p])
      /\ \A m \in 1..Len(Pieces[p]) :
            /\ Pieces[p][m] \in Seq(Symbols) /\ Len(Pieces[p][m]) \in Nat
            /\ InLowerCase(p) => InLowerCase(Pieces[p][m])
            /\ DenySource(p)[m] = Atom(IF m = 1 THEN "none" ELSE "any", Pieces[p][m])
  BY PieceTypes, WildcardSource DEF Wild
<1>2. ASSUME NEW lit \in Seq(Symbols), Len(lit) \in Nat
      PROVE  /\ Takes(Atom("none", lit), text, 0, j) <=> j = Len(lit) /\ AlikeAt(lit, text, 0)
             /\ Takes(Atom("any", lit), text, i, j) <=>
                   \E k \in i..j : j = k + Len(lit) /\ AlikeAt(lit, text, k)
  BY <1>2, TakesWhere DEF Spans
<1>3. 1 \in 1..Len(Pieces[p])
  BY <1>1
<1>4. Takes(DenySource(p)[1], text, 0, j) <=> j = Len(Pieces[p][1]) /\ AlikeAt(Pieces[p][1], text, 0)
  BY <1>1, <1>2, <1>3
<1>5. ASSUME NEW m \in 1..Len(Pieces[p]), m # 1
      PROVE  Takes(DenySource(p)[m], text, i, j) <=>
                \E k \in i..j : j = k + Len(Pieces[p][m]) /\ AlikeAt(Pieces[p][m], text, k)
  <2> DEFINE lit == Pieces[p][m]
  <2>1. lit \in Seq(Symbols) /\ Len(lit) \in Nat /\ DenySource(p)[m] = Atom("any", lit)
    BY <1>1, <1>5
  <2> HIDE DEF lit
  <2>2. Takes(DenySource(p)[m], text, i, j) <=> \E k \in i..j : j = k + Len(lit) /\ AlikeAt(lit, text, k)
    BY <1>2, <2>1
  <2> QED BY <2>2 DEF lit
<1> QED BY <1>1, <1>4, <1>5

\* The first piece is found where the first atom matches, at the start of the text.
LEMMA FirstFound ==
    ASSUME PatternAssumption, NEW p, Wild(p), NEW text \in Seq(Symbols)
    PROVE  /\ OccursAt(Pieces[p][1], text, 0) => Leftmost(p, text, 1, Len(Pieces[p][1]))
           /\ ~OccursAt(Pieces[p][1], text, 0) => Agrees(p, text, FALSE)
<1> DEFINE lit == Pieces[p][1]
           re == DenySource(p)
           n == Len(Pieces[p])
<1>1. 0 \in 0..Len(text) /\ Len(text) \in 0..Len(text) /\ Len(text) \in Nat
  OBVIOUS
<1>2. n \in Nat /\ n > 1 /\ Len(re) = n
  BY <1>1, WildTypes
<1>3. lit \in Seq(Symbols) /\ Len(lit) \in Nat /\ (InLowerCase(p) => InLowerCase(lit))
  <2>1. 1 \in 1..n
    BY <1>2
  <2> QED BY <1>1, <2>1, WildTypes
<1>4. \A j \in 0..Len(text) : Takes(re[1], text, 0, j) <=> j = Len(lit) /\ AlikeAt(lit, text, 0)
  BY WildTypes
<1> HIDE DEF lit, re, n
<1>5. \A i \in 0..Len(text) : Reaches(re, 0, text, i) <=> i = 0
  <2>1. ASSUME NEW i \in 0..Len(text), Reaches(re, 0, text, i) PROVE i = 0
    BY <2>1 DEF Reaches, Aligned
  <2>2. Reaches(re, 0, text, 0)
    <3> DEFINE cut == [x \in 0..0 |-> 0]
    <3>1. cut \in [0..0 -> 0..Len(text)] /\ cut[0] = 0 /\ \A x \in 1..0 : Takes(re[x], text, cut[x - 1], cut[x])
      BY <1>1
    <3> QED BY <3>1 DEF Reaches, Aligned
  <2> QED BY <2>1, <2>2
<1>6. ASSUME OccursAt(lit, text, 0) PROVE Leftmost(p, text, 1, Len(lit))
  <2>1. Len(lit) \in 0..Len(text) /\ AlikeAt(lit, text, 0)
    BY <1>1, <1>3, <1>6, CaseIgnored DEF OccursAt
  <2>2. Reaches(re, 1, text, Len(lit))
    <3>1. 0 \in Nat /\ 1 \in Nat /\ 1 = 0 + 1
      OBVIOUS
    <3> QED BY <1>1, <1>4, <1>5, <2>1, <3>1, Extended
  <2>3. ASSUME NEW j \in 0..Len(text), Reaches(re, 1, text, j) PROVE Len(lit) <= j
    <3>1. 0 \in Nat /\ 1 \in Nat /\ 0 < 1 /\ 0 + 1 = 1
      OBVIOUS
    <3>2. PICK i \in 0..Len(text) : Reaches(re, 0, text, i) /\ Takes(re[1], text, i, j)
      BY <2>3, <3>1, Shortened
    <3> QED BY <1>3, <1>4, <1>5, <3>2
  <2> QED BY <2>2, <2>3 DEF Leftmost, re
<1>7. ASSUME ~OccursAt(lit, text, 0), InLowerCase(p), InLowerCase(text) PROVE ~Blocked(p, text)
  <2>1. SUFFICES ASSUME Reaches(re, n, text, Len(text)) PROVE FALSE
    BY <1>2 DEF Blocked, re
  <2>2. 0 \in Nat /\ 0 < n /\ 0 + 1 = 1
    BY <1>2
  <2>3. PICK i \in 0..Len(text), j \in 0..Len(text) : Reaches(re, 0, text, i) /\ Takes(re[1], text, i, j)
    BY <1>2, <2>1, <2>2, Shortened
  <2>4. AlikeAt(lit, text, 0)
    BY <1>4, <1>5, <2>3
  <2> QED BY <1>1, <1>3, <1>7, <2>4, CaseIgnored
<1> QED BY <1>6, <1>7 DEF Agrees, lit

\* The piece after the first m, and where it can be.
LEMMA NextTypes ==
    ASSUME PatternAssumption, NEW p, Wild(p), NEW text \in Seq(Symbols),
           NEW m \in Nat \ {0}, m < Len(Pieces[p])
    PROVE  /\ Len(text) \in Nat /\ Len(DenySource(p)) = Len(Pieces[p]) /\ Len(Pieces[p]) \in Nat
           /\ Pieces[p][m + 1] \in Seq(Symbols) /\ Len(Pieces[p][m + 1]) \in Nat
           /\ InLowerCase(p) => InLowerCase(Pieces[p][m + 1])
           /\ \A i, j \in 0..Len(text) :
                 Takes(DenySource(p)[m + 1], text, i, j) <=>
                    \E k \in i..j : j = k + Len(Pieces[p][m + 1]) /\ AlikeAt(Pieces[p][m + 1], text, k)
<1>1. Len(text) \in Nat /\ 0 \in 0..Len(text)
  OBVIOUS
<1>2. Len(Pieces[p]) \in Nat /\ Len(DenySource(p)) = Len(Pieces[p])
  BY <1>1, WildTypes
<1>3. m + 1 \in 1..Len(Pieces[p]) /\ m + 1 # 1
  BY <1>2
<1>4. ASSUME NEW i \in 0..Len(text), NEW j \in 0..Len(text)
      PROVE  Takes(DenySource(p)[m + 1], text, i, j) <=>
                \E k \in i..j : j = k + Len(Pieces[p][m + 1]) /\ AlikeAt(Pieces[p][m + 1], text, k)
  <2>1. \A l \in 1..Len(Pieces[p]) : l # 1 =>
           (Takes(DenySource(p)[l], text, i, j) <=>
              \E k \in i..j : j = k + Len(Pieces[p][l]) /\ AlikeAt(Pieces[p][l], text, k))
    BY WildTypes
  <2> QED BY <1>3, <2>1
<1>5. /\ Pieces[p][m + 1] \in Seq(Symbols) /\ Len(Pieces[p][m + 1]) \in Nat
      /\ InLowerCase(p) => InLowerCase(Pieces[p][m + 1])
  BY <1>1, <1>3, WildTypes
<1> QED BY <1>1, <1>2, <1>4, <1>5

\* Where the next atom ends, without case, the next piece occurs, no sooner than the leftmost end.
LEMMA NextOccurs ==
    ASSUME PatternAssumption, NEW p, Wild(p), NEW text \in Seq(Symbols), NEW m \in Nat \ {0}, NEW n \in Nat,
           m < n, n <= Len(Pieces[p]), NEW end \in 0..Len(text), Leftmost(p, text, m, end),
           InLowerCase(p), InLowerCase(text), NEW last, Reaches(DenySource(p), n, text, last)
    PROVE  \E k \in end..Len(text) :
              OccursAt(Pieces[p][m + 1], text, k) /\ (n = m + 1 => last = k + Len(Pieces[p][m + 1]))
<1> DEFINE lit == Pieces[p][m + 1]
           re == DenySource(p)
<1>1. \E i, j \in 0..Len(text) :
         Reaches(DenySource(p), m, text, i) /\ Takes(DenySource(p)[m + 1], text, i, j) /\ (n = m + 1 => j = last)
  <2>1. m \in Nat
    OBVIOUS
  <2> QED BY <2>1, Shortened, ZenonT(60)
<1>2. /\ Len(text) \in Nat /\ lit \in Seq(Symbols) /\ Len(lit) \in Nat /\ InLowerCase(lit)
      /\ \A i, j \in 0..Len(text) :
            Takes(re[m + 1], text, i, j) <=> \E k \in i..j : j = k + Len(lit) /\ AlikeAt(lit, text, k)
  <2>1. m < Len(Pieces[p])
    BY WildTypes
  <2> QED BY <2>1, NextTypes
<1>3. m \in Nat
  OBVIOUS
<1>4. \A i \in 0..Len(text) : Reaches(re, m, text, i) => end <= i
  BY DEF Leftmost
<1> HIDE DEF lit, re
<1>5. PICK i \in 0..Len(text), j \in 0..Len(text) :
         Reaches(re, m, text, i) /\ Takes(re[m + 1], text, i, j) /\ (n = m + 1 => j = last)
  BY <1>1 DEF re
<1>6. PICK k \in i..j : j = k + Len(lit) /\ AlikeAt(lit, text, k)
  BY <1>2, <1>5
<1>7. end <= i
  BY <1>4, <1>5
<1>8. k \in end..Len(text) /\ k \in Nat
  BY <1>2, <1>7
<1>9. OccursAt(lit, text, k)
  BY <1>2, <1>6, <1>8, CaseIgnored
<1> QED BY <1>5, <1>6, <1>8, <1>9 DEF lit

\* Where the next piece occurs, the next atom can end.
LEMMA NextReached ==
    ASSUME PatternAssumption, NEW p, Wild(p), NEW text \in Seq(Symbols),
           NEW m \in Nat \ {0}, m < Len(Pieces[p]),
           NEW end \in 0..Len(text), Reaches(DenySource(p), m, text, end),
           NEW k \in end..Len(text), OccursAt(Pieces[p][m + 1], text, k)
    PROVE  /\ k + Len(Pieces[p][m + 1]) \in 0..Len(text)
           /\ Reaches(DenySource(p), m + 1, text, k + Len(Pieces[p][m + 1]))
<1> DEFINE lit == Pieces[p][m + 1]
           re == DenySource(p)
           n == m + 1
           j == k + Len(lit)
<1>1. /\ Len(text) \in Nat /\ lit \in Seq(Symbols) /\ Len(lit) \in Nat
      /\ \A a, b \in 0..Len(text) :
            Takes(re[n], text, a, b) <=> \E x \in a..b : b = x + Len(lit) /\ AlikeAt(lit, text, x)
  BY NextTypes
<1>2. OccursAt(lit, text, k) /\ Reaches(re, m, text, end) /\ m \in Nat /\ n \in Nat /\ n = m + 1
  OBVIOUS
<1> HIDE DEF lit, re, n
<1>3. j \in 0..Len(text) /\ k \in Nat /\ k \in end..j /\ AlikeAt(lit, text, k)
  BY <1>1, <1>2, CaseIgnored DEF OccursAt
<1>4. Takes(re[n], text, end, j)
  BY <1>1, <1>3
<1> HIDE DEF j
<1>5. Reaches(re, n, text, j)
  BY <1>2, <1>3, <1>4, Extended
<1> QED BY <1>3, <1>5 DEF lit, re, n, j

\* The first occurrence after the leftmost end gives the next leftmost end.
LEMMA NextFound ==
    ASSUME PatternAssumption, NEW p, Wild(p), NEW text \in Seq(Symbols),
           NEW m \in Nat \ {0}, m < Len(Pieces[p]),
           NEW end \in 0..Len(text), Leftmost(p, text, m, end),
           NEW k \in end..Len(text), OccursAt(Pieces[p][m + 1], text, k),
           \A other \in end..Len(text) : OccursAt(Pieces[p][m + 1], text, other) => k <= other
    PROVE  Leftmost(p, text, m + 1, k + Len(Pieces[p][m + 1]))
<1>1. Reaches(DenySource(p), m + 1, text, k + Len(Pieces[p][m + 1]))
  BY NextReached DEF Leftmost
<1>2. ASSUME InLowerCase(p), InLowerCase(text), NEW i \in 0..Len(text), Reaches(DenySource(p), m + 1, text, i)
      PROVE  k + Len(Pieces[p][m + 1]) <= i
  <2> DEFINE n == m + 1
             lit == Pieces[p][m + 1]
  <2>1. n \in Nat /\ n = m + 1 /\ m < n /\ n <= Len(Pieces[p]) /\ Len(lit) \in Nat
    BY NextTypes
  <2>2. Reaches(DenySource(p), n, text, i)
    BY <1>2
  <2> HIDE DEF n
  <2>3. PICK x \in end..Len(text) : OccursAt(Pieces[p][m + 1], text, x) /\ (n = m + 1 => i = x + Len(lit))
    BY <1>2, <2>1, <2>2, NextOccurs
  <2>4. i = x + Len(lit) /\ k <= x
    BY <2>1, <2>3
  <2> HIDE DEF lit
  <2>5. k + Len(lit) <= i
    BY <2>1, <2>4
  <2> QED BY <2>5 DEF lit
<1> QED BY <1>1, <1>2 DEF Leftmost

\* Without an occurrence there is nothing to be denied.
LEMMA NextMissing ==
    ASSUME PatternAssumption, NEW p, Wild(p), NEW text \in Seq(Symbols),
           NEW m \in Nat \ {0}, m < Len(Pieces[p]),
           NEW end \in 0..Len(text), Leftmost(p, text, m, end),
           \A k \in end..Len(text) : ~OccursAt(Pieces[p][m + 1], text, k)
    PROVE  Agrees(p, text, FALSE)
<1>1. ASSUME InLowerCase(p), InLowerCase(text), Blocked(p, text) PROVE FALSE
  <2> DEFINE n == Len(Pieces[p])
  <2>1. n \in Nat /\ m < n /\ n <= Len(Pieces[p]) /\ Len(DenySource(p)) = n
    BY NextTypes
  <2>2. Reaches(DenySource(p), n, text, Len(text))
    BY <1>1, <2>1 DEF Blocked
  <2> HIDE DEF n
  <2> QED BY <1>1, <2>1, <2>2, NextOccurs
<1> QED BY <1>1 DEF Agrees

\* The last piece may begin anywhere after the leftmost end, and ends with the text.
LEMMA LastAgrees ==
    ASSUME PatternAssumption, NEW p, Wild(p), NEW text \in Seq(Symbols),
           NEW m \in Nat \ {0}, m + 1 = Len(Pieces[p]),
           NEW end \in 0..Len(text), Leftmost(p, text, m, end)
    PROVE  Agrees(p, text, end + Len(Pieces[p][m + 1]) <= Len(text) /\ EndsWith(text, Pieces[p][m + 1]))
<1> DEFINE lit == Pieces[p][m + 1]
           n == Len(Pieces[p])
<1>1. /\ Len(text) \in Nat /\ lit \in Seq(Symbols) /\ Len(lit) \in Nat /\ Len(DenySource(p)) = n
      /\ n \in Nat /\ m < n /\ n = m + 1 /\ n <= Len(Pieces[p])
  <2>1. m < Len(Pieces[p])
    BY WildTypes
  <2> QED BY <2>1, NextTypes
<1>2. ASSUME end + Len(lit) <= Len(text), EndsWith(text, lit) PROVE Blocked(p, text)
  <2> DEFINE k == Len(text) - Len(lit)
  <2>1. k \in end..Len(text) /\ k + Len(lit) = Len(text) /\ OccursAt(lit, text, k)
    BY <1>1, <1>2 DEF EndsWith
  <2> HIDE DEF k
  <2>2. Reaches(DenySource(p), m + 1, text, k + Len(lit))
    BY <1>1, <2>1, NextReached DEF Leftmost
  <2> QED BY <1>1, <2>1, <2>2 DEF Blocked
<1>3. ASSUME InLowerCase(p), InLowerCase(text), Blocked(p, text)
      PROVE  end + Len(lit) <= Len(text) /\ EndsWith(text, lit)
  <2>1. Reaches(DenySource(p), n, text, Len(text))
    BY <1>1, <1>3 DEF Blocked
  <2>2. PICK k \in end..Len(text) : OccursAt(lit, text, k) /\ (n = m + 1 => Len(text) = k + Len(lit))
    BY <1>1, <1>3, <2>1, NextOccurs
  <2>3. Len(text) = k + Len(lit) /\ OccursAt(lit, text, k)
    BY <1>1, <2>2
  <2> HIDE DEF lit
  <2>4. k = Len(text) - Len(lit) /\ Len(lit) <= Len(text) /\ end + Len(lit) <= Len(text)
    BY <1>1, <2>2, <2>3
  <2> QED BY <2>3, <2>4 DEF EndsWith
<1> QED BY <1>2, <1>3 DEF Agrees, lit

(***************************************************************************)
(* Every answer agrees with the regular expression.                        *)
(***************************************************************************)
PatternInv ==
    /\ TypeOK
    /\ phase = "idle" => matched = 0 /\ from = 0
    /\ phase = "scan" => /\ Wild(pattern) /\ matched \in 1..(Len(Pieces[pattern]) - 1)
                          /\ Leftmost(pattern, path, matched, from)
    /\ MatchersAgree

\* The scan starts in a state of the invariant.
LEMMA PatternsStart == ASSUME PatternAssumption, Init PROVE PatternInv
<1>1. phase = "idle" /\ Len(path) = 0 /\ Len(Pieces[pattern]) \in Nat
  BY PieceTypes DEF Init
<1> QED BY <1>1 DEF Init, PatternInv, TypeOK, MatchersAgree

\* The answer a rule gives.
LEMMA Answered ==
    ASSUME PatternInv, NEW holds \in BOOLEAN, Answer(holds), Agrees(pattern, path, holds)
    PROVE  PatternInv'
<1>1. TypeOK' /\ phase' \in {"yes", "no"} /\ (phase' = "yes" <=> holds)
  BY DEF PatternInv, TypeOK, Answer
<1>2. MatchersAgree'
  BY <1>1 DEF Answer, Agrees, MatchersAgree
<1> QED BY <1>1, <1>2 DEF PatternInv

\* Every step of the scan keeps the invariant.
LEMMA PatternsStep == ASSUME PatternAssumption, PatternInv, [Next]_vars PROVE PatternInv'
<1>0. /\ TypeOK /\ pattern \in Patterns /\ path \in Seq(Symbols) /\ Len(path) \in Nat
      /\ Len(Pieces[pattern]) \in Nat
  BY PathTypes, PieceTypes DEF PatternInv, TypeOK
<1>1. CASE Replace \/ Ask \/ UNCHANGED vars
  <2>1. CASE Replace
    <3>1. phase' = "idle" /\ path' = path /\ matched' = 0 /\ from' = 0 /\ pattern' \in Patterns
      BY <2>1 DEF Replace, PatternInv
    <3>2. Len(Pieces[pattern']) \in Nat
      BY <3>1, PieceTypes
    <3>3. TypeOK'
      BY <1>0, <3>1, <3>2 DEF TypeOK
    <3> QED BY <3>1, <3>3 DEF PatternInv, MatchersAgree
  <2>2. CASE Ask
    <3>1. /\ phase' = "asked" /\ path' \in Paths /\ pattern' = pattern
          /\ matched' = matched /\ from' = from /\ from = 0
      BY <2>2 DEF Ask, PatternInv
    <3>2. Len(path') \in Nat
      BY <3>1 DEF PatternAssumption
    <3>3. TypeOK'
      BY <1>0, <3>1, <3>2 DEF TypeOK
    <3> QED BY <3>1, <3>3 DEF PatternInv, MatchersAgree
  <2>3. CASE UNCHANGED vars
    BY <2>3 DEF vars, PatternInv, TypeOK, MatchersAgree
  <2> QED BY <1>1, <2>1, <2>2, <2>3
<1>2. CASE SubtreeRule
  <2>1. Agrees(pattern, path, path = Folder(pattern) \/ OccursAt(Folder(pattern) \o <<"/">>, path, 0))
    BY <1>0, <1>2, SubtreeAgrees DEF SubtreeRule
  <2> QED BY <1>2, <2>1, Answered DEF SubtreeRule, OccursAt
<1>3. CASE ConflictRule
  <2>1. Agrees(pattern, path, InBasename("S", path))
    BY <1>0, <1>3, ConflictAgrees DEF ConflictRule
  <2> QED BY <1>3, <2>1, Answered DEF ConflictRule, InBasename
<1>4. CASE SuffixRule
  <2>1. Agrees(pattern, path, EndsWith(path, Suffix(pattern)))
    BY <1>0, <1>4, SuffixAgrees DEF SuffixRule
  <2> QED BY <1>4, <2>1, Answered DEF SuffixRule, EndsWith
<1>5. CASE ExactRule
  <2>1. Agrees(pattern, path, pattern = path)
    BY <1>0, <1>5, ExactAgrees DEF ExactRule
  <2> QED BY <1>5, <2>1, Answered DEF ExactRule
<1>6. CASE FirstPiece
  <2>1. Wild(pattern) /\ phase = "asked"
    BY <1>0, <1>6 DEF FirstPiece, Wild
  <2>2. CASE OccursAt(Piece(1), path, 0)
    <3>1. /\ phase' = "scan" /\ matched' = 1 /\ from' = Len(Piece(1))
          /\ pattern' = pattern /\ path' = path
      BY <1>6, <2>2 DEF FirstPiece
    <3>2. Leftmost(pattern, path, 1, Len(Piece(1)))
      BY <1>0, <2>1, <2>2, FirstFound DEF Piece
    <3>3. Len(Pieces[pattern]) > 1 /\ Len(Piece(1)) \in Nat /\ Len(Piece(1)) <= Len(path)
      BY <1>0, <2>1, <2>2, PieceTypes DEF Wild, Piece, OccursAt
    <3>4. TypeOK'
      BY <1>0, <3>1, <3>3 DEF TypeOK
    <3>5. Leftmost(pattern, path, matched, from)'
      BY <3>1, <3>2 DEF Leftmost
    <3>6. Wild(pattern') /\ matched' \in 1..(Len(Pieces[pattern']) - 1)
      BY <1>0, <2>1, <3>1, <3>3
    <3>7. MatchersAgree'
      BY <3>1 DEF MatchersAgree
    <3> QED BY <3>1, <3>4, <3>5, <3>6, <3>7 DEF PatternInv
  <2>3. CASE ~OccursAt(Piece(1), path, 0)
    <3>1. Answer(FALSE)
      BY <1>6, <2>3 DEF FirstPiece
    <3>2. Agrees(pattern, path, FALSE)
      BY <1>0, <2>1, <2>3, FirstFound DEF Piece
    <3> QED BY <3>1, <3>2, Answered
  <2> QED BY <2>2, <2>3
<1>7. CASE MiddlePiece
  <2> DEFINE lit == Piece(matched + 1)
  <2>1. /\ phase = "scan" /\ Wild(pattern) /\ matched \in Nat \ {0} /\ matched + 1 < Len(Pieces[pattern])
        /\ from \in 0..Len(path) /\ Leftmost(pattern, path, matched, from)
    BY <1>0, <1>7 DEF MiddlePiece, PatternInv, TypeOK
  <2>2. matched < Len(Pieces[pattern]) /\ lit \in Seq(Symbols) /\ Len(lit) \in Nat
    <3>1. matched + 1 \in 1..Len(Pieces[pattern]) /\ matched < Len(Pieces[pattern])
      BY <1>0, <2>1
    <3> QED BY <1>0, <3>1, PieceTypes DEF Piece
  <2>3. ASSUME NEW k \in Occurrences(lit), \A other \in Occurrences(lit) : k <= other,
               from' = k + Len(lit), matched' = matched + 1, UNCHANGED <<pattern, path, phase>>
        PROVE  PatternInv'
    <3>1. k \in from..Len(path) /\ OccursAt(lit, path, k)
      BY <2>3 DEF Occurrences
    <3>2. \A other \in from..Len(path) : OccursAt(lit, path, other) => k <= other
      BY <2>3 DEF Occurrences
    <3>3. Leftmost(pattern, path, matched + 1, k + Len(lit))
      BY <1>0, <2>1, <2>2, <3>1, <3>2, NextFound DEF Piece
    <3>4. k + Len(lit) \in 0..Len(path) /\ matched + 1 \in 1..(Len(Pieces[pattern]) - 1)
      BY <1>0, <2>1, <2>2, <3>1 DEF OccursAt
    <3>5. TypeOK'
      BY <1>0, <2>3, <3>4 DEF TypeOK
    <3>6. MatchersAgree'
      BY <2>1, <2>3 DEF MatchersAgree
    <3>8. phase' = "scan"
      BY <2>1, <2>3
    <3>7. Leftmost(pattern, path, matched, from)' /\ matched' \in 1..(Len(Pieces[pattern']) - 1) /\ Wild(pattern')
      BY <2>1, <2>3, <3>3, <3>4
    <3> QED BY <3>5, <3>6, <3>7, <3>8 DEF PatternInv
  <2>4. CASE Occurrences(lit) = {} /\ Answer(FALSE)
    <3>1. \A k \in from..Len(path) : ~OccursAt(lit, path, k)
      BY <2>4 DEF Occurrences
    <3>2. Agrees(pattern, path, FALSE)
      BY <1>0, <2>1, <2>2, <3>1, NextMissing DEF Piece
    <3> QED BY <2>4, <3>2, Answered
  <2> QED BY <1>7, <2>3, <2>4 DEF MiddlePiece
<1>8. CASE LastPiece
  <2>1. /\ Wild(pattern) /\ matched \in Nat \ {0} /\ matched + 1 = Len(Pieces[pattern])
        /\ from \in 0..Len(path) /\ Leftmost(pattern, path, matched, from)
    BY <1>0, <1>8 DEF LastPiece, PatternInv, TypeOK
  <2>2. Agrees(pattern, path, from + Len(Piece(matched + 1)) <= Len(path) /\ EndsWith(path, Piece(matched + 1)))
    BY <1>0, <2>1, LastAgrees DEF Piece
  <2> QED BY <1>8, <2>2, Answered DEF LastPiece
<1> QED BY <1>1, <1>2, <1>3, <1>4, <1>5, <1>6, <1>7, <1>8 DEF Next

\* The scan keeps the types of its variables.
THEOREM PatternTypes == PatternAssumption => (Spec => []TypeOK)
<1> SUFFICES ASSUME PatternAssumption PROVE Spec => []TypeOK
  OBVIOUS
<1>1. PatternInv => TypeOK
  BY DEF PatternInv
<1>2. Init => PatternInv
  BY PatternsStart
<1>3. PatternInv /\ [Next]_vars => PatternInv'
  BY PatternsStep
<1> QED BY <1>1, <1>2, <1>3, PTL DEF Spec

\* The scan of matches_wildcard and the rules before it take only what the regular
\* expression of compile_deny_pattern denies, and all of that if no upper case is involved.
THEOREM ScanAgreesWithRegex == PatternAssumption => (Spec => []MatchersAgree)
<1> SUFFICES ASSUME PatternAssumption PROVE Spec => []MatchersAgree
  OBVIOUS
<1>1. PatternInv => MatchersAgree
  BY DEF PatternInv
<1>2. Init => PatternInv
  BY PatternsStart
<1>3. PatternInv /\ [Next]_vars => PatternInv'
  BY PatternsStep
<1> QED BY <1>1, <1>2, <1>3, PTL DEF Spec
=============================================================================
