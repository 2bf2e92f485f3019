--------------------------- MODULE MCVaultWriter ---------------------------
(* Small instances of the vault writer for TLC. *)
EXTENDS VaultWriter, TLC

CONSTANTS f1, f2, t1

Pair(a, b) == [front |-> a, body |-> b]
Request(o, p, b, t) == [op |-> o, path |-> p, base |-> b, text |-> t]

X == Pair(1, 1)
Y == Pair(2, 1)
Z == Pair(2, 2)

\* A note, a second one, the trash name of both, and the names that calls make up.
Fresh == [c \in Calls |-> c]
MCFileOf == Fresh @@ ("a" :> f1) @@ ("t" :> t1)
MCFileOfTwo == MCFileOf @@ ("b" :> f2)
MCTrash == [p \in Paths |-> "t"]
\* Two spellings of one file (case-insensitive file system).
MCFileOfAlias == MCFileOf @@ ("A" :> f1)

\* What the notes hold at first; the trash name is taken or free.
Given(contents) == [c \in Calls |-> Absent] @@ contents
MCVaults == {Given(f1 :> x @@ t1 :> y) : x \in Contents \cup {Absent}, y \in {Absent, X}}
MCVaultsTwo == {Given(f1 :> x @@ f2 :> X @@ t1 :> y) : x, y \in {Absent, X}}
MCVaultsFree == {Given(f1 :> x @@ t1 :> Absent) : x \in {Absent, X}}

\* Every operation against one note, all racing from the same base.
MCOneNote == {Request(op, "a", X, Z) : op \in Ops}
\* One operation for each path through the writer, the last one in the trash.
MCPaths == {Request(op, "a", X, Y) : op \in {"create", "replace", "delete"}}
           \cup {Request("hard_delete", "t", X, Y)}
\* A note that is quarantined, and the trash name of the first one, which is a path too.
MCEveryPath ==
    MCOneNote \cup {Request("replace", "b", X, Z)}
    \cup {Request(op, "t", X, Z) : op \in {"create", "hard_delete"}}
MCAliases ==
    {Request("create", p, X, X) : p \in {"a", "A"}}
    \cup {Request(op, p, X, Y) : op \in {"replace", "delete"}, p \in {"a", "A"}}
MCAliasRace == {Request("create", "a", X, X)}
               \cup {Request("replace", p, X, Y) : p \in {"a", "A"}}

MCSymmetry == Permutations(Calls) \cup Permutations(Locks)
=============================================================================
