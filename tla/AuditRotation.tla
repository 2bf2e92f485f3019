--------------------------- MODULE AuditRotation ---------------------------
(***************************************************************************)
(* Start-up rotation of the write-audit database: Runtime::create of       *)
(* src/runtime.rs with rotate_write_audit_if_needed, archive_at and        *)
(* VaultWriteAuditStore::open of src/vault/audit.rs.  One server at a time *)
(* uses a state directory; it may fail or be killed at every step, and the *)
(* next one starts from the files it left.                                 *)
(*                                                                         *)
(* A database file is its three kinds of rows, named by write attempt.     *)
(* SQLite keeps a rollback journal (journal_mode=DELETE): a transaction    *)
(* changes the file while the journal holds what it was, and removing the  *)
(* journal commits it.  A journal left by a killed server is rolled back   *)
(* by the next connection that reads the file it lies beside.              *)
(***************************************************************************)
EXTENDS Naturals, FiniteSets

CONSTANTS
    Attempts,     \* write attempts ever made
    MaxRows,      \* audit.retention_max_rows
    Stamps,       \* archive names made of a timestamp alone
    Suffixed,     \* archive names with a UUID, more than are ever drawn
    NoFile,       \* no file of this name
    Placeholder   \* the zero-length file that reserves an archive name

Names == Stamps \cup Suffixed
Kinds == {"writes", "started", "ended"}
Databases == [Kinds -> SUBSET Attempts]
Empty == [k \in Kinds |-> {}]

ASSUME RotationAssumption ==
    /\ NoFile \notin Databases \cup {Placeholder}
    /\ Placeholder \notin Databases

VARIABLES
    pc,           \* where the server is between start and stop
    live,         \* write-audit.sqlite
    journal,      \* write-audit.sqlite-journal: the content to roll back to
    archive,      \* the archive directory
    destination,  \* the name archive_at has settled on
    acked         \* history: the rows whose transactions were committed

vars == <<pc, live, journal, archive, destination, acked>>

Booting == {"exists", "query", "mkdir", "reserve", "rename", "unreserve", "open"}
PCs == {"down", "up", "commit"} \cup Booting

TypeOK ==
    /\ pc \in PCs
    /\ live \in Databases \cup {NoFile}
    /\ journal \in Databases \cup {NoFile}
    /\ archive \in [Names -> Databases \cup {NoFile, Placeholder}]
    /\ destination \in Names
    /\ acked \in Databases

Init ==
    /\ pc = "down"
    /\ live = NoFile
    /\ journal = NoFile
    /\ archive = [n \in Names |-> NoFile]
    /\ destination \in Stamps
    /\ acked = Empty

Go(from, to) == pc = from /\ pc' = to
Fails(from) == pc = from /\ pc' = "down"

\* What a reader of the file sees once a left-over journal is rolled back.
Committed == IF journal = NoFile THEN live ELSE journal
RollBack == live' = Committed /\ journal' = NoFile
Pending(db) == db["started"] \ db["ended"]
Archived(n) == archive[n] \in Databases

(***************************************************************************)
(* rotate_write_audit_if_needed                                            *)
(***************************************************************************)
Boot ==
    /\ Go("down", "exists")
    /\ destination' \in Stamps
    /\ UNCHANGED <<live, journal, archive, acked>>

CheckExists ==
    /\ \/ Go("exists", IF MaxRows = 0 \/ live = NoFile THEN "open" ELSE "query")
       \/ Fails("exists")
    /\ UNCHANGED <<live, journal, archive, destination, acked>>

\* Slip: the count is taken, but nobody asks for unfinished attempts.
MayRotateAnyway(db) == Cardinality(db["writes"]) > MaxRows
MayRotate(db) == Cardinality(db["writes"]) > MaxRows /\ Pending(db) = {}

\* The first read rolls a left-over journal back.  A count that fails counts as 0;
\* any other failure ends the start-up.
Query ==
    /\ \/ Go("query", IF MayRotate(Committed) THEN "mkdir" ELSE "open") /\ RollBack
       \/ (Go("query", "open") \/ Fails("query")) /\ (RollBack \/ UNCHANGED <<live, journal>>)
    /\ UNCHANGED <<archive, destination, acked>>

MakeDirectory ==
    /\ Go("mkdir", "reserve") \/ Fails("mkdir")
    /\ UNCHANGED <<live, journal, archive, destination, acked>>

(***************************************************************************)
(* archive_at: reserve a name exclusively, then rename over it.            *)
(***************************************************************************)

\* Slip: only a placeholder left by an earlier start is avoided.
TakenByPlaceholder(n) == archive[n] = Placeholder
Taken(n) == archive[n] # NoFile

\* create_new; on AlreadyExists the loop draws a name with a UUID.
Reserve ==
    /\ \/ /\ ~Taken(destination) /\ Go("reserve", "rename")
          /\ archive' = [archive EXCEPT ![destination] = Placeholder]
          /\ UNCHANGED destination
       \/ /\ Taken(destination) /\ Go("reserve", "reserve")
          /\ \E n \in Suffixed : ~Taken(n) /\ destination' = n
          /\ UNCHANGED archive
       \/ Fails("reserve") /\ UNCHANGED <<archive, destination>>
    /\ UNCHANGED <<live, journal, acked>>

\* Slip: a hard link instead of a rename, as the comment in archive_at warns.
RenameByLink ==
    /\ Go("rename", "open")
    /\ archive' = [archive EXCEPT ![destination] = live]
    /\ UNCHANGED <<live, journal, destination, acked>>

Rename ==
    /\ \/ /\ Go("rename", "open")
          /\ archive' = [archive EXCEPT ![destination] = live]
          /\ live' = NoFile
       \/ Go("rename", "unreserve") /\ UNCHANGED <<live, archive>>
    /\ UNCHANGED <<journal, destination, acked>>

\* A failed rename removes the reservation if it can and ends the start-up.
Unreserve ==
    /\ Fails("unreserve")
    /\ archive' \in {archive, [archive EXCEPT ![destination] = NoFile]}
    /\ UNCHANGED <<live, journal, destination, acked>>

(***************************************************************************)
(* VaultWriteAuditStore::open and the rows of a running server             *)
(***************************************************************************)
\* Creates the file if there is none; the schema statements read it first.
Open ==
    /\ \/ /\ Go("open", "up")
          /\ live' = IF live = NoFile THEN Empty ELSE Committed
          /\ journal' = NoFile
       \/ Fails("open") /\ UNCHANGED <<live, journal>>
    /\ UNCHANGED <<archive, destination, acked>>

\* The transactions of the writer: a start row; a failure row; a success row with
\* its provenance row, or the latter alone when the start row could not be written.
Unused == Attempts \ (acked["started"] \cup acked["writes"])
Transactions(db) ==
    {[db EXCEPT !["started"] = @ \cup {a}] : a \in Unused}
    \cup {[db EXCEPT !["ended"] = @ \cup {a}] : a \in Pending(db)}
    \cup {[db EXCEPT !["ended"] = @ \cup {a}, !["writes"] = @ \cup {a}] : a \in Pending(db)}
    \cup {[db EXCEPT !["writes"] = @ \cup {a}] : a \in Unused}

\* The connection's mutex admits one transaction at a time.
Begin ==
    /\ Go("up", "commit")
    /\ journal' = live
    /\ live' \in Transactions(live)
    /\ UNCHANGED <<archive, destination, acked>>

Commit ==
    /\ Go("commit", "up")
    /\ journal' = NoFile
    /\ acked' = [k \in Kinds |-> acked[k] \cup live[k]]
    /\ UNCHANGED <<live, archive, destination>>

\* The server is stopped or killed.
Stop ==
    /\ pc # "down" /\ pc' = "down"
    /\ UNCHANGED <<live, journal, archive, destination, acked>>

Next == Boot \/ CheckExists \/ Query \/ MakeDirectory \/ Reserve \/ Rename
        \/ Unreserve \/ Open \/ Begin \/ Commit \/ Stop

Spec == Init /\ [][Next]_vars

(***************************************************************************)
(* Properties                                                              *)
(***************************************************************************)

\* The live store and the archives together hold exactly the committed rows, each in
\* one of them: no rotation, failed start or killed server drops a row, copies it or
\* makes one up, and a transaction torn by a kill is archived neither in part nor whole.
Sealed == {n \in Names : Archived(n)}
LiveRows(k) == IF live = NoFile THEN {} ELSE Committed[k]
RowsKept ==
    \A k \in Kinds :
        /\ acked[k] = LiveRows(k) \cup UNION {archive[n][k] : n \in Sealed}
        /\ \A n \in Sealed :
            /\ archive[n][k] \cap LiveRows(k) = {}
            /\ \A m \in Sealed \ {n} : archive[n][k] \cap archive[m][k] = {}

\* list_incomplete_writes reads the live store alone; still it misses no attempt
\* that was started and never ended, whichever start-ups came between.
IncompleteVisible ==
    pc = "up" => Pending(live) = Pending(acked)

\* An archive that holds a database is never changed, replaced or removed.
ArchivesSealed ==
    [][\A n \in Names : Archived(n) => archive'[n] = archive[n]]_vars
=============================================================================
