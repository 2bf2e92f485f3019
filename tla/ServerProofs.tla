---------------------------- MODULE ServerProofs ----------------------------
(***************************************************************************)
(* Proofs about the server: the properties of its parts, whichever of them *)
(* are active together.  What the proof modules say of the registry, the   *)
(* daily notes, the skills and the patterns is carried over; the other     *)
(* theorems are proved here, those about the audit store first.            *)
(***************************************************************************)
EXTENDS Server, TLAPS

(***************************************************************************)
(* Types, and which files there are at which step.                         *)
(***************************************************************************)

\* A start-up that has found the live store holds it until it renames it; from the
\* first read on, and whenever no transaction is open, no journal lies beside it.
Reading == {"mkdir", "reserve", "rename", "unreserve"}
Files ==
    /\ journal # NoFile => live # NoFile
    /\ pc \in Reading \cup {"query", "up", "commit"} => live # NoFile
    /\ pc \in Reading \cup {"up"} => journal = NoFile
    /\ pc \in Reading => Pending(live) = {}
    /\ pc \in {"rename", "unreserve"} => archive[destination] = Placeholder
    /\ pc = "commit" => journal # NoFile

\* Every transaction turns a database into a database.
LEMMA TransactionType ==
    ASSUME NEW db \in Databases, NEW new \in Transactions(db)
    PROVE  new \in Databases
BY DEF Transactions, Databases, Kinds, Pending, Unused

\* The variables keep their types, and the files are where each step expects them.
LEMMA FilesStep == TypeOK /\ Files /\ [Next]_vars => TypeOK' /\ Files'
<1> SUFFICES ASSUME TypeOK, Files, [Next]_vars PROVE TypeOK' /\ Files'
  OBVIOUS
<1> USE RotationAssumption DEF TypeOK, Files, Reading
<1>0. Committed \in Databases \cup {NoFile} /\ (live # NoFile => Committed \in Databases)
  BY DEF Committed
<1>1. CASE Boot
  BY <1>1 DEF Boot, Go, PCs, Booting, Names
<1>2. CASE CheckExists
  BY <1>2 DEF CheckExists, Go, Fails, PCs, Booting
<1>3. CASE Query
  BY <1>0, <1>3 DEF Query, RollBack, MayRotate, Go, Fails, PCs, Booting
<1>4. CASE MakeDirectory
  BY <1>4 DEF MakeDirectory, Go, Fails, PCs, Booting
<1>5. CASE Reserve
  BY <1>5 DEF Reserve, Go, Fails, PCs, Booting, Names
<1>6. CASE Rename
  BY <1>6 DEF Rename, Go, PCs, Booting
<1>7. CASE Unreserve
  BY <1>7 DEF Unreserve, Fails, PCs
<1>8. CASE Open
  <2>1. Empty \in Databases
    BY DEF Empty, Databases
  <2> QED
    BY <1>0, <1>8, <2>1 DEF Open, Go, Fails, PCs
<1>9. CASE Begin
  BY <1>9, TransactionType DEF Begin, Go, PCs
<1>10. CASE Commit
  BY <1>10 DEF Commit, Go, PCs, Databases
<1>11. CASE Stop
  BY <1>11 DEF Stop, PCs
<1>12. CASE UNCHANGED vars
  BY <1>12 DEF vars
<1> QED
  BY <1>1, <1>2, <1>3, <1>4, <1>5, <1>6, <1>7, <1>8, <1>9, <1>10, <1>11, <1>12 DEF Next

\* The initial state has the types, and no file yet.
LEMMA FilesInit == Init => TypeOK /\ Files
BY RotationAssumption
   DEF Init, TypeOK, Files, Reading, PCs, Empty, Databases, Names

\* The audit files always have the shapes and places the code expects of them.
THEOREM RotationTypes == Spec => [](TypeOK /\ Files)
BY FilesInit, FilesStep, PTL DEF Spec

(***************************************************************************)
(* Rows.                                                                   *)
(***************************************************************************)

\* Attempts end in the database they began in, archives hold no unfinished attempt,
\* and an attempt with a start row has its provenance row only with its end.
Lifecycle ==
    /\ \A n \in Sealed : archive[n]["started"] = archive[n]["ended"]
    /\ live # NoFile => Committed["ended"] \subseteq Committed["started"]
    /\ acked["writes"] \cap acked["started"] \subseteq acked["ended"]

\* The open transaction only adds rows, and none that any store holds.
Torn ==
    pc = "commit" =>
        /\ \A k \in Kinds : /\ journal[k] \subseteq live[k]
                           /\ (live[k] \ journal[k]) \cap acked[k] = {}
        /\ live["ended"] \subseteq live["started"]
        /\ (acked["writes"] \cup live["writes"]) \cap (acked["started"] \cup live["started"])
           \subseteq acked["ended"] \cup live["ended"]

RowInv == TypeOK /\ Files /\ RowsKept /\ Lifecycle /\ Torn

\* Steps that change neither what a store holds nor which rows are committed.
LEMMA SameRows ==
    ASSUME RowInv,
           \A k \in Kinds : LiveRows(k)' = LiveRows(k),
           Sealed' = Sealed, \A n \in Sealed : archive'[n] = archive[n],
           acked' = acked
    PROVE  RowsKept'
BY DEF RowInv, RowsKept

\* An attempt that is pending in the live store is unknown elsewhere, as to its end.
LEMMA PendingIsHere ==
    ASSUME RowInv, live # NoFile, journal = NoFile
    PROVE  Pending(live) = Pending(acked)
<1>1. \A n \in Sealed : archive[n] \in Databases
  BY DEF Sealed, Archived
<1>2. /\ acked["started"] = live["started"] \cup UNION {archive[n]["started"] : n \in Sealed}
      /\ acked["ended"] = live["ended"] \cup UNION {archive[n]["ended"] : n \in Sealed}
      /\ \A n \in Sealed : archive[n]["started"] \cap live["started"] = {}
  BY DEF RowInv, RowsKept, LiveRows, Committed, Kinds
<1>3. /\ \A n \in Sealed : archive[n]["started"] = archive[n]["ended"]
      /\ live["ended"] \subseteq live["started"]
  BY DEF RowInv, Lifecycle, Committed
<1> QED
  BY <1>2, <1>3 DEF Pending

\* What a transaction of the writer adds is nowhere yet.
LEMMA TransactionIsNew ==
    ASSUME RowInv, pc = "up", NEW new \in Transactions(live)
    PROVE  /\ \A k \in Kinds : /\ live[k] \subseteq new[k]
                              /\ (new[k] \ live[k]) \cap acked[k] = {}
           /\ new["ended"] \subseteq new["started"]
           /\ (acked["writes"] \cup new["writes"]) \cap (acked["started"] \cup new["started"])
              \subseteq acked["ended"] \cup new["ended"]
<1>1. live # NoFile /\ journal = NoFile /\ live \in Databases
  BY DEF RowInv, Files, TypeOK
<1>2. Pending(live) = Pending(acked)
  BY <1>1, PendingIsHere
<1>3. /\ live["ended"] \subseteq live["started"]
      /\ acked["writes"] \cap acked["started"] \subseteq acked["ended"]
      /\ \A k \in Kinds : live[k] \subseteq acked[k]
  BY <1>1 DEF RowInv, Lifecycle, Committed, RowsKept, LiveRows
<1>a. "writes" \in Kinds /\ "started" \in Kinds /\ "ended" \in Kinds
  BY DEF Kinds
<1>4. CASE \E a \in Unused : new = [live EXCEPT !["started"] = @ \cup {a}]
  BY <1>1, <1>2, <1>3, <1>4, <1>a DEF Unused, Pending, Databases
<1>5. CASE \E a \in Unused : new = [live EXCEPT !["writes"] = @ \cup {a}]
  BY <1>1, <1>2, <1>3, <1>5, <1>a DEF Unused, Pending, Databases
<1>6. CASE \E a \in Pending(live) : new = [live EXCEPT !["ended"] = @ \cup {a}]
  BY <1>1, <1>2, <1>3, <1>6, <1>a DEF Pending, Databases
<1>7. CASE \E a \in Pending(live) :
              new = [live EXCEPT !["ended"] = @ \cup {a}, !["writes"] = @ \cup {a}]
  BY <1>1, <1>2, <1>3, <1>7, <1>a DEF Pending, Databases
<1> QED
  BY <1>4, <1>5, <1>6, <1>7 DEF Transactions

\* A step that leaves the committed rows where they are.
LEMMA QuietStep ==
    ASSUME RowInv, UNCHANGED acked, pc' # "commit",
           \/ UNCHANGED <<live, journal>>
           \/ RollBack
           \/ live = NoFile /\ live' = Empty /\ journal' = NoFile,
           \/ UNCHANGED archive
           \/ archive[destination] = NoFile /\ archive' = [archive EXCEPT ![destination] = Placeholder]
           \/ archive[destination] = Placeholder /\ archive' = [archive EXCEPT ![destination] = NoFile]
    PROVE  RowsKept' /\ Lifecycle' /\ Torn'
<1> USE RotationAssumption
<1>1. Sealed' = Sealed /\ \A n \in Sealed : archive'[n] = archive[n]
  BY DEF Sealed, Archived, RowInv, TypeOK
<1>2. \A k \in Kinds : LiveRows(k)' = LiveRows(k)
  BY DEF LiveRows, Committed, RollBack, Empty, RowInv, TypeOK, Files
<1>3. live' # NoFile => (Committed["ended"] \subseteq Committed["started"])'
  <2>1. CASE live = NoFile /\ live' = Empty /\ journal' = NoFile
    BY <2>1 DEF Committed, Empty, Kinds
  <2>2. CASE RollBack
    BY <2>2 DEF Committed, RollBack, RowInv, Lifecycle, Files
  <2> QED
    BY <2>1, <2>2 DEF Committed, RowInv, Lifecycle
<1>4. RowsKept'
  BY <1>1, <1>2, SameRows
<1> QED
  BY <1>1, <1>3, <1>4 DEF Lifecycle, Torn, RowInv

\* The rows follow the renamed file.
LEMMA RenameStep ==
    ASSUME RowInv, Rename PROVE RowsKept' /\ Lifecycle' /\ Torn'
<1> USE RotationAssumption
<1>1. CASE UNCHANGED <<live, archive>>
  BY <1>1, QuietStep DEF Rename, Go
<1>2. CASE /\ pc = "rename" /\ pc' = "open"
           /\ archive' = [archive EXCEPT ![destination] = live] /\ live' = NoFile
  <2>1. live \in Databases /\ journal = NoFile /\ archive[destination] = Placeholder
        /\ destination \in Names /\ Pending(live) = {}
    BY <1>2 DEF RowInv, Files, TypeOK, Reading
  <2>2. /\ Sealed' = Sealed \cup {destination} /\ destination \notin Sealed
        /\ archive'[destination] = live
        /\ \A n \in Sealed : archive'[n] = archive[n]
    BY <1>2, <2>1 DEF Sealed, Archived, RowInv, TypeOK
  <2>3. UNCHANGED <<journal, acked>>
    BY DEF Rename
  <2>4. \A k \in Kinds : LiveRows(k) = live[k] /\ LiveRows(k)' = {}
    BY <1>2, <2>1, <2>3 DEF LiveRows, Committed
  <2>5. ASSUME NEW k \in Kinds
        PROVE  UNION {archive'[n][k] : n \in Sealed'} = live[k] \cup UNION {archive[n][k] : n \in Sealed}
    BY <2>2
  <2>6. RowsKept'
    BY <2>2, <2>3, <2>4, <2>5 DEF RowsKept, RowInv
  <2>7. live["started"] = live["ended"]
    BY <2>1 DEF RowInv, Lifecycle, Committed, Pending, Databases
  <2>8. Lifecycle'
    BY <1>2, <2>2, <2>3, <2>7 DEF Lifecycle, RowInv
  <2> QED
    BY <1>2, <2>6, <2>8 DEF Torn
<1> QED
  BY <1>1, <1>2 DEF Rename, Go

\* An open transaction has changed nothing that is committed.
LEMMA BeginStep ==
    ASSUME RowInv, Begin PROVE RowsKept' /\ Lifecycle' /\ Torn'
<1>1. live # NoFile /\ journal = NoFile /\ live \in Databases /\ live' \in Databases
  BY TransactionType DEF RowInv, Files, TypeOK, Begin, Go
<1>2. UNCHANGED <<archive, acked>> /\ journal' = live /\ pc = "up" /\ live' # NoFile
  BY <1>1, RotationAssumption DEF Begin, Go
<1>3. /\ Sealed' = Sealed /\ \A n \in Sealed : archive'[n] = archive[n]
      /\ \A k \in Kinds : LiveRows(k)' = LiveRows(k)
      /\ Committed' = Committed
  BY <1>1, <1>2 DEF Sealed, Archived, LiveRows, Committed
<1>4. RowsKept'
  BY <1>2, <1>3, SameRows
<1>5. Lifecycle'
  BY <1>1, <1>2, <1>3 DEF Lifecycle, RowInv
<1>6. Torn'
  BY <1>2, TransactionIsNew DEF Torn, Begin
<1> QED
  BY <1>4, <1>5, <1>6

\* Removing the journal commits the new rows to the live store.
LEMMA CommitStep ==
    ASSUME RowInv, Commit PROVE RowsKept' /\ Lifecycle' /\ Torn'
<1>1. live # NoFile /\ journal # NoFile /\ live \in Databases /\ journal \in Databases /\ acked \in Databases
  BY DEF RowInv, Files, TypeOK, Commit, Go
<1>2. UNCHANGED <<archive, live>> /\ journal' = NoFile /\ pc = "commit" /\ pc' = "up"
  BY DEF Commit, Go
<1>3. \A k \in Kinds : acked'[k] = acked[k] \cup live[k]
  BY DEF Commit
<1>4. \A k \in Kinds : LiveRows(k) = journal[k] /\ LiveRows(k)' = live[k]
  BY <1>1, <1>2 DEF LiveRows, Committed
<1>5. Sealed' = Sealed /\ \A n \in Sealed : archive'[n] = archive[n]
  BY <1>2 DEF Sealed, Archived
<1>6. /\ \A k \in Kinds : journal[k] \subseteq live[k] /\ (live[k] \ journal[k]) \cap acked[k] = {}
      /\ live["ended"] \subseteq live["started"]
      /\ (acked["writes"] \cup live["writes"]) \cap (acked["started"] \cup live["started"])
         \subseteq acked["ended"] \cup live["ended"]
  BY <1>2 DEF RowInv, Torn
<1>7. RowsKept'
  BY <1>3, <1>4, <1>5, <1>6 DEF RowsKept, RowInv
<1>8. Lifecycle'
  BY <1>1, <1>2, <1>3, <1>5, <1>6 DEF Lifecycle, RowInv, Committed, Kinds
<1> QED
  BY <1>2, <1>7, <1>8 DEF Torn

\* The rows invariant is inductive.
LEMMA RowStep == RowInv /\ [Next]_vars => RowInv'
<1> SUFFICES ASSUME RowInv, [Next]_vars PROVE RowInv'
  OBVIOUS
<1>0. TypeOK' /\ Files'
  BY FilesStep DEF RowInv
<1>1. RowsKept' /\ Lifecycle' /\ Torn'
  <2>1. CASE Boot
    BY <2>1, QuietStep DEF Boot, Go
  <2>2. CASE CheckExists
    BY <2>2, QuietStep DEF CheckExists, Go, Fails
  <2>3. CASE Query
    BY <2>3, QuietStep DEF Query, Go, Fails
  <2>4. CASE MakeDirectory
    BY <2>4, QuietStep DEF MakeDirectory, Go, Fails
  <2>5. CASE Reserve
    BY <2>5, QuietStep DEF Reserve, Taken, Go, Fails
  <2>6. CASE Rename
    BY <2>6, RenameStep
  <2>7. CASE Unreserve
    <3>1. archive[destination] = Placeholder
      BY <2>7 DEF Unreserve, Fails, RowInv, Files
    <3> QED
      BY <2>7, <3>1, QuietStep DEF Unreserve, Fails
  <2>8. CASE Open
    BY <2>8, QuietStep DEF Open, RollBack, Go, Fails
  <2>9. CASE Begin
    BY <2>9, BeginStep
  <2>10. CASE Commit
    BY <2>10, CommitStep
  <2>11. CASE Stop
    BY <2>11, QuietStep DEF Stop
  <2>12. CASE UNCHANGED vars
    <3>1. CASE pc = "commit"
      BY <2>12, <3>1 DEF vars, RowInv, RowsKept, Lifecycle, Torn, LiveRows, Committed, Sealed, Archived
    <3> QED
      BY <2>12, <3>1, QuietStep DEF vars
  <2> QED
    BY <2>1, <2>2, <2>3, <2>4, <2>5, <2>6, <2>7, <2>8, <2>9, <2>10, <2>11, <2>12 DEF Next
<1> QED
  BY <1>0, <1>1 DEF RowInv

\* Nothing is stored yet when the first server starts.
LEMMA RowInit == Init => RowInv
<1> SUFFICES ASSUME Init PROVE RowInv
  OBVIOUS
<1>1. TypeOK /\ Files
  BY FilesInit
<1>2. Sealed = {} /\ \A k \in Kinds : acked[k] = {} /\ LiveRows(k) = {}
  BY RotationAssumption DEF Init, Sealed, Archived, Empty, LiveRows
<1>3. RowsKept
  BY <1>2 DEF RowsKept
<1> QED
  BY <1>1, <1>2, <1>3 DEF RowInv, Lifecycle, Torn, Init, Kinds

\* Rotation, failed starts and kills lose, copy or invent no committed row.
THEOREM NoRowLost == Spec => []RowsKept
<1>1. RowInv => RowsKept
  BY DEF RowInv
<1> QED
  BY <1>1, RowInit, RowStep, PTL DEF Spec

\* A running server lists every attempt that was started and has no end.
THEOREM DiagnosticsVisible == Spec => []IncompleteVisible
<1>1. RowInv => IncompleteVisible
  BY PendingIsHere DEF RowInv, Files, IncompleteVisible
<1> QED
  BY <1>1, RowInit, RowStep, PTL DEF Spec

\* No step touches an archive that holds a database.
THEOREM ArchivesNeverChange == Spec => ArchivesSealed
<1>1. ASSUME RowInv, [Next]_vars
      PROVE  \A n \in Names : Archived(n) => archive'[n] = archive[n]
  <2>1. CASE Reserve
    BY <1>1, <2>1, RotationAssumption DEF Reserve, Taken, Archived, RowInv, TypeOK
  <2>2. CASE Rename
    BY <1>1, <2>2, RotationAssumption DEF Rename, Go, Archived, RowInv, TypeOK, Files
  <2>3. CASE Unreserve
    BY <1>1, <2>3, RotationAssumption DEF Unreserve, Fails, Archived, RowInv, TypeOK, Files
  <2> QED
    BY <1>1, <2>1, <2>2, <2>3
       DEF Next, vars, Boot, CheckExists, Query, MakeDirectory, Open, Begin, Commit, Stop
<1> QED
  BY <1>1, RowInit, RowStep, PTL DEF Spec, ArchivesSealed

LEMMA ActiveKept == [ServerNext]_allVars => UNCHANGED active
BY DEF ServerNext, OthersWait, allVars

(***************************************************************************)
(* Registry                                                                *)
(***************************************************************************)
RegP == INSTANCE FrameworkRegistryProofs WITH
    Calls <- RegistrySetup.calls, Droppable <- RegistrySetup.droppable, Overlays <- RegistrySetup.overlays,
    RegistryPath <- RegistrySetup.path, Names <- RegistrySetup.names, Requests <- RegistrySetup.requests,
    Environment <- RegistrySetup.environment,
    pc <- reg_pc, req <- reg_req, outcome <- reg_outcome, seen <- reg_seen, file <- reg_file, temps <- reg_temps,
    blocked <- reg_blocked, late <- reg_late, landed <- reg_landed, disturbed <- reg_disturbed

\* RegP and Reg are two names of one specification: their definitions expand to the same.
LEMMA RegistrySame ==
    /\ RegP!RegistryAssumption
    /\ Reg!Init => RegP!Init
    /\ Reg!Next => RegP!Next
    /\ UNCHANGED registryVars => UNCHANGED RegP!vars
    /\ RegP!TypeOK => Reg!TypeOK
    /\ RegP!PublicationReported => Reg!PublicationReported
    /\ RegP!ActsAtomically => Reg!ActsAtomically
    /\ RegP!Atomic!Init => Reg!Atomic!Init
<1>1. RegP!RegistryAssumption
  BY ServerAssumption
  DEF Reg!EnvironmentEvents, RegP!EnvironmentEvents, Reg!Entries, RegP!Entries, Reg!Updates, RegP!Updates,
      Reg!Inits, RegP!Inits, Reg!Readers, RegP!Readers, Reg!Outside, RegP!Outside, Reg!RequestType,
      RegP!RequestType, Reg!RegistryAssumption, RegP!RegistryAssumption
<1>2. Reg!Init => RegP!Init
  BY DEF Reg!Entries, RegP!Entries, Reg!Init, RegP!Init
<1>3. Reg!Next => RegP!Next
  BY DEF Reg!Updates, RegP!Updates, Reg!Inits, RegP!Inits, Reg!Readers, RegP!Readers, Reg!Outside,
         RegP!Outside, Reg!Working, RegP!Working, Reg!Locked, RegP!Locked, Reg!At, RegP!At, Reg!Go, RegP!Go,
         Reg!End, RegP!End, Reg!Op, RegP!Op, Reg!Mutates, RegP!Mutates, Reg!Hidden, RegP!Hidden, Reg!Holds,
         RegP!Holds, Reg!Start, RegP!Start, Reg!Canonical, RegP!Canonical, Reg!Acquire, RegP!Acquire,
         Reg!Others, RegP!Others, Reg!After, RegP!After, Reg!Finished, RegP!Finished, Reg!Decide, RegP!Decide,
         Reg!Resolve, RegP!Resolve, Reg!Read, RegP!Read, Reg!Usable, RegP!Usable, Reg!Parse, RegP!Parse,
         Reg!ReadOverlays, RegP!ReadOverlays, Reg!Text, RegP!Text, Reg!Creates, RegP!Creates, Reg!Prepare,
         RegP!Prepare, Reg!Readings, RegP!Readings, Reg!Effect, RegP!Effect, Reg!Publish, RegP!Publish,
         Reg!Cleanup, RegP!Cleanup, Reg!Validate, RegP!Validate, Reg!Overwrite, RegP!Overwrite, Reg!Drop,
         RegP!Drop, Reg!LateEffect, RegP!LateEffect, Reg!PolicyReload, RegP!PolicyReload, Reg!Step, RegP!Step,
         Reg!Next, RegP!Next
<1>4. UNCHANGED registryVars => UNCHANGED RegP!vars
  BY DEF registryVars, RegP!vars
<1>5. RegP!TypeOK => Reg!TypeOK
  BY DEF Reg!Outcomes, RegP!Outcomes, Reg!Entries, RegP!Entries, Reg!Contents, RegP!Contents, Reg!Working,
         RegP!Working, Reg!Locked, RegP!Locked, Reg!PCs, RegP!PCs, Reg!TypeOK, RegP!TypeOK
<1>6. RegP!PublicationReported => Reg!PublicationReported
  BY DEF Reg!Updates, RegP!Updates, Reg!Inits, RegP!Inits, Reg!At, RegP!At, Reg!Op, RegP!Op, Reg!Mutates,
         RegP!Mutates, Reg!PublicationReported, RegP!PublicationReported
<1>7. RegP!ActsAtomically => Reg!ActsAtomically
  BY DEF Reg!Atomic!Op, RegP!Atomic!Op, Reg!Atomic!Registered, RegP!Atomic!Registered, Reg!Atomic!Others,
         RegP!Atomic!Others, Reg!Atomic!Updated, RegP!Atomic!Updated, Reg!Atomic!Land, RegP!Atomic!Land,
         Reg!Atomic!Overtakes, RegP!Atomic!Overtakes, Reg!Atomic!Update, RegP!Atomic!Update,
         Reg!Atomic!StaleUpdate, RegP!Atomic!StaleUpdate, Reg!Atomic!Initialise, RegP!Atomic!Initialise,
         Reg!Atomic!NoteTool, RegP!Atomic!NoteTool, Reg!Atomic!Answer, RegP!Atomic!Answer,
         Reg!Atomic!NothingToRemove, RegP!Atomic!NothingToRemove, Reg!Atomic!Accept, RegP!Atomic!Accept,
         Reg!Atomic!Refuse, RegP!Atomic!Refuse, Reg!Atomic!Abandon, RegP!Atomic!Abandon,
         Reg!Atomic!Refresh, RegP!Atomic!Refresh, Reg!Atomic!Next, RegP!Atomic!Next, Reg!Atomic!vars,
         RegP!Atomic!vars, Reg!ActsAtomically, RegP!ActsAtomically
<1>8. RegP!Atomic!Init => Reg!Atomic!Init
  BY DEF Reg!Atomic!Init, RegP!Atomic!Init
<1> QED BY <1>1, <1>2, <1>3, <1>4, <1>5, <1>6, <1>7, <1>8

LEMMA RegistryRuns ==
    /\ ServerInit /\ "registry" \in active => RegP!Init
    /\ [ServerNext]_allVars => [RegP!Next]_(RegP!vars)
<1>1. ServerInit /\ "registry" \in active => RegP!Init
  BY RegistrySame DEF ServerInit
<1>2. [ServerNext]_allVars => [RegP!Next]_(RegP!vars)
  BY RegistrySame DEF ServerNext, OthersWait, allVars
<1> QED BY <1>1, <1>2

LEMMA RegistrySpec == ServerSpec => ("registry" \in active => RegP!Spec)
BY RegistryRuns, PTL DEF ServerSpec, RegP!Spec

(***************************************************************************)
(* Daily                                                                   *)
(***************************************************************************)
DayP == INSTANCE DailyNotesProofs WITH
    Calls <- DailySetup.calls, Droppable <- DailySetup.droppable, Ops <- DailySetup.ops, Rests <- DailySetup.rests,
    Drafts <- DailySetup.drafts, Faults <- DailySetup.faults,
    pc <- day_pc, op <- day_op, base <- day_base, seen <- day_seen, text <- day_text, note <- day_note,
    template <- day_template, late <- day_late, past <- day_past, landed <- day_landed, disturbed <- day_disturbed

\* DayP and Day are two names of one specification: their definitions expand to the same.
LEMMA DailySame ==
    /\ DayP!DailyAssumption
    /\ Day!Init => DayP!Init
    /\ Day!Next => DayP!Next
    /\ UNCHANGED dailyVars => UNCHANGED DayP!vars
    /\ DayP!TypeOK => Day!TypeOK
    /\ DayP!FailuresExplained => Day!FailuresExplained
    /\ DayP!Adds => Day!Adds
<1>1. DayP!DailyAssumption
  BY ServerAssumption
  DEF Day!Tools, DayP!Tools, Day!Marks, DayP!Marks, Day!Contents, DayP!Contents, Day!DailyAssumption,
      DayP!DailyAssumption
<1>2. Day!Init => DayP!Init
  BY DEF Day!Init, DayP!Init
<1>3. Day!Next => DayP!Next
  BY DEF Day!Locked, DayP!Locked, Day!At, DayP!At, Day!Go, DayP!Go, Day!Fail, DayP!Fail, Day!Start, DayP!Start,
         Day!Acquire, DayP!Acquire, Day!AfterRead, DayP!AfterRead, Day!Unusable, DayP!Unusable, Day!ReadNote,
         DayP!ReadNote, Day!Repairable, DayP!Repairable, Day!ReadTemplate, DayP!ReadTemplate, Day!Change,
         DayP!Change, Day!CreateNote, DayP!CreateNote, Day!Written, DayP!Written, Day!Accepts, DayP!Accepts,
         Day!Write, DayP!Write, Day!ReadBack, DayP!ReadBack, Day!Refresh, DayP!Refresh, Day!InProgress,
         DayP!InProgress, Day!Outside, DayP!Outside, Day!Drop, DayP!Drop, Day!LateWrite, DayP!LateWrite,
         Day!Step, DayP!Step, Day!Next, DayP!Next
<1>4. UNCHANGED dailyVars => UNCHANGED DayP!vars
  BY DEF dailyVars, DayP!vars
<1>5. DayP!TypeOK => Day!TypeOK
  BY DEF Day!Marks, DayP!Marks, Day!Contents, DayP!Contents, Day!Locked, DayP!Locked, Day!PCs, DayP!PCs,
         Day!TypeOK, DayP!TypeOK
<1>6. DayP!FailuresExplained => Day!FailuresExplained
  BY DEF Day!At, DayP!At, Day!FailuresExplained, DayP!FailuresExplained
<1>7. DayP!Adds => Day!Adds
  BY DEF Day!At, DayP!At, Day!AsRead, DayP!AsRead, Day!Adds, DayP!Adds
<1> QED BY <1>1, <1>2, <1>3, <1>4, <1>5, <1>6, <1>7

LEMMA DailyRuns ==
    /\ ServerInit /\ "daily" \in active => DayP!Init
    /\ [ServerNext]_allVars => [DayP!Next]_(DayP!vars)
<1>1. ServerInit /\ "daily" \in active => DayP!Init
  BY DailySame DEF ServerInit
<1>2. [ServerNext]_allVars => [DayP!Next]_(DayP!vars)
  BY DailySame DEF ServerNext, OthersWait, allVars
<1> QED BY <1>1, <1>2

LEMMA DailySpec == ServerSpec => ("daily" \in active => DayP!Spec)
BY DailyRuns, PTL DEF ServerSpec, DayP!Spec

(***************************************************************************)
(* Skills                                                                  *)
(***************************************************************************)
SklP == INSTANCE SkillReloadProofs WITH
    Reloads <- SkillSetup.reloads, Clients <- SkillSetup.clients, Droppable <- SkillSetup.droppable,
    Map <- SkillSetup.map,
    Paths <- SkillSetup.paths, Resolved <- SkillSetup.resolved, Configured <- SkillSetup.configured,
    Vaults <- SkillSetup.vaults,
    MaxEdits <- SkillSetup.maxEdits, IoErrors <- SkillSetup.ioErrors,
    pc <- skl_pc, vault <- skl_vault, edits <- skl_edits, target <- skl_target, todo <- skl_todo, load <- skl_load,
    paths <- skl_paths, policy <- skl_policy, snapshot <- skl_snapshot, got <- skl_got, asked <- skl_asked

\* SklP and Skl are two names of one specification: their definitions expand to the same.
LEMMA SkillsSame ==
    /\ SklP!SkillAssumption
    /\ Skl!Init => SklP!Init
    /\ Skl!Next => SklP!Next
    /\ UNCHANGED skillVars => UNCHANGED SklP!vars
    /\ SklP!TypeOK => Skl!TypeOK
    /\ SklP!PublishedIsPrivate => Skl!PublishedIsPrivate
    /\ SklP!ReloadNotUndone => Skl!ReloadNotUndone
    /\ SklP!RespectsReload => Skl!RespectsReload
<1>1. SklP!SkillAssumption
  BY ServerAssumption
  DEF Skl!VaultType, SklP!VaultType, Skl!SkillAssumption, SklP!SkillAssumption
<1>2. Skl!Init => SklP!Init
  BY DEF Skl!Calls, SklP!Calls, Skl!NoLoad, SklP!NoLoad, Skl!Rules, SklP!Rules, Skl!Candidates,
         SklP!Candidates, Skl!Skills, SklP!Skills, Skl!Init, SklP!Init
<1>3. Skl!Next => SklP!Next
  BY DEF Skl!diskVars, SklP!diskVars, Skl!Calls, SklP!Calls, Skl!Reloading, SklP!Reloading, Skl!Writing,
         SklP!Writing, Skl!NoLoad, SklP!NoLoad, Skl!Rules, SklP!Rules, Skl!Candidates, SklP!Candidates,
         Skl!Skills, SklP!Skills, Skl!At, SklP!At, Skl!Go, SklP!Go, Skl!Writer, SklP!Writer, Skl!Start,
         SklP!Start, Skl!Acquire, SklP!Acquire, Skl!LoadMap, SklP!LoadMap, Skl!LoadSkill, SklP!LoadSkill,
         Skl!LoadEnd, SklP!LoadEnd, Skl!Lock, SklP!Lock, Skl!ReplacePolicy, SklP!ReplacePolicy,
         Skl!StoreSnapshot, SklP!StoreSnapshot, Skl!Blocked, SklP!Blocked, Skl!Begin, SklP!Begin, Skl!Check,
         SklP!Check, Skl!Content, SklP!Content, Skl!Recheck, SklP!Recheck, Skl!Prompt, SklP!Prompt, Skl!Edit,
         SklP!Edit, Skl!Drop, SklP!Drop, Skl!Reload, SklP!Reload, Skl!Client, SklP!Client, Skl!Next, SklP!Next
<1>4. UNCHANGED skillVars => UNCHANGED SklP!vars
  BY DEF skillVars, SklP!vars, SklP!diskVars
<1>5. SklP!TypeOK => Skl!TypeOK
  BY DEF Skl!Versions, SklP!Versions, Skl!Loads, SklP!Loads, Skl!Calls, SklP!Calls, Skl!Reloading,
         SklP!Reloading, Skl!PCs, SklP!PCs, Skl!TypeOK, SklP!TypeOK
<1>6. SklP!PublishedIsPrivate => Skl!PublishedIsPrivate
  BY DEF Skl!Writing, SklP!Writing, Skl!Writer, SklP!Writer, Skl!PublishedIsPrivate, SklP!PublishedIsPrivate
<1>7. SklP!ReloadNotUndone => Skl!ReloadNotUndone
  BY DEF Skl!At, SklP!At, Skl!ReloadNotUndone, SklP!ReloadNotUndone
<1>8. SklP!RespectsReload => Skl!RespectsReload
  BY DEF Skl!Writing, SklP!Writing, Skl!At, SklP!At, Skl!Writer, SklP!Writer, Skl!RespectsReload,
         SklP!RespectsReload
<1> QED BY <1>1, <1>2, <1>3, <1>4, <1>5, <1>6, <1>7, <1>8

LEMMA SkillsRuns ==
    /\ ServerInit /\ "skills" \in active => SklP!Init
    /\ [ServerNext]_allVars => [SklP!Next]_(SklP!vars)
<1>1. ServerInit /\ "skills" \in active => SklP!Init
  BY SkillsSame DEF ServerInit
<1>2. [ServerNext]_allVars => [SklP!Next]_(SklP!vars)
  BY SkillsSame DEF ServerNext, OthersWait, allVars
<1> QED BY <1>1, <1>2

LEMMA SkillsSpec == ServerSpec => ("skills" \in active => SklP!Spec)
BY SkillsRuns, PTL DEF ServerSpec, SklP!Spec

(***************************************************************************)
(* Patterns                                                                *)
(***************************************************************************)
PatP == INSTANCE PathPatternsProofs WITH
    Symbols <- PatternSetup.symbols, Lower <- PatternSetup.lower, Patterns <- PatternSetup.patterns,
    Pieces <- PatternSetup.pieces, Paths <- PatternSetup.paths,
    pattern <- pat_pattern, path <- pat_path, phase <- pat_phase, matched <- pat_matched, from <- pat_from

\* PatP and Pat are two names of one specification: their definitions expand to the same.
LEMMA PatternsSame ==
    /\ PatP!PatternAssumption
    /\ Pat!Init => PatP!Init
    /\ Pat!Next => PatP!Next
    /\ UNCHANGED patternVars => UNCHANGED PatP!vars
    /\ PatP!TypeOK => Pat!TypeOK
    /\ PatP!MatchersAgree => Pat!MatchersAgree
<1>1. PatP!PatternAssumption
  BY ServerAssumption
  DEF Pat!HasStar, PatP!HasStar, Pat!OccursAt, PatP!OccursAt, Pat!SplitsAtStars, PatP!SplitsAtStars,
         Pat!PatternAssumption, PatP!PatternAssumption
<1>2. Pat!Init => PatP!Init
  BY DEF Pat!Init, PatP!Init
<1>3. Pat!Next => PatP!Next
  BY DEF Pat!OccursAt, PatP!OccursAt, Pat!HasStar, PatP!HasStar, Pat!Subtree, PatP!Subtree, Pat!AnySuffix,
         PatP!AnySuffix, Pat!Conflicts, PatP!Conflicts, Pat!IsSubtree, PatP!IsSubtree, Pat!IsAnySuffix,
         PatP!IsAnySuffix, Pat!Folder, PatP!Folder, Pat!Suffix, PatP!Suffix, Pat!Replace, PatP!Replace, Pat!Ask,
         PatP!Ask, Pat!Answer, PatP!Answer, Pat!SubtreeRule, PatP!SubtreeRule, Pat!InBasename, PatP!InBasename,
         Pat!ConflictRule, PatP!ConflictRule, Pat!EndsWith, PatP!EndsWith, Pat!SuffixRule, PatP!SuffixRule,
         Pat!ExactRule, PatP!ExactRule, Pat!Piece, PatP!Piece, Pat!FirstPiece, PatP!FirstPiece, Pat!Occurrences,
         PatP!Occurrences, Pat!MiddlePiece, PatP!MiddlePiece, Pat!LastPiece, PatP!LastPiece, Pat!Next, PatP!Next
<1>4. UNCHANGED patternVars => UNCHANGED PatP!vars
  BY DEF patternVars, PatP!vars
<1>5. PatP!TypeOK => Pat!TypeOK
  BY DEF Pat!TypeOK, PatP!TypeOK
<1>6. PatP!MatchersAgree => Pat!MatchersAgree
  BY DEF Pat!Atom, PatP!Atom, Pat!Subtree, PatP!Subtree, Pat!AnySuffix, PatP!AnySuffix, Pat!Conflicts,
         PatP!Conflicts, Pat!OccursAt, PatP!OccursAt, Pat!AlikeAt, PatP!AlikeAt, Pat!IsSubtree, PatP!IsSubtree,
         Pat!IsAnySuffix, PatP!IsAnySuffix, Pat!Folder, PatP!Folder, Pat!Suffix, PatP!Suffix, Pat!DenySource,
         PatP!DenySource, Pat!Spans, PatP!Spans, Pat!Takes, PatP!Takes, Pat!Aligned, PatP!Aligned, Pat!Reaches,
         PatP!Reaches, Pat!Blocked, PatP!Blocked, Pat!InLowerCase, PatP!InLowerCase, Pat!MatchersAgree,
         PatP!MatchersAgree
<1> QED BY <1>1, <1>2, <1>3, <1>4, <1>5, <1>6

LEMMA PatternsRun ==
    /\ ServerInit /\ "patterns" \in active => PatP!Init
    /\ [ServerNext]_allVars => [PatP!Next]_(PatP!vars)
<1>1. ServerInit /\ "patterns" \in active => PatP!Init
  BY PatternsSame DEF ServerInit
<1>2. [ServerNext]_allVars => [PatP!Next]_(PatP!vars)
  BY PatternsSame DEF ServerNext, OthersWait, allVars
<1> QED BY <1>1, <1>2

LEMMA PatternsSpec == ServerSpec => ("patterns" \in active => PatP!Spec)
BY PatternsRun, PTL DEF ServerSpec, PatP!Spec

\* Framework calls report what became of the file they published, whatever the other
\* parts do meanwhile (write_metadata).
THEOREM ServerReportsTruthfully == ServerSpec => []PublicationReported
<1>1. RegP!Spec => []RegP!PublicationReported
  BY RegistrySame, RegP!ReportsAreTruthful
<1>2. RegP!PublicationReported => Reg!PublicationReported
  BY RegistrySame
<1>3. ("registry" \in active => Reg!PublicationReported) => PublicationReported
  BY DEF PublicationReported
<1>4. [ServerNext]_allVars => (("registry" \in active)' => "registry" \in active)
  BY ActiveKept
<1> QED BY <1>1, <1>2, <1>3, <1>4, RegistrySpec, PTL DEF ServerSpec

\* Daily tools do not fail each other (Framework::daily).
THEOREM ServerDailyFailuresExplained == ServerSpec => []FailuresExplained
<1>1. DayP!Spec => []DayP!FailuresExplained
  BY DailySame, DayP!DailyFailuresExplained
<1>2. DayP!FailuresExplained => Day!FailuresExplained
  BY DailySame
<1>3. ("daily" \in active => Day!FailuresExplained) => FailuresExplained
  BY DEF FailuresExplained
<1>4. [ServerNext]_allVars => (("daily" \in active)' => "daily" \in active)
  BY ActiveKept
<1> QED BY <1>1, <1>2, <1>3, <1>4, DailySpec, PTL DEF ServerSpec

\* What a client can learn of from the snapshot is private (reload_skills).
THEOREM ServerSkillsArePrivate == ServerSpec => []PublishedIsPrivate
<1>1. SklP!Spec => []SklP!PublishedIsPrivate
  BY SkillsSame, SklP!SkillsArePrivate
<1>2. SklP!PublishedIsPrivate => Skl!PublishedIsPrivate
  BY SkillsSame
<1>3. ("skills" \in active => Skl!PublishedIsPrivate) => PublishedIsPrivate
  BY DEF PublishedIsPrivate
<1>4. [ServerNext]_allVars => (("skills" \in active)' => "skills" \in active)
  BY ActiveKept
<1> QED BY <1>1, <1>2, <1>3, <1>4, SkillsSpec, PTL DEF ServerSpec

\* A reload that has returned is not undone by an older one (the skill_reload mutex).
THEOREM ServerReloadsAreNotUndone == ServerSpec => []ReloadNotUndone
<1>1. SklP!Spec => []SklP!ReloadNotUndone
  BY SkillsSame, SklP!ReloadsAreNotUndone
<1>2. SklP!ReloadNotUndone => Skl!ReloadNotUndone
  BY SkillsSame
<1>3. ("skills" \in active => Skl!ReloadNotUndone) => ReloadNotUndone
  BY DEF ReloadNotUndone
<1>4. [ServerNext]_allVars => (("skills" \in active)' => "skills" \in active)
  BY ActiveKept
<1> QED BY <1>1, <1>2, <1>3, <1>4, SkillsSpec, PTL DEF ServerSpec

\* A daily append or repair costs no entry and no text, unless the version that its client
\* named was brought back without the lock after the call had read another; then it costs
\* only entries it did not read (Framework::daily).
THEOREM ServerDailyOnlyAdds == ServerSpec => OnlyAdds
<1>1. DayP!Spec => [][DayP!Adds]_(DayP!vars)
  BY DailySame, DayP!DailyToolsOnlyAdd DEF DayP!OnlyAdds
<1>2. DayP!Adds => Day!Adds
  BY DailySame
<1>3. UNCHANGED DayP!vars => Day!Adds
  BY DEF DayP!vars, Day!Adds, Day!At
<1>4. [ServerNext]_allVars => (("daily" \in active)' => "daily" \in active)
  BY ActiveKept
<1> QED BY <1>1, <1>2, <1>3, <1>4, DailySpec, PTL DEF ServerSpec, OnlyAdds

\* A read that spans a reload returns nothing that the reload has made private
\* (VaultReader::read_note).
THEOREM ServerReadsAreRefused == ServerSpec => ReadsRespectReload
<1>1. SklP!Spec => [][SklP!RespectsReload]_(SklP!vars)
  BY SkillsSame, SklP!SpanningReadsAreRefused DEF SklP!ReadsRespectReload
<1>2. SklP!RespectsReload => Skl!RespectsReload
  BY SkillsSame
<1>3. UNCHANGED SklP!vars => Skl!RespectsReload
  BY DEF SklP!vars, SklP!diskVars, Skl!RespectsReload
<1>4. [ServerNext]_allVars => (("skills" \in active)' => "skills" \in active)
  BY ActiveKept
<1> QED BY <1>1, <1>2, <1>3, <1>4, SkillsSpec, PTL DEF ServerSpec, ReadsRespectReload

\* The registry tools are linearizable in the server too: whatever runs between the
\* steps of a call, it changes the registry in one of them or not at all
\* (registrations, write_metadata).
THEOREM ServerRegistryIsAtomic == ServerSpec => RegistryIsAtomic
<1>1. RegP!Spec => RegP!Atomic!Init /\ [][RegP!ActsAtomically]_(RegP!vars)
  BY RegistrySame, RegP!RegistryIsLinearizable DEF RegP!ImplementsAtomicRegistry
<1>2. (RegP!ActsAtomically => Reg!ActsAtomically) /\ (RegP!Atomic!Init => Reg!Atomic!Init)
  BY RegistrySame
<1>3. UNCHANGED RegP!vars => RegP!ActsAtomically
  BY DEF RegP!vars, RegP!ActsAtomically, RegP!Atomic!vars
<1>4. [ServerNext]_allVars => (("registry" \in active)' => "registry" \in active)
  BY ActiveKept
<1> QED BY <1>1, <1>2, <1>3, <1>4, RegistrySpec, PTL DEF ServerSpec, RegistryIsAtomic

\* What the scan of matches_vault_path_pattern takes is denied by compile_deny_pattern's
\* expression, and what it leaves is not if no upper case is involved.
THEOREM ServerMatchersAgree == ServerSpec => []MatchersAgree
<1>1. PatP!Spec => []PatP!MatchersAgree
  BY PatternsSame, PatP!ScanAgreesWithRegex
<1>2. PatP!MatchersAgree => Pat!MatchersAgree
  BY PatternsSame
<1>3. ("patterns" \in active => Pat!MatchersAgree) => MatchersAgree
  BY DEF MatchersAgree
<1>4. [ServerNext]_allVars => (("patterns" \in active)' => "patterns" \in active)
  BY ActiveKept
<1> QED BY <1>1, <1>2, <1>3, <1>4, PatternsSpec, PTL DEF ServerSpec

(***************************************************************************)
(* Bearer tokens                                                           *)
(***************************************************************************)
LEMMA TokensRun ==
    /\ ServerInit /\ "tokens" \in active => Tok!Init
    /\ [ServerNext]_allVars => [Tok!Next]_(Tok!vars)
<1>1. ServerInit /\ "tokens" \in active => Tok!Init
  BY DEF ServerInit
<1>2. UNCHANGED tokenVars => UNCHANGED Tok!vars
  BY DEF tokenVars, Tok!vars
<1>3. [ServerNext]_allVars => [Tok!Next]_(Tok!vars)
  BY <1>2 DEF ServerNext, OthersWait, allVars
<1> QED BY <1>1, <1>3

LEMMA TokensSpec == ServerSpec => ("tokens" \in active => Tok!Spec)
BY TokensRun, PTL DEF ServerSpec, Tok!Spec

TokenAnswers == [keys: {Absent} \cup SUBSET BearerSetup.keys, at: 0..BearerSetup.maxClock]

\* No issuer asked before has vouched for the token.
NobodyVouched(n) ==
    \A i \in 1..n : ~Tok!Accepts(BearerSetup.issuers[i], tok_answers[i].keys, tok_answers[i].at)

\* The verdict is that of the last issuer asked, on its answer of that moment: the clock
\* stands still from then on.
TokenInv ==
    /\ tok_token \in BearerSetup.tokens /\ tok_asked \in 0..Len(BearerSetup.issuers)
    /\ tok_clock \in 0..BearerSetup.maxClock
    /\ tok_answers \in Seq(TokenAnswers) /\ Len(tok_answers) = tok_asked
    /\ \A i \in 1..tok_asked : tok_answers[i].at <= tok_clock
    /\ \/ tok_verdict = Tok!Pending /\ NobodyVouched(tok_asked)
       \/ tok_verdict = Tok!Missing /\ Tok!HeaderRefused
       \/ tok_verdict = Tok!Invalid /\ Tok!HeaderRefused
       \/ tok_verdict = Tok!Invalid /\ tok_asked = Len(BearerSetup.issuers) /\ NobodyVouched(tok_asked)
       \/ /\ tok_asked # 0 /\ tok_answers[tok_asked].at = tok_clock
          /\ Tok!Accepts(BearerSetup.issuers[tok_asked], tok_answers[tok_asked].keys, tok_clock)
          /\ tok_verdict = Tok!Granted(BearerSetup.issuers[tok_asked], Tok!ClaimScopes)

LEMMA TokenConstants == Len(BearerSetup.issuers) \in Nat /\ BearerSetup.maxClock \in Nat
BY ServerAssumption DEF Tok!TokenAssumption

LEMMA TokenStarts == Tok!Init => TokenInv
BY TokenConstants DEF Tok!Init, TokenInv, NobodyVouched

LEMMA AcceptsKept ==
    ASSUME tok_token' = tok_token, NEW iss, NEW ks, NEW at
    PROVE  Tok!Accepts(iss, ks, at)' <=> Tok!Accepts(iss, ks, at)
<1>1. Tok!Candidates(ks)' = Tok!Candidates(ks)
  BY DEF Tok!Candidates, Tok!Compatible
<1>2. Tok!ValidClaims(iss, at)' <=> Tok!ValidClaims(iss, at)
  BY DEF Tok!ValidClaims
<1> QED BY <1>1, <1>2 DEF Tok!Accepts

LEMMA TryKeepsInv ==
    ASSUME TokenInv, NEW keys \in {Absent} \cup SUBSET BearerSetup.keys, Tok!Try(keys)
    PROVE  TokenInv'
<1>1. PICK n \in Nat, now \in 0..BearerSetup.maxClock, last \in TokenAnswers :
          /\ n = tok_asked /\ now = tok_clock /\ last = [keys |-> keys, at |-> tok_clock]
  <2>1. tok_asked \in Nat /\ tok_clock \in 0..BearerSetup.maxClock
    BY DEF TokenInv
  <2>2. [keys |-> keys, at |-> tok_clock] \in TokenAnswers
    BY <2>1 DEF TokenAnswers
  <2> QED BY <2>1, <2>2
<1>2. /\ tok_verdict = Tok!Pending /\ n < Len(BearerSetup.issuers)
      /\ tok_asked' = n + 1 /\ tok_answers' = Append(tok_answers, last)
      /\ UNCHANGED <<tok_token, tok_clock>>
  <2>1. /\ tok_verdict = Tok!Pending /\ tok_asked < Len(BearerSetup.issuers)
        /\ tok_asked' = tok_asked + 1
        /\ tok_answers' = Append(tok_answers, [keys |-> keys, at |-> tok_clock])
        /\ UNCHANGED <<tok_token, tok_clock>>
    BY DEF Tok!Try
  <2> QED BY <1>1, <2>1
<1>3. NobodyVouched(n)
  BY <1>1, <1>2 DEF TokenInv, Tok!Pending, Tok!Missing, Tok!Invalid, Tok!Granted
<1>4. /\ tok_answers' \in Seq(TokenAnswers) /\ Len(tok_answers') = n + 1
      /\ tok_answers'[n + 1] = last
      /\ \A i \in 1..n : tok_answers'[i] = tok_answers[i]
  BY <1>1, <1>2 DEF TokenInv
<1>5. \A i \in 1..(n + 1) : i = n + 1 \/ i \in 1..n
  OBVIOUS
<1>6. \A i \in 1..(n + 1) : tok_answers'[i].at <= now
  BY <1>1, <1>4, <1>5, TokenConstants DEF TokenInv
<1>7. \A iss, ks, at : Tok!Accepts(iss, ks, at)' <=> Tok!Accepts(iss, ks, at)
  BY <1>2, AcceptsKept
<1>8. Tok!ClaimScopes' = Tok!ClaimScopes
  BY <1>2 DEF Tok!ClaimScopes
<1>9. CASE Tok!Accepts(BearerSetup.issuers[n + 1], keys, now)
  <2>1. tok_verdict' = Tok!Granted(BearerSetup.issuers[n + 1], Tok!ClaimScopes)
    BY <1>1, <1>2, <1>9 DEF Tok!Try
  <2>2. tok_verdict' = Tok!Granted(BearerSetup.issuers[n + 1], Tok!ClaimScopes)'
    BY <2>1, <1>8 DEF Tok!Granted
  <2>3. Tok!Accepts(BearerSetup.issuers[n + 1], keys, now)'
    BY <1>7, <1>9
  <2> QED BY <1>1, <1>2, <1>4, <1>6, <2>2, <2>3 DEF TokenInv
<1>10. CASE ~Tok!Accepts(BearerSetup.issuers[n + 1], keys, now)
  <2>1. tok_verdict' = Tok!Pending
    BY <1>1, <1>2, <1>10 DEF Tok!Try
  <2>2. NobodyVouched(n + 1)'
    BY <1>1, <1>3, <1>4, <1>5, <1>7, <1>10 DEF NobodyVouched
  <2> QED BY <1>1, <1>2, <1>4, <1>6, <2>1, <2>2 DEF TokenInv, Tok!Pending
<1> QED BY <1>9, <1>10

LEMMA TokenSteps == TokenInv /\ [Tok!Next]_(Tok!vars) => TokenInv'
<1> SUFFICES ASSUME TokenInv, [Tok!Next]_(Tok!vars) PROVE TokenInv'
  OBVIOUS
<1>1. CASE \E keys \in {Absent} \cup SUBSET BearerSetup.keys : Tok!Try(keys)
  BY <1>1, TryKeepsInv
<1>2. ASSUME tok_token' = tok_token
      PROVE  /\ \A iss, ks, at : Tok!Accepts(iss, ks, at)' <=> Tok!Accepts(iss, ks, at)
             /\ Tok!HeaderRefused' <=> Tok!HeaderRefused
             /\ Tok!ClaimScopes' = Tok!ClaimScopes
  BY <1>2, AcceptsKept DEF Tok!HeaderRefused, Tok!ClaimScopes
<1>3. ASSUME UNCHANGED <<tok_token, tok_asked, tok_answers>>
      PROVE  \A n : n = tok_asked => (NobodyVouched(n)' <=> NobodyVouched(n))
  BY <1>2, <1>3 DEF NobodyVouched
<1>4. CASE Tok!Refuse
  BY <1>2, <1>3, <1>4 DEF Tok!Refuse, TokenInv
<1>5. CASE Tok!GiveUp
  <2>1. tok_asked = Len(BearerSetup.issuers) /\ tok_verdict = Tok!Pending /\ tok_verdict' = Tok!Invalid
    BY <1>5 DEF Tok!GiveUp
  <2>2. NobodyVouched(tok_asked)
    BY <2>1 DEF TokenInv, Tok!Pending, Tok!Missing, Tok!Invalid, Tok!Granted
  <2> QED BY <1>2, <1>3, <1>5, <2>1, <2>2 DEF Tok!GiveUp, TokenInv
<1>6. CASE Tok!Tick
  <2>1. tok_verdict = Tok!Pending /\ tok_verdict' = Tok!Pending /\ tok_clock' = tok_clock + 1
        /\ tok_clock < BearerSetup.maxClock
    BY <1>6 DEF Tok!Tick
  <2>2. NobodyVouched(tok_asked)
    BY <2>1 DEF TokenInv, Tok!Pending, Tok!Missing, Tok!Invalid, Tok!Granted
  <2>3. tok_clock' \in 0..BearerSetup.maxClock
    BY <2>1, TokenConstants DEF TokenInv
  <2>4. \A i \in 1..tok_asked : tok_answers[i].at <= tok_clock'
    <3> SUFFICES ASSUME NEW i \in 1..tok_asked PROVE tok_answers[i].at <= tok_clock'
      OBVIOUS
    <3>1. tok_answers[i].at \in Nat /\ tok_clock \in Nat
      <4>1. tok_answers[i] \in TokenAnswers /\ tok_clock \in 0..BearerSetup.maxClock
        BY DEF TokenInv
      <4> QED BY <4>1, TokenConstants DEF TokenAnswers
    <3> QED BY <2>1, <3>1 DEF TokenInv
  <2> QED BY <1>2, <1>3, <1>6, <2>1, <2>2, <2>3, <2>4 DEF Tok!Tick, TokenInv
<1>7. CASE UNCHANGED Tok!vars
  <2>1. UNCHANGED <<tok_token, tok_asked, tok_answers, tok_clock, tok_verdict>>
    BY <1>7 DEF Tok!vars
  <2>2. \A iss, ks, at : Tok!Granted(iss, ks)' = Tok!Granted(iss, ks)
    BY DEF Tok!Granted
  <2> QED BY <1>2, <1>3, <2>1, <2>2 DEF TokenInv
<1> QED BY <1>1, <1>4, <1>5, <1>6, <1>7 DEF Tok!Next

\* A token is granted its scopes only while it is valid and by the key that the issuer it
\* names published for it (the loop of verify, valid_claims, compatible).
THEOREM TokensAreVouchedFor == ServerSpec => []GrantedIsVouchedFor
<1>1. TokenInv => Tok!GrantedIsVouchedFor
  <2> SUFFICES ASSUME TokenInv, tok_verdict.kind = "granted"
               PROVE  Tok!GrantedIsVouchedFor
    BY DEF Tok!GrantedIsVouchedFor
  <2> DEFINE n == tok_asked
             iss == BearerSetup.issuers[n]
             keys == tok_answers[n].keys
  <2>1. /\ n # 0 /\ tok_answers[n].at = tok_clock /\ Tok!Accepts(iss, keys, tok_clock)
        /\ tok_verdict = Tok!Granted(iss, Tok!ClaimScopes)
    BY DEF TokenInv, Tok!Pending, Tok!Missing, Tok!Invalid
  <2>2. n \in 1..n /\ iss = tok_token.iss /\ tok_verdict.issuer = tok_token.iss
    BY <2>1, TokenConstants DEF TokenInv, Tok!Accepts, Tok!ValidClaims, Tok!Granted
  <2>3. tok_token.exp > tok_clock /\ (tok_token.nbf = Unset \/ tok_token.nbf <= tok_clock)
    BY <2>1 DEF Tok!Accepts, Tok!ValidClaims
  <2>4. tok_token.signer \in keys /\ \A key \in keys \ {tok_token.signer} : ~Tok!Compatible(key)
    <3>1. PICK key \in keys : Tok!Candidates(keys) = {key} /\ tok_token.signer = key
      BY <2>1 DEF Tok!Accepts
    <3> QED BY <3>1 DEF Tok!Candidates
  <2> QED BY <2>2, <2>3, <2>4 DEF Tok!GrantedIsVouchedFor
<1>2. ("tokens" \in active => Tok!GrantedIsVouchedFor) => GrantedIsVouchedFor
  BY DEF GrantedIsVouchedFor
<1>3. [ServerNext]_allVars => (("tokens" \in active)' => "tokens" \in active)
  BY ActiveKept
<1> QED BY <1>1, <1>2, <1>3, TokenStarts, TokenSteps, TokensSpec, PTL DEF ServerSpec, Tok!Spec

\* A token is refused only if no trusted issuer vouched for it when it was asked (the loop
\* of verify goes on whatever one of them does).
THEOREM TokensAreRefusedForCause == ServerSpec => []RefusedForCause
<1>1. TokenInv => Tok!RefusedForCause
  BY DEF TokenInv, Tok!RefusedForCause, NobodyVouched, Tok!Pending, Tok!Missing, Tok!Invalid, Tok!Granted
<1>2. ("tokens" \in active => Tok!RefusedForCause) => RefusedForCause
  BY DEF RefusedForCause
<1>3. [ServerNext]_allVars => (("tokens" \in active)' => "tokens" \in active)
  BY ActiveKept
<1> QED BY <1>1, <1>2, <1>3, TokenStarts, TokenSteps, TokensSpec, PTL DEF ServerSpec, Tok!Spec

(***************************************************************************)
(* Requests                                                                *)
(***************************************************************************)
LEMMA RequestsRun ==
    /\ ServerInit /\ "requests" \in active => Rq!Init
    /\ [ServerNext]_allVars => [Rq!Next]_(Rq!vars)
<1>1. ServerInit /\ "requests" \in active => Rq!Init
  BY DEF ServerInit
<1>2. UNCHANGED requestVars => UNCHANGED Rq!vars
  BY DEF requestVars, Rq!vars
<1>3. [ServerNext]_allVars => [Rq!Next]_(Rq!vars)
  BY <1>2 DEF ServerNext, OthersWait, allVars
<1> QED BY <1>1, <1>3

LEMMA RequestsSpec == ServerSpec => ("requests" \in active => Rq!Spec)
BY RequestsRun, PTL DEF ServerSpec, Rq!Spec

\* The tables agree: what the schema of a tool requires is what its handler demands, and
\* every tool of a server's table has a handler.
LEMMA TablesAgree ==
    ASSUME NEW tool \in Rq!AllTools
    PROVE  Rq!Schema(tool) = Rq!Demanded(tool)
<1>1. PICK s \in Rq!Scopes : tool \in Rq!ToolsOf[s]
  BY DEF Rq!AllTools
<1> QED BY <1>1 DEF Rq!Schema, Rq!Demanded, Rq!ByPath, Rq!WriteTools, Rq!DailyTools, Rq!ToolsOf, Rq!Scopes, Rq!OcrTools

LEMMA ToolsAreHandled ==
    ASSUME NEW ocr, NEW tool \in Rq!Registry(ocr)
    PROVE  Rq!Handled(tool, ocr)
<1>1. PICK s \in Rq!Scopes : tool \in Rq!ToolsOf[s]
  BY DEF Rq!AllTools, Rq!Registry
<1> QED BY <1>1 DEF Rq!Registry, Rq!Handled, Rq!ByPath, Rq!WriteTools, Rq!DailyTools, Rq!NoteTools, Rq!FrameworkTools,
                   Rq!OwnTools, Rq!ToolsOf, Rq!Scopes, Rq!OcrTools

\* The scope a tool is listed under covers what its handler may change.
LEMMA ScopesCoverEffects ==
    ASSUME NEW s \in Rq!Scopes, NEW tool \in Rq!ToolsOf[s]
    PROVE  /\ "notes" \in Rq!Effects(tool) =>
                \/ s \in {"vault_write", "vault_delete", "vault_delete_hard", "vault_capture", "daily_append", "admin"}
                \/ s = "vault_read" /\ tool = "daily_note_get"
           /\ "trash" \in Rq!Effects(tool) => s = "vault_delete"
           /\ "gone" \in Rq!Effects(tool) => s = "vault_delete_hard"
           /\ Rq!Effects(tool) \cap {"framework", "policy", "jobs"} # {} => s = "admin"
           /\ Rq!Effects(tool) \subseteq {"notes", "trash", "gone", "framework", "policy", "jobs"}
BY DEF Rq!Effects, Rq!WriteTools, Rq!DailyTools, Rq!NoteTools, Rq!ToolsOf, Rq!Scopes, Rq!OcrTools

\* What the client's token entitles it to, the same in every exchange.
Rights == IF rq_config.mode = "development" THEN Rq!Development ELSE Rq!Parsed
Entitled(tool) == tool \in Rq!Registry(rq_config.ocr) /\ \E s \in Rights : tool \in Rq!ToolsOf[s]

\* The scopes in force are the client's rights, it was told of no tool beyond them, and
\* before a handler runs nothing is changed and nothing is answered.
RequestInv ==
    /\ Rq!TypeOK
    /\ \/ rq_phase \notin {"serve", "restore"} /\ rq_auth = {}
       \/ rq_auth = Rights /\ (rq_config.mode # "development" => rq_token.form = "jwt")
    /\ rq_phase \notin {"restore", "answered"} => rq_effects = {} /\ rq_answer = Rq!NoAnswer
    /\ rq_phase = "restore" =>
          rq_request.route = "mcp" /\ rq_answer = Rq!Answer(200, rq_id, rq_answer.code)
    /\ \A tool \in rq_listed : Entitled(tool)
    /\ Rq!ScopesBoundEffects /\ Rq!ListedToolsWork /\ Rq!AnswersBearTheirId

LEMMA RequestConstants ==
    /\ Rq!AnyRequest \in HttpSetup.requests
    /\ \A r \in HttpSetup.requests : r.id \in Rq!RequestIds
    /\ HttpSetup.default \subseteq Rq!Scopes
BY ServerAssumption DEF Rq!RequestAssumption, Rq!AnyRequest, Rq!RequestType

\* The number an id is read as is an id again, and so is the text it travels as.
LEMMA IdsStayIds ==
    ASSUME NEW i \in Rq!RequestIds
    PROVE  Rq!Normalised(i) \in Rq!RequestIds /\ Rq!Mapped(Rq!Normalised(i)) \in Rq!RequestIds
<1>1. Rq!Normalised(i) \in Rq!RequestIds
  BY DEF Rq!Normalised, Rq!RequestIds, Rq!Numbers
<1>2. \A j \in Rq!RequestIds : Rq!Mapped(j) \in Rq!RequestIds
  BY DEF Rq!Mapped, Rq!RequestIds, Rq!Numbers
<1> QED BY <1>1, <1>2

LEMMA RequestStarts == Rq!Init => RequestInv
BY RequestConstants
DEF Rq!Init, RequestInv, Rq!TypeOK, Rq!NoAnswer, Rq!RequestIds, Rq!ScopesBoundEffects, Rq!ListedToolsWork,
    Rq!AnswersBearTheirId, Rq!Normalised

LEMMA RightsAreScopes == Rights \subseteq Rq!Scopes /\ Rq!Parsed \subseteq rq_token.claim
BY RequestConstants DEF Rights, Rq!Development, Rq!Parsed

\* Sending, receiving and the preflight.
LEMMA ExchangeKeepsInv ==
    ASSUME RequestInv, Rq!Send \/ Rq!Receive \/ Rq!Preflight
    PROVE  RequestInv'
<1>1. UNCHANGED <<rq_config, rq_token, rq_listed>>
  BY DEF Rq!Send, Rq!Receive, Rq!Preflight
<1>2. (\A tool \in rq_listed : Entitled(tool))' /\ Rights' = Rights
  BY <1>1 DEF RequestInv, Entitled, Rights, Rq!Development, Rq!Parsed
<1>3. CASE Rq!Send
  BY <1>1, <1>2, <1>3
  DEF Rq!Send, Rq!Finish, Rq!Answer, Rq!NoAnswer, RequestInv, Rq!TypeOK, Rq!RequestIds, Rq!ScopesBoundEffects,
      Rq!ListedToolsWork, Rq!AnswersBearTheirId
<1>4. CASE Rq!Receive
  BY <1>1, <1>2, <1>4, RequestConstants
  DEF Rq!Receive, Rq!NoAnswer, RequestInv, Rq!TypeOK, Rq!RequestIds, Rq!ScopesBoundEffects, Rq!ListedToolsWork,
      Rq!AnswersBearTheirId
<1>5. CASE Rq!Preflight
  <2>1. /\ Rq!Id \in Rq!RequestIds /\ Rq!Mapped(Rq!Id) \in Rq!RequestIds
        /\ rq_phase = "preflight" /\ rq_effects = {}
        /\ UNCHANGED <<rq_config, rq_token, rq_request, rq_auth, rq_effects, rq_listed>>
    BY <1>5, RequestConstants, IdsStayIds DEF Rq!Preflight, RequestInv, Rq!TypeOK, Rq!Id
  <2>2. CASE rq_phase' = "answered" /\ rq_answer' = Rq!Objection /\ rq_id' = rq_id
    <3>1. /\ Rq!Objection.id \in Rq!RequestIds /\ Rq!Objection.id \in {"absent", Rq!Id}
          /\ Rq!Objection.status = 200 => Rq!Objection.id = Rq!Id
          /\ rq_request.method = "tools/call" => Rq!Objection.code \notin {"unknown", "forbidden", "arguments"}
      <4>1. \/ Rq!Objection = Rq!Answer(413, "absent", "oversize")
            \/ Rq!Objection = Rq!Answer(400, "absent", "parse")
            \/ Rq!Objection = Rq!Answer(400, Rq!Id, "headers")
            \/ Rq!Objection = Rq!Answer(202, "absent", "none")
            \/ Rq!Objection = Rq!Answer(200, Rq!Id, "params")
            \/ Rq!Objection = Rq!Answer(200, Rq!Id, "result")
            \/ /\ Rq!Objection = Rq!Answer(200, Rq!Id, "unknown")
               /\ rq_request.method # "tools/call"
            \/ Rq!Objection = Rq!NoAnswer
        BY DEF Rq!Objection, Rq!Forwarded
      <4> QED BY <2>1, <4>1 DEF Rq!Answer, Rq!NoAnswer, Rq!RequestIds
    <3> QED BY <1>2, <2>1, <2>2, <3>1
            DEF RequestInv, Rq!TypeOK, Rq!ScopesBoundEffects, Rq!ListedToolsWork, Rq!AnswersBearTheirId, Rq!Id
  <2>3. CASE rq_phase' = "auth" /\ rq_id' = Rq!Mapped(Rq!Id) /\ rq_answer' = rq_answer
    BY <1>2, <2>1, <2>3
    DEF RequestInv, Rq!TypeOK, Rq!NoAnswer, Rq!ScopesBoundEffects, Rq!ListedToolsWork, Rq!AnswersBearTheirId
  <2> QED BY <1>5, <2>2, <2>3 DEF Rq!Preflight, Rq!Finish
<1> QED BY <1>3, <1>4, <1>5

LEMMA AuthenticateKeepsInv ==
    ASSUME RequestInv, Rq!Authenticate
    PROVE  RequestInv'
<1>1. rq_phase = "auth" /\ UNCHANGED <<rq_config, rq_token, rq_request, rq_id, rq_effects, rq_listed>>
  BY DEF Rq!Authenticate
<1>2. rq_effects = {} /\ rq_answer = Rq!NoAnswer
  BY <1>1 DEF RequestInv
<1>3. (\A tool \in rq_listed : Entitled(tool))' /\ Rights' = Rights
  BY <1>1 DEF RequestInv, Entitled, Rights, Rq!Development, Rq!Parsed
<1>4. CASE /\ rq_auth' = Rights /\ (rq_config.mode # "development" => rq_token.form = "jwt")
           /\ rq_phase' = "serve" /\ rq_answer' = rq_answer
  BY <1>1, <1>2, <1>3, <1>4, RightsAreScopes
  DEF RequestInv, Rq!TypeOK, Rq!NoAnswer, Rq!ScopesBoundEffects, Rq!ListedToolsWork, Rq!AnswersBearTheirId
<1>5. ASSUME NEW code, rq_phase' = "answered", rq_answer' = Rq!Answer(401, "absent", code), rq_auth' = rq_auth
      PROVE  RequestInv'
  BY <1>1, <1>2, <1>3, <1>5
  DEF RequestInv, Rq!TypeOK, Rq!Answer, Rq!RequestIds, Rq!ScopesBoundEffects, Rq!ListedToolsWork,
      Rq!AnswersBearTheirId
<1> QED BY <1>4, <1>5 DEF Rq!Authenticate, Rq!Admitted, Rq!Refused, Rq!Finish, Rights

\* What a handler answers has the id that is mapped back afterwards.
LEMMA ServeKeepsInv ==
    ASSUME RequestInv, rq_phase = "serve", rq_request.route = "mcp", NEW code, Rq!Reply(code),
           UNCHANGED <<rq_config, rq_token, rq_request, rq_id, rq_auth>>,
           \A tool \in rq_listed' : Entitled(tool),
           rq_effects' \subseteq {"notes", "trash", "gone", "framework", "policy", "jobs", "prompt"},
           Rq!ScopesBoundEffects', Rq!ListedToolsWork'
    PROVE  RequestInv'
<1>1. /\ rq_phase' = "restore" /\ rq_answer' = Rq!Answer(200, rq_id, code)
      /\ rq_answer' = Rq!Answer(200, rq_id, rq_answer'.code) /\ rq_answer'.id = rq_id
  BY DEF Rq!Reply, Rq!Answer
<1>2. (\A tool \in rq_listed : Entitled(tool))' /\ Rights' = Rights
  BY DEF RequestInv, Entitled, Rights, Rq!Development, Rq!Parsed
<1>3. rq_listed' \subseteq Rq!AllTools
  BY DEF Entitled, Rq!Registry
<1>4. Rq!TypeOK'
  BY <1>1, <1>3 DEF RequestInv, Rq!TypeOK
<1>5. Rq!AnswersBearTheirId'
  BY <1>1 DEF Rq!AnswersBearTheirId
<1>6. (rq_answer = Rq!Answer(200, rq_id, rq_answer.code))'
  BY <1>1 DEF Rq!Answer
<1> QED BY <1>1, <1>2, <1>4, <1>5, <1>6 DEF RequestInv

LEMMA VisibleIsEntitled ==
    ASSUME RequestInv, rq_phase = "serve"
    PROVE  /\ rq_auth = Rights /\ \A tool \in Rq!Visible : Entitled(tool)
           /\ rq_config.mode # "development" => rq_token.form = "jwt" /\ rq_auth \subseteq rq_token.claim
BY RightsAreScopes DEF RequestInv, Entitled, Rights, Rq!Visible

LEMMA ListingKeepsInv ==
    ASSUME RequestInv, Rq!HttpListTools \/ Rq!ListTools \/ Rq!ListPrompts
    PROVE  RequestInv'
<1>1. /\ rq_phase = "serve" /\ rq_effects = {} /\ rq_effects' = {}
      /\ UNCHANGED <<rq_config, rq_token, rq_request, rq_id, rq_auth>>
  BY DEF Rq!HttpListTools, Rq!ListTools, Rq!ListPrompts, Rq!Serving, RequestInv
<1>2. Rq!ScopesBoundEffects'
  BY <1>1 DEF Rq!ScopesBoundEffects
<1>3. \A tool \in rq_listed' : Entitled(tool)
  BY <1>1, VisibleIsEntitled DEF Rq!HttpListTools, Rq!ListTools, Rq!ListPrompts, RequestInv
<1>4. CASE Rq!HttpListTools
  <2>1. /\ rq_request.route = "tools" /\ rq_phase' = "answered" /\ rq_answer' = Rq!Answer(200, "absent", "result")
        /\ rq_answer'.id = "absent" /\ rq_answer'.code = "result"
    BY <1>4 DEF Rq!HttpListTools, Rq!Finish, Rq!Answer
  <2>2. (\A tool \in rq_listed : Entitled(tool))' /\ Rights' = Rights
    BY <1>1, <1>3 DEF Entitled, Rights, Rq!Development, Rq!Parsed
  <2>3. Rq!TypeOK'
    BY <1>1, <1>3, <2>1 DEF RequestInv, Rq!TypeOK, Rq!RequestIds, Entitled, Rq!Registry
  <2>4. Rq!ListedToolsWork' /\ Rq!AnswersBearTheirId'
    BY <1>1, <2>1 DEF Rq!ListedToolsWork, Rq!AnswersBearTheirId
  <2> QED BY <1>1, <1>2, <2>1, <2>2, <2>3, <2>4 DEF RequestInv
<1>5. CASE Rq!ListTools
  <2>1. rq_request.method = "tools/list" /\ rq_request.route = "mcp" /\ Rq!Reply("result")
    BY <1>5 DEF Rq!ListTools, Rq!Serving
  <2>2. Rq!ListedToolsWork'
    BY <1>1, <2>1 DEF Rq!ListedToolsWork
  <2> QED BY <1>1, <1>2, <1>3, <2>1, <2>2, ServeKeepsInv
<1>6. CASE Rq!ListPrompts
  <2>1. /\ rq_request.method = "prompts/list" /\ rq_request.route = "mcp"
        /\ \E code \in {"result", "forbidden"} : Rq!Reply(code)
    BY <1>6 DEF Rq!ListPrompts, Rq!Serving
  <2>2. Rq!ListedToolsWork'
    BY <1>1, <2>1 DEF Rq!ListedToolsWork
  <2> QED BY <1>1, <1>2, <1>3, <2>1, <2>2, ServeKeepsInv
<1> QED BY <1>4, <1>5, <1>6

LEMMA GetPromptKeepsInv ==
    ASSUME RequestInv, Rq!GetPrompt
    PROVE  RequestInv'
<1>1. /\ rq_phase = "serve" /\ rq_effects = {} /\ rq_request.route = "mcp" /\ rq_request.method = "prompts/get"
      /\ UNCHANGED <<rq_config, rq_token, rq_request, rq_id, rq_auth, rq_listed>>
      /\ \E code \in {"forbidden", "unknown", "result"} : Rq!Reply(code)
      /\ rq_effects' = {} \/ ("skills_read" \in rq_auth /\ rq_effects' = {"prompt"})
  BY DEF Rq!GetPrompt, Rq!Serving, RequestInv
<1>2. \A tool \in rq_listed' : Entitled(tool)
  BY <1>1 DEF RequestInv
<1>3. Rq!ScopesBoundEffects'
  BY <1>1, VisibleIsEntitled DEF Rq!ScopesBoundEffects
<1>4. Rq!ListedToolsWork'
  BY <1>1 DEF Rq!ListedToolsWork
<1> QED BY <1>1, <1>2, <1>3, <1>4, ServeKeepsInv

LEMMA CallToolKeepsInv ==
    ASSUME RequestInv, Rq!CallTool
    PROVE  RequestInv'
<1> DEFINE tool == rq_request.name
<1>1. /\ rq_phase = "serve" /\ rq_effects = {} /\ rq_request.route = "mcp" /\ rq_request.method = "tools/call"
      /\ UNCHANGED <<rq_config, rq_token, rq_request, rq_id, rq_auth, rq_listed>>
  BY DEF Rq!CallTool, Rq!Serving, RequestInv
<1>2. \A t \in rq_listed' : Entitled(t)
  BY <1>1 DEF RequestInv
<1>3. CASE \E code : Rq!Reply(code) /\ rq_effects' = {} /\ tool \notin rq_listed
  <2>1. Rq!ScopesBoundEffects' /\ Rq!ListedToolsWork'
    BY <1>1, <1>3 DEF Rq!ScopesBoundEffects, Rq!ListedToolsWork
  <2> QED BY <1>1, <1>2, <1>3, <2>1, ServeKeepsInv
<1>4. CASE /\ tool \in Rq!Registry(rq_config.ocr) /\ Rq!Allowed(tool)
           /\ ~(Rq!Demanded(tool) \subseteq rq_request.args)
           /\ Rq!Reply("arguments") /\ rq_effects' = {}
  <2>1. Rq!Schema(tool) = Rq!Demanded(tool)
    BY <1>4, TablesAgree DEF Rq!Registry
  <2>2. Rq!ScopesBoundEffects' /\ Rq!ListedToolsWork'
    BY <1>1, <1>4, <2>1 DEF Rq!ScopesBoundEffects, Rq!ListedToolsWork
  <2> QED BY <1>1, <1>2, <1>4, <2>2, ServeKeepsInv
<1>5. CASE /\ tool \in Rq!Registry(rq_config.ocr) /\ Rq!Allowed(tool)
           /\ Rq!Demanded(tool) \subseteq rq_request.args
           /\ \E code \in {"result", "error"} : Rq!Reply(code)
           /\ rq_effects' \subseteq Rq!Effects(tool)
  <2>1. Rq!Schema(tool) = Rq!Demanded(tool)
    BY <1>5, TablesAgree DEF Rq!Registry
  <2>2. Rq!ListedToolsWork'
    BY <1>1, <1>5, <2>1 DEF Rq!ListedToolsWork, Rq!Reply, Rq!Answer
  <2>3. PICK s \in rq_auth : s \in Rq!Scopes /\ tool \in Rq!ToolsOf[s]
    BY <1>5 DEF Rq!Allowed, RequestInv, Rq!TypeOK
  <2>4. /\ rq_effects' \subseteq {"notes", "trash", "gone", "framework", "policy", "jobs"}
        /\ Rq!ScopesBoundEffects'
    BY <1>1, <1>5, <2>3, ScopesCoverEffects, VisibleIsEntitled DEF Rq!ScopesBoundEffects
  <2> QED BY <1>1, <1>2, <1>5, <2>2, <2>4, ServeKeepsInv
<1>6. CASE tool \notin Rq!Registry(rq_config.ocr) \/ ~Rq!Allowed(tool)
  <2>1. tool \notin rq_listed
    BY <1>1, <1>6, VisibleIsEntitled DEF RequestInv, Entitled, Rq!Allowed
  <2> QED BY <1>1, <1>3, <1>6, <2>1 DEF Rq!CallTool
<1>7. CASE tool \in Rq!Registry(rq_config.ocr) /\ Rq!Allowed(tool)
  <2>1. Rq!Handled(tool, rq_config.ocr)
    BY <1>7, ToolsAreHandled
  <2> QED BY <1>1, <1>4, <1>5, <1>7, <2>1 DEF Rq!CallTool
<1> QED BY <1>6, <1>7

LEMMA RestoreKeepsInv ==
    ASSUME RequestInv, Rq!Reject \/ Rq!Restore
    PROVE  RequestInv'
<1>1. UNCHANGED <<rq_config, rq_token, rq_request, rq_id, rq_auth, rq_effects, rq_listed>>
      /\ rq_phase' = "answered" /\ rq_phase \in {"serve", "restore"}
  BY DEF Rq!Reject, Rq!Restore, Rq!Finish
<1>2. (\A tool \in rq_listed : Entitled(tool))' /\ Rights' = Rights
  BY <1>1 DEF RequestInv, Entitled, Rights, Rq!Development, Rq!Parsed
<1>3. Rq!ScopesBoundEffects'
  BY <1>1 DEF RequestInv, Rq!ScopesBoundEffects
<1>4. CASE Rq!Reject
  <2>1. \E status \in {403, 405}, code \in {"host", "verb"} : rq_answer' = Rq!Answer(status, "absent", code)
    BY <1>4 DEF Rq!Reject, Rq!Finish
  <2>2. rq_answer'.id = "absent" /\ rq_answer'.status # 200
    BY <2>1 DEF Rq!Answer
  <2>3. Rq!TypeOK' /\ Rq!ListedToolsWork' /\ Rq!AnswersBearTheirId'
    BY <1>1, <2>2 DEF RequestInv, Rq!TypeOK, Rq!RequestIds, Rq!ListedToolsWork, Rq!AnswersBearTheirId
  <2> QED BY <1>1, <1>2, <1>3, <2>3 DEF RequestInv
<1>5. CASE Rq!Restore
  <2>1. rq_phase = "restore" /\ rq_answer = Rq!Answer(200, rq_id, rq_answer.code)
    BY <1>5 DEF Rq!Restore, RequestInv
  <2>2. rq_answer' = Rq!Answer(200, Rq!Id, rq_answer.code)
    BY <1>5, <2>1 DEF Rq!Restore, Rq!Finish, Rq!Answer
  <2>3. /\ rq_answer'.id = Rq!Id /\ rq_answer'.code = rq_answer.code
        /\ rq_answer'.status = 200 /\ rq_answer.status = 200
    BY <2>1, <2>2 DEF Rq!Answer
  <2>4. Rq!Id \in Rq!RequestIds
    BY RequestConstants, IdsStayIds DEF RequestInv, Rq!TypeOK, Rq!Id
  <2>5. Rq!TypeOK' /\ Rq!AnswersBearTheirId'
    BY <1>1, <2>3, <2>4 DEF RequestInv, Rq!TypeOK, Rq!AnswersBearTheirId, Rq!Id
  <2>6. Rq!ListedToolsWork'
    BY <1>1, <2>3 DEF RequestInv, Rq!ListedToolsWork
  <2> QED BY <1>1, <1>2, <1>3, <2>5, <2>6 DEF RequestInv
<1> QED BY <1>4, <1>5

LEMMA RequestSteps == RequestInv /\ [Rq!Next]_(Rq!vars) => RequestInv'
<1> SUFFICES ASSUME RequestInv, [Rq!Next]_(Rq!vars) PROVE RequestInv'
  OBVIOUS
<1>1. CASE UNCHANGED Rq!vars
  <2>1. UNCHANGED <<rq_config, rq_token, rq_phase, rq_request, rq_id, rq_auth, rq_answer, rq_effects, rq_listed>>
    BY <1>1 DEF Rq!vars
  <2> QED BY <2>1
          DEF RequestInv, Rq!TypeOK, Rights, Entitled, Rq!Development, Rq!Parsed, Rq!ScopesBoundEffects,
              Rq!ListedToolsWork, Rq!AnswersBearTheirId
<1>2. CASE Rq!Next
  BY <1>2, ExchangeKeepsInv, AuthenticateKeepsInv, ListingKeepsInv, GetPromptKeepsInv, CallToolKeepsInv,
     RestoreKeepsInv DEF Rq!Next
<1> QED BY <1>1, <1>2

LEMMA RequestsKeepInv == ServerSpec => []("requests" \in active => RequestInv)
<1>1. [ServerNext]_allVars => (("requests" \in active)' => "requests" \in active)
  BY ActiveKept
<1> QED BY <1>1, RequestStarts, RequestSteps, RequestsSpec, PTL DEF ServerSpec, Rq!Spec

\* No request has an effect beyond the scopes of its caller (call_tool, Scope::allows).
THEOREM ServerScopesBoundEffects == ServerSpec => []ScopesBoundEffects
<1>1. ("requests" \in active => RequestInv) => ScopesBoundEffects
  BY DEF RequestInv, ScopesBoundEffects
<1> QED BY <1>1, RequestsKeepInv, PTL

\* Tools that a client was told of work with the arguments that their schemas require
\* (the table of tools/registry.rs, Runtime::dispatch).
THEOREM ServerListedToolsWork == ServerSpec => []ListedToolsWork
<1>1. ("requests" \in active => RequestInv) => ListedToolsWork
  BY DEF RequestInv, ListedToolsWork
<1> QED BY <1>1, RequestsKeepInv, PTL

\* Answers bear the id of their request as the client reads it, rounded to binary64 where
\* it is a number (normalize_json_numbers, restore_numeric_id).
THEOREM ServerAnswersBearTheirId == ServerSpec => []AnswersBearTheirId
<1>1. ("requests" \in active => RequestInv) => AnswersBearTheirId
  BY DEF RequestInv, AnswersBearTheirId
<1> QED BY <1>1, RequestsKeepInv, PTL

(***************************************************************************)
(* Captures                                                                *)
(***************************************************************************)
LEMMA CapturesRun ==
    /\ ServerInit /\ "captures" \in active => Cap!Init
    /\ [ServerNext]_allVars => [Cap!Next]_(Cap!vars)
<1>1. ServerInit /\ "captures" \in active => Cap!Init
  BY DEF ServerInit
<1>2. UNCHANGED captureVars => UNCHANGED Cap!vars
  BY DEF captureVars, Cap!vars, Cap!refreshVars, Cap!historyVars
<1>3. [ServerNext]_allVars => [Cap!Next]_(Cap!vars)
  BY <1>2 DEF ServerNext, OthersWait, allVars
<1> QED BY <1>1, <1>3

LEMMA CapturesSpec == ServerSpec => ("captures" \in active => Cap!Spec)
BY CapturesRun, PTL DEF ServerSpec, Cap!Spec

LEMMA CaptureConstants ==
    /\ \A n \in Cap!Notes : n # Absent
    /\ Absent \notin CaptureSetup.sources \cup {NoSource} /\ NoSource \notin CaptureSetup.sources
    /\ Nobody \notin CaptureSetup.calls
    /\ CaptureSetup.hideable \subseteq CaptureSetup.paths
    /\ \A r \in CaptureSetup.requests :
          /\ r.op \in Cap!Captures \cup Cap!NoteTools /\ r.path \in CaptureSetup.paths
          /\ r.source \in CaptureSetup.sources \cup {NoSource}
          /\ r.op \in Cap!Captures => r.source \in CaptureSetup.sources
    /\ Cap!Captures \cap Cap!NoteTools = {}
BY ServerAssumption DEF Cap!CaptureAssumption, Cap!RequestType, Cap!Captures, Cap!NoteTools

LEMMA CaptureTypes ==
    /\ Cap!Init => Cap!TypeOK
    /\ Cap!TypeOK /\ [Cap!Next]_(Cap!vars) => Cap!TypeOK'
<1>1. Cap!Init => Cap!TypeOK
  <2> SUFFICES ASSUME Cap!Init PROVE Cap!TypeOK
    OBVIOUS
  <2>1. cap_notes \in [CaptureSetup.paths -> Cap!Notes \cup {Absent}]
    BY DEF Cap!Init, Cap!Notes
  <2>2. cap_index \in [CaptureSetup.paths -> Cap!Rows] /\ Cap!EmptyRows \in [CaptureSetup.paths -> Cap!Rows]
    BY <2>1 DEF Cap!Init, Cap!Notes, Cap!Rows, Cap!Row, Cap!EmptyRows
  <2>3. cap_found \in [CaptureSetup.calls -> CaptureSetup.paths]
    BY CaptureConstants DEF Cap!Init
  <2> QED BY <2>1, <2>2, <2>3 DEF Cap!Init, Cap!TypeOK, Cap!PCs, Cap!Landed, Cap!Refreshing
<1> SUFFICES ASSUME Cap!TypeOK, [Cap!Next]_(Cap!vars) PROVE Cap!TypeOK'
  BY <1>1
<1> USE DEF Cap!Go, Cap!PCs, Cap!Landed, Cap!Refreshing, Cap!refreshVars, Cap!historyVars
<1>2. \A p \in CaptureSetup.paths : Cap!Row(p) \in Cap!Rows
  BY DEF Cap!TypeOK, Cap!Row, Cap!Rows, Cap!Notes
<1>3. ASSUME NEW c \in CaptureSetup.calls PROVE Cap!New(c) \in Cap!Notes /\ Cap!Source(c) \subseteq CaptureSetup.sources
  BY CaptureConstants DEF Cap!TypeOK, Cap!New, Cap!Notes, Cap!Source
<1>4. Cap!EmptyRows \in [CaptureSetup.paths -> Cap!Rows]
  BY DEF Cap!EmptyRows, Cap!Rows
<1>5. ASSUME NEW c \in CaptureSetup.calls, Cap!Start(c) \/ Cap!Acquire(c) \/ Cap!Lookup(c) \/ Cap!Read(c)
      PROVE  Cap!TypeOK'
  <2>1. CASE Cap!Start(c) \/ Cap!Acquire(c)
    BY <2>1 DEF Cap!Start, Cap!Acquire, Cap!TypeOK
  <2>2. CASE Cap!Lookup(c)
    <3>1. cap_found' \in [CaptureSetup.calls -> CaptureSetup.paths]
      <4>1. \/ cap_found' = cap_found
            \/ \E p \in CaptureSetup.paths : cap_found' = [cap_found EXCEPT ![c] = IF p \in cap_hidden THEN @ ELSE p]
        BY <2>2, Zenon DEF Cap!Lookup
      <4>2. cap_found \in [CaptureSetup.calls -> CaptureSetup.paths]
        BY DEF Cap!TypeOK
      <4> QED BY <4>1, <4>2
    <3>2. /\ cap_pc' \in [CaptureSetup.calls -> Cap!PCs]
          /\ cap_known' \in [CaptureSetup.calls -> SUBSET CaptureSetup.calls]
      BY <2>2 DEF Cap!Lookup, Cap!TypeOK
    <3> QED BY <2>2, <3>1, <3>2 DEF Cap!Lookup, Cap!TypeOK
  <2>3. CASE Cap!Read(c)
    BY <2>3 DEF Cap!Read, Cap!TypeOK
  <2> QED BY <1>5, <2>1, <2>2, <2>3
<1>6. ASSUME NEW c \in CaptureSetup.calls, Cap!Replace(c) \/ Cap!Create(c) \/ Cap!NoteTool(c)
      PROVE  Cap!TypeOK'
  <2>1. cap_notes' \in [CaptureSetup.paths -> Cap!Notes \cup {Absent}]
    BY <1>3, <1>6 DEF Cap!Replace, Cap!Create, Cap!NoteTool, Cap!Write, Cap!Refused, Cap!TypeOK
  <2>2. cap_unsure' \subseteq CaptureSetup.sources
    BY <1>3, <1>6
    DEF Cap!Replace, Cap!Create, Cap!NoteTool, Cap!Write, Cap!Refused, Cap!Undeduplicated, Cap!TypeOK
  <2>3. cap_pc' \in [CaptureSetup.calls -> Cap!PCs]
    BY <1>6 DEF Cap!Replace, Cap!Create, Cap!NoteTool, Cap!Refused, Cap!TypeOK
  <2>4. UNCHANGED <<cap_req, cap_hidden, cap_index, cap_found, cap_read, cap_todo, cap_snap, cap_late,
                    cap_published, cap_known>>
    BY <1>6 DEF Cap!Replace, Cap!Create, Cap!NoteTool
  <2> QED BY <2>1, <2>2, <2>3, <2>4 DEF Cap!TypeOK
<1>7. ASSUME NEW c \in CaptureSetup.calls, Cap!Refresh(c) \/ Cap!Collect(c) \/ Cap!Publish(c)
      PROVE  Cap!TypeOK'
  <2>1. CASE Cap!Refresh(c)
    BY <1>4, <2>1 DEF Cap!Refresh, Cap!TypeOK
  <2>2. CASE Cap!Collect(c)
    <3>1. cap_todo' \in [CaptureSetup.calls -> SUBSET CaptureSetup.paths]
      <4>1. \/ cap_todo' = cap_todo
            \/ \E p : cap_todo' = [cap_todo EXCEPT ![c] = @ \ {p}]
        BY <2>2 DEF Cap!Collect, Cap!RefreshFails
      <4>2. cap_todo \in [CaptureSetup.calls -> SUBSET CaptureSetup.paths]
        BY DEF Cap!TypeOK
      <4> QED BY <4>1, <4>2
    <3>2. cap_snap' \in [CaptureSetup.calls -> [CaptureSetup.paths -> Cap!Rows]]
      <4>1. \/ cap_snap' = cap_snap
            \/ \E p \in CaptureSetup.paths : cap_snap' = [cap_snap EXCEPT ![c][p] = Cap!Row(p)]
        BY <2>2 DEF Cap!Collect, Cap!RefreshFails, Cap!TypeOK
      <4>2. ASSUME NEW p \in CaptureSetup.paths
            PROVE  [cap_snap[c] EXCEPT ![p] = Cap!Row(p)] \in [CaptureSetup.paths -> Cap!Rows]
        BY <1>2, <4>2 DEF Cap!TypeOK
      <4>3. ASSUME NEW p \in CaptureSetup.paths, cap_snap' = [cap_snap EXCEPT ![c][p] = Cap!Row(p)]
            PROVE  cap_snap' \in [CaptureSetup.calls -> [CaptureSetup.paths -> Cap!Rows]]
        <5>1. cap_snap' = [cap_snap EXCEPT ![c] = [cap_snap[c] EXCEPT ![p] = Cap!Row(p)]]
          BY <4>3
        <5>2. cap_snap \in [CaptureSetup.calls -> [CaptureSetup.paths -> Cap!Rows]]
          BY DEF Cap!TypeOK
        <5> QED BY <4>2, <5>1, <5>2
      <4>4. cap_snap \in [CaptureSetup.calls -> [CaptureSetup.paths -> Cap!Rows]]
        BY DEF Cap!TypeOK
      <4> QED BY <4>1, <4>3, <4>4
    <3>3. cap_pc' \in [CaptureSetup.calls -> Cap!PCs] /\ cap_unsure' \subseteq CaptureSetup.sources
      BY <1>3, <2>2 DEF Cap!Collect, Cap!RefreshFails, Cap!TypeOK
    <3> QED BY <2>2, <3>1, <3>2, <3>3 DEF Cap!Collect, Cap!TypeOK
  <2>3. CASE Cap!Publish(c)
    <3>1. cap_index' \in [CaptureSetup.paths -> Cap!Rows] /\ cap_published' \subseteq CaptureSetup.calls
      BY <2>3 DEF Cap!Publish, Cap!TypeOK
    <3>2. cap_pc' \in [CaptureSetup.calls -> Cap!PCs] /\ cap_unsure' \subseteq CaptureSetup.sources
      BY <1>3, <2>3 DEF Cap!Publish, Cap!RefreshFails, Cap!TypeOK
    <3>3. UNCHANGED <<cap_req, cap_notes, cap_hidden, cap_found, cap_read, cap_todo, cap_snap, cap_late, cap_known>>
      BY <2>3 DEF Cap!Publish, Cap!RefreshFails
    <3> QED BY <3>1, <3>2, <3>3 DEF Cap!TypeOK
  <2> QED BY <1>7, <2>1, <2>2, <2>3
<1>8. ASSUME NEW c \in CaptureSetup.calls, Cap!Drop(c) \/ Cap!LateWrite(c) \/ Cap!LateRebuild(c)
      PROVE  Cap!TypeOK'
  <2>1. CASE Cap!Drop(c)
    <3>1. Cap!Left(c) \in {"nothing", "write", "rebuild"}
      BY DEF Cap!Left
    <3> QED BY <1>3, <2>1, <3>1 DEF Cap!Drop, Cap!TypeOK
  <2>2. CASE Cap!LateWrite(c)
    <3>1. cap_notes' \in [CaptureSetup.paths -> Cap!Notes \cup {Absent}]
      BY <1>3, <2>2 DEF Cap!LateWrite, Cap!TypeOK
    <3> QED BY <2>2, <3>1 DEF Cap!LateWrite, Cap!TypeOK
  <2>3. CASE Cap!LateRebuild(c)
    BY <2>3 DEF Cap!LateRebuild, Cap!TypeOK
  <2> QED BY <1>8, <2>1, <2>2, <2>3
<1>9. CASE Cap!PolicyReload
  BY <1>9, CaptureConstants DEF Cap!PolicyReload, Cap!TypeOK
<1>10. CASE UNCHANGED Cap!vars
  BY <1>10 DEF Cap!vars, Cap!TypeOK
<1> QED BY <1>5, <1>6, <1>7, <1>8, <1>9, <1>10 DEF Cap!Next, Cap!Step

CaptureControl ==
    /\ \A c \in CaptureSetup.calls :
          /\ cap_pc[c] \in {"framework", "lookup", "read", "replace", "create"} => Cap!Op(c) \in Cap!Captures
          /\ cap_pc[c] = "note_tool" => Cap!Op(c) \notin Cap!Captures
          /\ cap_pc[c] \in {"lookup", "read", "replace"} => Cap!Op(c) = "replace_by_source_id"
          /\ cap_pc[c] \in {"idle", "framework", "lookup", "read", "create"} => cap_read[c] = Absent
          /\ cap_pc[c] = "publish" => cap_todo[c] = {}
          /\ cap_late[c] # "nothing" => cap_pc[c] = "dropped"
          /\ cap_late[c] = "write" => cap_req[c].source \in cap_unsure
    /\ \A c, d \in CaptureSetup.calls : Cap!UnderFramework(c) /\ Cap!UnderFramework(d) => c = d
    /\ \A c, d \in CaptureSetup.calls : cap_pc[c] \in Cap!Refreshing /\ cap_pc[d] \in Cap!Refreshing => c = d

Deduplicates(c, s) == Cap!Op(c) = "replace_by_source_id" /\ cap_req[c].source = s
\* A capture has written the note, and no refresh has begun that will read it, or is over.
Unread(s) == \E c \in CaptureSetup.calls : Deduplicates(c, s) /\ cap_pc[c] = "refresh"
Unindexed(s) == \E c \in CaptureSetup.calls : Deduplicates(c, s) /\ cap_pc[c] \in {"refresh", "collect", "publish"}

OneNote(s) == \A p, q \in CaptureSetup.paths : Cap!Row(p) = s /\ Cap!Row(q) = s => p = q
NoneHidden(s) == \A p \in CaptureSetup.paths : Cap!Row(p) = s => p \notin cap_hidden
\* The index has the id at that note and at no other.
Indexed(s) ==
    /\ \A p \in CaptureSetup.paths : Cap!Row(p) = s => cap_index[p] = s
    /\ \A p, q \in CaptureSetup.paths : cap_index[p] = s /\ cap_index[q] = s => p = q
\* A refresh has found it there and at no other, or has still to read it.
Collected(s, d) ==
    /\ \A p \in CaptureSetup.paths : Cap!Row(p) = s => p \in cap_todo[d] \/ cap_snap[d][p] = s
    /\ \A p, q \in CaptureSetup.paths : cap_snap[d][p] = s /\ (cap_snap[d][q] = s \/ Cap!Row(q) = s) => p = q
\* A capture that has looked it up will write to that note.
Chosen(s, c) ==
    /\ cap_pc[c] \in {"read", "replace"} => \A q \in CaptureSetup.paths : Cap!Row(q) = s => q = cap_found[c]
    /\ cap_pc[c] = "create" => \A q \in CaptureSetup.paths : Cap!Row(q) # s

SourceKept(s) ==
    /\ OneNote(s) /\ NoneHidden(s)
    /\ ~Unindexed(s) => Indexed(s)
    /\ ~Unread(s) => \A d \in CaptureSetup.calls : cap_pc[d] \in Cap!Refreshing => Collected(s, d)
    /\ \A c \in CaptureSetup.calls : Deduplicates(c, s) => Chosen(s, c)

By(p, calls) == cap_notes[p] # Absent /\ cap_notes[p].by \in calls

IndexFaithful ==
    \A p \in CaptureSetup.paths : By(p, cap_published) => cap_index[p] \in {Absent, cap_notes[p].source}
SnapFaithful(d) ==
    \A p \in CaptureSetup.paths : By(p, cap_published \cup {d}) => cap_snap[d][p] \in {Absent, cap_notes[p].source}
\* It is about to replace a note, or has left that to the pool.
Replacing(c) == cap_pc[c] \in {"read", "replace"} \/ (cap_late[c] = "write" /\ cap_read[c] # Absent)
WellLed(c) == By(cap_found[c], cap_known[c]) => cap_notes[cap_found[c]].source = cap_req[c].source

\* What a finished call wrote is in the index and in what a refresh has collected, unless it
\* is hidden; so a capture that looks a source id up is led to no finished note of another.
FinishedKept ==
    /\ \A b \in cap_published : cap_pc[b] = "done"
    /\ \A c \in CaptureSetup.calls : \A b \in cap_known[c] : cap_pc[b] = "done"
    /\ IndexFaithful
    /\ \A d \in CaptureSetup.calls : cap_pc[d] \in Cap!Refreshing => SnapFaithful(d)
    /\ \A c \in CaptureSetup.calls : Replacing(c) => WellLed(c)

LEMMA ControlKept ==
    ASSUME Cap!TypeOK, CaptureControl, [Cap!Next]_(Cap!vars)
    PROVE  CaptureControl'
<1> USE DEF Cap!At, Cap!Go, Cap!Op, Cap!Refreshing, Cap!UnderFramework, Cap!refreshVars, Cap!historyVars
<1>1. cap_req' = cap_req /\ \A c \in CaptureSetup.calls : Cap!Op(c)' = Cap!Op(c)
  BY DEF Cap!Next, Cap!Step, Cap!vars, Cap!Start, Cap!Acquire, Cap!Lookup, Cap!Read, Cap!Replace, Cap!Create,
         Cap!NoteTool, Cap!Refresh, Cap!Collect, Cap!Publish, Cap!Drop, Cap!LateWrite, Cap!LateRebuild,
         Cap!PolicyReload
<1>2. \A c \in CaptureSetup.calls :
        Cap!Op(c) \in Cap!Captures \cup Cap!NoteTools /\ cap_pc \in [CaptureSetup.calls -> Cap!PCs]
  BY CaptureConstants DEF Cap!TypeOK
<1>3. Cap!Captures = {"replace_by_source_id", "create"} /\ Cap!NoteTools = {"write", "delete"}
  BY DEF Cap!Captures, Cap!NoteTools
<1>4. ASSUME NEW c \in CaptureSetup.calls, Cap!Start(c)
      PROVE  CaptureControl'
  BY <1>1, <1>2, <1>3, <1>4 DEF Cap!Start, CaptureControl
<1>5. ASSUME NEW c \in CaptureSetup.calls, Cap!Acquire(c)
      PROVE  CaptureControl'
  <2>1. /\ \E to \in {"create", "lookup", "failed"} : cap_pc' = [cap_pc EXCEPT ![c] = to]
        /\ cap_pc'[c] = "lookup" => Cap!Op(c) # "create"
        /\ cap_pc[c] = "framework" /\ \A d \in CaptureSetup.calls : ~Cap!UnderFramework(d)
        /\ UNCHANGED <<cap_read, cap_todo, cap_late, cap_unsure>>
    BY <1>2, <1>5 DEF Cap!Acquire
  <2> QED BY <1>1, <1>2, <1>3, <2>1 DEF CaptureControl
<1>6. ASSUME NEW c \in CaptureSetup.calls, Cap!Lookup(c)
      PROVE  CaptureControl'
  <2>1. /\ \E to \in {"create", "read", "failed"} : cap_pc' = [cap_pc EXCEPT ![c] = to]
        /\ cap_pc[c] = "lookup" /\ UNCHANGED <<cap_read, cap_todo, cap_late, cap_unsure>>
    BY <1>6 DEF Cap!Lookup
  <2> QED BY <1>1, <1>2, <1>3, <2>1 DEF CaptureControl
<1>7. ASSUME NEW c \in CaptureSetup.calls, Cap!Read(c)
      PROVE  CaptureControl'
  <2>1. /\ \E to \in {"replace", "failed"} : cap_pc' = [cap_pc EXCEPT ![c] = to]
        /\ cap_pc[c] = "read" /\ UNCHANGED <<cap_todo, cap_late, cap_unsure>>
        /\ \A d \in CaptureSetup.calls \ {c} : cap_read'[d] = cap_read[d]
    BY <1>7 DEF Cap!Read, Cap!TypeOK
  <2> QED BY <1>1, <1>2, <1>3, <2>1 DEF CaptureControl
<1>8. ASSUME NEW c \in CaptureSetup.calls, Cap!Replace(c) \/ Cap!Create(c) \/ Cap!NoteTool(c)
      PROVE  CaptureControl'
  <2>1. cap_unsure \subseteq cap_unsure'
    BY <1>8 DEF Cap!Replace, Cap!Create, Cap!NoteTool, Cap!Write, Cap!Refused
  <2>2. \E to \in {"refresh", "failed"} : cap_pc' = [cap_pc EXCEPT ![c] = to]
    BY <1>8 DEF Cap!Replace, Cap!Create, Cap!NoteTool, Cap!Refused
  <2>3. /\ cap_pc[c] \in {"replace", "create", "note_tool"}
        /\ Cap!UnderFramework(c)' => Cap!UnderFramework(c)
        /\ UNCHANGED <<cap_read, cap_todo, cap_late>>
    BY <1>1, <1>2, <1>3, <1>8 DEF Cap!Replace, Cap!Create, Cap!NoteTool, CaptureControl
  <2>4. PICK to \in {"refresh", "failed"} : cap_pc' = [cap_pc EXCEPT ![c] = to]
    BY <2>2
  <2>5. /\ cap_pc'[c] = to /\ \A d \in CaptureSetup.calls \ {c} : cap_pc'[d] = cap_pc[d]
        /\ \A d \in CaptureSetup.calls : Cap!UnderFramework(d)' => Cap!UnderFramework(d)
    BY <1>1, <1>2, <2>3, <2>4
  <2>6. \A d, e \in CaptureSetup.calls : Cap!UnderFramework(d)' /\ Cap!UnderFramework(e)' => d = e
    BY <2>5 DEF CaptureControl
  <2> QED BY <1>1, <2>1, <2>3, <2>5, <2>6 DEF CaptureControl
<1>9. ASSUME NEW c \in CaptureSetup.calls, Cap!Refresh(c) \/ Cap!Collect(c) \/ Cap!Publish(c)
      PROVE  CaptureControl'
  <2>1. cap_unsure \subseteq cap_unsure' /\ UNCHANGED <<cap_read, cap_late>>
    BY <1>9 DEF Cap!Refresh, Cap!Collect, Cap!Publish, Cap!RefreshFails
  <2>2. CASE Cap!Refresh(c)
    BY <1>1, <1>2, <1>3, <2>1, <2>2 DEF Cap!Refresh, CaptureControl
  <2>3. ASSUME cap_pc[c] \in {"collect", "publish"}, cap_pc' = cap_pc \/ cap_pc' = [cap_pc EXCEPT ![c] = "done"],
               \A d \in CaptureSetup.calls \ {c} : cap_todo'[d] = cap_todo[d],
               cap_pc'[c] = "publish" => cap_todo'[c] = {}
        PROVE  CaptureControl'
    BY <1>1, <1>2, <1>3, <2>1, <2>3 DEF CaptureControl
  <2>4. CASE Cap!Collect(c) /\ cap_pc' # [cap_pc EXCEPT ![c] = "publish"]
    BY <1>2, <2>3, <2>4 DEF Cap!Collect, Cap!RefreshFails, Cap!TypeOK
  <2>5. CASE Cap!Publish(c)
    BY <1>2, <2>3, <2>5 DEF Cap!Publish, Cap!RefreshFails, CaptureControl
  <2>6. CASE Cap!Collect(c) /\ cap_pc' = [cap_pc EXCEPT ![c] = "publish"]
    <3>1. cap_pc[c] = "collect" /\ cap_todo[c] = {} /\ cap_todo' = cap_todo
      BY <1>2, <2>6 DEF Cap!Collect, Cap!RefreshFails
    <3> QED BY <1>1, <1>2, <1>3, <2>1, <2>6, <3>1 DEF CaptureControl
  <2> QED BY <1>9, <2>2, <2>4, <2>5, <2>6
<1>10. ASSUME NEW c \in CaptureSetup.calls, Cap!Drop(c) \/ Cap!LateWrite(c) \/ Cap!LateRebuild(c)
      PROVE  CaptureControl'
  <2>1. CASE Cap!Drop(c)
    <3>1. Cap!Left(c) = "write" => cap_pc[c] \in {"replace", "create"}
      BY DEF Cap!Left
    <3>2. Cap!Left(c) = "write" => cap_req[c].source \in cap_unsure'
      BY <1>2, <2>1, <3>1, CaptureConstants DEF Cap!Drop, Cap!Source, CaptureControl, Cap!TypeOK
    <3>3. cap_unsure \subseteq cap_unsure' /\ cap_late \in [CaptureSetup.calls -> {"nothing", "write", "rebuild"}]
      BY <2>1 DEF Cap!Drop, Cap!TypeOK
    <3> QED BY <1>1, <1>2, <1>3, <2>1, <3>2, <3>3 DEF Cap!Drop, CaptureControl
  <2>2. CASE Cap!LateWrite(c)
    BY <1>1, <2>2 DEF Cap!LateWrite, CaptureControl, Cap!TypeOK
  <2>3. CASE Cap!LateRebuild(c)
    BY <1>1, <2>3, CaptureConstants DEF Cap!LateRebuild, CaptureControl, Cap!TypeOK
  <2> QED BY <1>10, <2>1, <2>2, <2>3
<1>11. CASE Cap!PolicyReload
  BY <1>1, <1>11 DEF Cap!PolicyReload, CaptureControl
<1>12. CASE UNCHANGED Cap!vars
  BY <1>1, <1>12 DEF Cap!vars, CaptureControl
<1> QED BY <1>4, <1>5, <1>6, <1>7, <1>8, <1>9, <1>10, <1>11, <1>12 DEF Cap!Next, Cap!Step

LEMMA SourceStaysKept ==
    ASSUME Cap!TypeOK, CaptureControl, [Cap!Next]_(Cap!vars), NEW s \in CaptureSetup.sources \ cap_unsure', SourceKept(s)
    PROVE  SourceKept(s)'
<1> USE DEF Cap!At, Cap!Go, Cap!Op
<1>1. /\ cap_req' = cap_req /\ \A c \in CaptureSetup.calls : Cap!Op(c)' = Cap!Op(c)
      /\ \A c \in CaptureSetup.calls : Deduplicates(c, s)' <=> Deduplicates(c, s)
  BY DEF Cap!Next, Cap!Step, Cap!vars, Cap!Start, Cap!Acquire, Cap!Lookup, Cap!Read, Cap!Replace, Cap!Create,
         Cap!NoteTool, Cap!Refresh, Cap!Collect, Cap!Publish, Cap!Drop, Cap!LateWrite, Cap!LateRebuild,
         Cap!PolicyReload, Cap!refreshVars, Cap!historyVars, Deduplicates
<1>2. cap_pc \in [CaptureSetup.calls -> Cap!PCs] /\ Cap!Refreshing = {"collect", "publish"}
  BY DEF Cap!TypeOK, Cap!Refreshing
<1>3. ASSUME NEW c \in CaptureSetup.calls, Deduplicates(c, s)
      PROVE  Cap!Source(c) = {s} /\ Cap!Op(c) \in Cap!Captures
  BY <1>3 DEF Cap!Source, Deduplicates, Cap!Captures
\* A call moves, and the capture of the id has written nothing.
<1>4. ASSUME NEW c \in CaptureSetup.calls, NEW to, cap_pc' = [cap_pc EXCEPT ![c] = to],
             to \notin {"refresh", "collect", "publish"},
             cap_pc[c] \in {"refresh", "collect", "publish"} => ~Deduplicates(c, s),
             UNCHANGED <<cap_notes, cap_hidden, cap_index, cap_todo, cap_snap>>,
             \A d \in CaptureSetup.calls \ {c} : cap_found'[d] = cap_found[d],
             Deduplicates(c, s) => Chosen(s, c)'
      PROVE  SourceKept(s)'
  <2>1. \A p : Cap!Row(p)' = Cap!Row(p)
    BY <1>4 DEF Cap!Row
  <2>2. (OneNote(s) /\ NoneHidden(s))'
    BY <1>4, <2>1 DEF SourceKept, OneNote, NoneHidden
  <2>3. cap_pc'[c] = to /\ \A d \in CaptureSetup.calls \ {c} : cap_pc'[d] = cap_pc[d]
    BY <1>2, <1>4
  <2>4. (Unindexed(s)' <=> Unindexed(s)) /\ (Unread(s)' <=> Unread(s))
    BY <1>1, <1>4, <2>3 DEF Unindexed, Unread
  <2>5. Indexed(s)' <=> Indexed(s)
    BY <1>4, <2>1 DEF Indexed
  <2>6. \A d \in CaptureSetup.calls : Collected(s, d)' <=> Collected(s, d)
    BY <1>4, <2>1 DEF Collected
  <2>7. \A d \in CaptureSetup.calls : (cap_pc[d] \in Cap!Refreshing)' => cap_pc[d] \in Cap!Refreshing
    BY <1>2, <1>4, <2>3 DEF Cap!Refreshing
  <2>8. \A d \in CaptureSetup.calls \ {c} : Chosen(s, d)' <=> Chosen(s, d)
    BY <1>4, <2>1, <2>3 DEF Chosen
  <2> QED BY <1>1, <1>4, <2>2, <2>4, <2>5, <2>6, <2>7, <2>8 DEF SourceKept
\* The id is written nowhere.
<1>5. ASSUME \A p \in CaptureSetup.paths : Cap!Row(p)' = s => Cap!Row(p) = s,
             \A d \in CaptureSetup.calls : cap_pc'[d] = cap_pc[d] \/ ~Deduplicates(d, s),
             \A d \in CaptureSetup.calls : cap_pc'[d] \in Cap!Refreshing => cap_pc[d] \in Cap!Refreshing,
             UNCHANGED <<cap_index, cap_todo, cap_snap, cap_found>>, NoneHidden(s)'
      PROVE  SourceKept(s)'
  <2>1. OneNote(s)' /\ (Indexed(s) => Indexed(s)')
    BY <1>5 DEF SourceKept, OneNote, Indexed
  <2>2. (Unindexed(s)' <=> Unindexed(s)) /\ (Unread(s)' <=> Unread(s))
    BY <1>1, <1>5 DEF Unindexed, Unread
  <2>3. \A d \in CaptureSetup.calls : Collected(s, d) => Collected(s, d)'
    BY <1>5 DEF Collected
  <2>4. \A d \in CaptureSetup.calls : Deduplicates(d, s) /\ Chosen(s, d) => Chosen(s, d)'
    BY <1>5 DEF Chosen
  <2>5. \A d \in CaptureSetup.calls : (cap_pc[d] \in Cap!Refreshing)' => cap_pc[d] \in Cap!Refreshing
    BY <1>5 DEF Cap!Refreshing
  <2> QED BY <1>1, <1>5, <2>1, <2>2, <2>3, <2>4, <2>5 DEF SourceKept
\* A note is written, or deleted.
<1>6. ASSUME NEW c \in CaptureSetup.calls, NEW p \in CaptureSetup.paths, NEW note \in Cap!Notes \cup {Absent},
             cap_notes' = [cap_notes EXCEPT ![p] = note],
             cap_pc' = [cap_pc EXCEPT ![c] = "refresh"] \/ cap_pc' = cap_pc,
             UNCHANGED <<cap_index, cap_todo, cap_snap, cap_found, cap_hidden>>,
             Deduplicates(c, s) => note = Cap!New(c),
             note # Absent /\ note.source = s =>
                 /\ Deduplicates(c, s) /\ cap_pc[c] \in {"replace", "create"} /\ cap_pc'[c] = "refresh"
                 /\ p \notin cap_hidden
                 /\ cap_pc[c] = "replace" => p = cap_found[c]
      PROVE  SourceKept(s)'
  <2>1. \A q \in CaptureSetup.paths \ {p} : Cap!Row(q)' = Cap!Row(q)
    BY <1>6 DEF Cap!Row, Cap!TypeOK
  <2>2. Cap!Row(p)' = (IF note = Absent THEN Absent ELSE note.source) /\ s # Absent
    BY <1>6, CaptureConstants DEF Cap!Row, Cap!TypeOK
  <2>3. CASE note = Absent \/ note.source # s
    <3>1. \A q \in CaptureSetup.paths : Cap!Row(q)' = s => Cap!Row(q) = s
      BY <2>1, <2>2, <2>3
    <3>2. cap_pc'[c] = cap_pc[c] \/ ~Deduplicates(c, s)
      <4>1. Cap!New(c) \in Cap!Notes /\ Cap!New(c).source = cap_req[c].source
        BY CaptureConstants DEF Cap!New, Cap!Notes, Cap!TypeOK
      <4> QED BY <1>6, <2>3, <4>1, CaptureConstants DEF Deduplicates
    <3>3. \A d \in CaptureSetup.calls :
             /\ cap_pc'[d] = cap_pc[d] \/ ~Deduplicates(d, s)
             /\ cap_pc'[d] \in Cap!Refreshing => cap_pc[d] \in Cap!Refreshing
      <4>1. CASE cap_pc' = cap_pc
        BY <4>1
      <4>2. CASE cap_pc' = [cap_pc EXCEPT ![c] = "refresh"]
        <5>1. cap_pc'[c] = "refresh" /\ \A d \in CaptureSetup.calls \ {c} : cap_pc'[d] = cap_pc[d]
          BY <1>2, <4>2
        <5>2. "refresh" \notin Cap!Refreshing
          BY DEF Cap!Refreshing
        <5> QED BY <3>2, <5>1, <5>2
      <4> QED BY <1>6, <4>1, <4>2
    <3>4. NoneHidden(s)'
      BY <1>6, <3>1 DEF NoneHidden, SourceKept
    <3> QED BY <1>5, <1>6, <3>1, <3>3, <3>4
  <2>4. CASE note # Absent /\ note.source = s
    <3>1. /\ Deduplicates(c, s) /\ cap_pc[c] \in {"replace", "create"} /\ cap_pc'[c] = "refresh"
          /\ p \notin cap_hidden
          /\ cap_pc[c] = "replace" => p = cap_found[c]
          /\ \A d \in CaptureSetup.calls \ {c} : cap_pc'[d] = cap_pc[d]
      BY <1>2, <1>6, <2>4
    <3>2. \A q \in CaptureSetup.paths : Cap!Row(q)' = s => q = p
      <4>1. \A q \in CaptureSetup.paths : Cap!Row(q) = s => q = p
        BY <3>1 DEF SourceKept, Chosen
      <4> QED BY <2>1, <4>1
    <3>3. (OneNote(s) /\ NoneHidden(s))'
      BY <1>6, <3>1, <3>2 DEF OneNote, NoneHidden
    <3>4. (Unread(s) /\ Unindexed(s))'
      BY <1>1, <3>1 DEF Unread, Unindexed
    <3>5. ASSUME NEW d \in CaptureSetup.calls, Deduplicates(d, s) PROVE Chosen(s, d)'
      <4>1. CASE d = c
        BY <3>1, <4>1 DEF Chosen
      <4>2. CASE d # c
        <5>1. Cap!UnderFramework(c) /\ ~Cap!UnderFramework(d)
          BY <1>3, <3>1, <3>5, <4>2 DEF CaptureControl, Cap!UnderFramework
        <5> QED BY <1>3, <3>1, <3>5, <4>2, <5>1 DEF Chosen, Cap!UnderFramework
      <4> QED BY <4>1, <4>2
    <3> QED BY <1>1, <3>3, <3>4, <3>5 DEF SourceKept
  <2> QED BY <2>3, <2>4
<1>7. ASSUME NEW c \in CaptureSetup.calls, Cap!Start(c) \/ Cap!Acquire(c)
      PROVE  SourceKept(s)'
  <2>1. PICK to : cap_pc' = [cap_pc EXCEPT ![c] = to] /\ to \in {"framework", "note_tool", "create", "lookup", "failed"}
    BY <1>7 DEF Cap!Start, Cap!Acquire
  <2>2. cap_pc[c] \in {"idle", "framework"} /\ UNCHANGED <<cap_notes, cap_hidden, cap_index, cap_todo, cap_snap, cap_found>>
    BY <1>7 DEF Cap!Start, Cap!Acquire, Cap!refreshVars
  <2>3. Deduplicates(c, s) => cap_pc'[c] \notin {"read", "replace", "create"}
    BY <1>2, <1>7, <2>1, <2>2 DEF Cap!Start, Cap!Acquire, Deduplicates, Cap!Captures
  <2> QED BY <1>4, <2>1, <2>2, <2>3 DEF Chosen
<1>8. ASSUME NEW c \in CaptureSetup.calls, Cap!Lookup(c)
      PROVE  SourceKept(s)'
  <2>1. PICK to \in {"create", "read", "failed"} : cap_pc' = [cap_pc EXCEPT ![c] = to]
    BY <1>8 DEF Cap!Lookup
  <2>2. /\ cap_pc[c] = "lookup" /\ UNCHANGED <<cap_notes, cap_hidden, cap_index, cap_todo, cap_snap>>
        /\ \A d \in CaptureSetup.calls \ {c} : cap_found'[d] = cap_found[d]
    BY <1>8 DEF Cap!Lookup, Cap!refreshVars, Cap!TypeOK
  <2>3. ASSUME Deduplicates(c, s) PROVE Chosen(s, c)'
    <3>1. ~Unindexed(s)
      <4>1. \A d \in CaptureSetup.calls : Deduplicates(d, s) /\ cap_pc[d] \in {"refresh", "collect", "publish"} =>
               Cap!UnderFramework(d) /\ Cap!UnderFramework(c) /\ d # c
        BY <1>3, <2>2, <2>3 DEF Cap!UnderFramework
      <4> QED BY <4>1 DEF CaptureControl, Unindexed
    <3>2. /\ \A q \in CaptureSetup.paths : Cap!Row(q)' = s => cap_index[q] = s /\ q \notin cap_hidden
          /\ \A p, q \in CaptureSetup.paths : cap_index[p] = s /\ cap_index[q] = s => p = q
      BY <2>2, <3>1 DEF SourceKept, Indexed, NoneHidden, Cap!Row
    <3>3. cap_pc'[c] = to /\ cap_req[c].source = s
      BY <1>2, <2>1, <2>3 DEF Deduplicates
    <3>4. CASE to = "create"
      <4>1. \/ \A p \in CaptureSetup.paths : cap_index[p] # s
            \/ \E p \in CaptureSetup.paths : cap_index[p] = s /\ p \in cap_hidden
        BY <1>2, <1>8, <3>3, <3>4 DEF Cap!Lookup
      <4> QED BY <3>2, <3>3, <3>4, <4>1 DEF Chosen
    <3>5. CASE to = "read"
      <4>1. cap_index[cap_found'[c]] = s /\ cap_found'[c] \in CaptureSetup.paths
        BY <1>2, <1>8, <3>3, <3>5 DEF Cap!Lookup, Cap!TypeOK
      <4> QED BY <3>2, <3>3, <3>5, <4>1 DEF Chosen
    <3>6. CASE to = "failed"
      BY <3>3, <3>6 DEF Chosen
    <3> QED BY <3>4, <3>5, <3>6
  <2> QED BY <1>4, <2>1, <2>2, <2>3
<1>9. ASSUME NEW c \in CaptureSetup.calls, Cap!Read(c)
      PROVE  SourceKept(s)'
  <2>1. PICK to \in {"replace", "failed"} : cap_pc' = [cap_pc EXCEPT ![c] = to]
    BY <1>9 DEF Cap!Read
  <2>2. cap_pc[c] = "read" /\ UNCHANGED <<cap_notes, cap_hidden, cap_index, cap_todo, cap_snap, cap_found>>
    BY <1>9 DEF Cap!Read, Cap!refreshVars
  <2>3. Deduplicates(c, s) => Chosen(s, c)'
    BY <1>2, <2>1, <2>2 DEF SourceKept, Chosen, Cap!Row
  <2> QED BY <1>4, <2>1, <2>2, <2>3
<1>10. ASSUME NEW c \in CaptureSetup.calls, cap_pc' = [cap_pc EXCEPT ![c] = "failed"],
              cap_pc[c] \in {"replace", "create", "note_tool"},
              UNCHANGED <<cap_notes, cap_hidden, cap_index, cap_todo, cap_snap, cap_found>>
       PROVE  SourceKept(s)'
  <2>1. Chosen(s, c)'
    BY <1>2, <1>10 DEF Chosen
  <2> QED BY <1>4, <1>10, <2>1
<1>11. ASSUME NEW c \in CaptureSetup.calls, Cap!Replace(c)
       PROVE  SourceKept(s)'
  <2>1. cap_pc[c] = "replace" /\ cap_found[c] \in CaptureSetup.paths
        /\ UNCHANGED <<cap_hidden, cap_index, cap_todo, cap_snap, cap_found>>
    BY <1>11 DEF Cap!Replace, Cap!refreshVars, Cap!TypeOK
  <2>2. CASE cap_pc' = [cap_pc EXCEPT ![c] = "failed"] /\ cap_notes' = cap_notes
    BY <1>10, <2>1, <2>2
  <2>3. CASE /\ cap_notes' = [cap_notes EXCEPT ![cap_found[c]] = Cap!New(c)]
             /\ cap_pc' = [cap_pc EXCEPT ![c] = "refresh"] /\ cap_found[c] \notin cap_hidden
    <3>1. Cap!New(c) \in Cap!Notes /\ Cap!New(c).source = cap_req[c].source
      BY CaptureConstants DEF Cap!New, Cap!Notes, Cap!TypeOK
    <3>2. Cap!Op(c) = "replace_by_source_id" /\ cap_pc'[c] = "refresh"
      BY <1>2, <2>1, <2>3 DEF CaptureControl
    <3> QED BY <1>6, <2>1, <2>3, <3>1, <3>2 DEF Deduplicates
  <2> QED BY <1>11, <2>2, <2>3 DEF Cap!Replace, Cap!Refused, Cap!Write
<1>12. ASSUME NEW c \in CaptureSetup.calls, Cap!Create(c) \/ Cap!NoteTool(c)
       PROVE  SourceKept(s)'
  <2> DEFINE p == cap_req[c].path
  <2>1. /\ cap_pc[c] \in {"create", "note_tool"} /\ p \in CaptureSetup.paths
        /\ UNCHANGED <<cap_hidden, cap_index, cap_todo, cap_snap, cap_found>>
    BY <1>12, CaptureConstants DEF Cap!Create, Cap!NoteTool, Cap!refreshVars, Cap!TypeOK
  <2>2. CASE cap_pc' = [cap_pc EXCEPT ![c] = "failed"] /\ cap_notes' = cap_notes
    BY <1>10, <2>1, <2>2
  <2>3. ASSUME NEW note \in {Cap!New(c), Absent}, Cap!Write(c, p, note), p \notin cap_hidden,
               cap_pc' = [cap_pc EXCEPT ![c] = "refresh"], note = Absent => cap_pc[c] = "note_tool"
        PROVE  SourceKept(s)'
    <3>1. Cap!New(c) \in Cap!Notes /\ Cap!New(c).source = cap_req[c].source
      BY CaptureConstants DEF Cap!New, Cap!Notes, Cap!TypeOK
    <3>2. Deduplicates(c, s) => cap_pc[c] = "create"
      BY <1>3, <2>1 DEF CaptureControl
    <3>3. note # Absent /\ note.source = s => Deduplicates(c, s)
      BY <2>3, <3>1 DEF Cap!Write, Cap!Undeduplicated, Cap!Source, Deduplicates
    <3>4. cap_notes' = [cap_notes EXCEPT ![p] = note] /\ cap_pc'[c] = "refresh"
      BY <1>2, <2>3 DEF Cap!Write
    <3>5. note \in Cap!Notes \cup {Absent} /\ (Deduplicates(c, s) => note = Cap!New(c))
      BY <2>3, <3>1, <3>2
    <3> QED BY <1>6, <2>1, <2>3, <3>2, <3>3, <3>4, <3>5
  <2>4. Cap!New(c) # Absent
    BY CaptureConstants DEF Cap!New, Cap!Notes, Cap!TypeOK
  <2>5. CASE Cap!Create(c)
    BY <2>2, <2>3, <2>4, <2>5 DEF Cap!Create, Cap!Refused
  <2>6. CASE Cap!NoteTool(c)
    <3>1. (IF Cap!Op(c) = "write" THEN Cap!New(c) ELSE Absent) \in {Cap!New(c), Absent}
      OBVIOUS
    <3> QED BY <2>2, <2>3, <2>6, <3>1 DEF Cap!NoteTool, Cap!Refused
  <2> QED BY <1>12, <2>5, <2>6
<1>13. ASSUME NEW c \in CaptureSetup.calls, Cap!LateWrite(c)
       PROVE  SourceKept(s)'
  <2>1. cap_late[c] = "write" /\ UNCHANGED <<cap_pc, cap_hidden, cap_index, cap_todo, cap_snap, cap_found, cap_unsure>>
    BY <1>13 DEF Cap!LateWrite, Cap!refreshVars, Cap!historyVars
  <2>2. cap_pc[c] = "dropped" /\ cap_req[c].source # s
    BY <2>1 DEF CaptureControl
  <2>3. /\ Cap!New(c) \in Cap!Notes /\ Cap!New(c).source # s
        /\ cap_found[c] \in CaptureSetup.paths /\ cap_req[c].path \in CaptureSetup.paths
    BY <2>2, CaptureConstants DEF Cap!New, Cap!Notes, Cap!TypeOK
  <2>4. \/ cap_notes' = cap_notes
        \/ \E p \in CaptureSetup.paths : cap_notes' = [cap_notes EXCEPT ![p] = Cap!New(c)]
    BY <1>13, <2>3 DEF Cap!LateWrite
  <2>5. ~Deduplicates(c, s)
    BY <2>2 DEF Deduplicates
  <2>6. CASE cap_notes' = cap_notes
    <3>1. \A p \in CaptureSetup.paths : Cap!Row(p)' = Cap!Row(p)
      BY <2>6 DEF Cap!Row
    <3>2. NoneHidden(s)'
      BY <2>1, <3>1 DEF SourceKept, NoneHidden
    <3> QED BY <1>5, <2>1, <3>1, <3>2
  <2>7. ASSUME NEW p \in CaptureSetup.paths, cap_notes' = [cap_notes EXCEPT ![p] = Cap!New(c)]
        PROVE  SourceKept(s)'
    BY <1>6, <2>1, <2>3, <2>5, <2>7
  <2> QED BY <2>4, <2>6, <2>7
\* A refresh.
<1>14. ASSUME NEW c \in CaptureSetup.calls, UNCHANGED <<cap_notes, cap_hidden, cap_index, cap_found>>,
              cap_pc[c] \in {"refresh", "collect"},
              cap_pc' = cap_pc \/ \E to \in {"collect", "publish"} : cap_pc' = [cap_pc EXCEPT ![c] = to],
              \A d \in CaptureSetup.calls \ {c} : cap_pc[d] \notin Cap!Refreshing,
              ~Unread(s)' => Collected(s, c)'
       PROVE  SourceKept(s)'
  <2>1. \A p : Cap!Row(p)' = Cap!Row(p)
    BY <1>14 DEF Cap!Row
  <2>2. (OneNote(s) /\ NoneHidden(s))' /\ (Indexed(s)' <=> Indexed(s))
    BY <1>14, <2>1 DEF SourceKept, OneNote, NoneHidden, Indexed
  <2>3. /\ \A d \in CaptureSetup.calls \ {c} : cap_pc'[d] = cap_pc[d]
        /\ cap_pc'[c] \in {"refresh", "collect", "publish"}
    BY <1>2, <1>14
  <2>4. Unindexed(s)' <=> Unindexed(s)
    BY <1>1, <1>14, <2>3 DEF Unindexed
  <2>5. \A d \in CaptureSetup.calls : (cap_pc[d] \in Cap!Refreshing)' => d = c
    BY <1>14, <2>3 DEF Cap!Refreshing
  <2>6. \A d \in CaptureSetup.calls : Chosen(s, d) => Chosen(s, d)'
    BY <1>14, <2>1, <2>3 DEF Chosen
  <2> QED BY <1>1, <1>14, <2>2, <2>4, <2>5, <2>6 DEF SourceKept
<1>15. ASSUME NEW c \in CaptureSetup.calls, Cap!Refresh(c)
       PROVE  SourceKept(s)'
  <2>1. /\ cap_pc[c] = "refresh" /\ cap_pc' = [cap_pc EXCEPT ![c] = "collect"]
        /\ UNCHANGED <<cap_notes, cap_hidden, cap_index, cap_found>>
        /\ \A d \in CaptureSetup.calls : cap_pc[d] \notin Cap!Refreshing
        /\ cap_todo'[c] = {p \in CaptureSetup.paths \ cap_hidden : cap_notes[p] # Absent}
        /\ cap_snap'[c] = Cap!EmptyRows
    BY <1>15 DEF Cap!Refresh, Cap!TypeOK
  <2>2. s # Absent /\ \A p \in CaptureSetup.paths : cap_snap'[c][p] # s
    BY <2>1, CaptureConstants DEF Cap!EmptyRows
  <2>3. Collected(s, c)'
    BY <2>1, <2>2 DEF Collected, SourceKept, NoneHidden, Cap!Row
  <2> QED BY <1>14, <2>1, <2>3
<1>16. ASSUME NEW c \in CaptureSetup.calls, cap_pc[c] \in Cap!Refreshing, Cap!RefreshFails(c),
              UNCHANGED <<cap_notes, cap_hidden, cap_index, cap_found>>
       PROVE  SourceKept(s)'
  <2>1. ~Deduplicates(c, s)
    BY <1>3, <1>16 DEF Cap!RefreshFails
  <2> QED BY <1>4, <1>16, <2>1 DEF Cap!RefreshFails, Cap!refreshVars
<1>17. ASSUME NEW c \in CaptureSetup.calls, cap_pc[c] \in Cap!Refreshing
       PROVE  /\ \A d \in CaptureSetup.calls \ {c} : cap_pc[d] \notin Cap!Refreshing
              /\ ~Unread(s) => Collected(s, c)
  BY <1>17 DEF CaptureControl, SourceKept
<1>18. ASSUME NEW c \in CaptureSetup.calls, Cap!Collect(c)
       PROVE  SourceKept(s)'
  <2>1. cap_pc[c] = "collect" /\ UNCHANGED <<cap_notes, cap_hidden, cap_index, cap_found>>
    BY <1>18 DEF Cap!Collect
  <2>2. CASE cap_todo[c] = {} /\ cap_pc' = [cap_pc EXCEPT ![c] = "publish"] /\ UNCHANGED Cap!refreshVars
    <3>1. ~Unread(s)' => ~Unread(s)
      BY <1>1, <1>2, <2>1, <2>2 DEF Unread
    <3>2. Collected(s, c) => Collected(s, c)'
      BY <2>1, <2>2 DEF Collected, Cap!refreshVars, Cap!Row
    <3> QED BY <1>2, <1>14, <1>17, <2>1, <2>2, <3>1, <3>2
  <2>3. ASSUME NEW p \in cap_todo[c], cap_pc' = cap_pc, cap_notes[p] # Absent,
               cap_todo' = [cap_todo EXCEPT ![c] = @ \ {p}], cap_snap' = [cap_snap EXCEPT ![c][p] = Cap!Row(p)]
        PROVE  SourceKept(s)'
    <3>1. /\ p \in CaptureSetup.paths /\ cap_todo'[c] = cap_todo[c] \ {p} /\ cap_snap'[c][p] = Cap!Row(p)
          /\ \A q \in CaptureSetup.paths \ {p} : cap_snap'[c][q] = cap_snap[c][q]
      <4>1. cap_todo \in [CaptureSetup.calls -> SUBSET CaptureSetup.paths]
        BY DEF Cap!TypeOK
      <4>2. cap_snap \in [CaptureSetup.calls -> [CaptureSetup.paths -> Cap!Rows]]
        BY DEF Cap!TypeOK
      <4>3. p \in CaptureSetup.paths /\ cap_todo'[c] = cap_todo[c] \ {p}
        BY <2>3, <4>1
      <4>4. cap_snap'[c] = [cap_snap[c] EXCEPT ![p] = Cap!Row(p)]
        BY <2>3, <4>2
      <4> QED BY <4>2, <4>3, <4>4
    <3>2. \A q : Cap!Row(q)' = Cap!Row(q)
      BY <2>1 DEF Cap!Row
    <3>3. Collected(s, c) => Collected(s, c)'
      <4> SUFFICES ASSUME Collected(s, c) PROVE Collected(s, c)'
        OBVIOUS
      <4>1. \A q \in CaptureSetup.paths : Cap!Row(q) = s => q \in cap_todo'[c] \/ cap_snap'[c][q] = s
        BY <3>1 DEF Collected
      <4>2. \A q \in CaptureSetup.paths : cap_snap'[c][q] = s =>
               (q = p /\ Cap!Row(p) = s) \/ (q # p /\ cap_snap[c][q] = s)
        BY <3>1
      <4>3. \A q, r \in CaptureSetup.paths :
               cap_snap'[c][q] = s /\ (cap_snap'[c][r] = s \/ Cap!Row(r) = s) => q = r
        BY <3>1, <4>2 DEF Collected, SourceKept, OneNote
      <4> QED BY <3>2, <4>1, <4>3 DEF Collected
    <3>4. Unread(s)' <=> Unread(s)
      BY <1>1, <2>3 DEF Unread
    <3> QED BY <1>2, <1>14, <1>17, <2>1, <2>3, <3>3, <3>4
  <2>4. CASE Cap!RefreshFails(c)
    BY <1>2, <1>16, <2>1, <2>4
  <2> QED BY <1>18, <2>2, <2>3, <2>4 DEF Cap!Collect
<1>19. ASSUME NEW c \in CaptureSetup.calls, Cap!Publish(c)
       PROVE  SourceKept(s)'
  <2>1. cap_pc[c] = "publish" /\ UNCHANGED <<cap_notes, cap_hidden, cap_found>>
    BY <1>19 DEF Cap!Publish
  <2>2. CASE cap_index' = cap_index /\ Cap!RefreshFails(c)
    BY <1>2, <1>16, <2>1, <2>2
  <2>3. CASE cap_index' = cap_snap[c] /\ cap_pc' = [cap_pc EXCEPT ![c] = "done"] /\ UNCHANGED Cap!refreshVars
    <3>1. cap_pc'[c] = "done" /\ \A d \in CaptureSetup.calls \ {c} : cap_pc'[d] = cap_pc[d]
      BY <1>2, <2>3
    <3>2. \A q : Cap!Row(q)' = Cap!Row(q)
      BY <2>1 DEF Cap!Row
    <3>3. ~Unindexed(s)' => ~Unread(s)
      BY <1>1, <2>1, <3>1 DEF Unindexed, Unread
    <3>4. Collected(s, c) => Indexed(s)'
      BY <2>1, <2>3, <3>2 DEF Collected, Indexed, CaptureControl
    <3>5. \A d \in CaptureSetup.calls : (cap_pc[d] \notin Cap!Refreshing)'
      BY <1>2, <1>17, <2>1, <3>1 DEF Cap!Refreshing
    <3>6. \A d \in CaptureSetup.calls : Chosen(s, d) => Chosen(s, d)'
      BY <2>1, <3>1, <3>2 DEF Chosen
    <3>7. (OneNote(s) /\ NoneHidden(s))'
      BY <2>1, <3>2 DEF SourceKept, OneNote, NoneHidden
    <3> QED BY <1>1, <1>2, <1>17, <2>1, <3>3, <3>4, <3>5, <3>6, <3>7 DEF SourceKept
  <2> QED BY <1>19, <2>2, <2>3 DEF Cap!Publish
<1>20. ASSUME NEW c \in CaptureSetup.calls, Cap!Drop(c)
       PROVE  SourceKept(s)'
  <2>1. cap_pc' = [cap_pc EXCEPT ![c] = "dropped"] /\ cap_pc'[c] = "dropped"
        /\ UNCHANGED <<cap_notes, cap_hidden, cap_index, cap_todo, cap_snap, cap_found>>
    BY <1>2, <1>20 DEF Cap!Drop, Cap!refreshVars
  <2>2. ~Deduplicates(c, s)
    BY <1>3, <1>20 DEF Cap!Drop
  <2> QED BY <1>4, <2>1, <2>2
<1>21. ASSUME NEW c \in CaptureSetup.calls, Cap!LateRebuild(c)
       PROVE  SourceKept(s)'
  BY <1>21 DEF Cap!LateRebuild
<1>22. CASE Cap!PolicyReload
  <2>1. UNCHANGED <<cap_pc, cap_notes, cap_index, cap_todo, cap_snap, cap_found>>
    BY <1>22 DEF Cap!PolicyReload, Cap!refreshVars
  <2>2. \A p : Cap!Row(p)' = Cap!Row(p)
    BY <2>1 DEF Cap!Row
  <2>3. NoneHidden(s)'
    BY <1>22, <2>2 DEF Cap!PolicyReload, NoneHidden
  <2> QED BY <1>5, <2>1, <2>2, <2>3
<1>23. CASE UNCHANGED Cap!vars
  <2>1. UNCHANGED <<cap_pc, cap_notes, cap_hidden, cap_index, cap_todo, cap_snap, cap_found>>
    BY <1>23 DEF Cap!vars, Cap!refreshVars
  <2>2. \A p : Cap!Row(p)' = Cap!Row(p)
    BY <2>1 DEF Cap!Row
  <2>3. NoneHidden(s)'
    BY <2>1, <2>2 DEF SourceKept, NoneHidden
  <2> QED BY <1>5, <2>1, <2>2, <2>3
<1> QED
  BY <1>7, <1>8, <1>9, <1>11, <1>12, <1>13, <1>15, <1>18, <1>19, <1>20, <1>21, <1>22, <1>23 DEF Cap!Next, Cap!Step

LEMMA FinishedStaysKept ==
    ASSUME Cap!TypeOK, CaptureControl, [Cap!Next]_(Cap!vars), FinishedKept
    PROVE  FinishedKept'
<1> USE DEF Cap!At, Cap!Go, Cap!Op
<1>1. cap_req' = cap_req
  BY DEF Cap!Next, Cap!Step, Cap!vars, Cap!Start, Cap!Acquire, Cap!Lookup, Cap!Read, Cap!Replace, Cap!Create,
         Cap!NoteTool, Cap!Refresh, Cap!Collect, Cap!Publish, Cap!Drop, Cap!LateWrite, Cap!LateRebuild,
         Cap!PolicyReload, Cap!refreshVars, Cap!historyVars
<1>2. cap_pc \in [CaptureSetup.calls -> Cap!PCs] /\ Cap!Refreshing = {"collect", "publish"}
  BY DEF Cap!TypeOK, Cap!Refreshing
<1>3. cap_published \subseteq CaptureSetup.calls /\ \A c \in CaptureSetup.calls : cap_known[c] \subseteq CaptureSetup.calls
  BY DEF Cap!TypeOK
\* Nothing is written or indexed.
<1>4. ASSUME NEW c \in CaptureSetup.calls, NEW to, cap_pc' = [cap_pc EXCEPT ![c] = to], cap_pc[c] # "done",
             to \in Cap!Refreshing => cap_pc[c] \in Cap!Refreshing,
             UNCHANGED <<cap_notes, cap_index, cap_snap, cap_published>>,
             \A d \in CaptureSetup.calls \ {c} :
                 UNCHANGED <<cap_found[d], cap_read[d], cap_late[d], cap_known[d]>>,
             cap_known'[c] \in {cap_known[c], cap_published}, Replacing(c)' => WellLed(c)'
      PROVE  FinishedKept'
  <2>1. cap_pc'[c] = to /\ \A d \in CaptureSetup.calls \ {c} : cap_pc'[d] = cap_pc[d]
    BY <1>2, <1>4
  <2>2. \A b \in CaptureSetup.calls : cap_pc[b] = "done" => cap_pc'[b] = "done"
    BY <1>4, <2>1
  <2>3. \A b \in cap_published' : cap_pc'[b] = "done"
    BY <1>3, <1>4, <2>2 DEF FinishedKept
  <2>4. \A d \in CaptureSetup.calls : \A b \in cap_known'[d] : cap_pc'[b] = "done"
    BY <1>3, <1>4, <2>2 DEF FinishedKept
  <2>5. IndexFaithful' /\ \A d \in CaptureSetup.calls : SnapFaithful(d) => SnapFaithful(d)'
    BY <1>4 DEF FinishedKept, IndexFaithful, SnapFaithful, By
  <2>6. \A d \in CaptureSetup.calls : (cap_pc[d] \in Cap!Refreshing)' => cap_pc[d] \in Cap!Refreshing
    BY <1>4, <2>1 DEF Cap!Refreshing
  <2>7. \A d \in CaptureSetup.calls \ {c} : (Replacing(d)' => Replacing(d)) /\ (WellLed(d) => WellLed(d)')
    BY <1>1, <1>4, <2>1 DEF Replacing, WellLed, By
  <2> QED BY <1>4, <2>3, <2>4, <2>5, <2>6, <2>7 DEF FinishedKept
\* A call that is not finished writes.
<1>5. ASSUME NEW c \in CaptureSetup.calls, NEW p \in CaptureSetup.paths, NEW note \in {Cap!New(c), Absent},
             cap_notes' = [cap_notes EXCEPT ![p] = note], cap_pc[c] \notin {"done", "collect", "publish"},
             \/ cap_pc' = [cap_pc EXCEPT ![c] = "refresh"] /\ cap_late' = cap_late
             \/ cap_pc' = cap_pc /\ cap_late' = [cap_late EXCEPT ![c] = "nothing"],
             UNCHANGED <<cap_index, cap_snap, cap_published, cap_found, cap_read, cap_known>>
      PROVE  FinishedKept'
  <2>1. /\ \A d \in CaptureSetup.calls : cap_pc'[d] = cap_pc[d] \/ (d = c /\ cap_pc'[d] = "refresh")
        /\ \A d \in CaptureSetup.calls : cap_late'[d] = "write" => cap_late[d] = "write"
    BY <1>2, <1>5 DEF Cap!TypeOK
  <2>2. /\ \A b \in cap_published' : cap_pc'[b] = "done"
        /\ \A d \in CaptureSetup.calls : \A b \in cap_known'[d] : cap_pc'[b] = "done"
    BY <1>3, <1>5, <2>1 DEF FinishedKept
  <2>3. \A q \in CaptureSetup.paths, calls \in SUBSET CaptureSetup.calls :
           c \notin calls => (By(q, calls)' => By(q, calls) /\ cap_notes'[q] = cap_notes[q])
    BY <1>5 DEF By, Cap!New, Cap!TypeOK
  <2>4. c \notin cap_published /\ \A d \in CaptureSetup.calls : c \notin cap_known[d]
    BY <1>5 DEF FinishedKept
  <2>5. IndexFaithful'
    BY <1>3, <1>5, <2>3, <2>4 DEF FinishedKept, IndexFaithful, By
  <2>6. ASSUME NEW d \in CaptureSetup.calls, (cap_pc[d] \in Cap!Refreshing)' PROVE SnapFaithful(d)'
    <3>1. d # c /\ cap_pc[d] \in Cap!Refreshing
      BY <1>2, <1>5, <2>1, <2>6 DEF Cap!Refreshing
    <3>2. SnapFaithful(d) /\ c \notin cap_published \cup {d}
      BY <2>4, <3>1 DEF FinishedKept
    <3>3. \A q \in CaptureSetup.paths :
             By(q, cap_published \cup {d})' => By(q, cap_published \cup {d}) /\ cap_notes'[q] = cap_notes[q]
      <4>1. cap_published \cup {d} \in SUBSET CaptureSetup.calls
        BY <1>3
      <4>2. PICK calls \in SUBSET CaptureSetup.calls : calls = cap_published \cup {d} /\ calls = (cap_published \cup {d})'
        BY <1>5, <4>1
      <4> QED BY <2>3, <3>2, <4>2 DEF By
    <3> QED BY <1>5, <3>2, <3>3 DEF SnapFaithful
  <2>7. ASSUME NEW d \in CaptureSetup.calls, Replacing(d)' PROVE WellLed(d)'
    <3>1. Replacing(d) /\ cap_found[d] \in CaptureSetup.paths
      BY <1>5, <2>1, <2>7 DEF Replacing, Cap!TypeOK
    <3> QED BY <1>1, <1>3, <1>5, <2>3, <2>4, <3>1 DEF FinishedKept, WellLed, By
  <2> QED BY <2>2, <2>5, <2>6, <2>7 DEF FinishedKept
<1>6. ASSUME NEW c \in CaptureSetup.calls, Cap!Start(c) \/ Cap!Acquire(c)
      PROVE  FinishedKept'
  <2>1. /\ \E to \in {"framework", "note_tool", "create", "lookup", "failed"} : cap_pc' = [cap_pc EXCEPT ![c] = to]
        /\ cap_pc[c] \in {"idle", "framework"}
        /\ UNCHANGED <<cap_notes, cap_index, cap_snap, cap_published, cap_found, cap_read, cap_late, cap_known>>
    BY <1>6 DEF Cap!Start, Cap!Acquire, Cap!refreshVars, Cap!historyVars
  <2>2. ~Replacing(c)'
    BY <1>2, <2>1 DEF Replacing, CaptureControl, Cap!TypeOK
  <2> QED BY <1>2, <1>4, <2>1, <2>2
<1>7. ASSUME NEW c \in CaptureSetup.calls, Cap!Lookup(c)
      PROVE  FinishedKept'
  <2>1. PICK to \in {"create", "read", "failed"} : cap_pc' = [cap_pc EXCEPT ![c] = to]
    BY <1>7 DEF Cap!Lookup
  <2>2. /\ cap_pc[c] = "lookup" /\ cap_known'[c] = cap_published /\ cap_late[c] = "nothing"
        /\ UNCHANGED <<cap_notes, cap_index, cap_snap, cap_published, cap_read, cap_late>>
        /\ \A d \in CaptureSetup.calls \ {c} : UNCHANGED <<cap_found[d], cap_known[d]>>
    BY <1>7 DEF Cap!Lookup, Cap!refreshVars, Cap!TypeOK, CaptureControl
  <2>3. ASSUME Replacing(c)' PROVE WellLed(c)'
    <3>1. to = "read"
      BY <1>2, <2>1, <2>2, <2>3 DEF Replacing
    <3>2. cap_index[cap_found'[c]] = cap_req[c].source /\ cap_found'[c] \in CaptureSetup.paths
      BY <1>2, <1>7, <2>1, <3>1 DEF Cap!Lookup, Cap!TypeOK
    <3>3. cap_req[c].source # Absent
      BY CaptureConstants DEF Cap!TypeOK
    <3> QED BY <1>1, <2>2, <3>2, <3>3 DEF WellLed, By, FinishedKept, IndexFaithful
  <2> QED BY <1>2, <1>4, <2>1, <2>2, <2>3
<1>8. ASSUME NEW c \in CaptureSetup.calls, Cap!Read(c)
      PROVE  FinishedKept'
  <2>1. /\ \E to \in {"replace", "failed"} : cap_pc' = [cap_pc EXCEPT ![c] = to]
        /\ cap_pc[c] = "read" /\ \A d \in CaptureSetup.calls \ {c} : UNCHANGED cap_read[d]
        /\ UNCHANGED <<cap_notes, cap_index, cap_snap, cap_published, cap_found, cap_late, cap_known>>
    BY <1>8 DEF Cap!Read, Cap!refreshVars, Cap!historyVars, Cap!TypeOK
  <2>2. WellLed(c)'
    BY <1>1, <2>1 DEF FinishedKept, Replacing, WellLed, By
  <2> QED BY <1>2, <1>4, <2>1, <2>2
<1>9. ASSUME NEW c \in CaptureSetup.calls, cap_pc[c] \in {"replace", "create", "note_tool"},
             cap_pc' = [cap_pc EXCEPT ![c] = "failed"],
             UNCHANGED <<cap_notes, cap_index, cap_snap, cap_published, cap_found, cap_read, cap_late, cap_known>>
      PROVE  FinishedKept'
  <2>1. ~Replacing(c)'
    BY <1>2, <1>9 DEF Replacing, CaptureControl, Cap!TypeOK
  <2> QED BY <1>2, <1>4, <1>9, <2>1
<1>10. ASSUME NEW c \in CaptureSetup.calls, Cap!Replace(c) \/ Cap!Create(c) \/ Cap!NoteTool(c)
       PROVE  FinishedKept'
  <2>1. /\ cap_pc[c] \in {"replace", "create", "note_tool"}
        /\ UNCHANGED <<cap_index, cap_snap, cap_published, cap_found, cap_read, cap_late, cap_known>>
    BY <1>10 DEF Cap!Replace, Cap!Create, Cap!NoteTool, Cap!refreshVars
  <2>2. CASE cap_pc' = [cap_pc EXCEPT ![c] = "failed"] /\ cap_notes' = cap_notes
    BY <1>9, <2>1, <2>2
  <2>3. ASSUME NEW p \in CaptureSetup.paths, NEW note \in {Cap!New(c), Absent},
               cap_notes' = [cap_notes EXCEPT ![p] = note], cap_pc' = [cap_pc EXCEPT ![c] = "refresh"]
        PROVE  FinishedKept'
    BY <1>5, <2>1, <2>3
  <2>4. cap_found[c] \in CaptureSetup.paths /\ cap_req[c].path \in CaptureSetup.paths
    BY CaptureConstants DEF Cap!TypeOK
  <2>5. CASE Cap!Replace(c)
    BY <2>2, <2>3, <2>4, <2>5 DEF Cap!Replace, Cap!Write, Cap!Refused
  <2>6. CASE Cap!Create(c)
    BY <2>2, <2>3, <2>4, <2>6 DEF Cap!Create, Cap!Write, Cap!Refused
  <2>7. CASE Cap!NoteTool(c)
    <3>1. (IF Cap!Op(c) = "write" THEN Cap!New(c) ELSE Absent) \in {Cap!New(c), Absent}
      OBVIOUS
    <3> QED BY <2>2, <2>3, <2>4, <2>7, <3>1 DEF Cap!NoteTool, Cap!Write, Cap!Refused
  <2> QED BY <1>10, <2>5, <2>6, <2>7
<1>11. ASSUME NEW c \in CaptureSetup.calls, Cap!Refresh(c)
       PROVE  FinishedKept'
  <2>1. /\ cap_pc[c] = "refresh" /\ cap_pc' = [cap_pc EXCEPT ![c] = "collect"]
        /\ UNCHANGED <<cap_notes, cap_index, cap_published, cap_found, cap_read, cap_late, cap_known>>
        /\ cap_snap'[c] = Cap!EmptyRows /\ \A d \in CaptureSetup.calls : cap_pc[d] \notin Cap!Refreshing
    BY <1>11 DEF Cap!Refresh, Cap!historyVars, Cap!TypeOK
  <2>2. /\ cap_pc'[c] = "collect" /\ \A d \in CaptureSetup.calls \ {c} : cap_pc'[d] = cap_pc[d]
        /\ \A b \in CaptureSetup.calls : cap_pc[b] = "done" => cap_pc'[b] = "done"
    BY <1>2, <2>1
  <2>3. SnapFaithful(c)' /\ IndexFaithful'
    BY <2>1 DEF FinishedKept, SnapFaithful, IndexFaithful, By, Cap!EmptyRows
  <2>4. \A d \in CaptureSetup.calls : (cap_pc[d] \in Cap!Refreshing)' => d = c
    BY <2>1, <2>2 DEF Cap!Refreshing
  <2>5. \A d \in CaptureSetup.calls : (Replacing(d)' => Replacing(d)) /\ (WellLed(d) => WellLed(d)')
    BY <1>1, <2>1, <2>2 DEF Replacing, WellLed, By
  <2> QED BY <1>3, <2>1, <2>2, <2>3, <2>4, <2>5 DEF FinishedKept
<1>12. ASSUME NEW c \in CaptureSetup.calls, cap_pc[c] \in Cap!Refreshing,
              cap_pc' = cap_pc \/ \E to \in {"publish", "done"} : cap_pc' = [cap_pc EXCEPT ![c] = to],
              UNCHANGED <<cap_notes, cap_index, cap_published, cap_found, cap_read, cap_late, cap_known>>,
              SnapFaithful(c)'
       PROVE  FinishedKept'
  <2>1. /\ \A d \in CaptureSetup.calls \ {c} : cap_pc'[d] = cap_pc[d]
        /\ cap_pc'[c] \in {"collect", "publish", "done"}
        /\ \A b \in CaptureSetup.calls : cap_pc[b] = "done" => cap_pc'[b] = "done"
    BY <1>2, <1>12
  <2>2. IndexFaithful'
    BY <1>12 DEF FinishedKept, IndexFaithful, By
  <2>3. \A d \in CaptureSetup.calls : (cap_pc[d] \in Cap!Refreshing)' => d = c
    BY <1>2, <1>12, <2>1 DEF Cap!Refreshing, CaptureControl
  <2>4. \A d \in CaptureSetup.calls : (Replacing(d)' => Replacing(d)) /\ (WellLed(d) => WellLed(d)')
    BY <1>1, <1>12, <2>1 DEF Replacing, WellLed, By
  <2> QED BY <1>3, <1>12, <2>1, <2>2, <2>3, <2>4 DEF FinishedKept
<1>13. ASSUME NEW c \in CaptureSetup.calls, Cap!Collect(c)
       PROVE  FinishedKept'
  <2>1. /\ cap_pc[c] = "collect" /\ cap_pc[c] \in Cap!Refreshing
        /\ UNCHANGED <<cap_notes, cap_index, cap_published, cap_found, cap_read, cap_late, cap_known>>
    BY <1>2, <1>13 DEF Cap!Collect
  <2>2. CASE cap_snap' = cap_snap /\ \E to \in {"publish", "done"} : cap_pc' = [cap_pc EXCEPT ![c] = to]
    <3>1. SnapFaithful(c)'
      BY <2>1, <2>2 DEF FinishedKept, SnapFaithful, By
    <3> QED BY <1>12, <2>1, <2>2, <3>1
  <2>3. ASSUME NEW p \in cap_todo[c], cap_pc' = cap_pc, cap_notes[p] # Absent,
               cap_snap' = [cap_snap EXCEPT ![c][p] = Cap!Row(p)]
        PROVE  FinishedKept'
    <3>1. cap_snap \in [CaptureSetup.calls -> [CaptureSetup.paths -> Cap!Rows]] /\ p \in CaptureSetup.paths
      BY DEF Cap!TypeOK
    <3>2. cap_snap'[c] = [cap_snap[c] EXCEPT ![p] = Cap!Row(p)]
      BY <2>3, <3>1
    <3>3. cap_snap'[c][p] = cap_notes[p].source /\ \A q \in CaptureSetup.paths \ {p} : cap_snap'[c][q] = cap_snap[c][q]
      BY <2>3, <3>1, <3>2 DEF Cap!Row
    <3>4. SnapFaithful(c)'
      BY <2>1, <3>3 DEF FinishedKept, SnapFaithful, By
    <3> QED BY <1>12, <2>1, <2>3, <3>4
  <2> QED BY <1>13, <2>2, <2>3 DEF Cap!Collect, Cap!RefreshFails, Cap!refreshVars
<1>14. ASSUME NEW c \in CaptureSetup.calls, Cap!Publish(c)
       PROVE  FinishedKept'
  <2>1. /\ cap_pc[c] = "publish" /\ cap_pc[c] \in Cap!Refreshing
        /\ UNCHANGED <<cap_notes, cap_found, cap_read, cap_late, cap_known, cap_snap>>
        /\ cap_pc' = [cap_pc EXCEPT ![c] = "done"]
    BY <1>2, <1>14 DEF Cap!Publish, Cap!RefreshFails, Cap!refreshVars
  <2>2. CASE UNCHANGED <<cap_index, cap_published>>
    <3>1. SnapFaithful(c)'
      BY <2>1, <2>2 DEF FinishedKept, SnapFaithful, By
    <3> QED BY <1>12, <2>1, <2>2, <3>1
  <2>3. CASE cap_index' = cap_snap[c] /\ cap_published' = cap_published \cup {c}
    <3>1. /\ \A d \in CaptureSetup.calls \ {c} : cap_pc'[d] = cap_pc[d]
          /\ cap_pc'[c] = "done"
          /\ \A b \in CaptureSetup.calls : cap_pc[b] = "done" => cap_pc'[b] = "done"
      BY <1>2, <2>1
    <3>2. IndexFaithful'
      BY <2>1, <2>3 DEF FinishedKept, SnapFaithful, IndexFaithful, By
    <3>3. \A d \in CaptureSetup.calls : (cap_pc[d] \notin Cap!Refreshing)'
      BY <1>2, <2>1, <3>1 DEF Cap!Refreshing, CaptureControl
    <3>4. \A d \in CaptureSetup.calls : (Replacing(d)' => Replacing(d)) /\ (WellLed(d) => WellLed(d)')
      BY <1>1, <2>1, <3>1 DEF Replacing, WellLed, By
    <3> QED BY <1>3, <2>1, <2>3, <3>1, <3>2, <3>3, <3>4 DEF FinishedKept
  <2> QED BY <1>14, <2>2, <2>3 DEF Cap!Publish
<1>15. ASSUME NEW c \in CaptureSetup.calls, Cap!Drop(c)
       PROVE  FinishedKept'
  <2>1. /\ cap_pc' = [cap_pc EXCEPT ![c] = "dropped"] /\ cap_pc[c] # "done"
        /\ UNCHANGED <<cap_notes, cap_index, cap_snap, cap_published, cap_found, cap_read, cap_known>>
        /\ cap_late'[c] = Cap!Left(c) /\ \A d \in CaptureSetup.calls \ {c} : cap_late'[d] = cap_late[d]
    BY <1>15 DEF Cap!Drop, Cap!refreshVars, Cap!TypeOK
  <2>2. Cap!Left(c) = "write" => cap_pc[c] \in {"replace", "create"}
    BY DEF Cap!Left
  <2>3. Replacing(c)' => Replacing(c)
    BY <1>2, <2>1, <2>2 DEF Replacing, CaptureControl
  <2>4. WellLed(c) => WellLed(c)'
    BY <1>1, <2>1 DEF WellLed, By
  <2> QED BY <1>2, <1>4, <2>1, <2>3, <2>4 DEF FinishedKept
<1>16. ASSUME UNCHANGED <<cap_pc, cap_notes, cap_snap, cap_found, cap_read, cap_known>>,
              \A d \in CaptureSetup.calls : cap_late'[d] = "write" => cap_late[d] = "write",
              UNCHANGED <<cap_published, cap_index>> \/ cap_published' = {}
       PROVE  FinishedKept'
  <2>1. IndexFaithful' /\ \A d \in CaptureSetup.calls : SnapFaithful(d) => SnapFaithful(d)'
    BY <1>16 DEF FinishedKept, IndexFaithful, SnapFaithful, By
  <2>2. \A d \in CaptureSetup.calls : (Replacing(d)' => Replacing(d)) /\ (WellLed(d) => WellLed(d)')
    BY <1>1, <1>16 DEF Replacing, WellLed, By
  <2>3. \A d \in CaptureSetup.calls : (cap_pc[d] \in Cap!Refreshing)' => cap_pc[d] \in Cap!Refreshing
    BY <1>16 DEF Cap!Refreshing
  <2> QED BY <1>16, <2>1, <2>2, <2>3 DEF FinishedKept
<1>17. ASSUME NEW c \in CaptureSetup.calls, Cap!LateWrite(c)
       PROVE  FinishedKept'
  <2>1. /\ cap_late[c] = "write" /\ cap_late' = [cap_late EXCEPT ![c] = "nothing"] /\ cap_pc[c] = "dropped"
        /\ cap_found[c] \in CaptureSetup.paths /\ cap_req[c].path \in CaptureSetup.paths
        /\ UNCHANGED <<cap_pc, cap_index, cap_snap, cap_published, cap_found, cap_read, cap_known>>
    BY <1>17, CaptureConstants DEF Cap!LateWrite, Cap!refreshVars, Cap!historyVars, CaptureControl, Cap!TypeOK
  <2>2. CASE cap_notes' = cap_notes
    BY <1>16, <2>1, <2>2 DEF Cap!TypeOK
  <2>3. ASSUME NEW p \in CaptureSetup.paths, cap_notes' = [cap_notes EXCEPT ![p] = Cap!New(c)]
        PROVE  FinishedKept'
    BY <1>5, <2>1, <2>3
  <2> QED BY <1>17, <2>1, <2>2, <2>3 DEF Cap!LateWrite
<1>18. ASSUME NEW c \in CaptureSetup.calls, Cap!LateRebuild(c)
       PROVE  FinishedKept'
  BY <1>16, <1>18 DEF Cap!LateRebuild, Cap!refreshVars, Cap!TypeOK
<1>19. CASE Cap!PolicyReload
  BY <1>16, <1>19 DEF Cap!PolicyReload, Cap!refreshVars
<1>20. CASE UNCHANGED Cap!vars
  BY <1>16, <1>20 DEF Cap!vars, Cap!refreshVars, Cap!historyVars
<1> QED
  BY <1>6, <1>7, <1>8, <1>10, <1>11, <1>13, <1>14, <1>15, <1>17, <1>18, <1>19, <1>20 DEF Cap!Next, Cap!Step

CaptureInv ==
    /\ Cap!TypeOK /\ CaptureControl /\ FinishedKept
    /\ \A s \in CaptureSetup.sources \ cap_unsure : SourceKept(s)

LEMMA CaptureStarts == Cap!Init => CaptureInv
<1> SUFFICES ASSUME Cap!Init PROVE CaptureInv
  OBVIOUS
<1>1. Cap!TypeOK
  BY CaptureTypes
<1>2. /\ \A c \in CaptureSetup.calls : cap_pc[c] = "idle" /\ cap_late[c] = "nothing" /\ cap_read[c] = Absent
      /\ cap_published = {} /\ \A c \in CaptureSetup.calls : cap_known[c] = {}
      /\ \A p \in CaptureSetup.paths : cap_index[p] = Cap!Row(p)
      /\ cap_hidden = {}
  BY DEF Cap!Init
<1>3. CaptureControl
  BY <1>2 DEF CaptureControl, Cap!UnderFramework, Cap!Refreshing
<1>4. FinishedKept
  BY <1>2 DEF FinishedKept, IndexFaithful, SnapFaithful, Replacing, By, Cap!Refreshing
<1>5. ASSUME NEW s \in CaptureSetup.sources PROVE SourceKept(s)
  <2>1. OneNote(s)
    BY DEF Cap!Init, OneNote
  <2> QED BY <1>2, <2>1 DEF SourceKept, OneNote, NoneHidden, Indexed, Chosen, Cap!Refreshing
<1> QED BY <1>1, <1>3, <1>4, <1>5 DEF CaptureInv

LEMMA CaptureSteps == CaptureInv /\ [Cap!Next]_(Cap!vars) => CaptureInv'
<1> SUFFICES ASSUME CaptureInv, [Cap!Next]_(Cap!vars) PROVE CaptureInv'
  OBVIOUS
<1>1. cap_unsure \subseteq cap_unsure'
  <2>1. CASE UNCHANGED Cap!vars
    BY <2>1 DEF Cap!vars, Cap!historyVars
  <2>2. CASE Cap!PolicyReload
    BY <2>2 DEF Cap!PolicyReload
  <2>3. ASSUME NEW c \in CaptureSetup.calls, Cap!LateRebuild(c) PROVE cap_unsure \subseteq cap_unsure'
    BY <2>3 DEF Cap!LateRebuild, CaptureInv, Cap!TypeOK
  <2>4. ASSUME NEW c \in CaptureSetup.calls, Cap!Step(c) \/ Cap!Drop(c) \/ Cap!LateWrite(c)
        PROVE  cap_unsure \subseteq cap_unsure'
    BY <2>4
    DEF Cap!Step, Cap!Start, Cap!Acquire, Cap!Lookup, Cap!Read, Cap!Replace, Cap!Create, Cap!NoteTool,
        Cap!Refresh, Cap!Collect, Cap!Publish, Cap!Drop, Cap!LateWrite, Cap!Write, Cap!Refused, Cap!RefreshFails,
        Cap!historyVars
  <2> QED BY <2>1, <2>2, <2>3, <2>4 DEF Cap!Next
<1> QED BY <1>1, CaptureTypes, ControlKept, FinishedStaysKept, SourceStaysKept DEF CaptureInv

LEMMA CapturesKeepInv == ServerSpec => []("captures" \in active => CaptureInv)
<1>1. [ServerNext]_allVars => (("captures" \in active)' => "captures" \in active)
  BY ActiveKept
<1> QED BY <1>1, CaptureStarts, CaptureSteps, CapturesSpec, PTL DEF ServerSpec, Cap!Spec

\* Captures that replace by source id leave at most one note per id, however many of them
\* race (inbox_capture under framework_mutation_lock).
THEOREM CapturesLeaveOneNote == ServerSpec => []OneNotePerSource
<1>1. ("captures" \in active => CaptureInv) => OneNotePerSource
  BY DEF CaptureInv, SourceKept, OneNote, OneNotePerSource, Cap!OneNotePerSource
<1> QED BY <1>1, CapturesKeepInv, PTL

\* A capture replaces no note of another id that a finished call had indexed, though it does
\* not look again at the id of what it replaces (find_by_source_id, replace_note).
THEOREM CapturesRespectFinishedWrites == ServerSpec => FinishedWritesRespected
<1>1. CaptureInv /\ [Cap!Next]_(Cap!vars) => Cap!RespectsFinishedWrites
  <2> SUFFICES ASSUME CaptureInv, [Cap!Next]_(Cap!vars), NEW c \in CaptureSetup.calls, NEW p \in CaptureSetup.paths,
                      Cap!Op(c) \in Cap!Captures, cap_notes'[p] # cap_notes[p], cap_notes'[p] = Cap!New(c),
                      cap_notes[p] # Absent, cap_notes[p].by \in cap_known[c]
               PROVE  Cap!Row(p) = cap_req[c].source
    BY DEF Cap!RespectsFinishedWrites
  <2> USE DEF Cap!At, Cap!Go, Cap!Op
  <2>1. cap_notes \in [CaptureSetup.paths -> Cap!Notes \cup {Absent}] /\ Cap!New(c) # Absent
    BY CaptureConstants DEF CaptureInv, Cap!TypeOK, Cap!New, Cap!Notes
  <2>2. \A d \in CaptureSetup.calls : Cap!New(d) = Cap!New(c) => d = c
    BY DEF Cap!New
  <2>3. ASSUME p = cap_found[c], Replacing(c) PROVE Cap!Row(p) = cap_req[c].source
    BY <2>3 DEF CaptureInv, FinishedKept, WellLed, By, Cap!Row
  <2>4. ASSUME NEW d \in CaptureSetup.calls, Cap!Replace(d) PROVE d = c /\ p = cap_found[c] /\ Replacing(c)
    BY <2>1, <2>2, <2>4 DEF Cap!Replace, Cap!Write, Cap!Refused, Replacing
  <2>5. ASSUME NEW d \in CaptureSetup.calls, Cap!Create(d) PROVE FALSE
    BY <2>1, <2>5 DEF Cap!Create, Cap!Write, Cap!Refused
  <2>6. ASSUME NEW d \in CaptureSetup.calls, Cap!NoteTool(d) PROVE FALSE
    <3>1. \E note \in {Cap!New(d), Absent} : cap_notes' = [cap_notes EXCEPT ![cap_req[d].path] = note]
      <4>1. (IF Cap!Op(d) = "write" THEN Cap!New(d) ELSE Absent) \in {Cap!New(d), Absent}
        OBVIOUS
      <4> QED BY <2>6, <4>1 DEF Cap!NoteTool, Cap!Write, Cap!Refused
    <3>2. d = c
      BY <2>1, <2>2, <3>1
    <3> QED BY <2>6, <3>2 DEF Cap!NoteTool, CaptureInv, CaptureControl
  <2>7. ASSUME NEW d \in CaptureSetup.calls, Cap!LateWrite(d) PROVE d = c /\ p = cap_found[c] /\ Replacing(c)
    BY <2>1, <2>2, <2>7 DEF Cap!LateWrite, Replacing
  <2>8. \E d \in CaptureSetup.calls : Cap!Replace(d) \/ Cap!Create(d) \/ Cap!NoteTool(d) \/ Cap!LateWrite(d)
    BY DEF Cap!Next, Cap!Step, Cap!vars, Cap!Start, Cap!Acquire, Cap!Lookup, Cap!Read, Cap!Refresh, Cap!Collect,
           Cap!Publish, Cap!Drop, Cap!LateRebuild, Cap!PolicyReload
  <2> QED BY <2>3, <2>4, <2>5, <2>6, <2>7, <2>8
<1>2. [ServerNext]_allVars => (("captures" \in active)' => "captures" \in active)
  BY ActiveKept
<1> QED BY <1>1, <1>2, CapturesKeepInv, CapturesRun, PTL DEF ServerSpec, FinishedWritesRespected

(***************************************************************************)
(* Types                                                                   *)
(***************************************************************************)
LEMMA TokenTypes == TokenInv => Tok!TypeOK
<1> SUFFICES ASSUME TokenInv PROVE Tok!TypeOK
  OBVIOUS
<1>1. ASSUME NEW i \in 1..tok_asked
      PROVE  tok_answers[i].keys \in {Absent} \cup SUBSET BearerSetup.keys /\ tok_answers[i].at \in 0..tok_clock
  <2>1. tok_answers[i] \in TokenAnswers /\ tok_answers[i].at <= tok_clock /\ tok_clock \in 0..BearerSetup.maxClock
    BY DEF TokenInv
  <2> QED BY <2>1, TokenConstants DEF TokenAnswers
<1>2. \/ tok_verdict \in {Tok!Pending, Tok!Missing, Tok!Invalid}
      \/ tok_verdict.kind = "granted" /\ tok_verdict.scopes \subseteq BearerSetup.scopes
  <2>1. CASE tok_verdict = Tok!Granted(BearerSetup.issuers[tok_asked], Tok!ClaimScopes)
    BY <2>1 DEF Tok!Granted, Tok!ClaimScopes
  <2> QED BY <2>1 DEF TokenInv
<1> QED BY <1>1, <1>2 DEF TokenInv, Tok!TypeOK

\* In every run the state of each part that is active has its type.
THEOREM ServerTypes == ServerSpec => []PartsTyped
<1>1. ServerSpec => []TypeOK
  <2>1. ServerInit => Init
    BY DEF ServerInit
  <2>2. [ServerNext]_allVars => [Next]_vars
    BY DEF ServerNext, OthersWait, allVars
  <2>3. TypeOK /\ Files => TypeOK
    OBVIOUS
  <2> QED BY <2>1, <2>2, <2>3, RotationTypes, PTL DEF ServerSpec, Spec
<1>2. ServerSpec => []("registry" \in active => Reg!TypeOK)
  <2>1. RegP!Spec => []RegP!TypeOK
    BY RegistrySame, RegP!RegistryTypes
  <2>2. RegP!TypeOK => Reg!TypeOK
    BY RegistrySame
  <2>3. [ServerNext]_allVars => (("registry" \in active)' => "registry" \in active)
    BY ActiveKept
  <2> QED BY <2>1, <2>2, <2>3, RegistrySpec, PTL DEF ServerSpec
<1>3. ServerSpec => []("daily" \in active => Day!TypeOK)
  <2>1. DayP!Spec => []DayP!TextInv
    BY DailySame, DayP!DailyTypes
  <2>2. DayP!TextInv => Day!TypeOK
    BY DailySame DEF DayP!TextInv
  <2>3. [ServerNext]_allVars => (("daily" \in active)' => "daily" \in active)
    BY ActiveKept
  <2> QED BY <2>1, <2>2, <2>3, DailySpec, PTL DEF ServerSpec
<1>4. ServerSpec => []("skills" \in active => Skl!TypeOK)
  <2>1. SklP!Spec => []SklP!TypeOK
    BY SkillsSame, SklP!SkillTypes
  <2>2. SklP!TypeOK => Skl!TypeOK
    BY SkillsSame
  <2>3. [ServerNext]_allVars => (("skills" \in active)' => "skills" \in active)
    BY ActiveKept
  <2> QED BY <2>1, <2>2, <2>3, SkillsSpec, PTL DEF ServerSpec
<1>5. ServerSpec => []("tokens" \in active => Tok!TypeOK)
  <2>1. [ServerNext]_allVars => (("tokens" \in active)' => "tokens" \in active)
    BY ActiveKept
  <2> QED BY <2>1, TokenStarts, TokenSteps, TokenTypes, TokensSpec, PTL DEF ServerSpec, Tok!Spec
<1>6. ServerSpec => []("captures" \in active => Cap!TypeOK)
  <2>1. ("captures" \in active => CaptureInv) => ("captures" \in active => Cap!TypeOK)
    BY DEF CaptureInv
  <2> QED BY <2>1, CapturesKeepInv, PTL
<1>7. ServerSpec => []("requests" \in active => Rq!TypeOK)
  <2>1. ("requests" \in active => RequestInv) => ("requests" \in active => Rq!TypeOK)
    BY DEF RequestInv
  <2> QED BY <2>1, RequestsKeepInv, PTL
<1>8. ServerSpec => []("patterns" \in active => Pat!TypeOK)
  <2>1. PatP!Spec => []PatP!TypeOK
    BY PatternsSame, PatP!PatternTypes
  <2>2. PatP!TypeOK => Pat!TypeOK
    BY PatternsSame
  <2>3. [ServerNext]_allVars => (("patterns" \in active)' => "patterns" \in active)
    BY ActiveKept
  <2> QED BY <2>1, <2>2, <2>3, PatternsSpec, PTL DEF ServerSpec
<1>9. /\ TypeOK /\ ("registry" \in active => Reg!TypeOK) /\ ("daily" \in active => Day!TypeOK)
      /\ ("skills" \in active => Skl!TypeOK) /\ ("tokens" \in active => Tok!TypeOK)
      /\ ("captures" \in active => Cap!TypeOK) /\ ("requests" \in active => Rq!TypeOK)
      /\ ("patterns" \in active => Pat!TypeOK)
      => PartsTyped
  BY DEF PartsTyped
<1> QED BY <1>1, <1>2, <1>3, <1>4, <1>5, <1>6, <1>7, <1>8, <1>9, PTL
=============================================================================
