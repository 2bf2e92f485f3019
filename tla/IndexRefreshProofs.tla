------------------------ MODULE IndexRefreshProofs ------------------------
(***************************************************************************)
(* Proofs about the index refresh, for any number of calls and notes and   *)
(* any policy reloads and failures.  A dropped call's rebuild outlives the *)
(* mutex and is the one publication that may be out of order, so what a    *)
(* caller sees of its own writes is proved where no call is dropped.       *)
(***************************************************************************)
EXTENDS IndexRefresh, TLAPS

NoDrop == Droppable = {}

\* The refreshes that have begun to collect a snapshot.
Collecting == Refreshing \ {"list"}

LEMMA EntryTypes ==
    ASSUME TypeOK
    PROVE  /\ Unread \in Snapshots /\ Nothing \in Snapshots
           /\ \A n \in Notes : disk[n].ver \in Nat /\ index[n].ver \in Nat
           /\ \A n \in Notes : Present \subseteq Notes /\ Record(n) \in Entries
           /\ \A c \in Calls, n \in Notes : snap[c][n].ver \in Nat
BY DEF TypeOK, Unread, Nothing, Record, Present, Snapshots, Entries

\* A walk that ends leaves no trace but in the call's own variables.
LEMMA ForgetWalk ==
    ASSUME TypeOK, NEW c \in Calls, Forget(c)
    PROVE  /\ todo' \in [Calls -> SUBSET Notes] /\ todoTemps' \in [Calls -> SUBSET Calls]
           /\ listed' \in [Calls -> SUBSET Notes] /\ snap' \in [Calls -> Snapshots]
           /\ \A d \in Calls : d # c => /\ todo'[d] = todo[d] /\ todoTemps'[d] = todoTemps[d]
                                        /\ listed'[d] = listed[d] /\ snap'[d] = snap[d]
BY EntryTypes DEF Forget, TypeOK

LEMMA InitTypes == Init => TypeOK
<1> SUFFICES ASSUME Init PROVE TypeOK
  OBVIOUS
<1>1. disk \in Snapshots
  BY DEF Init, Snapshots, Entries
<1>2. Unread \in Snapshots
  BY <1>1 DEF Unread, Snapshots, Entries
<1>3. index \in Snapshots
  BY <1>1, <1>2 DEF Init, Snapshots
<1>4. Nothing \in Snapshots
  BY DEF Nothing, Snapshots, Entries
<1> QED BY <1>1, <1>3, <1>4 DEF Init, TypeOK, PCs

LEMMA StepTypes == TypeOK /\ [Next]_vars => TypeOK'
<1> SUFFICES ASSUME TypeOK, [Next]_vars PROVE TypeOK'
  OBVIOUS
<1> USE DEF Go, At, PCs, Refreshing, Walking, walkVars
<1>1. ASSUME NEW c \in Calls, Start(c) PROVE TypeOK'
  BY <1>1 DEF Start, TypeOK
<1>2. ASSUME NEW c \in Calls, AcquireFramework(c) PROVE TypeOK'
  BY <1>2 DEF AcquireFramework, TypeOK
<1>20. ASSUME NEW c \in Calls, NEW here \in BOOLEAN, Change(c, here)
       PROVE  disk' \in Snapshots /\ written' \in [Calls -> Nat]
  <2>1. target[c] \in Notes /\ disk[target[c]].ver + 1 \in Nat
    BY DEF TypeOK, Snapshots, Entries
  <2>2. [here |-> here, ver |-> disk[target[c]].ver + 1] \in Entries
    BY <2>1 DEF Entries
  <2> QED BY <1>20, <2>1, <2>2 DEF Change, TypeOK, Snapshots
<1>3. ASSUME NEW c \in Calls, Mutate(c) PROVE TypeOK'
  <2>1. disk' \in Snapshots /\ written' \in [Calls -> Nat]
    BY <1>3, <1>20 DEF Mutate, TypeOK
  <2> QED BY <1>3, <2>1 DEF Mutate, TypeOK
<1>21. ASSUME NEW c \in Calls, Prepare(c) PROVE TypeOK'
  BY <1>21 DEF Prepare, TypeOK
<1>22. ASSUME NEW c \in Calls, Land(c) PROVE TypeOK'
  <2>1. disk' \in Snapshots /\ written' \in [Calls -> Nat]
    BY <1>22, <1>20 DEF Land, TypeOK
  <2>2. pc' \in [Calls -> PCs]
    BY <1>22 DEF Land, TypeOK
  <2>3. temps' \subseteq Calls
    BY <1>22 DEF Land, TypeOK
  <2> QED BY <1>22, <2>1, <2>2, <2>3 DEF Land, TypeOK
<1>4. ASSUME NEW c \in Calls, Acquire(c) PROVE TypeOK'
  BY <1>4 DEF Acquire, TypeOK
<1>5. ASSUME NEW c \in Calls, ListStart(c) PROVE TypeOK'
  BY <1>5, EntryTypes DEF ListStart, ReadDir, Present, TypeOK
<1>23. ASSUME NEW c \in Calls, Fail(c), tripped' \in BOOLEAN,
              UNCHANGED <<disk, temps, blocked, index, target, late, written, refreshed>>
       PROVE  TypeOK'
  BY <1>23, ForgetWalk DEF Fail, TypeOK
<1>24. ASSUME NEW c \in Calls, NEW d \in Calls, Trip(c, d) PROVE Fail(c) /\ tripped' \in BOOLEAN
  BY <1>24 DEF Trip, TypeOK
<1>25. \A c \in Calls : \A d \in todoTemps[c] : d \in Calls
  BY DEF TypeOK
<1>6. ASSUME NEW c \in Calls, ListEntry(c) PROVE TypeOK'
  <2>1. CASE Fail(c) /\ tripped' \in BOOLEAN
    BY <1>6, <1>23, <2>1 DEF ListEntry
  <2>2. ASSUME NEW n \in todo[c], n \in Present, Visit(c, n), UNCHANGED <<snap, tripped>>,
               listed' = [listed EXCEPT ![c] = IF n \in blocked THEN @ ELSE @ \cup {n}]
        PROVE  TypeOK'
    BY <1>6, <2>2 DEF ListEntry, Visit, Present, TypeOK
  <2>3. ASSUME NEW d \in todoTemps[c], VisitTemp(c, d) PROVE TypeOK'
    BY <1>6, <2>3 DEF ListEntry, VisitTemp, TypeOK
  <2>4. TypeOK => tripped \in BOOLEAN
    BY DEF TypeOK
  <2> QED BY <1>6, <1>24, <1>25, <2>1, <2>2, <2>3, <2>4 DEF ListEntry
<1>7. ASSUME NEW c \in Calls, ListEnd(c) PROVE TypeOK'
  BY <1>7 DEF ListEnd, TypeOK
<1>8. ASSUME NEW c \in Calls, ReadNote(c) PROVE TypeOK'
  <2>1. PICK n \in todo[c] :
          \/ n \notin Present \ blocked /\ Fail(c)
          \/ /\ n \in Present \ blocked
             /\ Visit(c, n) /\ UNCHANGED listed
             /\ snap' = [snap EXCEPT ![c][n] = Record(n)]
    BY <1>8 DEF ReadNote
  <2>2. n \in Notes /\ Record(n) \in Entries
    BY EntryTypes DEF TypeOK
  <2>3. snap' \in [Calls -> Snapshots]
    <3>1. CASE Fail(c)
      BY <3>1, ForgetWalk DEF Fail
    <3>2. CASE snap' = [snap EXCEPT ![c][n] = Record(n)]
      BY <2>2, <3>2 DEF TypeOK, Snapshots
    <3> QED BY <2>1, <3>1, <3>2
  <2> QED BY <1>8, <2>1, <2>3, <1>23 DEF ReadNote, Visit, TypeOK
<1>9. ASSUME NEW c \in Calls, ReadEnd(c) PROVE TypeOK'
  BY <1>9 DEF ReadEnd, TypeOK
<1>10. ASSUME NEW c \in Calls, ScanStart(c) PROVE TypeOK'
  BY <1>10 DEF ScanStart, ReadDir, Present, TypeOK
<1>11. ASSUME NEW c \in Calls, ScanEntry(c) PROVE TypeOK'
  <2>1. CASE Fail(c) /\ tripped' \in BOOLEAN
    BY <1>11, <1>23, <2>1 DEF ScanEntry
  <2>2. ASSUME NEW n \in todo[c], Visit(c, n), UNCHANGED <<listed, snap, tripped>> PROVE TypeOK'
    BY <1>11, <2>2 DEF ScanEntry, Visit, TypeOK
  <2>3. ASSUME NEW d \in todoTemps[c], VisitTemp(c, d) PROVE TypeOK'
    BY <1>11, <2>3 DEF ScanEntry, VisitTemp, TypeOK
  <2>4. TypeOK => tripped \in BOOLEAN
    BY DEF TypeOK
  <2> QED BY <1>11, <1>24, <1>25, <2>1, <2>2, <2>3, <2>4 DEF ScanEntry
<1>12. ASSUME NEW c \in Calls, ScanEnd(c) PROVE TypeOK'
  BY <1>12 DEF ScanEnd, TypeOK
<1>13. ASSUME NEW c \in Calls, Publish(c) PROVE TypeOK'
  BY <1>13, ForgetWalk DEF Publish, Rebuild, TypeOK
<1>14. ASSUME NEW c \in Calls, WalkError(c) PROVE TypeOK'
  BY <1>14, <1>23 DEF WalkError, TypeOK
<1>15. ASSUME NEW c \in Calls, Drop(c) PROVE TypeOK'
  BY <1>15, ForgetWalk DEF Drop, TypeOK
<1>16. ASSUME NEW c \in Calls, LateRebuild(c) PROVE TypeOK'
  BY <1>16, ForgetWalk DEF LateRebuild, Rebuild, TypeOK
<1>17. ASSUME NEW c \in Calls, ReadBack(c) PROVE TypeOK'
  BY <1>17 DEF ReadBack, TypeOK
<1>18. CASE PolicyReload
  BY <1>18 DEF PolicyReload, TypeOK
<1>19. CASE UNCHANGED vars
  BY <1>19 DEF vars, TypeOK
<1> QED
  BY <1>1, <1>2, <1>3, <1>4, <1>5, <1>6, <1>7, <1>8, <1>9, <1>10, <1>11, <1>12, <1>13, <1>14, <1>15,
     <1>16, <1>17, <1>18, <1>19, <1>21, <1>22 DEF Next, Step

\* Every variable keeps its type (the whole module).
THEOREM IndexTypes == Spec => []TypeOK
BY InitTypes, StepTypes, PTL DEF Spec

(***************************************************************************)
(* The inductive invariant: versions only grow from the index over the     *)
(* snapshot being collected to the vault, only one is being collected, and *)
(* the snapshots of dropped calls that may still be published are older.   *)
(***************************************************************************)
LateOlder(d) ==
    /\ pc[d] = "dropped"
    /\ \A n \in Notes : snap[d][n].ver <= disk[n].ver
    /\ \A c \in Calls : pc[c] \in Collecting => \A n \in Notes : snap[d][n].ver <= snap[c][n].ver

\* The calls that have not landed their change.
Fresh == {"idle", "framework", "mutate", "land"}

OrderInv ==
    /\ \A c, d \in Calls : pc[c] \in Refreshing /\ pc[d] \in Refreshing => c = d
    /\ \A n \in Notes : index[n].ver <= disk[n].ver
    /\ \A c \in Calls : written[c] <= disk[target[c]].ver
    /\ \A c \in Calls : pc[c] \in Collecting =>
          /\ \A n \in Notes : index[n].ver <= snap[c][n].ver /\ snap[c][n].ver <= disk[n].ver
          /\ written[c] <= snap[c][target[c]].ver
    /\ \A d \in late : LateOlder(d)
    /\ \A c \in Calls : pc[c] \in Fresh => c \notin refreshed
    /\ NoDrop => late = {} /\ ReadYourWrite

\* What a step may do to the index.
InOrder == late \subseteq late' => \A n \in Notes : index'[n].ver >= index[n].ver

\* A step that leaves the vault, the index and every snapshot alone.
LEMMA OrderKept ==
    ASSUME TypeOK, OrderInv, NEW c \in Calls, NEW to \in PCs,
           pc[c] # "dropped", pc' = [pc EXCEPT ![c] = to],
           to \in Refreshing => pc[c] \in Refreshing,
           to \in Collecting => pc[c] \in Collecting,
           to \in Fresh => pc[c] \in Fresh,
           \A d \in Calls : d # c \/ to \in Collecting => snap'[d] = snap[d],
           UNCHANGED <<disk, index, target, late, written, refreshed>>
    PROVE  OrderInv'
<1>1. \A d \in late : LateOlder(d)'
  BY DEF OrderInv, LateOlder, TypeOK
<1> QED BY <1>1 DEF OrderInv, ReadYourWrite, NoDrop, TypeOK

\* Nor does the failure of a walk.
LEMMA OrderFailed ==
    ASSUME TypeOK, OrderInv, NEW c \in Calls, pc[c] \in Refreshing, Fail(c),
           UNCHANGED <<disk, index, target, late, written, refreshed>>
    PROVE  OrderInv'
<1>1. pc' = [pc EXCEPT ![c] = "done"] /\ \A d \in Calls : d # c => snap'[d] = snap[d]
  BY ForgetWalk DEF Fail, Go
<1>2. /\ "done" \in PCs /\ "done" \notin Refreshing \cup Collecting \cup Fresh
      /\ pc[c] # "dropped"
  BY DEF PCs, Refreshing, Walking, Collecting, Fresh
<1> QED BY <1>1, <1>2, OrderKept

LEMMA OrderStep == TypeOK /\ OrderInv /\ [Next]_vars => OrderInv' /\ InOrder
<1> DEFINE Goal == OrderInv' /\ InOrder
<1> SUFFICES ASSUME TypeOK, OrderInv, [Next]_vars PROVE Goal
  OBVIOUS
<1>0. UNCHANGED index => InOrder
  BY EntryTypes DEF InOrder
<1> USE DEF Go, At, PCs, Refreshing, Walking, Collecting, Fresh, walkVars
<1>1. ASSUME NEW c \in Calls, Start(c) PROVE Goal
  BY <1>0, <1>1, OrderKept DEF Start
<1>2. ASSUME NEW c \in Calls, AcquireFramework(c) PROVE Goal
  BY <1>0, <1>2, OrderKept DEF AcquireFramework
<1>3. ASSUME NEW c \in Calls, pc[c] \in {"mutate", "land"},
             \E to \in {"done", "refresh", "read_back"} : pc' = [pc EXCEPT ![c] = to],
             \/ UNCHANGED <<disk, written>>
             \/ pc'[c] # "done" /\ \E here \in BOOLEAN : Change(c, here),
             UNCHANGED <<index, target, snap, late, refreshed>>
      PROVE  Goal
  <2>1. CASE UNCHANGED <<disk, written>>
    BY <1>0, <1>3, <2>1, OrderKept
  <2>2. CASE /\ \E to \in {"refresh", "read_back"} : pc' = [pc EXCEPT ![c] = to]
             /\ written' = [written EXCEPT ![c] = disk[target[c]].ver + 1]
             /\ \E here \in BOOLEAN :
                   disk' = [disk EXCEPT ![target[c]] = [here |-> here, ver |-> @.ver + 1]]
    <3>1. /\ pc[c] \in {"mutate", "land"} /\ c \notin refreshed /\ target[c] \in Notes
          /\ UNCHANGED <<index, target, snap, late, refreshed>>
      BY <1>3 DEF OrderInv, TypeOK
    <3>2. /\ \A n \in Notes : disk[n].ver <= disk'[n].ver
          /\ disk'[target[c]].ver = disk[target[c]].ver + 1
      BY <2>2, <3>1, EntryTypes DEF TypeOK, Snapshots, Entries
    <3>3. \A n \in Notes : disk'[n].ver \in Nat
      BY <2>2, <3>1, EntryTypes DEF TypeOK, Snapshots, Entries
    <3>4. \A d \in Calls : /\ d # c => pc'[d] = pc[d] /\ written'[d] = written[d]
                           /\ target[d] \in Notes /\ written[d] \in Nat
      BY <2>2 DEF TypeOK
    <3>5. \A n \in Notes : index[n].ver <= disk'[n].ver
      BY <3>2, <3>3, EntryTypes DEF OrderInv
    <3>6. \A d \in Calls : written'[d] <= disk'[target[d]].ver
      BY <2>2, <3>2, <3>3, <3>4, EntryTypes DEF OrderInv, TypeOK
    <3>7. \A d \in Calls : pc'[d] \in Collecting =>
             /\ \A n \in Notes : index[n].ver <= snap[d][n].ver /\ snap[d][n].ver <= disk'[n].ver
             /\ written'[d] <= snap[d][target[d]].ver
      BY <2>2, <3>2, <3>3, <3>4, EntryTypes DEF OrderInv, TypeOK
    <3>8. \A d \in refreshed : d \in Calls /\ d # c
      BY <3>1 DEF TypeOK
    <3>9. NoDrop => ReadYourWrite'
      BY <3>1, <3>4, <3>8 DEF OrderInv, ReadYourWrite
    <3>10. \A d \in late : LateOlder(d)'
      BY <2>2, <3>1, <3>2, <3>3, <3>4, EntryTypes DEF OrderInv, LateOlder, TypeOK
    <3> QED BY <1>0, <2>2, <3>1, <3>4, <3>5, <3>6, <3>7, <3>9, <3>10 DEF OrderInv, NoDrop, TypeOK
  <2> QED BY <1>3, <2>1, <2>2 DEF Change, TypeOK
<1>20. ASSUME NEW c \in Calls, Mutate(c) PROVE Goal
  BY <1>3, <1>20 DEF Mutate, TypeOK
<1>21. ASSUME NEW c \in Calls, Prepare(c) PROVE Goal
  BY <1>0, <1>21, OrderKept DEF Prepare
<1>22. ASSUME NEW c \in Calls, Land(c) PROVE Goal
  <2>1. /\ pc[c] = "land"
        /\ \E to \in {"done", "refresh", "read_back"} : pc' = [pc EXCEPT ![c] = to]
        /\ UNCHANGED <<index, target, snap, late, refreshed>>
    BY <1>22 DEF Land
  <2>2. \/ UNCHANGED <<disk, written>>
        \/ pc'[c] # "done" /\ Change(c, TRUE)
    BY <1>22 DEF Land, TypeOK
  <2> QED BY <1>3, <2>1, <2>2
<1>4. ASSUME NEW c \in Calls, Acquire(c) PROVE Goal
  <2>1. /\ pc[c] = "refresh" /\ pc' = [pc EXCEPT ![c] = "list"] /\ \A d \in Calls : pc[d] \notin Refreshing
        /\ UNCHANGED <<disk, index, target, snap, late, written, refreshed>>
    BY <1>4 DEF Acquire
  <2>2. \A d \in late : LateOlder(d)'
    BY <2>1 DEF OrderInv, LateOlder, TypeOK
  <2> QED BY <1>0, <2>1, <2>2 DEF OrderInv, ReadYourWrite, NoDrop, TypeOK
<1>5. ASSUME NEW c \in Calls, ListStart(c) PROVE Goal
  <2>1. /\ pc[c] = "list" /\ pc' = [pc EXCEPT ![c] = "listing"]
        /\ snap' = [snap EXCEPT ![c] = Unread]
        /\ UNCHANGED <<disk, index, target, late, written, refreshed>>
    BY <1>5 DEF ListStart, ReadDir
  <2>2. \A n \in Notes : snap'[c][n].ver = disk[n].ver
    BY <2>1 DEF Unread, TypeOK
  <2>3. \A d \in Calls : d # c => pc'[d] = pc[d] /\ snap'[d] = snap[d]
    BY <2>1 DEF TypeOK
  <2>4. \A d \in Calls : target[d] \in Notes
    BY DEF TypeOK
  <2>5. \A d \in late : LateOlder(d)'
    BY <2>1, <2>2, <2>3 DEF OrderInv, LateOlder, TypeOK
  <2> QED BY <1>0, <2>1, <2>2, <2>3, <2>4, <2>5, EntryTypes DEF OrderInv, ReadYourWrite, NoDrop, TypeOK
<1>6. ASSUME NEW c \in Calls, ListEntry(c) PROVE Goal
  <2>1. CASE Fail(c)
    BY <1>0, <1>6, <2>1, OrderFailed DEF ListEntry
  <2>2. CASE UNCHANGED <<pc, snap>>
    <3>1. pc' = [pc EXCEPT ![c] = "listing"]
      BY <1>6, <2>2 DEF ListEntry, TypeOK
    <3> QED BY <1>0, <1>6, <2>2, <3>1, OrderKept DEF ListEntry
  <2> QED BY <1>6, <2>1, <2>2 DEF ListEntry, Trip, Visit, VisitTemp
<1>7. ASSUME NEW c \in Calls, ListEnd(c) PROVE Goal
  BY <1>0, <1>7, OrderKept DEF ListEnd
<1>8. ASSUME NEW c \in Calls, ReadNote(c) PROVE Goal
  <2>1. CASE Fail(c)
    BY <1>0, <1>8, <2>1, OrderFailed DEF ReadNote
  <2>2. ASSUME NEW n \in todo[c], Visit(c, n), snap' = [snap EXCEPT ![c][n] = Record(n)]
        PROVE  Goal
    <3>1. /\ pc[c] = "reading" /\ n \in Notes
          /\ UNCHANGED <<pc, disk, index, target, late, written, refreshed>>
      BY <1>8, <2>2 DEF ReadNote, Visit, TypeOK
    <3>2. \A d \in Calls : d # c => snap'[d] = snap[d]
      BY <2>2 DEF TypeOK
    <3>3. \A m \in Notes : snap'[c][m].ver = IF m = n THEN disk[n].ver ELSE snap[c][m].ver
      BY <2>2, <3>1 DEF Record, TypeOK, Snapshots
    <3>4. \A d \in Calls : target[d] \in Notes
      BY DEF TypeOK
    <3>5. \A d \in late : LateOlder(d)'
      BY <3>1, <3>2, <3>3, EntryTypes DEF OrderInv, LateOlder, TypeOK
    <3> QED BY <1>0, <3>1, <3>2, <3>3, <3>4, <3>5, EntryTypes DEF OrderInv, ReadYourWrite, NoDrop, TypeOK
  <2> QED BY <1>8, <2>1, <2>2 DEF ReadNote
<1>9. ASSUME NEW c \in Calls, ReadEnd(c) PROVE Goal
  BY <1>0, <1>9, OrderKept DEF ReadEnd
<1>10. ASSUME NEW c \in Calls, ScanStart(c) PROVE Goal
  BY <1>0, <1>10, OrderKept DEF ScanStart, ReadDir
<1>11. ASSUME NEW c \in Calls, ScanEntry(c) PROVE Goal
  <2>1. CASE Fail(c)
    BY <1>0, <1>11, <2>1, OrderFailed DEF ScanEntry
  <2>2. CASE UNCHANGED <<pc, snap>>
    <3>1. pc' = [pc EXCEPT ![c] = "scanning"]
      BY <1>11, <2>2 DEF ScanEntry, TypeOK
    <3> QED BY <1>0, <1>11, <2>2, <3>1, OrderKept DEF ScanEntry
  <2> QED BY <1>11, <2>1, <2>2 DEF ScanEntry, Trip, Visit, VisitTemp
<1>12. ASSUME NEW c \in Calls, ScanEnd(c) PROVE Goal
  BY <1>0, <1>12, OrderKept DEF ScanEnd
<1>13. ASSUME NEW c \in Calls, Publish(c) PROVE Goal
  <2>1. CASE UNCHANGED <<index, refreshed>>
    <3>1. /\ pc[c] = "publish" /\ pc' = [pc EXCEPT ![c] = "done"]
          /\ UNCHANGED <<disk, target, late, written>>
          /\ \A d \in Calls : d # c => snap'[d] = snap[d]
      BY <1>13, ForgetWalk DEF Publish
    <3>2. OrderInv'
      <4> HIDE DEF PCs, Refreshing, Walking, Collecting, Fresh
      <4>1. /\ "done" \in PCs /\ "done" \notin Refreshing \cup Collecting \cup Fresh
            /\ pc[c] # "dropped"
        BY <3>1 DEF PCs, Refreshing, Walking, Collecting, Fresh
      <4> QED BY <2>1, <3>1, <4>1, OrderKept
    <3> QED BY <1>0, <2>1, <3>2
  <2>2. CASE index' = snap[c] /\ refreshed' = refreshed \cup {c}
    <3>1. /\ pc[c] = "publish" /\ pc' = [pc EXCEPT ![c] = "done"]
          /\ UNCHANGED <<disk, target, late, written>>
          /\ \A d \in Calls : d # c => snap'[d] = snap[d]
      BY <1>13, <2>2, ForgetWalk DEF Publish
    <3>2. \A n \in Notes : index[n].ver <= index'[n].ver /\ index'[n].ver <= disk[n].ver
      BY <2>2, <3>1 DEF OrderInv
    <3>3. \A d \in Calls : pc'[d] \notin Refreshing
      BY <3>1 DEF OrderInv, TypeOK
    <3>4. NoDrop => ReadYourWrite'
      BY <2>2, <3>1, <3>2, EntryTypes DEF OrderInv, ReadYourWrite, TypeOK
    <3>5. \A n \in Notes : index'[n].ver \in Nat
      BY <2>2, EntryTypes
    <3>6. \A d \in late : LateOlder(d)'
      BY <3>1, <3>3 DEF OrderInv, LateOlder, TypeOK
    <3> QED BY <2>2, <3>1, <3>2, <3>3, <3>4, <3>5, <3>6, EntryTypes DEF OrderInv, InOrder, NoDrop, TypeOK
  <2> QED BY <1>13, <2>1, <2>2 DEF Publish, Rebuild
<1>14. ASSUME NEW c \in Calls, WalkError(c) PROVE Goal
  BY <1>0, <1>14, OrderFailed DEF WalkError
<1>15. ASSUME NEW c \in Calls, Drop(c) PROVE Goal
  <2>1. /\ pc[c] # "dropped" /\ pc' = [pc EXCEPT ![c] = "dropped"] /\ ~NoDrop
        /\ UNCHANGED <<disk, index, target, written, refreshed>>
    BY <1>15 DEF Drop, NoDrop
  <2>2. CASE pc[c] = "publish" /\ late' = late \cup {c} /\ UNCHANGED snap
    <3>1. \A d \in Calls : pc'[d] \notin Collecting
      BY <2>1, <2>2 DEF OrderInv, TypeOK
    <3>2. \A n \in Notes : snap[c][n].ver <= disk[n].ver
      BY <2>2 DEF OrderInv
    <3>3. \A d \in late' : LateOlder(d)'
      BY <2>1, <2>2, <3>1, <3>2 DEF OrderInv, LateOlder, TypeOK
    <3> QED BY <1>0, <2>1, <3>1, <3>3 DEF OrderInv, NoDrop, TypeOK
  <2>3. CASE Forget(c) /\ UNCHANGED late
    BY <1>0, <2>1, <2>3, OrderKept, ForgetWalk
  <2> QED BY <1>15, <2>2, <2>3 DEF Drop
<1>16. ASSUME NEW c \in Calls, LateRebuild(c) PROVE Goal
  <2>1. /\ c \in late /\ late' = late \ {c} /\ index' = snap[c] /\ LateOlder(c)
        /\ UNCHANGED <<disk, pc, target, written, refreshed>>
        /\ \A d \in Calls : d # c => snap'[d] = snap[d]
    BY <1>16, ForgetWalk DEF LateRebuild, Rebuild, OrderInv, TypeOK
  <2>2. ~(late \subseteq late') /\ ~NoDrop
    BY <2>1 DEF OrderInv
  <2>3. \A n \in Notes : index'[n].ver <= disk[n].ver
    BY <2>1 DEF LateOlder
  <2>4. \A d \in Calls : pc[d] \in Collecting => \A n \in Notes : index'[n].ver <= snap[d][n].ver
    BY <2>1 DEF LateOlder
  <2>5. \A d \in late' : LateOlder(d)'
    BY <2>1 DEF LateOlder, OrderInv, TypeOK
  <2>6. \A d \in Calls : pc[d] \in Collecting => snap'[d] = snap[d]
    BY <2>1 DEF LateOlder
  <2> QED BY <2>1, <2>2, <2>3, <2>4, <2>5, <2>6 DEF OrderInv, InOrder, NoDrop
<1>17. ASSUME NEW c \in Calls, ReadBack(c) PROVE Goal
  BY <1>0, <1>17, OrderKept DEF ReadBack
<1>18. CASE PolicyReload
  BY <1>0, <1>18 DEF PolicyReload, OrderInv, LateOlder, ReadYourWrite, NoDrop
<1>19. CASE UNCHANGED vars
  BY <1>0, <1>19 DEF vars, OrderInv, LateOlder, ReadYourWrite, NoDrop
<1> QED
  BY <1>1, <1>2, <1>4, <1>5, <1>6, <1>7, <1>8, <1>9, <1>10, <1>11, <1>12, <1>13, <1>14, <1>15,
     <1>16, <1>17, <1>18, <1>19, <1>20, <1>21, <1>22 DEF Next, Step

LEMMA OrderInvariant == Spec => []OrderInv
<1>1. Init => OrderInv
  BY DEF Init, OrderInv, ReadYourWrite, Refreshing, Walking, Collecting, Unread
<1> QED BY <1>1, OrderStep, IndexTypes, PTL DEF Spec

\* Whatever calls are dropped, no publication but a dropped call's own replaces
\* something newer (cold_rebuild holds its mutex from the listing of the vault to the
\* end of the transaction).
THEOREM OnlyLateRebuildsGoBack == Spec => PublishedInOrder
<1>1. TypeOK /\ OrderInv /\ [Next]_vars
      => [late \subseteq late' => \A n \in Notes : index'[n].ver >= index[n].ver]_vars
  BY OrderStep DEF InOrder
<1> QED BY <1>1, OrderInvariant, IndexTypes, PTL DEF Spec, PublishedInOrder

\* A refresh never publishes over a newer one where no call is dropped.
THEOREM NewestSnapshotWins == ASSUME NoDrop PROVE Spec => IndexNeverGoesBack
<1>1. OrderInv /\ OrderInv' => late \subseteq late'
  BY DEF OrderInv, NoDrop
<1>2. TypeOK /\ OrderInv /\ [Next]_vars => [\A n \in Notes : index'[n].ver >= index[n].ver]_vars
  BY <1>1, OrderStep DEF InOrder
<1> QED BY <1>2, OrderInvariant, IndexTypes, PTL DEF Spec, IndexNeverGoesBack

\* What a call wrote stays visible in the index, or is superseded, once its
\* refresh was committed (write_tool refreshes after the mutation).
THEOREM WritesStayIndexed == ASSUME NoDrop PROVE Spec => []ReadYourWrite
<1>1. OrderInv => ReadYourWrite
  BY DEF OrderInv
<1> QED BY <1>1, OrderInvariant, PTL

(***************************************************************************)
(* The index at rest.  Whatever a refresh fails to bring into the index,   *)
(* some call still owes: a note, or the temporary file of a note, can only *)
(* vanish under a walk because another call has just changed that note,    *)
(* and that call waits for the mutex the walk holds.  A temporary file of  *)
(* a call that changed nothing is owed by nobody.  Calls may be dropped;   *)
(* the property then says nothing.                                         *)
(***************************************************************************)
Undisturbed == Environment = {}

Dropped == \E c \in Calls : pc[c] = "dropped"
Owes(c) == pc[c] \in {"refresh", "list"} \/ (pc[c] = "read_back" /\ target[c] \in Present)
Owed == \E c \in Calls : Owes(c)

\* What a refresh has collected of a note is current, or it has still to read the note.
Sees(c, n) ==
    \/ snap[c][n] = disk[n]
    \/ pc[c] = "listing" /\ n \in todo[c] \cup listed[c]
    \/ pc[c] = "reading" /\ n \in todo[c]

Collects(c) ==
    /\ todo[c] \cup listed[c] \subseteq Present
    /\ \A d \in todoTemps[c] : d \in temps \/ written[d] = 0
    /\ \A n \in Notes : Sees(c, n)

DebtInv ==
    /\ late = {}
    /\ \A c \in Calls : pc[c] \in Collecting => Collects(c) \/ Owed
    /\ (\A c \in Calls : pc[c] \notin Collecting)
       => (\A n \in Notes : index[n] = disk[n]) \/ Owed \/ tripped

QuietInv ==
    /\ blocked = {}
    /\ \A c, d \in Calls : pc[c] \in Refreshing /\ pc[d] \in Refreshing => c = d
    /\ \A c \in Calls : pc[c] \in Fresh => written[c] = 0
    /\ Dropped \/ DebtInv

\* A step of one call that leaves the notes, the index and every walk alone.
LEMMA QuietKept ==
    ASSUME TypeOK, QuietInv, NEW c \in Calls, NEW to \in PCs,
           pc[c] # "dropped", pc' = [pc EXCEPT ![c] = to],
           to \in Refreshing => pc[c] \in Refreshing,
           to \in Collecting \/ pc[c] \in Collecting => to = pc[c],
           pc[c] \in {"refresh", "list"} => to \in {"refresh", "list"},
           pc[c] = "read_back" => to = "refresh" \/ target[c] \notin Present,
           to \in Fresh => pc[c] \in Fresh,
           \A d \in temps : d \in temps' \/ written[d] = 0,
           UNCHANGED <<disk, blocked, index, target, walkVars, late, written, tripped>>
    PROVE  QuietInv'
<1> USE DEF Refreshing, Walking, Collecting, Fresh, walkVars
<1>1. \A d \in Calls : d # c => pc'[d] = pc[d]
  BY DEF TypeOK
<1>2. pc'[c] = to
  BY DEF TypeOK
<1>3. Dropped => Dropped'
  BY <1>1, <1>2 DEF Dropped
<1>4. Owed => Owed'
  BY <1>1, <1>2 DEF Owed, Owes, Present
<1>5. \A d \in Calls : /\ pc'[d] \in Collecting <=> pc[d] \in Collecting
                       /\ pc[d] \in Collecting /\ Collects(d) => Collects(d)'
  BY <1>1, <1>2 DEF Collects, Sees, Present
<1>6. DebtInv => DebtInv'
  BY <1>4, <1>5 DEF DebtInv
<1>7. \A d, e \in Calls : pc'[d] \in Refreshing /\ pc'[e] \in Refreshing => d = e
  BY <1>1, <1>2 DEF QuietInv
<1>8. \A d \in Calls : pc'[d] \in Fresh => written'[d] = 0
  BY <1>1, <1>2 DEF QuietInv
<1> QED BY <1>3, <1>6, <1>7, <1>8 DEF QuietInv

\* A step of the walk of c, the one walk there is.
LEMMA QuietWalk ==
    ASSUME TypeOK, QuietInv, NEW c \in Calls, NEW to \in Collecting,
           pc[c] \in Collecting, pc' = [pc EXCEPT ![c] = to],
           todo'[c] \cup listed'[c] \subseteq Present \cup todo[c] \cup listed[c],
           todoTemps'[c] \subseteq temps \cup todoTemps[c],
           \A n \in Notes : Sees(c, n) => Sees(c, n)',
           UNCHANGED <<disk, temps, blocked, index, target, late, written, tripped>>
    PROVE  QuietInv'
<1> USE DEF Refreshing, Walking, Collecting, Fresh
<1>1. \A d \in Calls : (d # c => pc'[d] = pc[d]) /\ (pc'[d] \in Refreshing => d = c)
  BY DEF TypeOK, QuietInv
<1>2. pc'[c] = to
  BY DEF TypeOK
<1>3. Dropped => Dropped'
  BY <1>1 DEF Dropped
<1>4. Owed => Owed'
  BY <1>1 DEF Owed, Owes, Present
<1>5. Collects(c) => Collects(c)'
  BY DEF Collects, Present
<1>6. DebtInv => DebtInv'
  BY <1>1, <1>2, <1>4, <1>5 DEF DebtInv
<1>7. \A d \in Calls : pc'[d] \in Fresh => written'[d] = 0
  BY <1>1, <1>2 DEF QuietInv
<1> QED BY <1>1, <1>3, <1>6, <1>7 DEF QuietInv

\* A walk fails because a name has vanished, so another call owes a refresh, or it was the
\* temporary file of a call that changed nothing.
LEMMA QuietFail ==
    ASSUME TypeOK, QuietInv, NEW c \in Calls, pc[c] \in Collecting, Fail(c),
           ~Collects(c) \/ tripped', tripped => tripped',
           UNCHANGED <<disk, temps, blocked, index, target, late, written>>
    PROVE  QuietInv'
<1> USE DEF Refreshing, Walking, Collecting, Fresh, Fail, Go
<1>1. \A d \in Calls : d # c => pc'[d] = pc[d]
  BY DEF TypeOK
<1>2. pc'[c] = "done" /\ \A d \in Calls : pc'[d] \notin Collecting
  BY DEF TypeOK, QuietInv
<1>3. Dropped => Dropped'
  BY <1>1 DEF Dropped
<1>4. DebtInv => Owed' \/ tripped'
  BY <1>1 DEF DebtInv, Owed, Owes, Present
<1>5. DebtInv => DebtInv'
  BY <1>2, <1>4 DEF DebtInv
<1>6. \A d, e \in Calls : pc'[d] \in Refreshing /\ pc'[e] \in Refreshing => d = e
  BY <1>1, <1>2 DEF QuietInv
<1>7. \A d \in Calls : pc'[d] \in Fresh => written'[d] = 0
  BY <1>1, <1>2 DEF QuietInv
<1> QED BY <1>3, <1>5, <1>6, <1>7 DEF QuietInv

\* A note is changed, with a temporary file or without; whoever changed it owes a refresh.
LEMMA QuietChange ==
    ASSUME TypeOK, QuietInv, NEW c \in Calls, NEW here \in BOOLEAN, NEW to \in {"refresh", "read_back"},
           pc[c] \in Fresh, pc' = [pc EXCEPT ![c] = to], Change(c, here), to = "read_back" => here,
           UNCHANGED <<blocked, index, target, walkVars, late, tripped>>
    PROVE  QuietInv'
<1> USE DEF Refreshing, Walking, Collecting, Fresh, walkVars
<1>1. (\A d \in Calls : d # c => pc'[d] = pc[d] /\ written'[d] = written[d]) /\ pc'[c] = to
  BY DEF TypeOK, Change
<1>2. disk'[target[c]].here = here /\ target[c] \in Notes
  BY DEF TypeOK, Snapshots, Change
<1>3. Owed'
  <2>1. Owes(c)'
    BY <1>1, <1>2 DEF Owes, Present
  <2> QED BY <2>1 DEF Owed
<1>4. Dropped => Dropped'
  BY <1>1 DEF Dropped
<1>5. DebtInv => DebtInv'
  BY <1>3 DEF DebtInv
<1>6. \A d, e \in Calls : pc'[d] \in Refreshing /\ pc'[e] \in Refreshing => d = e
  BY <1>1 DEF QuietInv
<1>7. \A d \in Calls : pc'[d] \in Fresh => written'[d] = 0
  BY <1>1 DEF QuietInv
<1> QED BY <1>4, <1>5, <1>6, <1>7 DEF QuietInv

LEMMA QuietStep ==
    ASSUME Undisturbed
    PROVE  TypeOK /\ QuietInv /\ [Next]_vars => QuietInv'
<1> SUFFICES ASSUME TypeOK, QuietInv, [Next]_vars PROVE QuietInv'
  OBVIOUS
<1> USE DEF Go, At, PCs, Refreshing, Walking, Collecting, Fresh, walkVars
<1>1. ASSUME NEW c \in Calls, Start(c) PROVE QuietInv'
  BY <1>1, QuietKept DEF Start
<1>2. ASSUME NEW c \in Calls, AcquireFramework(c) PROVE QuietInv'
  BY <1>2, QuietKept DEF AcquireFramework
<1>3. ASSUME NEW c \in Calls, Mutate(c) PROVE QuietInv'
  <2>1. CASE UNCHANGED <<disk, written>> /\ \E to \in {"done", "refresh"} : pc' = [pc EXCEPT ![c] = to]
    BY <1>3, <2>1, QuietKept DEF Mutate
  <2>2. CASE Change(c, FALSE) /\ pc' = [pc EXCEPT ![c] = "refresh"]
    BY <1>3, <2>2, QuietChange DEF Mutate
  <2> QED BY <1>3, <2>1, <2>2 DEF Mutate
<1>20. ASSUME NEW c \in Calls, Prepare(c) PROVE QuietInv'
  BY <1>20, QuietKept DEF Prepare
<1>21. ASSUME NEW c \in Calls, Land(c) PROVE QuietInv'
  <2>1. /\ pc[c] = "land" /\ temps' = temps \ {c}
        /\ UNCHANGED <<blocked, index, target, walkVars, late, tripped>>
    BY <1>21 DEF Land, Undisturbed
  <2>2. CASE UNCHANGED <<disk, written>> /\ \E to \in {"done", "refresh"} : pc' = [pc EXCEPT ![c] = to]
    <3>1. \A d \in temps : d \in temps' \/ written[d] = 0
      BY <2>1 DEF QuietInv
    <3> QED BY <2>1, <2>2, <3>1, QuietKept
  <2>3. CASE Change(c, TRUE) /\ \E to \in {"read_back", "refresh"} : pc' = [pc EXCEPT ![c] = to]
    BY <2>1, <2>3, QuietChange
  <2> QED BY <1>21, <2>2, <2>3 DEF Land
<1>4. ASSUME NEW c \in Calls, ReadBack(c) PROVE QuietInv'
  BY <1>4, QuietKept DEF ReadBack, Undisturbed, QuietInv
<1>5. ASSUME NEW c \in Calls, Acquire(c) PROVE QuietInv'
  <2>1. \A d \in Calls : d # c => pc'[d] = pc[d] /\ pc[d] \notin Refreshing
    BY <1>5 DEF Acquire, TypeOK
  <2>2. pc[c] = "refresh" /\ pc'[c] = "list" /\ UNCHANGED <<disk, blocked, index, target, late, written>>
    BY <1>5 DEF Acquire, TypeOK
  <2>3. Owed'
    BY <2>2 DEF Owed, Owes
  <2>4. Dropped => Dropped'
    BY <2>1, <2>2 DEF Dropped
  <2>5. DebtInv => DebtInv'
    BY <2>2, <2>3 DEF DebtInv
  <2>6. \A d \in Calls : pc'[d] \in Fresh => written'[d] = 0
    BY <2>1, <2>2 DEF QuietInv
  <2> QED BY <2>1, <2>2, <2>4, <2>5, <2>6 DEF QuietInv
<1>6. ASSUME NEW c \in Calls, ListStart(c) PROVE QuietInv'
  <2>1. /\ pc[c] = "list" /\ UNCHANGED <<disk, temps, blocked, index, target, late, written>>
        /\ \A d \in Calls : (d # c => pc'[d] = pc[d]) /\ (pc'[d] \in Refreshing => d = c)
    BY <1>6 DEF ListStart, ReadDir, TypeOK, QuietInv
  <2>2. /\ pc'[c] = "listing" /\ todo'[c] = Present /\ todoTemps'[c] = temps
        /\ listed'[c] = {} /\ snap'[c] = Unread
    BY <1>6 DEF ListStart, ReadDir, TypeOK
  <2>3. Present' = Present
    BY <2>1 DEF Present
  <2>4. \A n \in Notes : Sees(c, n)'
    <3> SUFFICES ASSUME NEW n \in Notes, n \notin Present PROVE Unread[n] = disk[n]
      BY <2>1, <2>2 DEF Sees
    <3> QED BY DEF Unread, Present, TypeOK, Snapshots, Entries
  <2>5. Collects(c)'
    BY <2>1, <2>2, <2>3, <2>4 DEF Collects
  <2>6. Dropped => Dropped'
    BY <2>1 DEF Dropped
  <2>7. DebtInv => DebtInv'
    BY <2>1, <2>2, <2>5 DEF DebtInv
  <2>8. \A d \in Calls : pc'[d] \in Fresh => written'[d] = 0
    BY <2>1, <2>2 DEF QuietInv
  <2> QED BY <2>1, <2>6, <2>7, <2>8 DEF QuietInv
<1>22. ASSUME NEW c \in Calls, NEW d \in todoTemps[c], pc[c] \in Walking \ {"list"}, Trip(c, d), d \notin temps,
              UNCHANGED <<disk, temps, blocked, index, target, late, written>>
       PROVE  QuietInv'
  <2>1. Fail(c) /\ (tripped => tripped') /\ (written[d] = 0 => tripped')
    BY <1>22 DEF Trip
  <2>2. ~Collects(c) \/ tripped'
    BY <1>22, <2>1 DEF Collects
  <2> QED BY <1>22, <2>1, <2>2, QuietFail
<1>23. ASSUME NEW c \in Calls, NEW d \in todoTemps[c], pc[c] \in Walking \ {"list"}, VisitTemp(c, d),
              UNCHANGED <<disk, temps, blocked, index, target, late, written>>
       PROVE  QuietInv'
  <2>1. /\ pc' = [pc EXCEPT ![c] = pc[c]] /\ todoTemps'[c] \subseteq todoTemps[c]
        /\ UNCHANGED <<todo, listed, snap, tripped>>
    BY <1>23 DEF VisitTemp, TypeOK
  <2>2. \A n \in Notes : Sees(c, n) => Sees(c, n)'
    BY <1>23, <2>1 DEF Sees, VisitTemp
  <2> QED BY <1>23, <2>1, <2>2, QuietWalk
<1>7. ASSUME NEW c \in Calls, ListEntry(c) PROVE QuietInv'
  <2>1. pc[c] = "listing" /\ UNCHANGED <<disk, temps, blocked, index, target, late, written>>
    BY <1>7 DEF ListEntry
  <2>2. ASSUME NEW n \in todo[c], n \notin Present, Fail(c), UNCHANGED tripped PROVE QuietInv'
    BY <2>1, <2>2, QuietFail DEF Collects
  <2>3. ASSUME NEW n \in todo[c], n \in Present, Visit(c, n), UNCHANGED <<snap, tripped>>,
               listed' = [listed EXCEPT ![c] = IF n \in blocked THEN @ ELSE @ \cup {n}]
        PROVE  QuietInv'
    <3>1. /\ pc' = [pc EXCEPT ![c] = "listing"] /\ UNCHANGED <<pc, todoTemps>>
          /\ todo'[c] = todo[c] \ {n} /\ listed'[c] = listed[c] \cup {n}
      BY <2>1, <2>3 DEF Visit, QuietInv, TypeOK
    <3>2. \A m \in Notes : Sees(c, m) => Sees(c, m)'
      BY <2>1, <2>3, <3>1 DEF Sees
    <3> QED BY <2>1, <2>3, <3>1, <3>2, QuietWalk
  <2> QED BY <1>7, <1>22, <1>23, <2>1, <2>2, <2>3 DEF ListEntry
<1>8. ASSUME NEW c \in Calls, ListEnd(c) PROVE QuietInv'
  <2>1. /\ pc[c] = "listing" /\ todo[c] = {} /\ pc' = [pc EXCEPT ![c] = "reading"]
        /\ todo'[c] = listed[c] /\ pc'[c] = "reading"
        /\ UNCHANGED <<disk, temps, blocked, index, target, late, written, tripped, snap, listed, todoTemps>>
    BY <1>8 DEF ListEnd, QuietInv, TypeOK
  <2>2. \A m \in Notes : Sees(c, m) => Sees(c, m)'
    BY <2>1 DEF Sees
  <2> QED BY <2>1, <2>2, QuietWalk
<1>9. ASSUME NEW c \in Calls, ReadNote(c) PROVE QuietInv'
  <2>0. pc[c] = "reading" /\ UNCHANGED <<disk, temps, blocked, index, target, late, written, tripped>>
    BY <1>9 DEF ReadNote
  <2>1. PICK n \in todo[c] :
          \/ n \notin Present \ blocked /\ Fail(c)
          \/ /\ n \in Present \ blocked
             /\ Visit(c, n) /\ UNCHANGED listed
             /\ snap' = [snap EXCEPT ![c][n] = Record(n)]
    BY <1>9 DEF ReadNote
  <2>2. CASE n \notin Present \ blocked /\ Fail(c)
    BY <2>0, <2>2, QuietFail DEF Collects, QuietInv
  <2>3. CASE n \in Present /\ Visit(c, n) /\ UNCHANGED listed
             /\ snap' = [snap EXCEPT ![c][n] = Record(n)]
    <3>1. /\ pc' = [pc EXCEPT ![c] = "reading"] /\ UNCHANGED <<pc, todoTemps>>
          /\ todo'[c] = todo[c] \ {n}
      BY <2>0, <2>3 DEF Visit, TypeOK
    <3>2. n \in Notes /\ Record(n) = disk[n]
      BY <2>3 DEF Record, Present, TypeOK, Snapshots, Entries
    <3>3. snap'[c][n] = disk[n] /\ \A m \in Notes : m # n => snap'[c][m] = snap[c][m]
      BY <2>3, <3>2 DEF TypeOK, Snapshots
    <3>4. \A m \in Notes : Sees(c, m) => Sees(c, m)'
      BY <2>0, <2>3, <3>1, <3>3 DEF Sees
    <3> QED BY <2>0, <2>3, <3>1, <3>4, QuietWalk
  <2> QED BY <2>1, <2>2, <2>3
<1>10. ASSUME NEW c \in Calls, ReadEnd(c) PROVE QuietInv'
  <2>1. /\ pc[c] = "reading" /\ todo[c] = {} /\ pc' = [pc EXCEPT ![c] = "scan"]
        /\ UNCHANGED <<disk, temps, blocked, index, target, late, written, tripped, snap, listed, todo, todoTemps>>
    BY <1>10 DEF ReadEnd
  <2>2. \A m \in Notes : Sees(c, m) => Sees(c, m)'
    BY <2>1 DEF Sees
  <2> QED BY <2>1, <2>2, QuietWalk
<1>11. ASSUME NEW c \in Calls, ScanStart(c) PROVE QuietInv'
  <2>1. /\ pc[c] = "scan" /\ pc' = [pc EXCEPT ![c] = "scanning"]
        /\ todo'[c] = Present /\ todoTemps'[c] = temps
        /\ UNCHANGED <<disk, temps, blocked, index, target, late, written, tripped, snap, listed>>
    BY <1>11 DEF ScanStart, ReadDir, TypeOK
  <2>2. \A m \in Notes : Sees(c, m) => Sees(c, m)'
    BY <2>1 DEF Sees
  <2> QED BY <2>1, <2>2, QuietWalk
<1>12. ASSUME NEW c \in Calls, ScanEntry(c) PROVE QuietInv'
  <2>1. pc[c] = "scanning" /\ UNCHANGED <<disk, temps, blocked, index, target, late, written>>
    BY <1>12 DEF ScanEntry
  <2>2. ASSUME NEW n \in todo[c], n \notin Present \cup blocked, Fail(c), UNCHANGED tripped PROVE QuietInv'
    BY <2>1, <2>2, QuietFail DEF Collects
  <2>3. ASSUME NEW n \in todo[c], Visit(c, n), UNCHANGED <<listed, snap, tripped>> PROVE QuietInv'
    <3>1. /\ pc' = [pc EXCEPT ![c] = "scanning"] /\ UNCHANGED <<pc, todoTemps>>
          /\ todo'[c] = todo[c] \ {n}
      BY <2>1, <2>3 DEF Visit, TypeOK
    <3>2. \A m \in Notes : Sees(c, m) => Sees(c, m)'
      BY <2>1, <2>3, <3>1 DEF Sees
    <3> QED BY <2>1, <2>3, <3>1, <3>2, QuietWalk
  <2> QED BY <1>12, <1>22, <1>23, <2>1, <2>2, <2>3 DEF ScanEntry
<1>13. ASSUME NEW c \in Calls, ScanEnd(c) PROVE QuietInv'
  <2>1. /\ pc[c] = "scanning" /\ pc' = [pc EXCEPT ![c] = "publish"]
        /\ UNCHANGED <<disk, temps, blocked, index, target, late, written, tripped, snap, listed, todo, todoTemps>>
    BY <1>13 DEF ScanEnd
  <2>2. \A m \in Notes : Sees(c, m) => Sees(c, m)'
    BY <2>1 DEF Sees
  <2> QED BY <2>1, <2>2, QuietWalk
<1>14. ASSUME NEW c \in Calls, Publish(c) PROVE QuietInv'
  <2>1. /\ pc[c] = "publish" /\ index' = snap[c]
        /\ UNCHANGED <<disk, temps, blocked, target, late, written>>
        /\ \A d \in Calls : (d # c => pc'[d] = pc[d]) /\ pc'[d] \notin Refreshing
        /\ pc'[c] = "done"
    BY <1>14 DEF Publish, Rebuild, Undisturbed, TypeOK, QuietInv
  <2>2. Dropped => Dropped'
    BY <2>1 DEF Dropped
  <2>3. Owed => Owed'
    BY <2>1 DEF Owed, Owes, Present
  <2>4. Collects(c) => \A n \in Notes : index'[n] = disk'[n]
    BY <2>1 DEF Collects, Sees
  <2>5. DebtInv => DebtInv'
    BY <2>1, <2>3, <2>4 DEF DebtInv
  <2>6. \A d \in Calls : pc'[d] \in Fresh => written'[d] = 0
    BY <2>1 DEF QuietInv
  <2> QED BY <2>1, <2>2, <2>5, <2>6 DEF QuietInv
<1>15. ASSUME NEW c \in Calls, WalkError(c) PROVE QuietInv'
  BY <1>15 DEF WalkError, Undisturbed
<1>16. ASSUME NEW c \in Calls, Drop(c) PROVE QuietInv'
  <2>1. /\ pc'[c] = "dropped" /\ UNCHANGED <<blocked, written>>
        /\ \A d \in Calls : d # c => pc'[d] = pc[d]
    BY <1>16 DEF Drop, TypeOK
  <2> QED BY <2>1 DEF QuietInv, Dropped
<1>17. ASSUME NEW c \in Calls, LateRebuild(c) PROVE QuietInv'
  BY <1>17 DEF LateRebuild, QuietInv, DebtInv, Dropped
<1>18. CASE PolicyReload
  BY <1>18 DEF PolicyReload, Undisturbed
<1>19. CASE UNCHANGED vars
  BY <1>19 DEF vars, QuietInv, DebtInv, Dropped, Owed, Owes, Collects, Sees, Present
<1> QED
  BY <1>1, <1>2, <1>3, <1>4, <1>5, <1>6, <1>7, <1>8, <1>9, <1>10, <1>11, <1>12, <1>13, <1>14, <1>15,
     <1>16, <1>17, <1>18, <1>19, <1>20, <1>21 DEF Next, Step

\* Where nothing outside disturbs the server (no I/O error, no reload), the index is exact
\* whenever every call has returned: some call always still owes the refresh that a mutation
\* made necessary (runtime.rs write_tool, framework_tool), and so the refresh that a note
\* or a temporary file of a note made fail by vanishing.  What nobody owes is a refresh that
\* the temporary file of a registry tool, or of a failed write, made fail (reader.rs and
\* runtime.rs stat every name): the index may then stay stale until the next commit.
THEOREM IndexExactAtRest == ASSUME Undisturbed PROVE Spec => []QuietIndexExact
<1>1. Init => QuietInv
  <2> SUFFICES ASSUME Init PROVE QuietInv
    OBVIOUS
  <2>1. blocked = {} /\ \A n \in Notes : index[n] = disk[n]
    BY DEF Init, Undisturbed
  <2> QED BY <2>1 DEF Init, QuietInv, DebtInv, Refreshing, Walking, Collecting
<1>2. TypeOK /\ QuietInv => QuietIndexExact
  <2> SUFFICES ASSUME TypeOK, QuietInv, \A c \in Calls : pc[c] \in {"idle", "done"}, ~tripped
               PROVE  index = disk
    BY DEF QuietIndexExact
  <2>1. ~Dropped /\ ~Owed /\ \A c \in Calls : pc[c] \notin Collecting
    BY DEF Dropped, Owed, Owes, Collecting, Refreshing, Walking
  <2>2. \A n \in Notes : index[n] = disk[n]
    BY <2>1 DEF QuietInv, DebtInv
  <2> QED BY <2>2 DEF TypeOK, Snapshots
<1>3. Spec => []QuietInv
  BY <1>1, QuietStep, IndexTypes, PTL DEF Spec
<1> QED BY <1>2, <1>3, IndexTypes, PTL
=============================================================================
