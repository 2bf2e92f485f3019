------------------------- MODULE VaultWriterProofs -------------------------
(***************************************************************************)
(* Proofs about the vault writer, for every set of calls, paths, files and *)
(* requests and every choice of environment events: types, locks, lost     *)
(* updates, the audit rows, the trash, the policy and, on a case-sensitive *)
(* file system, the refinement of the atomic vault.                        *)
(***************************************************************************)
EXTENDS VaultWriter, TLAPS

LEMMA ContentTypes ==
    ASSUME NEW r \in Requests
    PROVE  /\ r.op \in Ops /\ r.path \in Paths /\ r.base \in Contents /\ r.text \in Contents
           /\ FileOf[r.path] \in Files
           /\ NextText(r) \in Contents
<1>1. r \in RequestType
  BY ConstantsAssumption
<1>2. r.op \in Ops /\ r.path \in Paths /\ r.base \in Contents /\ r.text \in Contents
  BY <1>1 DEF RequestType
<1>3. FileOf[r.path] \in Files
  BY <1>2, ConstantsAssumption
<1>4. NextText(r) \in Contents
  BY <1>2 DEF NextText, Contents
<1> QED BY <1>2, <1>3, <1>4

(***************************************************************************)
(* Type correctness.                                                       *)
(***************************************************************************)
LEMMA TargetTypes ==
    ASSUME TypeOK, NEW c \in Calls
    PROVE  /\ req[c] \in Requests /\ req[c].path \in Paths /\ Target(c) \in Files
           /\ Canonical(req[c].path) \in Paths /\ slot[c] \in Paths /\ Trash(c) \in Files
<1>1. req[c] \in Requests
  BY DEF TypeOK
<1>2. req[c].path \in Paths /\ Target(c) \in Files
  BY <1>1, ContentTypes DEF Target
<1>3. slot[c] \in Paths /\ Trash(c) \in Files
  BY ConstantsAssumption DEF TypeOK, Trash
<1> QED
  BY <1>1, <1>2, <1>3 DEF Canonical, TypeOK, Target

LEMMA TypeInit == Init => TypeOK
<1> SUFFICES ASSUME Init PROVE TypeOK
  OBVIOUS
<1>1. \A c \in Calls : req[c] \in Requests /\ req[c].path \in Paths /\ Target(c) \in Files
  BY ContentTypes DEF Init, Target
<1>2. slot \in [Calls -> Paths] /\ text \in [Files -> Contents \cup {Absent}] /\ blocked \subseteq Files
  BY <1>1, ConstantsAssumption DEF Init
<1> QED
  BY <1>1, <1>2 DEF Init, TypeOK, PCs

\* The effects that the blocking pool completes.
LEMMA TypeVaultEffect ==
    ASSUME TypeOK, NEW c \in Calls, NEW step \in PoolSteps, VaultEffect(c, step)
    PROVE  /\ text' \in [Files -> Contents \cup {Absent}]
           /\ spell' \in [Files -> Paths]
           /\ temps' \subseteq Calls
           /\ trashed' \subseteq Calls
           /\ landed' \subseteq Calls
<1>1. /\ req[c] \in Requests /\ req[c].path \in Paths /\ Target(c) \in Files
      /\ slot[c] \in Paths /\ Trash(c) \in Files
      /\ NextText(req[c]) \in Contents /\ req[c].text \in Contents
  BY TargetTypes, ContentTypes
<1>2. CASE PrepareEffect(c)
  BY <1>1, <1>2 DEF PrepareEffect, TypeOK
<1>3. CASE PublishEffect(c)
  BY <1>1, <1>3 DEF PublishEffect, PublishCreateEffect, PublishReplaceEffect, WriteText, TypeOK
<1>4. CASE CleanupEffect(c)
  BY <1>4 DEF CleanupEffect, TypeOK
<1>5. CASE TrashLinkEffect(c)
  BY <1>1, <1>5 DEF TrashLinkEffect, Relocate, TypeOK
<1>6. CASE RemoveEffect(c)
  BY <1>1, <1>6 DEF RemoveEffect, WriteText, TypeOK
<1> QED
  BY <1>2, <1>3, <1>4, <1>5, <1>6 DEF VaultEffect

LEMMA TypeAuditEffect ==
    ASSUME TypeOK, NEW c \in Calls, LogStartEffect(c) \/ LogEndEffect(c)
    PROVE  /\ started' \subseteq Calls /\ succeeded' \subseteq Calls
           /\ failed' \subseteq Calls /\ provenance' \subseteq Calls
           /\ unlogged' \subseteq Calls
BY DEF LogStartEffect, LogEndEffect, TypeOK

LEMMA TypeStep == TypeOK /\ [Next]_vars => TypeOK'
<1> SUFFICES ASSUME TypeOK, [Next]_vars PROVE TypeOK'
  OBVIOUS
<1> USE DEF PCs, InFlight, Waiting, Holding, BeforeRead, Checked, PoolSteps, Go, Continue, Settle, At,
            Reject, Unlock, callVars, lockVars, vaultVars, auditVars, histVars
<1>1. ASSUME NEW c \in Calls, Start(c) PROVE TypeOK'
  BY <1>1 DEF Start, TypeOK
<1>2. ASSUME NEW c \in Calls, Identify(c) PROVE TypeOK'
  BY <1>2, TargetTypes DEF Identify, TypeOK
<1>3. ASSUME NEW c \in Calls, Lookup(c) PROVE TypeOK'
  <2>1. Retained \in [Paths -> Locks \cup {NoLock}]
    BY DEF Retained, TypeOK
  <2> QED BY <1>3, <2>1 DEF Lookup, TypeOK
<1>4. ASSUME NEW c \in Calls, Acquire(c) PROVE TypeOK'
  BY <1>4 DEF Acquire, TypeOK
<1>5. ASSUME NEW c \in Calls, Recheck(c) PROVE TypeOK'
  BY <1>5 DEF Recheck, TypeOK
<1>6. ASSUME NEW c \in Calls, IdentifyError(c) PROVE TypeOK'
  BY <1>6 DEF IdentifyError, TypeOK
<1>7. ASSUME NEW c \in Calls, LogStart(c) PROVE TypeOK'
  BY <1>7, TypeAuditEffect DEF LogStart, TypeOK
<1>8. ASSUME NEW c \in Calls, Guard(c) PROVE TypeOK'
  BY <1>8 DEF Guard, GuardNext, Guarding, TypeOK
<1>9. ASSUME NEW c \in Calls, CheckExists(c) PROVE TypeOK'
  BY <1>9 DEF CheckExists, TypeOK
<1>10. ASSUME NEW c \in Calls, Stat(c) PROVE TypeOK'
  BY <1>10 DEF Stat, TypeOK
<1>11. ASSUME NEW c \in Calls, Read(c) PROVE TypeOK'
  BY <1>11 DEF Read, ReadNext, TypeOK
<1>12. ASSUME NEW c \in Calls, Prepare(c) PROVE TypeOK'
  BY <1>12 DEF Prepare, PrepareEffect, TypeOK
<1>13. ASSUME NEW c \in Calls, Publish(c) PROVE TypeOK'
  <2>1. CASE VaultEffect(c, "publish")
    BY <1>13, <2>1, TypeVaultEffect DEF Publish, TypeOK
  <2>2. CASE UNCHANGED <<vaultVars, landed, trashed>>
    BY <1>13, <2>2 DEF Publish, TypeOK
  <2> QED BY <1>13, <2>1, <2>2 DEF Publish, VaultEffect
<1>14. ASSUME NEW c \in Calls, Cleanup(c) PROVE TypeOK'
  BY <1>14 DEF Cleanup, CleanupEffect, TypeOK
<1>15. ASSUME NEW c \in Calls, TrashLink(c) PROVE TypeOK'
  <2>1. CASE TrashLinkEffect(c) /\ UNCHANGED <<slot, cleared>>
    <3>1. VaultEffect(c, "trash_link")
      BY <2>1 DEF VaultEffect
    <3>2. /\ text' \in [Files -> Contents \cup {Absent}]
          /\ spell' \in [Files -> Paths] /\ temps' \subseteq Calls
          /\ trashed' \subseteq Calls /\ landed' \subseteq Calls
      BY <3>1, TypeVaultEffect
    <3>3. pc' \in [Calls -> PCs]
      BY <1>15 DEF TrashLink, TypeOK
    <3> QED BY <1>15, <2>1, <3>2, <3>3 DEF TrashLink, TypeOK
  <2>2. CASE UNCHANGED <<vaultVars, landed, trashed>>
    <3>1. c \in Paths
      BY ConstantsAssumption
    <3> QED BY <1>15, <2>2, <3>1 DEF TrashLink, TypeOK
  <2> QED BY <1>15, <2>1, <2>2 DEF TrashLink
<1>16. ASSUME NEW c \in Calls, Remove(c) PROVE TypeOK'
  <2>1. CASE VaultEffect(c, "unlink")
    BY <1>16, <2>1, TypeVaultEffect DEF Remove, TypeOK
  <2>2. CASE UNCHANGED <<vaultVars, landed, trashed>>
    BY <1>16, <2>2 DEF Remove, TypeOK
  <2> QED BY <1>16, <2>1, <2>2 DEF Remove, VaultEffect
<1>17. ASSUME NEW c \in Calls, ApplyError(c) PROVE TypeOK'
  BY <1>17 DEF ApplyError, TypeOK
<1>18. ASSUME NEW c \in Calls, LogEnd(c) PROVE TypeOK'
  BY <1>18, TypeAuditEffect DEF LogEnd, TypeOK
<1>19. ASSUME NEW c \in Calls, Cancel(c) PROVE TypeOK'
  BY <1>19 DEF Cancel, TypeOK
<1>20. ASSUME NEW c \in Calls, LateStep(c) PROVE TypeOK'
  <2>1. late[c] \in PoolSteps
    BY <1>20 DEF LateStep, TypeOK
  <2>2. CASE VaultEffect(c, late[c]) /\ UNCHANGED auditVars /\ dirty' = dirty \cup Overtaken
    <3>1. dirty' \subseteq Calls
      BY <2>2 DEF Overtaken, TypeOK
    <3>2. /\ text' \in [Files -> Contents \cup {Absent}]
          /\ spell' \in [Files -> Paths] /\ temps' \subseteq Calls
          /\ trashed' \subseteq Calls /\ landed' \subseteq Calls
      BY <2>1, <2>2, TypeVaultEffect
    <3> QED BY <1>20, <2>2, <3>1, <3>2 DEF LateStep, TypeOK
  <2>3. CASE (LogStartEffect(c) \/ LogEndEffect(c)) /\ UNCHANGED <<vaultVars, landed, trashed, dirty>>
    <3>1. /\ started' \subseteq Calls /\ succeeded' \subseteq Calls /\ failed' \subseteq Calls
          /\ provenance' \subseteq Calls /\ unlogged' \subseteq Calls
      BY <2>3, TypeAuditEffect
    <3> QED BY <1>20, <2>3, <3>1 DEF LateStep, TypeOK
  <2>4. CASE UNCHANGED <<vaultVars, landed, trashed, dirty, auditVars>>
    BY <1>20, <2>4 DEF LateStep, TypeOK
  <2> QED BY <1>20, <2>2, <2>3, <2>4 DEF LateStep
<1>21. CASE Crash
  BY <1>21 DEF Crash, TypeOK
<1>22. ASSUME NEW f \in Files, ExternalEdit(f) PROVE TypeOK'
  BY <1>22 DEF ExternalEdit, Overtaken, TypeOK
<1>23. CASE PolicyReload
  BY <1>23, ConstantsAssumption DEF PolicyReload, TypeOK
<1>24. CASE UNCHANGED vars
  BY <1>24 DEF vars, TypeOK
<1> QED
  BY <1>1, <1>2, <1>3, <1>4, <1>5, <1>6, <1>7, <1>8, <1>9, <1>10, <1>11, <1>12, <1>13, <1>14,
     <1>15, <1>16, <1>17, <1>18, <1>19, <1>20, <1>21, <1>22, <1>23, <1>24
     DEF Next, Step

\* Every variable of the writer keeps its type, whatever the environment does:
\* in particular a merged note is a note and a trash name an entry or a call.
THEOREM TypeCorrect == Spec => []TypeOK
  BY TypeInit, TypeStep, PTL DEF Spec

(***************************************************************************)
(* Mutual exclusion per canonical identity.  The table holds the lock of   *)
(* every call that waits or works, under that call's identity, so two      *)
(* calls with one identity share one lock object.                          *)
(***************************************************************************)
LockInv ==
    /\ \A c \in Calls : lockOf[c] # NoLock <=> pc[c] \in Waiting \cup Holding
    /\ \A c \in Calls : lockOf[c] # NoLock => table[ident[c]] = lockOf[c]
    /\ \A c, d \in Calls :
          c # d /\ pc[c] \in Holding /\ pc[d] \in Holding => lockOf[c] # lockOf[d]

\* A step that moves calls only within the section under the lock, or out of it.
LEMMA LockInvKept ==
    ASSUME TypeOK, LockInv, NEW c \in Calls, NEW to \in PCs,
           pc[c] \in Holding, pc' = [pc EXCEPT ![c] = to],
           \/ to \in Holding /\ lockOf' = lockOf
           \/ to \notin Waiting \cup Holding /\ lockOf' = [lockOf EXCEPT ![c] = NoLock],
           UNCHANGED <<ident, table>>
    PROVE  LockInv'
BY DEF LockInv, TypeOK

LEMMA LockInvStep == TypeOK /\ LockInv /\ [Next]_vars => LockInv'
<1> SUFFICES ASSUME TypeOK, LockInv, [Next]_vars PROVE LockInv'
  OBVIOUS
<1> USE DEF PCs, InFlight, Waiting, Holding, BeforeRead, Checked, Go, Continue, Settle, At, Reject, Unlock,
            callVars, lockVars
<1>1. ASSUME NEW c \in Calls, Start(c) PROVE LockInv'
  BY <1>1 DEF Start, LockInv, TypeOK
<1>2. ASSUME NEW c \in Calls, Identify(c) PROVE LockInv'
  BY <1>2 DEF Identify, LockInv, TypeOK
<1>3. ASSUME NEW c \in Calls, Lookup(c) PROVE LockInv'
  <2>1. PICK l \in Locks :
          /\ \/ Retained[ident[c]] = l
             \/ Retained[ident[c]] = NoLock /\ ~Referenced(l)
          /\ table' = [Retained EXCEPT ![ident[c]] = l]
          /\ lockOf' = [lockOf EXCEPT ![c] = l]
    BY <1>3 DEF Lookup
  <2>2. l # NoLock /\ lockOf[c] = NoLock /\ pc[c] = "lookup"
    BY <1>3, ConstantsAssumption DEF Lookup, LockInv
  <2>3. ident[c] \in Paths /\ \A d \in Calls : ident[d] \in Paths
    BY DEF TypeOK
  <2>4. ASSUME NEW d \in Calls, d # c, lockOf[d] # NoLock
        PROVE  table'[ident[d]] = lockOf[d]
    <3>1. Retained[ident[d]] = lockOf[d]
      BY <2>3, <2>4 DEF Retained, Referenced, LockInv
    <3>2. CASE ident[d] = ident[c]
      BY <2>1, <2>3, <2>4, <3>1, <3>2 DEF Retained
    <3>3. CASE ident[d] # ident[c]
      BY <2>1, <2>3, <3>1, <3>3 DEF Retained
    <3> QED BY <3>2, <3>3
  <2>5. table'[ident[c]] = l
    BY <2>1, <2>3 DEF Retained
  <2>6. pc' = [pc EXCEPT ![c] = "waiting"] /\ ident' = ident
    BY <1>3 DEF Lookup
  <2> QED BY <2>1, <2>2, <2>4, <2>5, <2>6 DEF LockInv, TypeOK
<1>4. ASSUME NEW c \in Calls, Acquire(c) PROVE LockInv'
  BY <1>4 DEF Acquire, LockInv, TypeOK
<1>5. ASSUME NEW c \in Calls, Recheck(c) PROVE LockInv'
  BY <1>5, LockInvKept DEF Recheck
<1>6. ASSUME NEW c \in Calls, IdentifyError(c) PROVE LockInv'
  BY <1>6 DEF IdentifyError, LockInv, TypeOK
<1>7. ASSUME NEW c \in Calls, LogStart(c) PROVE LockInv'
  BY <1>7, LockInvKept DEF LogStart
<1>8. ASSUME NEW c \in Calls, Guard(c) PROVE LockInv'
  BY <1>8, LockInvKept DEF Guard, GuardNext, Guarding
<1>9. ASSUME NEW c \in Calls, CheckExists(c) PROVE LockInv'
  BY <1>9, LockInvKept DEF CheckExists
<1>10. ASSUME NEW c \in Calls, Stat(c) PROVE LockInv'
  BY <1>10, LockInvKept DEF Stat
<1>11. ASSUME NEW c \in Calls, Read(c) PROVE LockInv'
  BY <1>11, LockInvKept DEF Read, ReadNext
<1>12. ASSUME NEW c \in Calls, Prepare(c) PROVE LockInv'
  BY <1>12, LockInvKept DEF Prepare
<1>13. ASSUME NEW c \in Calls, Publish(c) PROVE LockInv'
  BY <1>13, LockInvKept DEF Publish
<1>14. ASSUME NEW c \in Calls, Cleanup(c) PROVE LockInv'
  BY <1>14, LockInvKept DEF Cleanup
<1>15. ASSUME NEW c \in Calls, TrashLink(c) PROVE LockInv'
  BY <1>15, LockInvKept DEF TrashLink
<1>16. ASSUME NEW c \in Calls, Remove(c) PROVE LockInv'
  BY <1>16, LockInvKept DEF Remove
<1>17. ASSUME NEW c \in Calls, ApplyError(c) PROVE LockInv'
  BY <1>17, LockInvKept DEF ApplyError
<1>18. ASSUME NEW c \in Calls, LogEnd(c) PROVE LockInv'
  BY <1>18, LockInvKept DEF LogEnd
<1>19. ASSUME NEW c \in Calls, Cancel(c) PROVE LockInv'
  BY <1>19 DEF Cancel, LockInv, TypeOK
<1>20. ASSUME NEW c \in Calls, LateStep(c) PROVE LockInv'
  BY <1>20 DEF LateStep, LockInv
<1>21. CASE Crash
  BY <1>21 DEF Crash, LockInv, TypeOK
<1>22. ASSUME NEW f \in Files, ExternalEdit(f) PROVE LockInv'
  BY <1>22 DEF ExternalEdit, LockInv
<1>23. CASE PolicyReload
  BY <1>23 DEF PolicyReload, LockInv
<1>24. CASE UNCHANGED vars
  BY <1>24 DEF vars, LockInv
<1> QED
  BY <1>1, <1>2, <1>3, <1>4, <1>5, <1>6, <1>7, <1>8, <1>9, <1>10, <1>11, <1>12, <1>13, <1>14,
     <1>15, <1>16, <1>17, <1>18, <1>19, <1>20, <1>21, <1>22, <1>23, <1>24
     DEF Next, Step

LEMMA LockInvariant == Spec => []LockInv
<1>1. Init => LockInv
  BY DEF Init, LockInv, Waiting, Holding, BeforeRead, Checked
<1> QED BY <1>1, LockInvStep, TypeCorrect, PTL DEF Spec

\* Two calls never work under the lock for one canonical identity, although the
\* table forgets and re-creates lock objects all the time (mutate's lock loop).
THEOREM MutualExclusion == Spec => []LockExclusive
<1>1. LockInv => LockExclusive
  BY ConstantsAssumption DEF LockInv, LockExclusive
<1> QED BY <1>1, LockInvariant, PTL

(***************************************************************************)
(* No lost update, for a call whose note has one spelling in use: always   *)
(* so on a case-sensitive file system, and elsewhere for every note nobody *)
(* spells in two ways.  Then the canonical identity of the path is the     *)
(* path, so a call that works on the file holds that file's only lock, and *)
(* nobody else who takes locks can change the file between the hash check  *)
(* and the change.                                                         *)
(***************************************************************************)
CaseSensitive == \A p, q \in Paths : FileOf[p] = FileOf[q] => p = q

OneSpelling(c) == \A p \in Paths : FileOf[p] = Target(c) => p = req[c].path

\* Which operation a call carries, where it has taken its own branch of apply.
BranchInv ==
    \A c \in Calls :
        /\ pc[c] = "exists" => req[c].op = "create"
        /\ pc[c] \in {"stat", "read"} => req[c].op # "create"
        /\ pc[c] \in {"prepare_guard", "prepare", "publish_guard", "publish"}
             => req[c].op \notin {"delete", "hard_delete"}
        /\ pc[c] \in {"trash_guard", "note_guard", "trash_link", "trash_unlink"}
             => req[c].op = "delete"
        /\ pc[c] = "trash_unlink" => c \in trashed
        /\ pc[c] \in {"unlink_guard", "unlink"} => req[c].op = "hard_delete"

IdentityInv ==
    /\ \A f \in Files : FileOf[spell[f]] = f
    /\ \A c \in Calls : OneSpelling(c) => ident[c] = req[c].path

BaseInv ==
    \A c \in Calls :
        OneSpelling(c) /\ pc[c] \in Checked /\ req[c].op # "create" /\ c \notin dirty
            => text[Target(c)] = req[c].base

\* Between the trash link and the unlink the trash holds the validated note, unless a
\* call that was sent to the trash name has changed it.
TrashHolds(c) == \/ text[Trash(c)] = req[c].base
                 \/ \E d \in landed \ {c} : Target(d) = Trash(c)
TrashInv ==
    \A c \in Calls : OneSpelling(c) /\ pc[c] = "trash_unlink" /\ c \notin dirty => TrashHolds(c)

WriteInv == BranchInv /\ IdentityInv /\ BaseInv /\ TrashInv

LEMMA EverySpellingSole ==
    ASSUME CaseSensitive, TypeOK, NEW c \in Calls
    PROVE  OneSpelling(c)
BY TargetTypes DEF CaseSensitive, OneSpelling, Target

LEMMA PathIsIdentity ==
    ASSUME TypeOK, IdentityInv, NEW c \in Calls, OneSpelling(c)
    PROVE  Canonical(req[c].path) = req[c].path
<1>1. req[c].path \in Paths /\ Target(c) \in Files /\ spell[Target(c)] \in Paths
  BY TargetTypes DEF TypeOK
<1> QED
  BY <1>1 DEF Canonical, OneSpelling, IdentityInv, Target

\* Calls that work under a lock on a note with one spelling work on it alone.
LEMMA HoldersApart ==
    ASSUME TypeOK, LockInv, IdentityInv, NEW c \in Calls, NEW d \in Calls, OneSpelling(c),
           c # d, pc[c] \in Holding, pc[d] \in Holding
    PROVE  Target(c) # Target(d)
<1>1. ident[c] # ident[d]
  BY ConstantsAssumption DEF LockInv
<1>2. req[c].path \in Paths /\ req[d].path \in Paths
  BY TargetTypes
<1>3. ASSUME Target(c) = Target(d) PROVE FALSE
  <2>1. req[d].path = req[c].path
    BY <1>2, <1>3 DEF OneSpelling, Target
  <2>2. OneSpelling(d)
    BY <1>3, <2>1 DEF OneSpelling
  <2> QED BY <1>1, <2>1, <2>2 DEF IdentityInv
<1> QED BY <1>3

\* A step of one call that changes neither the vault nor the operation's branch.
LEMMA WriteInvKept ==
    ASSUME TypeOK, WriteInv, NEW c \in Calls, NEW to \in PCs,
           pc' = [pc EXCEPT ![c] = to],
           \/ to \notin Checked \cup {"exists", "stat", "read"}
           \/ pc[c] = "guard" /\ req[c].op = "create" /\ to = "exists"
           \/ pc[c] = "guard" /\ req[c].op # "create" /\ to = "stat"
           \/ pc[c] = "stat" /\ to = "read"
           \/ pc[c] = "prepare_guard" /\ to = "prepare"
           \/ pc[c] = "prepare" /\ to = "publish_guard"
           \/ pc[c] = "publish_guard" /\ to = "publish"
           \/ pc[c] = "trash_guard" /\ to = "note_guard"
           \/ pc[c] = "note_guard" /\ to = "trash_link"
           \/ pc[c] = "trash_link" /\ to = "trash_guard"
           \/ pc[c] = "unlink_guard" /\ to = "unlink",
           \A d \in Calls : d # c => slot'[d] = slot[d],
           UNCHANGED <<req, ident, text, spell, landed, trashed, dirty>>
    PROVE  WriteInv'
<1> USE DEF Checked
<1>1. BranchInv'
  BY DEF WriteInv, BranchInv, TypeOK
<1>2. IdentityInv'
  BY DEF WriteInv, IdentityInv, OneSpelling, Target
<1>3. BaseInv'
  BY DEF WriteInv, BaseInv, TypeOK, OneSpelling, Target
<1>4. TrashInv'
  BY DEF WriteInv, TrashInv, TrashHolds, Trash, TypeOK, OneSpelling, Target
<1> QED BY <1>1, <1>2, <1>3, <1>4 DEF WriteInv

\* A call under its lock changes its file and leaves the checked section.
LEMMA WriteInvLanding ==
    ASSUME TypeOK, LockInv, WriteInv, NEW c \in Calls, NEW to \in PCs,
           pc[c] \in Checked, to \notin Checked \cup {"exists", "stat", "read"},
           pc' = [pc EXCEPT ![c] = to],
           \A f \in Files : f # Target(c) => text'[f] = text[f],
           \A f \in Files : FileOf[spell'[f]] = f, landed' = landed \cup {c},
           UNCHANGED <<req, ident, slot, trashed, dirty>>
    PROVE  WriteInv'
<1> USE DEF Checked
<1>1. BranchInv'
  BY DEF WriteInv, BranchInv, TypeOK
<1>2. IdentityInv'
  BY DEF WriteInv, IdentityInv, OneSpelling, Target
<1>3. BaseInv'
  <2> SUFFICES ASSUME NEW d \in Calls, OneSpelling(d), pc'[d] \in Checked, req[d].op # "create",
                      d \notin dirty
               PROVE  text'[Target(d)] = req[d].base
    BY DEF BaseInv, OneSpelling, Target
  <2>1. d # c /\ pc[d] \in Checked
    BY DEF TypeOK
  <2>2. Target(d) # Target(c)
    BY <2>1, HoldersApart DEF Holding, WriteInv
  <2>3. text[Target(d)] = req[d].base
    BY <2>1 DEF WriteInv, BaseInv
  <2>4. Target(d) \in Files
    BY TargetTypes
  <2> QED BY <2>2, <2>3, <2>4 DEF TypeOK
<1>4. TrashInv'
  <2> SUFFICES ASSUME NEW d \in Calls, OneSpelling(d), pc'[d] = "trash_unlink", d \notin dirty
               PROVE  TrashHolds(d)'
    BY DEF TrashInv, OneSpelling, Target
  <2>1. d # c /\ TrashHolds(d) /\ Trash(d) \in Files
    BY TargetTypes DEF TypeOK, WriteInv, TrashInv
  <2>2. CASE Target(c) = Trash(d)
    BY <2>1, <2>2 DEF TrashHolds, Target, Trash
  <2>3. CASE Target(c) # Trash(d)
    BY <2>1, <2>3 DEF TrashHolds, Target, Trash
  <2> QED BY <2>2, <2>3
<1> QED BY <1>1, <1>2, <1>3, <1>4 DEF WriteInv

\* A change by something that takes no lock: the calls it cheats become dirty.
LEMMA WriteInvOutside ==
    ASSUME TypeOK, WriteInv, UNCHANGED <<pc, req, ident, slot>>,
           dirty' = dirty \cup Overtaken \/ (text' = text /\ dirty' = dirty),
           \A f \in Files : FileOf[spell'[f]] = f,
           landed \subseteq landed', trashed \subseteq trashed'
    PROVE  WriteInv'
<1>1. BranchInv'
  BY DEF WriteInv, BranchInv
<1>2. IdentityInv'
  BY DEF WriteInv, IdentityInv, OneSpelling, Target
<1>3. BaseInv'
  <2> SUFFICES ASSUME NEW d \in Calls, OneSpelling(d), pc[d] \in Checked, req[d].op # "create",
                      d \notin dirty'
               PROVE  text'[Target(d)] = req[d].base
    BY DEF BaseInv, OneSpelling, Target
  <2>1. text'[Target(d)] = text[Target(d)]
    BY DEF Overtaken
  <2> QED BY <2>1 DEF WriteInv, BaseInv
<1>4. TrashInv'
  <2> SUFFICES ASSUME NEW d \in Calls, OneSpelling(d), pc[d] = "trash_unlink", d \notin dirty'
               PROVE  TrashHolds(d)'
    BY DEF TrashInv, OneSpelling, Target
  <2>1. text'[Trash(d)] = text[Trash(d)]
    BY DEF Overtaken, At, Checked
  <2>2. TrashHolds(d)
    BY DEF WriteInv, TrashInv
  <2> QED BY <2>1, <2>2 DEF TrashHolds, Trash, Target
<1> QED BY <1>1, <1>2, <1>3, <1>4 DEF WriteInv

\* A step that fills a free name changes nothing that a call has looked at.
LEMMA WriteInvLink ==
    ASSUME TypeOK, WriteInv, NEW c \in Calls, pc[c] = "trash_link", TrashLinkEffect(c),
           pc' = [pc EXCEPT ![c] = "trash_unlink"], UNCHANGED <<req, ident, slot, dirty>>
    PROVE  WriteInv'
<1> USE DEF Checked
<1>1. /\ text[Trash(c)] = Absent /\ text' = [text EXCEPT ![Trash(c)] = text[Target(c)]]
      /\ spell' = [spell EXCEPT ![Trash(c)] = slot[c]]
      /\ trashed' = trashed \cup {c} /\ landed' = landed
  BY DEF TrashLinkEffect, Relocate
<1>2. req[c].op = "delete"
  BY DEF WriteInv, BranchInv
<1>3. Trash(c) = FileOf[slot[c]] /\ Trash(c) \in Files
  BY TargetTypes DEF Trash
<1>4. \A f \in Files : text[f] # Absent => text'[f] = text[f]
  BY <1>1, <1>3 DEF TypeOK
<1>5. \A d \in Calls : req[d].base # Absent /\ Target(d) \in Files /\ Trash(d) \in Files
  BY TargetTypes, ContentTypes, ConstantsAssumption DEF TypeOK
<1>6. BranchInv'
  BY <1>1, <1>2 DEF WriteInv, BranchInv, TypeOK
<1>7. IdentityInv'
  BY <1>1, <1>3 DEF WriteInv, IdentityInv, OneSpelling, Target, TypeOK
<1>8. BaseInv'
  <2> SUFFICES ASSUME NEW d \in Calls, OneSpelling(d), pc'[d] \in Checked, req[d].op # "create",
                      d \notin dirty
               PROVE  text'[Target(d)] = req[d].base
    BY DEF BaseInv, OneSpelling, Target
  <2>1. pc[d] \in Checked
    BY DEF TypeOK
  <2> QED BY <1>4, <1>5, <2>1 DEF WriteInv, BaseInv
<1>9. TrashInv'
  <2> SUFFICES ASSUME NEW d \in Calls, OneSpelling(d), pc'[d] = "trash_unlink", d \notin dirty
               PROVE  TrashHolds(d)'
    BY DEF TrashInv, OneSpelling, Target
  <2>1. Trash(d)' = Trash(d)
    BY DEF Trash
  <2>2. CASE d = c
    <3>1. text[Target(c)] = req[c].base
      BY <1>2, <2>2 DEF WriteInv, BaseInv
    <3>2. text'[Trash(c)] = req[c].base
      BY <1>1, <1>3, <3>1 DEF TypeOK
    <3> QED BY <2>1, <2>2, <3>2 DEF TrashHolds
  <2>3. CASE d # c
    <3>1. TrashHolds(d)
      BY <2>3 DEF WriteInv, TrashInv, TypeOK
    <3>2. CASE text[Trash(d)] = req[d].base
      BY <1>4, <1>5, <2>1, <3>2 DEF TrashHolds
    <3>3. CASE \E e \in landed \ {d} : Target(e) = Trash(d)
      BY <1>1, <2>1, <3>3 DEF TrashHolds, Target
    <3> QED BY <3>1, <3>2, <3>3 DEF TrashHolds
  <2> QED BY <2>2, <2>3
<1> QED BY <1>6, <1>7, <1>8, <1>9 DEF WriteInv

LEMMA WriteInvStep ==
    TypeOK /\ LockInv /\ WriteInv /\ [Next]_vars => WriteInv'
<1> SUFFICES ASSUME TypeOK, LockInv, WriteInv, [Next]_vars PROVE WriteInv'
  OBVIOUS
<1> USE DEF PCs, InFlight, Waiting, Holding, BeforeRead, Checked, Go, Continue, Settle, At, Reject,
            callVars, lockVars, vaultVars, histVars
<1>1. ASSUME NEW c \in Calls, Start(c) PROVE WriteInv'
  BY <1>1, WriteInvKept DEF Start
<1>2. ASSUME NEW c \in Calls, Lookup(c) PROVE WriteInv'
  BY <1>2, WriteInvKept DEF Lookup
<1>3. ASSUME NEW c \in Calls, Acquire(c) PROVE WriteInv'
  BY <1>3, WriteInvKept DEF Acquire
<1>4. ASSUME NEW c \in Calls, Recheck(c) PROVE WriteInv'
  BY <1>4, WriteInvKept DEF Recheck
<1>5. ASSUME NEW c \in Calls, IdentifyError(c) PROVE WriteInv'
  BY <1>5, WriteInvKept DEF IdentifyError
<1>6. ASSUME NEW c \in Calls, LogStart(c) PROVE WriteInv'
  BY <1>6, WriteInvKept DEF LogStart
<1>7. ASSUME NEW c \in Calls, Guard(c) PROVE WriteInv'
  BY <1>7, WriteInvKept DEF Guard, GuardNext, Guarding
<1>8. ASSUME NEW c \in Calls, Stat(c) PROVE WriteInv'
  BY <1>8, WriteInvKept DEF Stat
<1>9. ASSUME NEW c \in Calls, ApplyError(c) PROVE WriteInv'
  BY <1>9, WriteInvKept DEF ApplyError
<1>10. ASSUME NEW c \in Calls, LogEnd(c) PROVE WriteInv'
  BY <1>10, WriteInvKept DEF LogEnd
<1>11. ASSUME NEW c \in Calls, Cancel(c) PROVE WriteInv'
  BY <1>11, WriteInvKept DEF Cancel
<1>12. ASSUME NEW c \in Calls, Identify(c) PROVE WriteInv'
  BY <1>12, PathIsIdentity DEF Identify, WriteInv, BranchInv, IdentityInv, BaseInv, TrashInv,
     TrashHolds, Trash, OneSpelling, Target, TypeOK
<1>13. ASSUME NEW c \in Calls, CheckExists(c) PROVE WriteInv'
  <2>1. CASE Reject(c)
    BY <1>13, <2>1, WriteInvKept DEF CheckExists
  <2>2. CASE Continue(c, "prepare_guard")
    BY <1>13, <2>2 DEF CheckExists, WriteInv, BranchInv, IdentityInv, BaseInv,
       TrashInv, TrashHolds, Trash, OneSpelling, Target, TypeOK
  <2> QED BY <1>13, <2>1, <2>2 DEF CheckExists
<1>14. ASSUME NEW c \in Calls, Read(c) PROVE WriteInv'
  <2>1. CASE Reject(c)
    BY <1>14, <2>1, WriteInvKept DEF Read
  <2>2. CASE text[Target(c)] = req[c].base /\ Continue(c, ReadNext(c))
    <3>1. /\ pc[c] = "read" /\ pc' = [pc EXCEPT ![c] = ReadNext(c)]
          /\ UNCHANGED <<req, ident, text, spell, landed, trashed, slot, dirty>>
      BY <1>14, <2>2 DEF Read
    <3>2. req[c].op # "create" /\ ReadNext(c) \in Checked \ {"trash_unlink"}
      BY <3>1 DEF WriteInv, BranchInv, ReadNext
    <3>3. BranchInv'
      BY <3>1, <3>2 DEF WriteInv, BranchInv, ReadNext, TypeOK
    <3>4. IdentityInv'
      BY <3>1 DEF WriteInv, IdentityInv, OneSpelling, Target
    <3>5. BaseInv'
      BY <2>2, <3>1, <3>2 DEF WriteInv, BaseInv, TypeOK, OneSpelling, Target
    <3>6. TrashInv'
      BY <3>1, <3>2 DEF WriteInv, TrashInv, TrashHolds, Trash, TypeOK, OneSpelling, Target
    <3> QED BY <3>3, <3>4, <3>5, <3>6 DEF WriteInv
  <2> QED BY <1>14, <2>1, <2>2 DEF Read
<1>15. ASSUME NEW c \in Calls, Prepare(c) PROVE WriteInv'
  BY <1>15, WriteInvKept DEF Prepare, PrepareEffect
<1>16. ASSUME NEW c \in Calls, Publish(c) PROVE WriteInv'
  <2>1. CASE UNCHANGED <<vaultVars, landed, trashed>>
    BY <1>16, <2>1, WriteInvKept DEF Publish
  <2>2. CASE PublishCreateEffect(c)
    <3>1. \A f \in Files : FileOf[spell'[f]] = f
      BY <2>2, TargetTypes DEF PublishCreateEffect, WriteInv, IdentityInv, Target, TypeOK
    <3>2. /\ pc[c] \in Checked /\ pc' = [pc EXCEPT ![c] = "cleanup"]
          /\ \A f \in Files : f # Target(c) => text'[f] = text[f]
          /\ landed' = landed \cup {c}
          /\ UNCHANGED <<req, ident, slot, trashed, dirty>>
      BY <1>16, <2>2 DEF Publish, PublishCreateEffect, WriteText, TypeOK
    <3> HIDE DEF PCs, InFlight, Waiting, Holding, BeforeRead
    <3>3. "cleanup" \in PCs
      BY DEF PCs, InFlight, Holding
    <3> QED BY <3>1, <3>2, <3>3, WriteInvLanding
  <2>3. CASE PublishReplaceEffect(c)
    <3>1. \A f \in Files : FileOf[spell'[f]] = f
      BY <2>3 DEF PublishReplaceEffect, WriteInv, IdentityInv
    <3>2. /\ pc[c] \in Checked /\ pc' = [pc EXCEPT ![c] = "cleanup"]
          /\ \A f \in Files : f # Target(c) => text'[f] = text[f]
          /\ landed' = landed \cup {c}
          /\ UNCHANGED <<req, ident, slot, trashed, dirty>>
      BY <1>16, <2>3 DEF Publish, PublishReplaceEffect, WriteText, TypeOK
    <3> HIDE DEF PCs, InFlight, Waiting, Holding, BeforeRead
    <3>3. "cleanup" \in PCs
      BY DEF PCs, InFlight, Holding
    <3> QED BY <3>1, <3>2, <3>3, WriteInvLanding
  <2> QED BY <1>16, <2>1, <2>2, <2>3 DEF Publish, PublishEffect
<1>17. ASSUME NEW c \in Calls, Cleanup(c) PROVE WriteInv'
  BY <1>17, WriteInvKept DEF Cleanup, CleanupEffect
<1>18. ASSUME NEW c \in Calls, TrashLink(c) PROVE WriteInv'
  <2>1. CASE UNCHANGED <<vaultVars, landed, trashed, slot>> /\ Reject(c)
    BY <1>18, <2>1, WriteInvKept DEF TrashLink
  <2>2. CASE /\ UNCHANGED <<vaultVars, landed, trashed>>
             /\ slot' = [slot EXCEPT ![c] = c] /\ Continue(c, "trash_guard")
    <3>1. \A d \in Calls : d # c => slot'[d] = slot[d]
      BY <2>2 DEF TypeOK
    <3> QED BY <1>18, <2>2, <3>1, WriteInvKept DEF TrashLink
  <2>3. CASE TrashLinkEffect(c) /\ Continue(c, "trash_unlink") /\ UNCHANGED slot
    BY <1>18, <2>3, WriteInvLink DEF TrashLink
  <2> QED BY <1>18, <2>1, <2>2, <2>3 DEF TrashLink
<1>19. ASSUME NEW c \in Calls, Remove(c) PROVE WriteInv'
  <2>1. CASE UNCHANGED <<vaultVars, landed, trashed>>
    BY <1>19, <2>1, WriteInvKept DEF Remove
  <2>2. CASE RemoveEffect(c)
    <3>1. \A f \in Files : FileOf[spell'[f]] = f
      BY <2>2 DEF RemoveEffect, WriteInv, IdentityInv
    <3>2. /\ pc[c] \in Checked /\ pc' = [pc EXCEPT ![c] = "log_end"]
          /\ \A f \in Files : f # Target(c) => text'[f] = text[f]
          /\ landed' = landed \cup {c}
          /\ UNCHANGED <<req, ident, slot, trashed, dirty>>
      BY <1>19, <2>2 DEF Remove, RemoveEffect, WriteText, TypeOK
    <3> HIDE DEF PCs, InFlight, Waiting, Holding, BeforeRead
    <3>3. "log_end" \in PCs
      BY DEF PCs, InFlight, Holding
    <3> QED BY <3>1, <3>2, <3>3, WriteInvLanding
  <2> QED BY <1>19, <2>1, <2>2 DEF Remove
<1>20. ASSUME NEW c \in Calls, LateStep(c) PROVE WriteInv'
  <2>1. /\ Target(c) \in Files /\ req[c].path \in Paths /\ slot[c] \in Paths
        /\ Trash(c) \in Files /\ UNCHANGED <<pc, req, ident, slot>>
    BY <1>20, TargetTypes DEF LateStep
  <2>2. CASE VaultEffect(c, late[c]) /\ dirty' = dirty \cup Overtaken
    <3>1. \A f \in Files : FileOf[spell'[f]] = f
      BY <2>1, <2>2 DEF VaultEffect, PrepareEffect, PublishEffect, PublishCreateEffect, Relocate,
         PublishReplaceEffect, CleanupEffect, TrashLinkEffect, RemoveEffect, WriteInv, IdentityInv,
         Target, Trash, TypeOK
    <3>2. landed \subseteq landed' /\ trashed \subseteq trashed'
      BY <2>2 DEF VaultEffect, PrepareEffect, PublishEffect, PublishCreateEffect, WriteText,
         PublishReplaceEffect, CleanupEffect, TrashLinkEffect, RemoveEffect, Relocate
    <3> QED BY <2>1, <2>2, <3>1, <3>2, WriteInvOutside
  <2>3. CASE UNCHANGED <<vaultVars, landed, trashed, dirty>>
    BY <2>1, <2>3, WriteInvOutside DEF WriteInv, IdentityInv
  <2> QED BY <1>20, <2>2, <2>3 DEF LateStep
<1>21. CASE Crash
  BY <1>21 DEF Crash, WriteInv, BranchInv, IdentityInv, BaseInv, TrashInv, TrashHolds, Trash,
     OneSpelling, Target, TypeOK
<1>22. ASSUME NEW f \in Files, ExternalEdit(f) PROVE WriteInv'
  <2>1. \A g \in Files : FileOf[spell'[g]] = g
    BY <1>22 DEF ExternalEdit, WriteInv, IdentityInv, TypeOK
  <2> QED BY <1>22, <2>1, WriteInvOutside DEF ExternalEdit
<1>23. CASE PolicyReload
  BY <1>23 DEF PolicyReload, WriteInv, BranchInv, IdentityInv, BaseInv, TrashInv, TrashHolds, Trash,
     OneSpelling, Target
<1>24. CASE UNCHANGED vars
  BY <1>24 DEF vars, WriteInv, BranchInv, IdentityInv, BaseInv, TrashInv, TrashHolds, Trash,
     OneSpelling, Target
<1> QED
  BY <1>1, <1>2, <1>3, <1>4, <1>5, <1>6, <1>7, <1>8, <1>9, <1>10, <1>11, <1>12, <1>13, <1>14,
     <1>15, <1>16, <1>17, <1>18, <1>19, <1>20, <1>21, <1>22, <1>23, <1>24
     DEF Next, Step

LEMMA WriteInvariant == Spec => []WriteInv
<1>1. Init => WriteInv
  BY DEF Init, WriteInv, BranchInv, IdentityInv, BaseInv, TrashInv, Checked
<1> QED BY <1>1, WriteInvStep, TypeCorrect, LockInvariant, PTL DEF Spec

\* On any file system, a call on a note that is spelled in one way finds, from the
\* hash check to the change, what its caller based the mutation on (apply): an update
\* is lost only where two spellings of one note are in use.
THEOREM OneSpellingLosesNothing == Spec => []BaseInv
<1>1. WriteInv => BaseInv
  BY DEF WriteInv
<1> QED BY <1>1, WriteInvariant, PTL

\* From the hash check to the change, the file holds what the caller based its
\* mutation on: the compare-and-set of apply is atomic against every other call
\* of this writer, for any number of calls, paths and environment events.
THEOREM NoLostUpdate ==
    ASSUME CaseSensitive
    PROVE  Spec => []BaseIsCurrent
<1>1. TypeOK /\ BaseInv => BaseIsCurrent
  BY EverySpellingSole DEF BaseInv, BaseIsCurrent
<1> QED BY <1>1, TypeCorrect, OneSpellingLosesNothing, PTL

\* Content is replaced or removed only by the call that named it as its base,
\* and a soft delete has it in the trash, unless another call was sent to the trash
\* name meanwhile (apply, move_to_trash, the create by hard link).
THEOREM OnlyNamedContentVanishes ==
    ASSUME CaseSensitive
    PROVE  Spec => NothingVanishes
<1>1. ASSUME TypeOK, WriteInv, [Next]_vars, NEW c \in Calls,
             c \in landed' \ landed, UNCHANGED late, c \notin dirty, Exists(c)
      PROVE  /\ req[c].op # "create" /\ text[Target(c)] = req[c].base
             /\ req[c].op = "delete" => TrashHolds(c)
  <2>1. Publish(c) \/ Remove(c)
    <3>1. ASSUME NEW d \in Calls, LateStep(d) PROVE FALSE
      BY <1>1, <3>1 DEF LateStep, TypeOK
    <3>2. ASSUME NEW d \in Calls, Start(d) \/ Cancel(d) \/ LogStart(d) \/ LogEnd(d) \/ Guard(d)
                 \/ Identify(d) \/ Lookup(d) \/ Acquire(d) \/ Recheck(d) \/ IdentifyError(d)
                 \/ Stat(d) \/ Read(d) \/ CheckExists(d) \/ ApplyError(d)
          PROVE  landed' = landed
      BY <3>2 DEF Start, Cancel, LogStart, LogEnd, Guard, Identify, Lookup, Acquire, Recheck,
         IdentifyError, Stat, Read, CheckExists, ApplyError, histVars
    <3>3. ASSUME NEW d \in Calls, Prepare(d) \/ Cleanup(d) \/ TrashLink(d)
          PROVE  landed' = landed
      BY <3>3 DEF Prepare, PrepareEffect, Cleanup, CleanupEffect, TrashLink, TrashLinkEffect,
         Relocate
    <3>4. ASSUME NEW d \in Calls, Publish(d) \/ Remove(d) PROVE c = d
      BY <1>1, <3>4 DEF Publish, PublishEffect, PublishCreateEffect, PublishReplaceEffect, Remove,
         RemoveEffect, WriteText
    <3>5. ASSUME Crash \/ PolicyReload \/ UNCHANGED vars
                 \/ (\E f \in Files : ExternalEdit(f))
          PROVE  landed' = landed
      BY <3>5 DEF Crash, PolicyReload, ExternalEdit, vars, histVars
    <3> QED BY <1>1, <3>1, <3>2, <3>3, <3>4, <3>5 DEF Next, Step
  <2>2. CASE Publish(c)
    <3>1. pc[c] = "publish" /\ req[c].op # "delete"
      BY <1>1, <2>2 DEF Publish, At, WriteInv, BranchInv
    <3>2. PublishEffect(c)
      BY <1>1, <2>2 DEF Publish
    <3>3. req[c].op # "create"
      BY <1>1, <3>2 DEF PublishEffect, PublishCreateEffect, PublishReplaceEffect
    <3> QED BY <1>1, <3>1, <3>3, EverySpellingSole DEF WriteInv, BaseInv, Checked
  <2>3. CASE Remove(c)
    <3>1. pc[c] \in {"trash_unlink", "unlink"}
      BY <2>3 DEF Remove
    <3>2. req[c].op \in {"delete", "hard_delete"}
          /\ (req[c].op = "delete" => pc[c] = "trash_unlink")
      BY <1>1, <3>1 DEF WriteInv, BranchInv
    <3> QED BY <1>1, <3>1, <3>2, EverySpellingSole DEF WriteInv, BaseInv, TrashInv, Checked
  <2> QED BY <2>1, <2>2, <2>3
<1>2. TypeOK /\ WriteInv /\ [Next]_vars =>
        [\A c \in Calls :
          /\ c \in landed' \ landed /\ UNCHANGED late /\ c \notin dirty /\ Exists(c)
          => /\ req[c].op # "create" /\ text[Target(c)] = req[c].base
             /\ req[c].op = "delete" => TrashHolds(c)]_vars
  BY <1>1
<1> QED BY <1>2, TypeCorrect, WriteInvariant, PTL DEF Spec, NothingVanishes, TrashHolds

(***************************************************************************)
(* The audit tables tell the truth, through cancellations, crashes and     *)
(* failing databases.                                                      *)
(***************************************************************************)
Unsettled == (InFlight \ {"cleanup", "log_end"}) \cup {"idle"}
Logged == Holding \ {"recheck", "log_start"}
Landing == {"publish", "trash_unlink", "unlink"}

AuditInv ==
    /\ \A c \in Calls :
          /\ pc[c] \in Unsettled => outcome[c] = "none" /\ c \notin landed
          /\ outcome[c] = "ok" => c \in landed
          /\ outcome[c] = "error" => c \notin landed
          /\ late[c] # "none" => pc[c] = "dead"
          /\ late[c] \in Landing => outcome[c] = "none" /\ c \in started \cup unlogged
          /\ pc[c] \in Logged => c \in started \cup unlogged
    /\ landed \subseteq started \cup unlogged
    /\ \A c \in Calls : /\ c \in provenance => outcome[c] = "ok"
                        /\ c \in failed => outcome[c] = "error"
    /\ succeeded \subseteq provenance \cap started
    /\ failed \subseteq started

\* A step of one call that changes neither the vault nor the terminal rows.
LEMMA AuditMove ==
    ASSUME TypeOK, AuditInv, NEW c \in Calls, NEW to \in PCs,
           pc[c] # "dead", pc' = [pc EXCEPT ![c] = to],
           \/ outcome' = outcome /\ (to \in Unsettled => pc[c] \in Unsettled)
           \/ /\ outcome' = [outcome EXCEPT ![c] = "error"]
              /\ pc[c] \in Unsettled /\ to \notin Unsettled,
           to \in Logged => pc[c] \in Logged \/ c \in started' \cup unlogged',
           started \subseteq started', unlogged \subseteq unlogged',
           UNCHANGED <<late, landed, succeeded, failed, provenance>>
    PROVE  AuditInv'
<1>1. late[c] = "none"
  BY DEF AuditInv
<1>2. \A d \in Calls : d # c => pc'[d] = pc[d] /\ outcome'[d] = outcome[d]
  BY DEF TypeOK
<1>3. pc'[c] = to /\ (outcome'[c] = outcome[c] \/ (outcome'[c] = "error" /\ pc[c] \in Unsettled))
  BY DEF TypeOK
<1>4. \A d \in Calls :
          /\ pc'[d] \in Unsettled => outcome'[d] = "none" /\ d \notin landed
          /\ outcome'[d] = "ok" => d \in landed
          /\ outcome'[d] = "error" => d \notin landed
          /\ late[d] # "none" => pc'[d] = "dead"
          /\ late[d] \in Landing => outcome'[d] = "none" /\ d \in started' \cup unlogged'
          /\ pc'[d] \in Logged => d \in started' \cup unlogged'
  BY <1>1, <1>2, <1>3 DEF AuditInv, Landing
<1>5. \A d \in Calls : /\ d \in provenance => outcome'[d] = "ok"
                       /\ d \in failed => outcome'[d] = "error"
  BY <1>2, <1>3 DEF AuditInv
<1> QED BY <1>4, <1>5 DEF AuditInv

\* The change a call was made for takes effect, now or after the call was dropped.
LEMMA AuditLanding ==
    ASSUME TypeOK, AuditInv, NEW c \in Calls,
           landed' = landed \cup {c}, c \in started \cup unlogged, outcome[c] = "none",
           \/ /\ \E to \in PCs \ (Unsettled \cup {"dead"}) : pc' = [pc EXCEPT ![c] = to]
              /\ pc[c] # "dead"
              /\ outcome' = [outcome EXCEPT ![c] = "ok"] /\ late' = late
           \/ pc' = pc /\ outcome' = outcome /\ pc[c] = "dead" /\ late' = [late EXCEPT ![c] = "none"],
           UNCHANGED auditVars
    PROVE  AuditInv'
<1> USE DEF auditVars
<1>1. \A d \in Calls : d # c => pc'[d] = pc[d] /\ outcome'[d] = outcome[d] /\ late'[d] = late[d]
  BY DEF TypeOK
<1>2. /\ pc'[c] \notin Unsettled /\ outcome'[c] # "error" /\ late'[c] = "none"
      /\ c \notin failed /\ c \notin provenance
  BY DEF AuditInv, TypeOK, Unsettled, InFlight, Waiting, Holding, BeforeRead, Checked
<1>3. \A d \in Calls :
          /\ pc'[d] \in Unsettled => outcome'[d] = "none" /\ d \notin landed'
          /\ outcome'[d] = "ok" => d \in landed'
          /\ outcome'[d] = "error" => d \notin landed'
          /\ late'[d] # "none" => pc'[d] = "dead"
          /\ late'[d] \in Landing => outcome'[d] = "none" /\ d \in started \cup unlogged
          /\ pc'[d] \in Logged => d \in started \cup unlogged
  BY <1>1, <1>2 DEF AuditInv, Landing
<1>4. \A d \in Calls : /\ d \in provenance => outcome'[d] = "ok"
                       /\ d \in failed => outcome'[d] = "error"
  BY <1>1, <1>2 DEF AuditInv
<1> QED BY <1>3, <1>4 DEF AuditInv

\* The terminal rows are written from the outcome of the call.
LEMMA AuditTerminal ==
    ASSUME TypeOK, AuditInv, NEW c \in Calls, LogEndEffect(c)
    PROVE  /\ \A d \in Calls : /\ d \in provenance' => outcome[d] = "ok"
                               /\ d \in failed' => outcome[d] = "error"
           /\ succeeded' \subseteq provenance' \cap started'
           /\ failed' \subseteq started'
           /\ UNCHANGED <<started, unlogged>>
BY DEF LogEndEffect, AuditInv

LEMMA AuditStep == TypeOK /\ AuditInv /\ [Next]_vars => AuditInv'
<1> SUFFICES ASSUME TypeOK, AuditInv, [Next]_vars PROVE AuditInv'
  OBVIOUS
<1> USE DEF PCs, InFlight, Waiting, Holding, BeforeRead, Checked, Go, Continue, Settle, At, Reject, Unsettled,
            Logged, callVars, lockVars, vaultVars, histVars, auditVars
<1>1. ASSUME NEW c \in Calls, Start(c) PROVE AuditInv'
  BY <1>1, AuditMove DEF Start
<1>2. ASSUME NEW c \in Calls, Identify(c) PROVE AuditInv'
  BY <1>2, AuditMove DEF Identify
<1>3. ASSUME NEW c \in Calls, Lookup(c) PROVE AuditInv'
  BY <1>3, AuditMove DEF Lookup
<1>4. ASSUME NEW c \in Calls, Acquire(c) PROVE AuditInv'
  BY <1>4, AuditMove DEF Acquire
<1>5. ASSUME NEW c \in Calls, Recheck(c) PROVE AuditInv'
  BY <1>5, AuditMove DEF Recheck
<1>6. ASSUME NEW c \in Calls, IdentifyError(c) PROVE AuditInv'
  BY <1>6, AuditMove DEF IdentifyError
<1>7. ASSUME NEW c \in Calls, LogStart(c) PROVE AuditInv'
  BY <1>7, AuditMove DEF LogStart, LogStartEffect
<1>8. ASSUME NEW c \in Calls, Guard(c) PROVE AuditInv'
  BY <1>8, AuditMove DEF Guard, GuardNext, Guarding
<1>9. ASSUME NEW c \in Calls, CheckExists(c) PROVE AuditInv'
  BY <1>9, AuditMove DEF CheckExists
<1>10. ASSUME NEW c \in Calls, Stat(c) PROVE AuditInv'
  BY <1>10, AuditMove DEF Stat
<1>11. ASSUME NEW c \in Calls, Read(c) PROVE AuditInv'
  BY <1>11, AuditMove DEF Read, ReadNext
<1>12. ASSUME NEW c \in Calls, Prepare(c) PROVE AuditInv'
  BY <1>12, AuditMove DEF Prepare, PrepareEffect
<1>13. ASSUME NEW c \in Calls, Cleanup(c) PROVE AuditInv'
  BY <1>13, AuditMove DEF Cleanup, CleanupEffect
<1>14. ASSUME NEW c \in Calls, TrashLink(c) PROVE AuditInv'
  BY <1>14, AuditMove DEF TrashLink, TrashLinkEffect, Relocate
<1>15. ASSUME NEW c \in Calls, ApplyError(c) PROVE AuditInv'
  <2>1. PICK to \in {"cleanup", "log_end"} : Settle(c, "error", to)
    BY <1>15 DEF ApplyError
  <2>2. pc[c] \in Unsettled \cap Logged /\ pc[c] # "dead" /\ UNCHANGED <<late, auditVars, landed>>
    BY <1>15 DEF ApplyError
  <2>3. to \in PCs \ Unsettled
    OBVIOUS
  <2> QED BY <2>1, <2>2, <2>3, AuditMove
<1>16. ASSUME NEW c \in Calls, Publish(c) PROVE AuditInv'
  <2>1. CASE UNCHANGED <<vaultVars, landed, trashed>> /\ Settle(c, "error", "cleanup")
    BY <1>16, <2>1, AuditMove DEF Publish
  <2>2. CASE PublishEffect(c) /\ Settle(c, "ok", "cleanup")
    <3>1. landed' = landed \cup {c}
      BY <2>2 DEF PublishEffect, PublishCreateEffect, PublishReplaceEffect, WriteText
    <3>2. pc[c] = "publish" /\ c \in started \cup unlogged /\ outcome[c] = "none"
      BY <1>16 DEF Publish, AuditInv
    <3>3. /\ pc' = [pc EXCEPT ![c] = "cleanup"] /\ outcome' = [outcome EXCEPT ![c] = "ok"]
          /\ late' = late /\ UNCHANGED auditVars
      BY <1>16, <2>2 DEF Publish, PublishEffect, PublishCreateEffect, PublishReplaceEffect, Exists
    <3> QED BY <3>1, <3>2, <3>3, AuditLanding
  <2> QED BY <1>16, <2>1, <2>2 DEF Publish
<1>17. ASSUME NEW c \in Calls, Remove(c) PROVE AuditInv'
  <2>1. CASE UNCHANGED <<vaultVars, landed, trashed>> /\ Reject(c)
    BY <1>17, <2>1, AuditMove DEF Remove
  <2>2. CASE RemoveEffect(c) /\ Settle(c, "ok", "log_end")
    <3>1. landed' = landed \cup {c}
      BY <2>2 DEF RemoveEffect, WriteText
    <3>2. pc[c] \in {"trash_unlink", "unlink"} /\ c \in started \cup unlogged /\ outcome[c] = "none"
      BY <1>17 DEF Remove, AuditInv
    <3>3. /\ pc' = [pc EXCEPT ![c] = "log_end"] /\ outcome' = [outcome EXCEPT ![c] = "ok"]
          /\ late' = late /\ UNCHANGED auditVars
      BY <1>17, <2>2 DEF Remove
    <3> QED BY <3>1, <3>2, <3>3, AuditLanding
  <2> QED BY <1>17, <2>1, <2>2 DEF Remove
<1>18. ASSUME NEW c \in Calls, LogEnd(c) PROVE AuditInv'
  <2>1. CASE UNCHANGED auditVars
    BY <1>18, <2>1, AuditMove DEF LogEnd
  <2>2. CASE LogEndEffect(c)
    BY <1>18, <2>2, AuditTerminal DEF LogEnd, AuditInv, TypeOK
  <2> QED BY <1>18, <2>1, <2>2 DEF LogEnd
<1>19. ASSUME NEW c \in Calls, Cancel(c) PROVE AuditInv'
  <2>1. /\ pc[c] \in InFlight /\ late[c] = "none"
        /\ pc' = [pc EXCEPT ![c] = "dead"] /\ UNCHANGED <<outcome, landed, auditVars>>
        /\ late' = late \/ late' = [late EXCEPT ![c] = pc[c]]
    BY <1>19 DEF Cancel, AuditInv
  <2>2. pc[c] \in Landing => outcome[c] = "none" /\ c \in started \cup unlogged
    BY DEF AuditInv, Landing
  <2> QED BY <2>1, <2>2 DEF AuditInv, Landing, TypeOK
<1>20. ASSUME NEW c \in Calls, LateStep(c) PROVE AuditInv'
  <2>1. /\ pc[c] = "dead" /\ late[c] # "none"
        /\ late' = [late EXCEPT ![c] = "none"] /\ UNCHANGED <<pc, outcome>>
    BY <1>20 DEF LateStep, AuditInv
  <2>2. CASE UNCHANGED <<landed, auditVars>>
    BY <2>1, <2>2 DEF AuditInv, TypeOK, Landing
  <2>3. CASE VaultEffect(c, late[c]) /\ UNCHANGED auditVars
    <3>1. CASE landed' = landed
      BY <2>2, <2>3, <3>1
    <3>2. CASE landed' = landed \cup {c} /\ late[c] \in Landing
      <4>1. c \in started \cup unlogged /\ outcome[c] = "none"
        BY <3>2 DEF AuditInv
      <4> QED BY <2>1, <2>3, <3>2, <4>1, AuditLanding
    <3> QED BY <2>3, <3>1, <3>2 DEF VaultEffect, PrepareEffect, PublishEffect, PublishCreateEffect,
               PublishReplaceEffect, CleanupEffect, TrashLinkEffect, Relocate, RemoveEffect,
               WriteText, Landing
  <2>4. CASE LogStartEffect(c) /\ UNCHANGED landed
    BY <2>1, <2>4 DEF LogStartEffect, AuditInv, TypeOK, Landing
  <2>5. CASE LogEndEffect(c) /\ UNCHANGED landed
    BY <2>1, <2>5, AuditTerminal DEF AuditInv, TypeOK, Landing
  <2> QED BY <1>20, <2>2, <2>3, <2>4, <2>5 DEF LateStep
<1>21. CASE Crash
  BY <1>21 DEF Crash, AuditInv, Landing, TypeOK
<1>22. ASSUME NEW f \in Files, ExternalEdit(f) PROVE AuditInv'
  BY <1>22 DEF ExternalEdit, AuditInv
<1>23. CASE PolicyReload
  BY <1>23 DEF PolicyReload, AuditInv
<1>24. CASE UNCHANGED vars
  BY <1>24 DEF vars, AuditInv
<1> QED
  BY <1>1, <1>2, <1>3, <1>4, <1>5, <1>6, <1>7, <1>8, <1>9, <1>10, <1>11, <1>12, <1>13, <1>14, <1>15,
     <1>16, <1>17, <1>18, <1>19, <1>20, <1>21, <1>22, <1>23, <1>24 DEF Next, Step

LEMMA AuditInvariant == Spec => []AuditInv
<1>1. Init => AuditInv
  BY DEF Init, AuditInv, Landing, Logged, Holding, BeforeRead, Checked
<1> QED BY <1>1, AuditStep, TypeCorrect, PTL DEF Spec

\* The audit tables claim nothing that did not happen (record_write_completed,
\* record_write_failed and the order in which mutate calls them).
THEOREM AuditNeverLies == Spec => []AuditTruthful
<1>1. AuditInv /\ TypeOK => AuditTruthful
  BY DEF AuditInv, AuditTruthful, TypeOK
<1> QED BY <1>1, AuditInvariant, TypeCorrect, PTL

\* No mutation is silent: it has provenance, or is listed as incomplete, or its
\* start row failed (record_write_started before apply, list_incomplete_writes).
THEOREM NothingUnaccounted == Spec => []NoSilentWrite
<1>1. AuditInv /\ TypeOK => NoSilentWrite
  BY DEF AuditInv, NoSilentWrite, Incomplete, TypeOK
<1> QED BY <1>1, AuditInvariant, TypeCorrect, PTL

(***************************************************************************)
(* The policy.  A call that has not passed its last guard is cleared if    *)
(* the policy permits its target now; passing that guard turns this into a *)
(* fact that later reloads cannot take back.                               *)
(***************************************************************************)
ClearedInv ==
    \A c \in Calls :
        /\ Permitted(Target(c)) => c \in cleared
        /\ pc[c] \in Changing => c \in cleared
        /\ late[c] # "none" => pc[c] = "dead"
        /\ late[c] \in Changing => c \in cleared

\* A step of one call, which passes its last guard only with the policy's permission.
LEMMA ClearedMove ==
    ASSUME TypeOK, ClearedInv, NEW c \in Calls, NEW to \in PCs, pc[c] # "dead",
           pc' = [pc EXCEPT ![c] = to],
           to \in Changing => pc[c] \in Changing \/ Permitted(Target(c)),
           cleared' = cleared \/ (cleared' = cleared \ {c} /\ to \notin Changing /\ ~Permitted(Target(c))),
           UNCHANGED <<req, late, blocked>>
    PROVE  ClearedInv'
BY DEF ClearedInv, TypeOK, Permitted, Target, Changing

LEMMA ClearedStep == TypeOK /\ ClearedInv /\ [Next]_vars => ClearedInv'
<1> SUFFICES ASSUME TypeOK, ClearedInv, [Next]_vars PROVE ClearedInv'
  OBVIOUS
<1> USE DEF PCs, InFlight, Waiting, Holding, BeforeRead, Checked, Changing, Go, Settle, At, Reject,
            Continue, callVars, lockVars, vaultVars, histVars
<1>1. ASSUME NEW c \in Calls, Start(c) PROVE ClearedInv'
  BY <1>1, ClearedMove DEF Start
<1>2. ASSUME NEW c \in Calls, Identify(c) PROVE ClearedInv'
  BY <1>2, ClearedMove DEF Identify
<1>3. ASSUME NEW c \in Calls, Lookup(c) PROVE ClearedInv'
  BY <1>3, ClearedMove DEF Lookup
<1>4. ASSUME NEW c \in Calls, Acquire(c) PROVE ClearedInv'
  BY <1>4, ClearedMove DEF Acquire
<1>5. ASSUME NEW c \in Calls, Recheck(c) PROVE ClearedInv'
  BY <1>5, ClearedMove DEF Recheck
<1>6. ASSUME NEW c \in Calls, IdentifyError(c) PROVE ClearedInv'
  BY <1>6, ClearedMove DEF IdentifyError
<1>7. ASSUME NEW c \in Calls, LogStart(c) PROVE ClearedInv'
  BY <1>7, ClearedMove DEF LogStart
<1>8. ASSUME NEW c \in Calls, Guard(c) PROVE ClearedInv'
  <2>1. CASE Permitted(Guarded(c)) /\ Continue(c, GuardNext(c))
    BY <1>8, <2>1, ClearedMove DEF Guard, GuardNext, Guarding, Guarded
  <2>2. CASE Reject(c)
    BY <1>8, <2>2, ClearedMove DEF Guard, Guarding
  <2> QED BY <1>8, <2>1, <2>2 DEF Guard
<1>9. ASSUME NEW c \in Calls, CheckExists(c) PROVE ClearedInv'
  BY <1>9, ClearedMove DEF CheckExists
<1>10. ASSUME NEW c \in Calls, Stat(c) PROVE ClearedInv'
  BY <1>10, ClearedMove DEF Stat
<1>11. ASSUME NEW c \in Calls, Read(c) PROVE ClearedInv'
  BY <1>11, ClearedMove DEF Read, ReadNext
<1>12. ASSUME NEW c \in Calls, Prepare(c) PROVE ClearedInv'
  BY <1>12, ClearedMove DEF Prepare
<1>13. ASSUME NEW c \in Calls, Publish(c) PROVE ClearedInv'
  BY <1>13, ClearedMove DEF Publish
<1>14. ASSUME NEW c \in Calls, Cleanup(c) PROVE ClearedInv'
  BY <1>14, ClearedMove DEF Cleanup
<1>15. ASSUME NEW c \in Calls, TrashLink(c) PROVE ClearedInv'
  <2>1. CASE /\ Continue(c, "trash_guard")
             /\ cleared' = IF Permitted(Target(c)) THEN cleared ELSE cleared \ {c}
    BY <1>15, <2>1, ClearedMove DEF TrashLink
  <2>2. CASE (Continue(c, "trash_unlink") \/ Reject(c)) /\ UNCHANGED cleared
    BY <1>15, <2>2, ClearedMove DEF TrashLink
  <2> QED BY <1>15, <2>1, <2>2 DEF TrashLink
<1>16. ASSUME NEW c \in Calls, Remove(c) PROVE ClearedInv'
  BY <1>16, ClearedMove DEF Remove
<1>17. ASSUME NEW c \in Calls, ApplyError(c) PROVE ClearedInv'
  BY <1>17, ClearedMove DEF ApplyError
<1>18. ASSUME NEW c \in Calls, LogEnd(c) PROVE ClearedInv'
  BY <1>18, ClearedMove DEF LogEnd
<1>19. ASSUME NEW c \in Calls, Cancel(c) PROVE ClearedInv'
  BY <1>19 DEF Cancel, ClearedInv, TypeOK, Permitted, Target
<1>20. ASSUME NEW c \in Calls, LateStep(c) PROVE ClearedInv'
  BY <1>20 DEF LateStep, ClearedInv, TypeOK, Permitted, Target
<1>21. CASE Crash
  BY <1>21 DEF Crash, ClearedInv, TypeOK, Permitted, Target
<1>22. ASSUME NEW f \in Files, ExternalEdit(f) PROVE ClearedInv'
  BY <1>22 DEF ExternalEdit, ClearedInv, Permitted, Target
<1>23. CASE PolicyReload
  BY <1>23 DEF PolicyReload, ClearedInv, Permitted, Target
<1>24. CASE UNCHANGED vars
  BY <1>24 DEF vars, ClearedInv, Permitted, Target
<1> QED
  BY <1>1, <1>2, <1>3, <1>4, <1>5, <1>6, <1>7, <1>8, <1>9, <1>10, <1>11, <1>12, <1>13, <1>14, <1>15,
     <1>16, <1>17, <1>18, <1>19, <1>20, <1>21, <1>22, <1>23, <1>24 DEF Next, Step

\* Which call a step lets take effect, and where that call is.
LEMMA WhoLands ==
    ASSUME TypeOK, [Next]_vars, NEW c \in Calls, c \in landed' \ landed
    PROVE  /\ (pc[c] = "publish" /\ Publish(c)) \/ (pc[c] \in {"trash_unlink", "unlink"} /\ Remove(c))
              \/ (late[c] \in Landing /\ LateStep(c))
<1> USE DEF vaultVars, histVars, callVars
<1>1. ASSUME NEW d \in Calls, Start(d) \/ Cancel(d) \/ LogStart(d) \/ LogEnd(d) \/ Guard(d)
             \/ Identify(d) \/ Lookup(d) \/ Acquire(d) \/ Recheck(d) \/ IdentifyError(d)
             \/ Stat(d) \/ Read(d) \/ CheckExists(d) \/ ApplyError(d)
      PROVE  landed' = landed
  BY <1>1 DEF Start, Cancel, LogStart, LogEnd, Guard, Identify, Lookup, Acquire, Recheck,
     IdentifyError, Stat, Read, CheckExists, ApplyError
<1>2. ASSUME NEW d \in Calls, Prepare(d) \/ Cleanup(d) \/ TrashLink(d)
      PROVE  landed' = landed
  BY <1>2 DEF Prepare, PrepareEffect, Cleanup, CleanupEffect, TrashLink, TrashLinkEffect, Relocate
<1>3. ASSUME NEW d \in Calls, Publish(d) PROVE c = d /\ pc[d] = "publish"
  BY <1>3 DEF Publish, PublishEffect, PublishCreateEffect, PublishReplaceEffect, WriteText, At
<1>4. ASSUME NEW d \in Calls, Remove(d) PROVE c = d /\ pc[d] \in {"trash_unlink", "unlink"}
  BY <1>4 DEF Remove, RemoveEffect, WriteText
<1>5. ASSUME NEW d \in Calls, LateStep(d) PROVE c = d /\ late[d] \in Landing
  BY <1>5 DEF LateStep, VaultEffect, PrepareEffect, PublishEffect, PublishCreateEffect, Landing,
     PublishReplaceEffect, CleanupEffect, TrashLinkEffect, Relocate, RemoveEffect, WriteText
<1>6. ASSUME Crash \/ PolicyReload \/ UNCHANGED vars
             \/ (\E f \in Files : ExternalEdit(f))
      PROVE  landed' = landed
  BY <1>6 DEF Crash, PolicyReload, ExternalEdit, vars
<1> QED BY <1>1, <1>2, <1>3, <1>4, <1>5, <1>6 DEF Next, Step

LEMMA ClearedInvariant == Spec => []ClearedInv
<1>1. Init => ClearedInv
  BY DEF Init, ClearedInv, Changing
<1> QED BY <1>1, ClearedStep, TypeCorrect, PTL DEF Spec

\* A policy reload that blocks a path stops every call on it that has not passed the
\* last guard in front of its rename, link or unlink: what lands, awaited or late, was
\* permitted by the last policy that came into force before that guard (guard,
\* atomic_write, move_to_trash).
THEOREM ReloadStopsWrites == Spec => PolicySealed
<1>1. TypeOK /\ ClearedInv /\ [Next]_vars => [landed' \ landed \subseteq cleared]_vars
  <2> SUFFICES ASSUME TypeOK, ClearedInv, [Next]_vars, NEW c \in landed' \ landed PROVE c \in cleared
    OBVIOUS
  <2>1. c \in Calls
    BY TypeStep DEF TypeOK
  <2> QED BY <2>1, WhoLands DEF ClearedInv, Changing, Landing
<1> QED BY <1>1, TypeCorrect, ClearedInvariant, PTL DEF Spec, PolicySealed

(***************************************************************************)
(* Dropped calls.  One whose change is still on the way has not made it,   *)
(* and what is on the way fits its operation.                              *)
(***************************************************************************)
LateInv ==
    \A c \in Calls :
        /\ late[c] \in Changing => outcome[c] = "none" /\ c \notin landed
        /\ late[c] = "publish" => req[c].op \notin {"delete", "hard_delete"}
        /\ late[c] \in {"trash_link", "trash_unlink"} => req[c].op = "delete"
        /\ late[c] = "trash_unlink" => c \in trashed
        /\ late[c] = "unlink" => req[c].op = "hard_delete"

\* A step of one call that is still awaited.
LEMMA LateMove ==
    ASSUME TypeOK, AuditInv, LateInv, NEW c \in Calls, pc[c] # "dead",
           outcome' = outcome \/ (\E r \in {"ok", "error"} : outcome' = [outcome EXCEPT ![c] = r]),
           landed' \subseteq landed \cup {c}, trashed \subseteq trashed', UNCHANGED <<req, late>>
    PROVE  LateInv'
<1>1. late[c] = "none"
  BY DEF AuditInv
<1>2. \A d \in Calls : d # c => outcome'[d] = outcome[d] /\ (d \in landed' => d \in landed)
  BY DEF TypeOK
<1> QED BY <1>1, <1>2 DEF LateInv, Changing

LEMMA LateInvStep == TypeOK /\ WriteInv /\ AuditInv /\ LateInv /\ [Next]_vars => LateInv'
<1> SUFFICES ASSUME TypeOK, WriteInv, AuditInv, LateInv, [Next]_vars PROVE LateInv'
  OBVIOUS
<1> USE DEF callVars, lockVars, vaultVars, histVars, Settle, Reject, At
<1>1. ASSUME NEW c \in Calls,
             Start(c) \/ Identify(c) \/ Lookup(c) \/ Acquire(c) \/ Recheck(c) \/ IdentifyError(c)
             \/ LogStart(c) \/ Guard(c) \/ CheckExists(c) \/ Stat(c) \/ Read(c) \/ ApplyError(c)
             \/ LogEnd(c)
      PROVE  LateInv'
  <2>1. /\ pc[c] # "dead" /\ UNCHANGED <<req, late, landed, trashed>>
        /\ outcome' = outcome \/ outcome' = [outcome EXCEPT ![c] = "error"]
    BY <1>1 DEF Start, Identify, Lookup, Acquire, Recheck, IdentifyError, LogStart, Guard,
       CheckExists, Stat, Read, ApplyError, LogEnd, Continue, Guarding, BeforeRead, Checked
  <2> QED BY <2>1, LateMove
<1>2. ASSUME NEW c \in Calls, Prepare(c) \/ Cleanup(c) \/ TrashLink(c) PROVE LateInv'
  <2>1. /\ pc[c] # "dead" /\ UNCHANGED <<req, late, landed>> /\ trashed \subseteq trashed'
        /\ outcome' = outcome \/ outcome' = [outcome EXCEPT ![c] = "error"]
    BY <1>2 DEF Prepare, PrepareEffect, Cleanup, CleanupEffect, TrashLink, TrashLinkEffect, Relocate,
       Continue
  <2> QED BY <2>1, LateMove
<1>3. ASSUME NEW c \in Calls, Publish(c) \/ Remove(c) PROVE LateInv'
  <2>1. /\ pc[c] # "dead" /\ UNCHANGED <<req, late, trashed>> /\ landed' \subseteq landed \cup {c}
        /\ \E r \in {"ok", "error"} : outcome' = [outcome EXCEPT ![c] = r]
    BY <1>3 DEF Publish, PublishEffect, PublishCreateEffect, PublishReplaceEffect, Remove,
       RemoveEffect, WriteText
  <2> QED BY <2>1, LateMove
<1>4. ASSUME NEW c \in Calls, Cancel(c) PROVE LateInv'
  <2>1. /\ UNCHANGED <<req, outcome, landed, trashed>>
        /\ late' = late \/ late' = [late EXCEPT ![c] = pc[c]]
    BY <1>4 DEF Cancel
  <2>2. pc[c] \in Changing => outcome[c] = "none" /\ c \notin landed
    BY DEF AuditInv, Unsettled, InFlight, Holding, Checked, Changing
  <2> QED BY <2>1, <2>2 DEF LateInv, WriteInv, BranchInv, TypeOK
<1>5. ASSUME NEW c \in Calls, LateStep(c) PROVE LateInv'
  <2>1. late' = [late EXCEPT ![c] = "none"] /\ UNCHANGED <<req, outcome>>
    BY <1>5 DEF LateStep
  <2>2. landed' \subseteq landed \cup {c} /\ trashed \subseteq trashed'
    BY <1>5 DEF LateStep, VaultEffect, PrepareEffect, PublishEffect, PublishCreateEffect,
       PublishReplaceEffect, CleanupEffect, TrashLinkEffect, Relocate, RemoveEffect, WriteText
  <2> QED BY <2>1, <2>2 DEF LateInv, TypeOK, Changing
<1>6. CASE Crash
  BY <1>6 DEF Crash, LateInv, Changing
<1>7. CASE PolicyReload \/ (\E f \in Files : ExternalEdit(f)) \/ UNCHANGED vars
  BY <1>7 DEF PolicyReload, ExternalEdit, vars, LateInv
<1> QED BY <1>1, <1>2, <1>3, <1>4, <1>5, <1>6, <1>7 DEF Next, Step

LEMMA LateInvariant == Spec => []LateInv
<1>1. Init => LateInv
  BY DEF Init, LateInv, Changing
<1> QED BY <1>1, LateInvStep, TypeCorrect, WriteInvariant, AuditInvariant, PTL DEF Spec

(***************************************************************************)
(* The trash                                                               *)
(***************************************************************************)

\* What the effects of one call replace or remove is the entry the call was sent to.
LEMMA OwnEntryOnly ==
    ASSUME TypeOK, NEW c \in Calls, NEW step, VaultEffect(c, step),
           NEW f \in Files, text[f] \notin {Absent, text'[f]}
    PROVE  f = Target(c) /\ landed' = landed \cup {c} /\ step \in Landing
<1>1. CASE PrepareEffect(c) \/ CleanupEffect(c)
  BY <1>1 DEF PrepareEffect, CleanupEffect
<1>2. CASE step = "publish" /\ PublishEffect(c)
  BY <1>2 DEF PublishEffect, PublishCreateEffect, PublishReplaceEffect, WriteText, Landing, TypeOK
<1>3. CASE TrashLinkEffect(c)
  BY <1>3 DEF TrashLinkEffect, Relocate, TypeOK
<1>4. CASE step \in {"trash_unlink", "unlink"} /\ RemoveEffect(c)
  BY <1>4 DEF RemoveEffect, WriteText, Landing, TypeOK
<1> QED BY <1>1, <1>2, <1>3, <1>4 DEF VaultEffect

\* Only a call that was sent to an entry replaces or removes what the entry holds: a move
\* to the trash never does, taken over by another move, still awaited or left behind by a
\* dropped call, although it takes no lock for its destination (the exclusive hard link
\* of move_to_trash).
THEOREM MovesNeverReplace == Spec => MovesReplaceNothing
<1> DEFINE Sent(f) == \E c \in landed' \ landed : Target(c) = f
           Own == \A f \in Files :
                     text[f] \notin {Absent, text'[f]} /\ <<pc, late>>' # <<pc, late>> => Sent(f)
<1>1. ASSUME TypeOK, AuditInv, LateInv, [Next]_vars PROVE Own
  <2> SUFFICES ASSUME NEW f \in Files, text[f] \notin {Absent, text'[f]},
                      <<pc, late>>' # <<pc, late>>
               PROVE  Sent(f)
    OBVIOUS
  <2> USE DEF callVars, vaultVars
  <2>1. ASSUME NEW c \in Calls, NEW step, VaultEffect(c, step), pc[c] = step \/ late[c] = step
        PROVE  Sent(f)
    <3>1. f = Target(c) /\ landed' = landed \cup {c} /\ step \in Landing
      BY <1>1, <2>1, OwnEntryOnly
    <3>2. c \notin landed
      BY <1>1, <2>1, <3>1 DEF AuditInv, LateInv, Landing, Changing, Unsettled, InFlight, Holding, Checked
    <3> QED BY <3>1, <3>2
  <2>2. ASSUME NEW c \in Calls, Publish(c) \/ TrashLink(c) \/ Remove(c)
        PROVE  Sent(f)
    <3>1. VaultEffect(c, pc[c])
      BY <2>2 DEF Publish, TrashLink, Remove, VaultEffect, At
    <3> QED BY <2>1, <3>1
  <2>3. ASSUME NEW c \in Calls, LateStep(c) PROVE Sent(f)
    <3>1. VaultEffect(c, late[c])
      BY <2>3 DEF LateStep
    <3> QED BY <2>1, <3>1
  <2>4. ASSUME NEW c \in Calls,
               Start(c) \/ Identify(c) \/ Lookup(c) \/ Acquire(c) \/ Recheck(c) \/ IdentifyError(c)
               \/ LogStart(c) \/ Guard(c) \/ CheckExists(c) \/ Stat(c) \/ Read(c) \/ ApplyError(c)
               \/ LogEnd(c) \/ Cancel(c) \/ Prepare(c) \/ Cleanup(c)
        PROVE  text' = text
    BY <2>4 DEF Start, Identify, Lookup, Acquire, Recheck, IdentifyError, LogStart, Guard,
       CheckExists, Stat, Read, ApplyError, LogEnd, Cancel, Prepare, PrepareEffect, Cleanup,
       CleanupEffect
  <2>5. ASSUME Crash \/ PolicyReload \/ UNCHANGED vars PROVE text' = text
    BY <2>5 DEF Crash, PolicyReload, vars
  <2>6. ASSUME NEW g \in Files, ExternalEdit(g) PROVE UNCHANGED <<pc, late>>
    BY <2>6 DEF ExternalEdit
  <2> QED BY <1>1, <2>2, <2>3, <2>4, <2>5, <2>6 DEF Next, Step
<1>2. TypeOK /\ AuditInv /\ LateInv /\ [Next]_vars => [Own]_vars
  BY <1>1
<1> QED
  BY <1>2, TypeCorrect, AuditInvariant, LateInvariant, PTL DEF Spec, MovesReplaceNothing

(***************************************************************************)
(* The refinement.  Every step of the writer is a step of the atomic vault *)
(* or changes nothing that vault knows of, whatever the environment does.  *)
(* A dropped call whose change is still on the way is the abandoned call   *)
(* of the atomic vault: it is unanswered, it has not changed anything, and *)
(* what is on the way fits its operation.                                  *)
(***************************************************************************)
Abandoned == {c \in Calls : late[c] \in Changing}

RefineInv ==
    /\ TypeOK /\ WriteInv /\ AuditInv /\ LateInv
    /\ \A c \in Calls : OneSpelling(c)

\* A call that awaits its change, or was dropped there, is undecided, and what it
\* accepted still holds unless it was overtaken.
LEMMA Undecided ==
    ASSUME RefineInv, NEW c \in Calls, NEW at \in Changing, pc[c] = at \/ late[c] = at
    PROVE  /\ outcome[c] = "none" /\ c \notin landed
           /\ pc[c] = at => c \notin Abandoned
           /\ late[c] = at => c \in Abandoned
           /\ at = "publish" => req[c].op \notin {"delete", "hard_delete"}
           /\ at \in {"trash_link", "trash_unlink"} => req[c].op = "delete"
           /\ at = "unlink" => req[c].op = "hard_delete"
           /\ req[c].op # "create" => text[Target(c)] = req[c].base \/ c \in dirty \cup Abandoned
           /\ at = "trash_unlink" => c \in trashed
<1> USE DEF Changing
<1>1. CASE pc[c] = at
  <2>1. pc[c] \in Unsettled /\ pc[c] \in Checked
    BY <1>1 DEF Unsettled, InFlight, Holding, Checked
  <2>2. c \notin Abandoned /\ outcome[c] = "none" /\ c \notin landed
    BY <1>1, <2>1 DEF RefineInv, AuditInv, Abandoned
  <2>3. late[c] # at
    BY <2>2 DEF Abandoned
  <2> QED
    BY <1>1, <2>1, <2>2, <2>3 DEF RefineInv, WriteInv, BranchInv, BaseInv
<1>2. CASE late[c] = at
  <2>1. c \in Abandoned /\ pc[c] = "dead"
    BY <1>2 DEF Abandoned, RefineInv, AuditInv
  <2> QED BY <1>2, <2>1 DEF RefineInv, LateInv
<1> QED BY <1>1, <1>2

LEMMA AbstractNames ==
    ASSUME TypeOK, NEW c \in Calls
    PROVE  /\ Atomic!Entry(c) = Target(c) /\ req[c].op \in Ops
           /\ req[c].base \in Contents /\ req[c].text \in Contents /\ req[c].base # Absent
           /\ Trash(c) \in Files
BY TargetTypes, ContentTypes, ConstantsAssumption DEF TypeOK, Atomic!Entry, Target

\* How a change is made: by the call that awaits it, or for a call that was dropped.
Awaited(c, at) == pc[c] = at /\ outcome' = [outcome EXCEPT ![c] = "ok"] /\ UNCHANGED <<dirty, late>>
Dropped(c, at) ==
    /\ late[c] = at /\ late' = [late EXCEPT ![c] = "none"]
    /\ dirty \subseteq dirty' /\ UNCHANGED outcome

LEMMA LateEnds ==
    ASSUME TypeOK, NEW c \in Calls, late' = [late EXCEPT ![c] = "none"]
    PROVE  Abandoned' = Abandoned \ {c}
BY DEF Abandoned, Changing, TypeOK

LEMMA LandStep ==
    ASSUME RefineInv, NEW c \in Calls, NEW at \in Changing, NEW x, WriteText(c, x),
           Awaited(c, at) \/ Dropped(c, at), UNCHANGED <<req, trashed>>
    PROVE  Atomic!Land(c, x)
<1>1. /\ outcome[c] = "none" /\ c \notin landed
      /\ pc[c] = at => c \notin Abandoned
      /\ late[c] = at => c \in Abandoned
  BY Undecided DEF Awaited, Dropped
<1>2. Atomic!Entry(c) = Target(c)
  BY AbstractNames DEF RefineInv
<1>3. CASE Awaited(c, at)
  <2>1. Abandoned' = Abandoned
    BY <1>3 DEF Awaited, Abandoned
  <2> QED
    BY <1>1, <1>2, <1>3, <2>1 DEF Awaited, WriteText, Atomic!Land, Abandoned
<1>4. CASE Dropped(c, at)
  <2>1. Abandoned' = Abandoned \ {c}
    BY <1>4, LateEnds DEF Dropped, RefineInv
  <2> QED
    BY <1>1, <1>2, <1>4, <2>1 DEF Dropped, WriteText, Atomic!Land, Abandoned
<1> QED BY <1>3, <1>4

\* Each operation publishes what the atomic vault says it writes.
LEMMA MergedText ==
    ASSUME TypeOK, NEW c \in Calls, req[c].op \in {"replace", "frontmatter", "marker"}
    PROVE  NextText(req[c]) = Atomic!Result(req[c])
<1>1. req[c].base \in Contents /\ req[c].text \in Contents
  BY AbstractNames
<1>2. CASE req[c].op = "replace"
  BY <1>1, <1>2 DEF NextText, Atomic!Result, Contents
<1>3. CASE req[c].op = "frontmatter"
  BY <1>1, <1>3 DEF NextText, Atomic!Result, Contents
<1>4. CASE req[c].op = "marker"
  BY <1>1, <1>4 DEF NextText, Atomic!Result, Contents
<1> QED BY <1>2, <1>3, <1>4

LEMMA PublishStep ==
    ASSUME RefineInv, NEW c \in Calls, PublishEffect(c), req' = req,
           Awaited(c, "publish") \/ Dropped(c, "publish")
    PROVE  Atomic!Next
<1>1. /\ req[c].op \notin {"delete", "hard_delete"}
      /\ req[c].op # "create" => text[Target(c)] = req[c].base \/ c \in dirty \cup Abandoned
  BY Undecided DEF Awaited, Dropped, Changing
<1>2. Atomic!Entry(c) = Target(c) /\ req[c].op \in Ops
  BY AbstractNames DEF RefineInv
<1>3. CASE PublishCreateEffect(c)
  <2>1. Atomic!Land(c, req[c].text)
    <3>1. PICK x \in Contents : x = req[c].text
      BY AbstractNames DEF RefineInv
    <3>2. "publish" \in Changing /\ WriteText(c, x) /\ trashed' = trashed
      BY <1>3, <3>1 DEF PublishCreateEffect, WriteText, Changing
    <3>3. Atomic!Land(c, x)
      BY <3>2, LandStep
    <3> QED BY <3>1, <3>3 DEF Atomic!Land
  <2>2. Atomic!Create(c)
    BY <1>2, <1>3, <2>1 DEF PublishCreateEffect, Exists, Atomic!Create
  <2> QED BY <2>2 DEF Atomic!Next
<1>4. CASE PublishReplaceEffect(c)
  <2>1. req[c].op \in {"replace", "frontmatter", "marker"}
    BY <1>1, <1>2, <1>4 DEF PublishReplaceEffect, Ops
  <2>2. NextText(req[c]) = Atomic!Result(req[c]) /\ NextText(req[c]) \in Contents
    BY <2>1, MergedText, ContentTypes DEF RefineInv, TypeOK
  <2>3. Atomic!Land(c, Atomic!Result(req[c]))
    <3>1. PICK x \in Contents : x = NextText(req[c])
      BY <2>2
    <3>2. "publish" \in Changing /\ WriteText(c, x) /\ trashed' = trashed
      BY <1>4, <3>1 DEF PublishReplaceEffect, WriteText, Changing
    <3>3. Atomic!Land(c, x)
      BY <3>2, LandStep
    <3> QED BY <2>2, <3>1, <3>3 DEF Atomic!Land
  <2>4. Atomic!BaseCurrent(c)
    BY <1>1, <1>2, <2>1 DEF Atomic!BaseCurrent, Abandoned
  <2>5. Atomic!Update(c)
    BY <2>1, <2>3, <2>4 DEF Atomic!Update
  <2> QED BY <2>5 DEF Atomic!Next
<1> QED BY <1>3, <1>4 DEF PublishEffect

LEMMA TrashStep ==
    ASSUME RefineInv, NEW c \in Calls, TrashLinkEffect(c), UNCHANGED <<req, outcome>>,
           \/ pc[c] = "trash_link" /\ UNCHANGED <<dirty, late>>
           \/ /\ late[c] = "trash_link" /\ late' = [late EXCEPT ![c] = "none"]
              /\ dirty \subseteq dirty'
    PROVE  Atomic!Next
<1>1. /\ outcome[c] = "none" /\ c \notin landed /\ req[c].op = "delete"
      /\ pc[c] = "trash_link" => c \notin Abandoned
      /\ late[c] = "trash_link" => c \in Abandoned
      /\ text[Target(c)] = req[c].base \/ c \in dirty \cup Abandoned
  BY Undecided DEF Changing
<1>2. Atomic!Entry(c) = Target(c) /\ Trash(c) \in Files
  BY AbstractNames DEF RefineInv
<1>3. \E f \in Files :
          text[f] = Absent /\ text' = [text EXCEPT ![f] = text[Atomic!Entry(c)]]
  BY <1>2 DEF TrashLinkEffect, Relocate
<1>4. \/ c \notin Abandoned /\ UNCHANGED dirty /\ Abandoned' = Abandoned
      \/ c \in Abandoned /\ dirty \subseteq dirty' /\ Abandoned' = Abandoned \ {c}
  BY <1>1, LateEnds DEF RefineInv, Abandoned
<1>5. Atomic!BaseCurrent(c)
  BY <1>1, <1>2 DEF Atomic!BaseCurrent, Abandoned
<1>6. trashed' = trashed \cup {c} /\ landed' = landed /\ text[Target(c)] # Absent
  BY DEF TrashLinkEffect, Relocate, Exists
<1>7. Atomic!Keep(c)
  BY <1>1, <1>2, <1>3, <1>4, <1>5, <1>6 DEF Atomic!Keep, Abandoned
<1> QED BY <1>7 DEF Atomic!Next

LEMMA RemoveStep ==
    ASSUME RefineInv, NEW c \in Calls, NEW at \in {"trash_unlink", "unlink"}, RemoveEffect(c),
           req' = req, Awaited(c, at) \/ Dropped(c, at)
    PROVE  Atomic!Next
<1>1. /\ req[c].op \in {"delete", "hard_delete"}
      /\ req[c].op = "delete" => at = "trash_unlink"
      /\ text[Target(c)] = req[c].base \/ c \in dirty \cup Abandoned
      /\ at = "trash_unlink" => c \in trashed
  BY Undecided DEF Awaited, Dropped, Changing
<1>2. Atomic!Entry(c) = Target(c)
  BY AbstractNames DEF RefineInv
<1>3. Atomic!Land(c, Absent)
  BY LandStep DEF RemoveEffect, Changing
<1>4. Atomic!BaseCurrent(c)
  BY <1>1, <1>2 DEF Atomic!BaseCurrent, Abandoned
<1>5. Atomic!Delete(c)
  BY <1>1, <1>2, <1>3, <1>4 DEF RemoveEffect, Exists, Atomic!Delete
<1> QED BY <1>5 DEF Atomic!Next

\* A step that settles a call that has not taken effect.
LEMMA RefuseStep ==
    ASSUME RefineInv, NEW c \in Calls, pc[c] \in Unsettled,
           outcome' = [outcome EXCEPT ![c] = "error"],
           UNCHANGED <<req, text, trashed, landed, dirty, late>>
    PROVE  Atomic!Next
<1>1. outcome[c] = "none" /\ c \notin landed
  BY DEF RefineInv, AuditInv
<1>2. pc[c] # "dead"
  BY DEF Unsettled, InFlight, Waiting, Holding, BeforeRead, Checked
<1>3. c \notin Abandoned /\ Abandoned' = Abandoned
  BY <1>2 DEF RefineInv, AuditInv, Abandoned, Changing
<1>4. Atomic!Refuse(c)
  BY <1>1, <1>3 DEF Atomic!Refuse, Abandoned
<1> QED BY <1>4 DEF Atomic!Next

Same == UNCHANGED <<req, outcome, text, trashed, landed, dirty>> /\ Abandoned' = Abandoned

\* What is on the way for a dropped call happens, fails, or concerns only the audit.
LEMMA LateStepMaps ==
    ASSUME RefineInv, NEW c \in Calls, LateStep(c)
    PROVE  Atomic!Next \/ Same
<1> USE DEF vaultVars
<1>1. late' = [late EXCEPT ![c] = "none"] /\ UNCHANGED <<req, outcome>>
  BY DEF LateStep, lockVars
<1>2. Abandoned' = Abandoned \ {c}
  BY <1>1, LateEnds DEF RefineInv
<1>3. CASE UNCHANGED <<vaultVars, landed, trashed, dirty>>
  <2>1. Atomic!Forget
    BY <1>1, <1>2, <1>3 DEF Atomic!Forget, Abandoned
  <2> QED BY <2>1 DEF Atomic!Next
<1>4. CASE VaultEffect(c, late[c]) /\ dirty' = dirty \cup Overtaken
  <2>1. CASE late[c] \in {"prepare", "cleanup"}
    <3>1. UNCHANGED <<text, trashed, landed>> /\ dirty' = dirty
      BY <1>4, <2>1 DEF VaultEffect, PrepareEffect, CleanupEffect, Overtaken
    <3>2. Abandoned' = Abandoned
      BY <1>2, <2>1 DEF Abandoned, Changing
    <3> QED BY <1>1, <1>4, <3>1, <3>2 DEF Same
  <2>2. CASE late[c] = "publish"
    BY <1>1, <1>4, <2>2, PublishStep DEF VaultEffect, Dropped
  <2>3. CASE late[c] = "trash_link"
    <3>1. TrashLinkEffect(c) /\ dirty \subseteq dirty'
      BY <1>4, <2>3 DEF VaultEffect
    <3> QED BY <1>1, <2>3, <3>1, TrashStep
  <2>4. CASE late[c] \in {"trash_unlink", "unlink"}
    BY <1>1, <1>4, <2>4, RemoveStep DEF VaultEffect, Dropped
  <2> QED BY <1>4, <2>1, <2>2, <2>3, <2>4 DEF VaultEffect
<1> QED BY <1>3, <1>4 DEF LateStep

LEMMA RefineStep == RefineInv /\ [Next]_vars => [Atomic!Next]_(Atomic!vars)
<1> SUFFICES ASSUME RefineInv, [Next]_vars PROVE Atomic!Next \/ Same
  BY DEF Atomic!vars, Same, Abandoned
<1> USE DEF callVars, lockVars, vaultVars, histVars, Reject, Settle, At
<1>1. ASSUME NEW c \in Calls,
             Start(c) \/ Identify(c) \/ Lookup(c) \/ Acquire(c) \/ Recheck(c) \/ LogStart(c)
             \/ Cleanup(c) \/ LogEnd(c)
      PROVE  Same
  BY <1>1 DEF Start, Identify, Lookup, Acquire, Recheck, LogStart, Cleanup, CleanupEffect, LogEnd,
     Same, Abandoned
<1>2. ASSUME NEW c \in Calls,
             IdentifyError(c) \/ Guard(c) \/ CheckExists(c) \/ Stat(c) \/ Read(c) \/ ApplyError(c)
             \/ Prepare(c)
      PROVE  Atomic!Next \/ Same
  <2>1. /\ pc[c] \in Unsettled /\ UNCHANGED <<req, text, trashed, landed, dirty, late>>
        /\ outcome' = outcome \/ outcome' = [outcome EXCEPT ![c] = "error"]
    BY <1>2 DEF IdentifyError, Guard, CheckExists, Stat, Read, ApplyError, Prepare, PrepareEffect,
       Continue, Guarding, Unsettled, InFlight, Holding, BeforeRead, Checked
  <2> QED BY <2>1, RefuseStep DEF Same, Abandoned
<1>3. ASSUME NEW c \in Calls, Publish(c) PROVE Atomic!Next
  <2>1. pc[c] = "publish" /\ pc[c] \in Unsettled /\ UNCHANGED <<req, late, dirty>>
    BY <1>3 DEF Publish, Unsettled, InFlight, Holding, Checked
  <2>2. CASE PublishEffect(c) /\ outcome' = [outcome EXCEPT ![c] = "ok"]
    BY <2>1, <2>2, PublishStep DEF Awaited
  <2>3. CASE UNCHANGED <<vaultVars, landed, trashed>> /\ outcome' = [outcome EXCEPT ![c] = "error"]
    BY <2>1, <2>3, RefuseStep
  <2> QED BY <1>3, <2>2, <2>3 DEF Publish
<1>4. ASSUME NEW c \in Calls, TrashLink(c) PROVE Atomic!Next \/ Same
  <2>1. pc[c] = "trash_link" /\ pc[c] \in Unsettled /\ UNCHANGED <<req, late, dirty>>
    BY <1>4 DEF TrashLink, Unsettled, InFlight, Holding, Checked
  <2>2. CASE TrashLinkEffect(c) /\ UNCHANGED outcome
    BY <2>1, <2>2, TrashStep
  <2>3. CASE UNCHANGED <<vaultVars, landed, trashed, outcome>>
    BY <2>1, <2>3 DEF Same, Abandoned
  <2>4. CASE UNCHANGED <<vaultVars, landed, trashed>> /\ outcome' = [outcome EXCEPT ![c] = "error"]
    BY <2>1, <2>4, RefuseStep
  <2> QED BY <1>4, <2>2, <2>3, <2>4 DEF TrashLink, Continue
<1>5. ASSUME NEW c \in Calls, Remove(c) PROVE Atomic!Next
  <2>1. /\ pc[c] \in {"trash_unlink", "unlink"} /\ pc[c] \in Unsettled
        /\ UNCHANGED <<req, late, dirty>>
    BY <1>5 DEF Remove, Unsettled, InFlight, Holding, Checked
  <2>2. CASE RemoveEffect(c) /\ outcome' = [outcome EXCEPT ![c] = "ok"]
    BY <2>1, <2>2, RemoveStep DEF Awaited
  <2>3. CASE UNCHANGED <<vaultVars, landed, trashed>> /\ outcome' = [outcome EXCEPT ![c] = "error"]
    BY <2>1, <2>3, RefuseStep
  <2> QED BY <1>5, <2>2, <2>3 DEF Remove
<1>6. ASSUME NEW c \in Calls, Cancel(c) PROVE Atomic!Next \/ Same
  <2>1. /\ pc[c] \in InFlight /\ late[c] = "none" /\ "cancel" \in Environment
        /\ UNCHANGED <<req, outcome, text, trashed, landed, dirty>>
        /\ late' = late \/ late' = [late EXCEPT ![c] = pc[c]]
    BY <1>6 DEF Cancel, RefineInv, AuditInv, InFlight, Waiting, Holding, BeforeRead, Checked
  <2>2. CASE late' = late
    BY <2>1, <2>2 DEF Same, Abandoned
  <2>3. CASE late' = [late EXCEPT ![c] = pc[c]] /\ pc[c] \notin Changing
    <3>1. Abandoned' = Abandoned
      BY <2>1, <2>3 DEF Abandoned, Changing, RefineInv, TypeOK
    <3> QED BY <2>1, <3>1 DEF Same
  <2>4. CASE late' = [late EXCEPT ![c] = pc[c]] /\ pc[c] \in Changing
    <3>1. Abandoned' = Abandoned \cup {c}
      BY <2>4 DEF Abandoned, RefineInv, TypeOK
    <3>2. outcome[c] = "none" /\ c \notin landed
      BY <2>4, Undecided
    <3>3. Atomic!Abandon(c)
      BY <2>1, <3>1, <3>2 DEF Atomic!Abandon, Abandoned
    <3> QED BY <3>3 DEF Atomic!Next
  <2> QED BY <2>1, <2>2, <2>3, <2>4
<1>7. ASSUME NEW c \in Calls, LateStep(c) PROVE Atomic!Next \/ Same
  BY <1>7, LateStepMaps
<1>8. CASE Crash
  <2>1. Abandoned' = {}
    BY <1>8 DEF Crash, Abandoned, Changing
  <2>2. Atomic!Forget
    BY <1>8, <2>1 DEF Crash, Atomic!Forget, Abandoned
  <2> QED BY <2>2 DEF Atomic!Next
<1>9. ASSUME NEW f \in Files, ExternalEdit(f) PROVE Atomic!Next
  <2>1. text' = [text EXCEPT ![f] = text'[f]]
    BY <1>9 DEF ExternalEdit, RefineInv, TypeOK
  <2>2. /\ "external" \in Environment /\ dirty \subseteq dirty'
        /\ UNCHANGED <<req, outcome, landed, late, trashed>>
    BY <1>9 DEF ExternalEdit
  <2>3. Atomic!Edit(f)
    BY <2>1, <2>2 DEF Atomic!Edit, Abandoned
  <2> QED BY <2>3 DEF Atomic!Next
<1>10. CASE PolicyReload \/ UNCHANGED vars
  BY <1>10 DEF PolicyReload, vars, Same, Abandoned
<1> QED BY <1>1, <1>2, <1>3, <1>4, <1>5, <1>6, <1>7, <1>8, <1>9, <1>10 DEF Next, Step

\* On a case-sensitive file system, racing calls behave like single compare-and-set
\* steps: mutate with its locks, audit rows, temporary files and trash implements the
\* atomic vault, through I/O errors, policy reloads, process ends, editors and calls
\* dropped at any await.
THEOREM WriterIsAtomic ==
    ASSUME CaseSensitive
    PROVE  Spec => ImplementsAtomicVault
<1>1. Init => Atomic!Init
  <2> SUFFICES ASSUME Init PROVE Atomic!Init
    OBVIOUS
  <2>1. {c \in Calls : late[c] \in Changing} = {}
    BY DEF Init, Changing
  <2> QED BY <2>1 DEF Init, Atomic!Init
<1>2. TypeOK => \A c \in Calls : OneSpelling(c)
  BY EverySpellingSole
<1>3. Spec => []RefineInv
  BY <1>2, TypeCorrect, WriteInvariant, AuditInvariant, LateInvariant, PTL DEF RefineInv
<1> QED BY <1>1, <1>3, RefineStep, PTL DEF Spec, ImplementsAtomicVault, Atomic!Spec
=============================================================================
