-------------------------- MODULE SkillReloadProofs --------------------------
(***************************************************************************)
(* Proofs about SkillReload: what a reload publishes is private before     *)
(* anyone can see it, a note read that spans a reload respects it, and a   *)
(* finished reload is not undone by an older one.                          *)
(***************************************************************************)
EXTENDS SkillReload, TLAPS

\* The deny rules contain every candidate, valid or not (Policy::effective_paths).
LEMMA RulesCover ==
    ASSUME SkillAssumption, NEW l \in Loads, NEW resolve \in SUBSET Paths
    PROVE  Rules(l, resolve) \subseteq Paths /\ l.statuses \subseteq Rules(l, resolve)
BY DEF SkillAssumption, Rules, Loads

(***************************************************************************)
(* Types                                                                   *)
(***************************************************************************)
LEMMA InitTypes == SkillAssumption /\ Init => TypeOK
<1> SUFFICES ASSUME SkillAssumption, Init PROVE TypeOK
  OBVIOUS
<1> USE DEF SkillAssumption, Init
<1>1. vault \in VaultType /\ 0 \in Versions
  BY DEF Versions
<1>2. snapshot \in Loads
  BY <1>1 DEF Loads, Candidates, Skills, VaultType
<1>3. policy \subseteq Paths
  BY <1>1, <1>2, RulesCover DEF VaultType
<1>4. load \in [Reloads -> Loads] /\ asked \in [Reloads -> Versions]
  BY <1>1 DEF Loads, NoLoad
<1> QED BY <1>1, <1>2, <1>3, <1>4 DEF TypeOK, Calls, PCs

LEMMA GoTypes ==
    ASSUME NEW c \in Calls, NEW to \in PCs, TypeOK, Go(c, to)
    PROVE  pc' \in [Calls -> PCs]
BY DEF Go, TypeOK

LEMMA StepTypes == SkillAssumption /\ TypeOK /\ [Next]_vars => TypeOK'
<1> SUFFICES ASSUME SkillAssumption, TypeOK, [Next]_vars PROVE TypeOK'
  OBVIOUS
<1>0. vault \in VaultType /\ Map \in Paths
  BY DEF SkillAssumption, TypeOK
<1> USE DEF TypeOK, At, diskVars
<1>1. ASSUME NEW r \in Reloads, Start(r) PROVE TypeOK'
  <2>1. pc' \in [Calls -> PCs]
    BY <1>1, GoTypes DEF Start, PCs, Calls
  <2> QED BY <1>1, <2>1 DEF Start
<1>2. ASSUME NEW r \in Reloads, Acquire(r) PROVE TypeOK'
  <2>1. pc' \in [Calls -> PCs]
    BY <1>2, GoTypes DEF Acquire, PCs, Reloading, Calls
  <2> QED BY <1>2, <2>1 DEF Acquire
<1>3. ASSUME NEW r \in Reloads, LoadMap(r) PROVE TypeOK'
  <2>1. pc' \in [Calls -> PCs]
    BY <1>3, GoTypes DEF LoadMap, PCs, Reloading, Calls
  <2>2. /\ [NoLoad EXCEPT !.version = edits] \in Loads
        /\ [NoLoad EXCEPT !.version = edits, !.statuses = {Map}] \in Loads
    BY <1>0 DEF Loads, NoLoad
  <2>4. load' \in [Reloads -> Loads]
    BY <1>3, <2>2 DEF LoadMap
  <2>3. todo' \in [Reloads -> SUBSET Paths]
    BY <1>3, <1>0 DEF LoadMap, Candidates, VaultType
  <2> QED BY <1>3, <2>1, <2>3, <2>4 DEF LoadMap
<1>4. ASSUME NEW r \in Reloads, LoadSkill(r) PROVE TypeOK'
  <2>1. PICK p \in todo[r] :
            /\ todo' = [todo EXCEPT ![r] = @ \ {p}]
            /\ \E loaded \in {{p} \cap Skills} \cup (IF IoErrors THEN {{}} ELSE {}) :
                  load' = [load EXCEPT ![r].statuses = @ \cup {p}, ![r].skills = @ \cup loaded]
    BY <1>4 DEF LoadSkill
  <2>2. PICK loaded \in SUBSET {p} :
            load' = [load EXCEPT ![r].statuses = @ \cup {p}, ![r].skills = @ \cup loaded]
    <3>1. \A loaded \in {{p} \cap Skills} \cup (IF IoErrors THEN {{}} ELSE {}) : loaded \in SUBSET {p}
      OBVIOUS
    <3> QED BY <2>1, <3>1
  <2>3. load' \in [Reloads -> Loads]
    <3>1. p \in Paths /\ loaded \subseteq Paths
      BY <2>1, <2>2
    <3> QED BY <2>2, <3>1 DEF Loads
  <2>4. todo' \in [Reloads -> SUBSET Paths]
    BY <2>1
  <2> QED BY <1>4, <2>3, <2>4 DEF LoadSkill
<1>5. ASSUME NEW r \in Reloads, LoadEnd(r) PROVE TypeOK'
  <2>1. pc' \in [Calls -> PCs]
    BY <1>5, GoTypes DEF LoadEnd, PCs, Reloading, Calls
  <2>2. \A resolve \in {vault.readable} \cup {{}} : Rules(load[r], resolve) \subseteq Paths
    BY <1>0, RulesCover DEF VaultType
  <2>3. PICK resolve \in {vault.readable} \cup {{}} : paths' = [paths EXCEPT ![r] = Rules(load[r], resolve)]
    <3>1. {vault.readable} \cup (IF IoErrors THEN {{}} ELSE {}) \subseteq {vault.readable} \cup {{}}
      OBVIOUS
    <3> QED BY <1>5, <3>1 DEF LoadEnd
  <2>4. paths' \in [Reloads -> SUBSET Paths]
    <3>1. Rules(load[r], resolve) \in SUBSET Paths
      BY <2>2, <2>3
    <3> QED BY <2>3, <3>1
  <2> QED BY <1>5, <2>1, <2>4 DEF LoadEnd
<1>6. ASSUME NEW r \in Reloads, Lock(r) PROVE TypeOK'
  <2>1. pc' \in [Calls -> PCs]
    BY <1>6, GoTypes DEF Lock, PCs, Reloading, Calls
  <2> QED BY <1>6, <2>1 DEF Lock
<1>7. ASSUME NEW r \in Reloads, ReplacePolicy(r) PROVE TypeOK'
  <2>1. pc' \in [Calls -> PCs]
    BY <1>7, GoTypes DEF ReplacePolicy, PCs, Reloading, Calls
  <2> QED BY <1>7, <2>1 DEF ReplacePolicy
<1>8. ASSUME NEW r \in Reloads, StoreSnapshot(r) PROVE TypeOK'
  <2>1. pc' \in [Calls -> PCs]
    BY <1>8, GoTypes DEF StoreSnapshot, PCs, Calls
  <2> QED BY <1>8, <2>1 DEF StoreSnapshot
<1>9. ASSUME NEW c \in Clients, Client(c) PROVE TypeOK'
  <2>1. pc' \in [Calls -> PCs]
    BY <1>9, GoTypes DEF Client, Begin, Check, Content, Recheck, Prompt, PCs, Calls
  <2> QED BY <1>9, <2>1 DEF Client, Begin, Check, Content, Recheck, Prompt
<1>10. ASSUME NEW c \in Calls, Drop(c) PROVE TypeOK'
  <2>1. pc' \in [Calls -> PCs]
    BY <1>10, GoTypes DEF Drop, PCs
  <2> QED BY <1>10, <2>1 DEF Drop
<1>11. CASE Edit
  <2>1. edits' \in Versions
    BY <1>11 DEF Edit, Versions, SkillAssumption
  <2> QED BY <1>11, <2>1 DEF Edit
<1>12. CASE UNCHANGED vars
  BY <1>12 DEF vars
<1> QED
  BY <1>1, <1>2, <1>3, <1>4, <1>5, <1>6, <1>7, <1>8, <1>9, <1>10, <1>11, <1>12 DEF Next, Reload

\* Every variable of the reload keeps its type (src/runtime.rs, RuntimeSkills).
THEOREM SkillTypes == ASSUME SkillAssumption PROVE Spec => []TypeOK
BY InitTypes, StepTypes, PTL DEF Spec

(***************************************************************************)
(* The strengthening: one reload at a time has passed skill_reload; what   *)
(* it will publish is covered by the rules it will put in force first, and *)
(* is no older than what is published.                                     *)
(***************************************************************************)
OneReload == \A q, r \in Reloads : pc[q] \in Reloading /\ pc[r] \in Reloading => q = r
Covered ==
    \A r \in Reloads :
      /\ pc[r] \in {"snapshot", "replace", "store"} => load[r].statuses \subseteq paths[r]
      /\ pc[r] = "store" => policy = paths[r]
AsOldAs ==
    \A r \in Reloads :
      /\ asked[r] <= edits
      /\ pc[r] \in Reloading \ {"map"} => /\ asked[r] <= load[r].version
                                           /\ snapshot.version <= load[r].version
                                           /\ load[r].version <= edits
ReloadInv ==
    /\ OneReload /\ Covered /\ PublishedIsPrivate
    /\ AsOldAs /\ ReloadNotUndone /\ snapshot.version <= edits

LEMMA InitReload == SkillAssumption /\ Init => ReloadInv
<1> SUFFICES ASSUME SkillAssumption, Init PROVE ReloadInv
  OBVIOUS
<1> USE DEF Init
<1>1. \A c \in Calls : pc[c] = "idle"
  OBVIOUS
<1>2. snapshot.version = 0 /\ edits = 0 /\ \A r \in Reloads : asked[r] = 0
  OBVIOUS
<1>3. snapshot.statuses \subseteq policy
  <2>1. snapshot \in Loads /\ vault.readable \in SUBSET Paths
    BY InitTypes DEF TypeOK, SkillAssumption, VaultType
  <2> QED BY <2>1, RulesCover
<1> HIDE DEF Init
<1>4. OneReload /\ Covered /\ ReloadNotUndone
  BY <1>1 DEF OneReload, Covered, ReloadNotUndone, Reloading, At, Calls
<1>5. AsOldAs
  <2>1. \A r \in Reloads : pc[r] \notin Reloading
    BY <1>1 DEF Reloading, Calls
  <2>2. ASSUME NEW r \in Reloads PROVE asked[r] <= edits
    <3>1. asked[r] = 0 /\ edits = 0
      BY <1>2
    <3> QED BY <3>1
  <2> QED BY <2>1, <2>2 DEF AsOldAs
<1>6. snapshot.version <= edits
  BY <1>2
<1> QED BY <1>2, <1>3, <1>4, <1>5, <1>6 DEF ReloadInv, PublishedIsPrivate

\* A step of one call that touches neither what is loaded nor what is in force.
LEMMA ReloadKept ==
    ASSUME SkillAssumption, TypeOK, ReloadInv, NEW c \in Calls, NEW to \in PCs, Go(c, to),
           pc[c] \notin Writing \cup {"done"}, to \notin Writing \cup {"done"} \/ c \notin Reloads,
           to \in Reloading => to = pc[c],
           UNCHANGED <<edits, load, paths, policy, snapshot, asked>>
    PROVE  ReloadInv'
<1>1. \A d \in Calls : d # c => pc'[d] = pc[d]
  BY DEF Go, TypeOK
<1>2. pc'[c] = to
  BY DEF Go, TypeOK
<1>3. \A d \in Reloads : pc'[d] \in Reloading => pc'[d] = pc[d]
  BY <1>1, <1>2 DEF Calls
<1>4. \A d \in Reloads : pc'[d] \in Writing <=> pc[d] \in Writing
  BY <1>1, <1>2 DEF Calls, Writing, Reloading
<1>5. \A d \in Reloads : pc'[d] = "done" => pc[d] = "done"
  BY <1>1, <1>2 DEF Calls
<1> USE DEF ReloadInv
<1>6. OneReload'
  BY <1>3 DEF OneReload
<1>7. Covered'
  BY <1>3 DEF Covered, Reloading
<1>8. PublishedIsPrivate'
  BY <1>4 DEF PublishedIsPrivate, Writer
<1>9. AsOldAs'
  BY <1>3 DEF AsOldAs
<1>10. ReloadNotUndone'
  BY <1>5 DEF ReloadNotUndone, At
<1> QED BY <1>6, <1>7, <1>8, <1>9, <1>10

LEMMA ReloadStep == SkillAssumption /\ TypeOK /\ ReloadInv /\ [Next]_vars => ReloadInv'
<1> SUFFICES ASSUME SkillAssumption, TypeOK, ReloadInv, [Next]_vars PROVE ReloadInv'
  OBVIOUS
<1>0. /\ \A r \in Reloads : asked[r] \in Nat /\ load[r].version \in Nat
      /\ snapshot.version \in Nat /\ edits \in Nat
  BY DEF TypeOK, Loads, Versions
<1>a. Reloads \subseteq Calls /\ Clients \subseteq Calls /\ Reloads \cap Clients = {}
  BY DEF Calls, SkillAssumption
<1> USE DEF At
\* The calling reload moves from one program counter to another; the others stay.
<1>b. ASSUME NEW r \in Reloads, NEW to \in PCs, Go(r, to)
      PROVE  pc'[r] = to /\ \A d \in Calls : d # r => pc'[d] = pc[d]
  BY <1>b, <1>a DEF Go, TypeOK
<1>1. ASSUME NEW r \in Reloads, Start(r) PROVE ReloadInv'
  <2>1. /\ pc[r] = "idle" /\ pc'[r] = "reload" /\ \A d \in Reloads : d # r => pc'[d] = pc[d]
        /\ asked' = [asked EXCEPT ![r] = edits]
        /\ UNCHANGED <<edits, load, paths, policy, snapshot>>
    BY <1>1, <1>a, <1>b DEF Start, diskVars, PCs
  <2>2. asked'[r] = edits /\ \A d \in Reloads : d # r => asked'[d] = asked[d]
    BY <2>1 DEF TypeOK
  <2>3. OneReload'
    BY <2>1 DEF ReloadInv, OneReload, Reloading
  <2>4. Covered'
    BY <2>1 DEF ReloadInv, Covered
  <2>5. PublishedIsPrivate'
    BY <2>1 DEF ReloadInv, PublishedIsPrivate, Writer, Writing
  <2>6. AsOldAs'
    BY <1>0, <2>1, <2>2 DEF ReloadInv, AsOldAs, Reloading
  <2>7. ReloadNotUndone'
    BY <2>1, <2>2 DEF ReloadInv, ReloadNotUndone
  <2> QED BY <2>1, <2>3, <2>4, <2>5, <2>6, <2>7 DEF ReloadInv
<1>2. ASSUME NEW r \in Reloads, Acquire(r) PROVE ReloadInv'
  <2>1. /\ pc[r] = "reload" /\ pc'[r] = "map" /\ \A d \in Reloads : d # r => pc'[d] = pc[d]
        /\ \A d \in Reloads : pc[d] \notin Reloading
        /\ UNCHANGED <<edits, load, paths, policy, snapshot, asked>>
    BY <1>2, <1>a, <1>b DEF Acquire, diskVars, PCs, Reloading
  <2>2. OneReload'
    BY <2>1 DEF OneReload
  <2>3. Covered'
    BY <2>1 DEF ReloadInv, Covered
  <2>4. PublishedIsPrivate'
    BY <2>1 DEF ReloadInv, PublishedIsPrivate, Writer, Writing
  <2>5. AsOldAs'
    BY <2>1 DEF ReloadInv, AsOldAs, Reloading
  <2>6. ReloadNotUndone'
    BY <2>1 DEF ReloadInv, ReloadNotUndone
  <2> QED BY <2>1, <2>2, <2>3, <2>4, <2>5, <2>6 DEF ReloadInv
<1>3. ASSUME NEW r \in Reloads, LoadMap(r) PROVE ReloadInv'
  <2>1. /\ pc[r] = "map" /\ pc'[r] = "skills" /\ \A d \in Reloads : d # r => pc'[d] = pc[d]
        /\ UNCHANGED <<edits, paths, policy, snapshot, asked>>
    BY <1>3, <1>a, <1>b DEF LoadMap, diskVars, PCs, Reloading
  <2>2. load'[r].version = edits /\ \A d \in Reloads : d # r => load'[d] = load[d]
    BY <1>3 DEF LoadMap, NoLoad, TypeOK
  <2>3. OneReload'
    BY <2>1 DEF ReloadInv, OneReload, Reloading
  <2>4. Covered'
    BY <2>1, <2>2 DEF ReloadInv, Covered
  <2>5. PublishedIsPrivate'
    BY <2>1 DEF ReloadInv, PublishedIsPrivate, Writer, Writing
  <2>6. AsOldAs'
    BY <1>0, <2>1, <2>2 DEF ReloadInv, AsOldAs, Reloading
  <2>7. ReloadNotUndone'
    BY <2>1 DEF ReloadInv, ReloadNotUndone
  <2> QED BY <2>1, <2>3, <2>4, <2>5, <2>6, <2>7 DEF ReloadInv
<1>4. ASSUME NEW r \in Reloads, LoadSkill(r) PROVE ReloadInv'
  <2>1. pc[r] = "skills" /\ UNCHANGED <<pc, edits, paths, policy, snapshot, asked>>
    BY <1>4 DEF LoadSkill, diskVars
  <2>2. load'[r].version = load[r].version /\ \A d \in Reloads : d # r => load'[d] = load[d]
    BY <1>4 DEF LoadSkill, TypeOK, Loads
  <2>3. OneReload' /\ PublishedIsPrivate' /\ ReloadNotUndone'
    BY <2>1 DEF ReloadInv, OneReload, PublishedIsPrivate, Writer, ReloadNotUndone
  <2>4. Covered'
    BY <2>1, <2>2 DEF ReloadInv, Covered
  <2>5. AsOldAs'
    BY <2>1, <2>2 DEF ReloadInv, AsOldAs
  <2> QED BY <2>1, <2>3, <2>4, <2>5 DEF ReloadInv
<1>5. ASSUME NEW r \in Reloads, LoadEnd(r) PROVE ReloadInv'
  <2>1. /\ pc[r] = "skills" /\ pc'[r] = "snapshot" /\ \A d \in Reloads : d # r => pc'[d] = pc[d]
        /\ UNCHANGED <<edits, load, policy, snapshot, asked>>
    BY <1>5, <1>a, <1>b DEF LoadEnd, diskVars, PCs, Reloading
  <2>2. load[r].statuses \subseteq paths'[r] /\ \A d \in Reloads : d # r => paths'[d] = paths[d]
    <3>1. vault.readable \in SUBSET Paths /\ load[r] \in Loads
      BY DEF TypeOK, SkillAssumption, VaultType
    <3>2. PICK resolve \in {vault.readable} \cup (IF IoErrors THEN {{}} ELSE {}) :
              paths' = [paths EXCEPT ![r] = Rules(load[r], resolve)]
      BY <1>5 DEF LoadEnd
    <3>3. resolve \in SUBSET Paths
      BY <3>1, <3>2
    <3> QED BY <3>1, <3>2, <3>3, RulesCover DEF TypeOK
  <2>3. OneReload'
    BY <2>1 DEF ReloadInv, OneReload, Reloading
  <2>4. Covered'
    BY <2>1, <2>2 DEF ReloadInv, Covered
  <2>5. PublishedIsPrivate'
    BY <2>1 DEF ReloadInv, PublishedIsPrivate, Writer, Writing
  <2>6. AsOldAs'
    BY <2>1 DEF ReloadInv, AsOldAs, Reloading
  <2>7. ReloadNotUndone'
    BY <2>1 DEF ReloadInv, ReloadNotUndone
  <2> QED BY <2>1, <2>3, <2>4, <2>5, <2>6, <2>7 DEF ReloadInv
<1>6. ASSUME NEW r \in Reloads, Lock(r) PROVE ReloadInv'
  <2>1. /\ pc[r] = "snapshot" /\ pc'[r] = "replace" /\ \A d \in Reloads : d # r => pc'[d] = pc[d]
        /\ UNCHANGED <<edits, load, paths, policy, snapshot, asked>>
    BY <1>6, <1>a, <1>b DEF Lock, diskVars, PCs, Reloading
  <2>2. OneReload'
    BY <2>1 DEF ReloadInv, OneReload, Reloading
  <2>3. Covered'
    BY <2>1 DEF ReloadInv, Covered
  <2>4. PublishedIsPrivate'
    BY <2>1 DEF PublishedIsPrivate, Writer, Writing
  <2>5. AsOldAs'
    BY <2>1 DEF ReloadInv, AsOldAs, Reloading
  <2>6. ReloadNotUndone'
    BY <2>1 DEF ReloadInv, ReloadNotUndone
  <2> QED BY <2>1, <2>2, <2>3, <2>4, <2>5, <2>6 DEF ReloadInv
<1>7. ASSUME NEW r \in Reloads, ReplacePolicy(r) PROVE ReloadInv'
  <2>1. /\ pc[r] = "replace" /\ pc'[r] = "store" /\ \A d \in Reloads : d # r => pc'[d] = pc[d]
        /\ policy' = paths[r]
        /\ UNCHANGED <<edits, load, paths, snapshot, asked>>
    BY <1>7, <1>a, <1>b DEF ReplacePolicy, diskVars, PCs, Reloading
  <2>2. OneReload'
    BY <2>1 DEF ReloadInv, OneReload, Reloading
  \* No other reload is about to publish under the rules that are replaced here.
  <2>3. Covered'
    <3>1. \A d \in Reloads : d # r => pc[d] # "store"
      BY <2>1 DEF ReloadInv, OneReload, Reloading
    <3> QED BY <2>1, <3>1 DEF ReloadInv, Covered
  <2>4. PublishedIsPrivate'
    BY <2>1 DEF PublishedIsPrivate, Writer, Writing
  <2>5. AsOldAs'
    BY <2>1 DEF ReloadInv, AsOldAs, Reloading
  <2>6. ReloadNotUndone'
    BY <2>1 DEF ReloadInv, ReloadNotUndone
  <2> QED BY <2>1, <2>2, <2>3, <2>4, <2>5, <2>6 DEF ReloadInv
<1>8. ASSUME NEW r \in Reloads, StoreSnapshot(r) PROVE ReloadInv'
  <2>1. /\ pc[r] = "store" /\ pc'[r] = "done" /\ \A d \in Reloads : d # r => pc'[d] = pc[d]
        /\ snapshot' = load[r]
        /\ UNCHANGED <<edits, load, paths, policy, asked>>
    BY <1>8, <1>a, <1>b DEF StoreSnapshot, diskVars, PCs
  <2>2. \A d \in Reloads : d # r => pc[d] \notin Reloading
    BY <2>1 DEF ReloadInv, OneReload, Reloading
  <2>3. OneReload'
    BY <2>1, <2>2 DEF OneReload, Reloading
  <2>4. Covered'
    BY <2>1 DEF ReloadInv, Covered
  <2>5. PublishedIsPrivate'
    BY <2>1 DEF ReloadInv, Covered, PublishedIsPrivate
  <2>6. asked[r] <= load[r].version /\ snapshot.version <= load[r].version /\ load[r].version <= edits
    BY <2>1 DEF ReloadInv, AsOldAs, Reloading
  <2>7. AsOldAs'
    BY <2>1, <2>2 DEF ReloadInv, AsOldAs, Reloading
  <2>8. ReloadNotUndone'
    BY <1>0, <2>1, <2>6 DEF ReloadInv, ReloadNotUndone
  <2> QED BY <2>1, <2>3, <2>4, <2>5, <2>6, <2>7, <2>8 DEF ReloadInv
<1>9. ASSUME NEW c \in Clients, Client(c) PROVE ReloadInv'
  <2>1. PICK to \in {"check", "prompt", "content", "recheck", "done"} :
            Go(c, to) /\ pc[c] \in {"idle", "check", "content", "recheck", "prompt"}
    BY <1>9 DEF Client, Begin, Check, Content, Recheck, Prompt
  <2>2. UNCHANGED <<edits, load, paths, policy, snapshot, asked>>
    BY <1>9 DEF Client, Begin, Check, Content, Recheck, Prompt, diskVars
  <2>3. to \in PCs /\ to \notin Reloading /\ pc[c] \notin Writing \cup {"done"}
    BY <2>1 DEF PCs, Reloading, Writing
  <2> QED BY <1>a, <2>1, <2>2, <2>3, ReloadKept
<1>10. ASSUME NEW c \in Calls, Drop(c) PROVE ReloadInv'
  <2>1. /\ Go(c, "dropped") /\ pc[c] \notin Writing \cup {"done"}
        /\ UNCHANGED <<edits, load, paths, policy, snapshot, asked>>
    BY <1>10 DEF Drop, diskVars
  <2>2. "dropped" \in PCs /\ "dropped" \notin Writing \cup {"done"} \cup Reloading
    BY DEF PCs, Writing, Reloading
  <2> QED BY <2>1, <2>2, ReloadKept
<1>11. CASE Edit
  <2>1. edits' = edits + 1 /\ UNCHANGED <<pc, load, paths, policy, snapshot, asked>>
    BY <1>11 DEF Edit
  <2>2. OneReload' /\ Covered' /\ PublishedIsPrivate' /\ ReloadNotUndone'
    BY <2>1 DEF ReloadInv, OneReload, Covered, PublishedIsPrivate, Writer, ReloadNotUndone
  <2>3. AsOldAs' /\ snapshot'.version <= edits'
    BY <1>0, <2>1 DEF ReloadInv, AsOldAs
  <2> QED BY <2>2, <2>3 DEF ReloadInv
<1>12. CASE UNCHANGED vars
  BY <1>12 DEF vars, diskVars, ReloadInv, OneReload, Covered, PublishedIsPrivate, Writer, AsOldAs, ReloadNotUndone
<1> QED
  BY <1>1, <1>2, <1>3, <1>4, <1>5, <1>6, <1>7, <1>8, <1>9, <1>10, <1>11, <1>12 DEF Next, Reload

(***************************************************************************)
(* The theorems                                                            *)
(***************************************************************************)

\* The strengthening holds for any number of reloads, clients, notes and edits.
THEOREM ReloadsKeepOrder == ASSUME SkillAssumption PROVE Spec => []ReloadInv
BY InitReload, ReloadStep, SkillTypes, PTL DEF Spec

\* Every path that the published snapshot names is blocked whenever the snapshot can be
\* read (reload_skills replaces the policy before the snapshot, under the write lock).
THEOREM SkillsArePrivate == ASSUME SkillAssumption PROVE Spec => []PublishedIsPrivate
<1>1. ReloadInv => PublishedIsPrivate
  BY DEF ReloadInv
<1> QED BY <1>1, ReloadsKeepOrder, PTL

\* A finished reload is not undone by one that began to load earlier (skill_reload is held
\* from before the load until after the publication).
THEOREM ReloadsAreNotUndone == ASSUME SkillAssumption PROVE Spec => []ReloadNotUndone
<1>1. ReloadInv => ReloadNotUndone
  BY DEF ReloadInv
<1> QED BY <1>1, ReloadsKeepOrder, PTL

\* A note read that spans a reload returns nothing the reload has published as a skill
\* candidate (read_note consults the policy again once it has the text).
THEOREM SpanningReadsAreRefused == ASSUME SkillAssumption PROVE Spec => ReadsRespectReload
<1>1. TypeOK /\ ReloadInv /\ [Next]_vars => [RespectsReload]_vars
  <2> SUFFICES ASSUME TypeOK, ReloadInv, [Next]_vars, NEW c \in Clients,
                      At(c, "recheck"), c \in got' \ got, ~Writer
               PROVE  {target[c], Resolved[target[c]]} \cap snapshot.statuses = {}
    BY DEF RespectsReload
  <2>1. snapshot.statuses \subseteq policy
    BY DEF ReloadInv, PublishedIsPrivate
  <2>2. got' # got
    OBVIOUS
  <2>3. PICK d \in Clients : Recheck(d) \/ Prompt(d)
    BY <2>2 DEF Next, Reload, Start, Acquire, LoadMap, LoadSkill, LoadEnd, Lock, ReplacePolicy, StoreSnapshot,
           Client, Begin, Check, Content, Drop, Edit, vars
  <2>4. d = c
    BY <2>3 DEF Recheck, Prompt
  <2>5. ~Blocked(target[c])
    BY <2>3, <2>4 DEF Recheck, Prompt, At
  <2> QED BY <2>1, <2>5 DEF Blocked
<1> QED BY <1>1, ReloadsKeepOrder, SkillTypes, PTL DEF Spec, ReadsRespectReload
=============================================================================
