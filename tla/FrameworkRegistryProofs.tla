---------------------- MODULE FrameworkRegistryProofs ----------------------
(***************************************************************************)
(* Theorems about FrameworkRegistry, for every set of calls and overlays.  *)
(***************************************************************************)
EXTENDS FrameworkRegistry, TLAPS

(***************************************************************************)
(* Types.                                                                  *)
(***************************************************************************)

\* A change to the registrations is a set of registrations.
LEMMA AfterType ==
    ASSUME RegistryAssumption, TypeOK, NEW c \in Calls, NEW es \in SUBSET Entries
    PROVE  After(c, es) \in SUBSET Entries
<1>1. req[c] \in RequestType
  BY DEF TypeOK, RegistryAssumption
<1> QED
  BY <1>1 DEF After, Others, RequestType, Op

\* What follows the parsed registrations keeps the types of what it changes.
LEMMA DecideType ==
    ASSUME RegistryAssumption, TypeOK, NEW c \in Calls, NEW es \in SUBSET Entries, Decide(c, es)
    PROVE  /\ pc' \in [Calls -> PCs] /\ outcome' \in [Calls -> Outcomes]
           /\ seen' \in [Calls -> Contents]
<1>1. After(c, es) \in Contents
  BY AfterType DEF Contents
<1> QED
  BY <1>1 DEF Decide, End, Go, TypeOK, Outcomes, PCs, Locked, Working

\* What a call publishes may be in the file.
LEMMA EffectType ==
    ASSUME TypeOK, NEW c \in Calls, Effect(c)
    PROVE  file' \in Contents /\ temps' \subseteq Calls /\ landed' \subseteq Calls
<1>1. Text(c) \in Contents
  BY DEF Text, Contents, TypeOK
<1> QED
  BY <1>1 DEF Effect, TypeOK

\* Every step keeps the types.
LEMMA TypeStep == RegistryAssumption /\ TypeOK /\ [Next]_vars => TypeOK'
<1> SUFFICES ASSUME RegistryAssumption, TypeOK, [Next]_vars PROVE TypeOK'
  OBVIOUS
<1> USE DEF TypeOK, Outcomes, End, Go, PCs, Locked, Working
<1>1. ASSUME NEW c \in Calls, Start(c) PROVE TypeOK'
  BY <1>1 DEF Start
<1>2. ASSUME NEW c \in Calls, Canonical(c) PROVE TypeOK'
  BY <1>2 DEF Canonical
<1>3. ASSUME NEW c \in Calls, Acquire(c) PROVE TypeOK'
  BY <1>3 DEF Acquire
<1>4. ASSUME NEW c \in Calls, Resolve(c) PROVE TypeOK'
  <2>1. CASE Decide(c, {})
    <3>1. \A d \in Calls : pc'[d] = "parse" => pc[d] = "parse" /\ d # c
      BY <2>1, <1>4 DEF Decide, Resolve, At
    <3>2. /\ pc' \in [Calls -> PCs] /\ outcome' \in [Calls -> Outcomes]
          /\ seen' \in [Calls -> Contents]
      BY <2>1, DecideType
    <3>3. \A d \in Calls \ {c} : seen'[d] = seen[d]
      BY <2>1 DEF Decide
    <3> QED
      BY <1>4, <3>1, <3>2, <3>3 DEF Resolve
  <2> QED
    BY <1>4, <2>1 DEF Resolve
<1>5. ASSUME NEW c \in Calls, Read(c) PROVE TypeOK'
  BY <1>5 DEF Read
<1>6. ASSUME NEW c \in Calls, Parse(c) PROVE TypeOK'
  <2>1. CASE Decide(c, seen[c]) /\ seen[c] \in SUBSET Entries
    <3>1. \A d \in Calls : pc'[d] = "parse" => pc[d] = "parse" /\ d # c
      BY <2>1 DEF Decide
    <3> QED
      BY <1>6, <2>1, <3>1, DecideType DEF Parse, Decide
  <2>2. CASE ~Usable(c)
    BY <1>6, <2>2 DEF Parse
  <2> QED
    BY <1>6, <2>1, <2>2 DEF Parse, Usable, Contents, At
<1>7. ASSUME NEW c \in Calls, ReadOverlays(c) PROVE TypeOK'
  BY <1>7 DEF ReadOverlays
<1>8. ASSUME NEW c \in Calls, Prepare(c) PROVE TypeOK'
  BY <1>8 DEF Prepare
<1>9. ASSUME NEW c \in Calls, Publish(c) PROVE TypeOK'
  BY <1>9, EffectType DEF Publish
<1>10. ASSUME NEW c \in Calls, Cleanup(c) PROVE TypeOK'
  BY <1>10 DEF Cleanup
<1>11. ASSUME NEW c \in Calls, Validate(c) PROVE TypeOK'
  BY <1>11 DEF Validate
<1>12. ASSUME NEW c \in Calls, Overwrite(c) PROVE TypeOK'
  <2>1. req[c].entry \in Entries
    BY DEF RegistryAssumption, RequestType
  <2>2. {Absent, Preset, {req[c].entry}} \subseteq Contents
    BY <2>1 DEF Contents
  <2> QED
    BY <1>12, <2>2 DEF Overwrite, Readings
<1>13. ASSUME NEW c \in Calls, Drop(c) PROVE TypeOK'
  BY <1>13 DEF Drop
<1>14. ASSUME NEW c \in Calls, LateEffect(c) PROVE TypeOK'
  BY <1>14, EffectType DEF LateEffect, Readings
<1>15. CASE PolicyReload
  BY <1>15 DEF PolicyReload
<1>16. CASE UNCHANGED vars
  BY <1>16 DEF vars
<1> QED
  BY <1>1, <1>2, <1>3, <1>4, <1>5, <1>6, <1>7, <1>8, <1>9, <1>10, <1>11, <1>12, <1>13,
     <1>14, <1>15, <1>16 DEF Next, Step

\* The types of the initial state.
LEMMA TypeInit == Init => TypeOK
BY DEF Init, TypeOK, Outcomes, PCs, Contents

\* The registry's variables keep their types.
THEOREM RegistryTypes == RegistryAssumption => (Spec => []TypeOK)
<1> SUFFICES ASSUME RegistryAssumption PROVE Spec => []TypeOK
  OBVIOUS
<1>1. TypeOK /\ [Next]_vars => TypeOK'
  BY TypeStep
<1> QED
  BY <1>1, TypeInit, PTL DEF Spec

(***************************************************************************)
(* Reports.                                                                *)
(***************************************************************************)

\* Where a call can be whose change has landed, is late, or has a temporary file.
Progress ==
    \A c \in Calls :
        /\ c \in late => pc[c] = "dropped"
        /\ c \in landed /\ Mutates(c) => pc[c] \in {"cleanup", "done", "dropped"}
        /\ c \in temps => pc[c] \in {"publish", "cleanup", "done", "dropped"}

\* Which requests reach which step.
Roles ==
    \A c \in Calls :
        /\ pc[c] \in {"canonical", "waiting", "prepare", "publish", "cleanup"} => Mutates(c)
        /\ pc[c] \in {"resolve", "read", "parse"} => Op(c) \in Updates \cup Readers
        /\ pc[c] = "overlays" => Op(c) \in Readers
        /\ pc[c] \in {"validate", "overwrite"} => Op(c) \in Outside

ReportInv == TypeOK /\ Roles /\ Progress /\ PublicationReported

\* Every request is one of the tools.
LEMMA RequestRoles ==
    ASSUME RegistryAssumption, TypeOK, NEW c \in Calls
    PROVE  Op(c) \in Updates \cup Inits \cup Readers \cup Outside
BY DEF RegistryAssumption, TypeOK, RequestType, Op

\* Each step of a call reports what the call has done.
LEMMA ReportStep == RegistryAssumption /\ ReportInv /\ [Next]_vars => ReportInv'
<1> DEFINE Goal == Roles' /\ Progress' /\ PublicationReported'
<1> SUFFICES ASSUME RegistryAssumption, ReportInv, [Next]_vars PROVE Goal
  BY TypeStep DEF ReportInv
<1> USE DEF ReportInv, Roles, Progress, PublicationReported, TypeOK, At, Go, End, Mutates, Op, Updates, Inits, Readers, Outside
<1>1. ASSUME NEW c \in Calls, Start(c) PROVE Goal
  BY <1>1, RequestRoles DEF Start
<1>2. ASSUME NEW c \in Calls, Canonical(c) PROVE Goal
  BY <1>2 DEF Canonical
<1>3. ASSUME NEW c \in Calls, Acquire(c) PROVE Goal
  BY <1>3 DEF Acquire
<1>4. ASSUME NEW c \in Calls, Resolve(c) PROVE Goal
  BY <1>4 DEF Resolve, Decide, Finished
<1>5. ASSUME NEW c \in Calls, Read(c) PROVE Goal
  BY <1>5 DEF Read
<1>6. ASSUME NEW c \in Calls, Parse(c) PROVE Goal
  BY <1>6 DEF Parse, Decide, Finished
<1>7. ASSUME NEW c \in Calls, ReadOverlays(c) PROVE Goal
  BY <1>7 DEF ReadOverlays
<1>8. ASSUME NEW c \in Calls, Prepare(c) PROVE Goal
  BY <1>8 DEF Prepare
<1>9. ASSUME NEW c \in Calls, Publish(c) PROVE Goal
  BY <1>9 DEF Publish, Effect, Creates
<1>10. ASSUME NEW c \in Calls, Cleanup(c) PROVE Goal
  BY <1>10 DEF Cleanup
<1>11. ASSUME NEW c \in Calls, Validate(c) PROVE Goal
  BY <1>11 DEF Validate
<1>12. ASSUME NEW c \in Calls, Overwrite(c) PROVE Goal
  BY <1>12 DEF Overwrite
<1>13. ASSUME NEW c \in Calls, Drop(c) PROVE Goal
  BY <1>13 DEF Drop, Locked, Working
<1>14. ASSUME NEW c \in Calls, LateEffect(c) PROVE Goal
  BY <1>14 DEF LateEffect, Effect
<1>15. CASE PolicyReload
  BY <1>15 DEF PolicyReload
<1>16. CASE UNCHANGED vars
  BY <1>16 DEF vars
<1> QED
  BY <1>1, <1>2, <1>3, <1>4, <1>5, <1>6, <1>7, <1>8, <1>9, <1>10, <1>11, <1>12, <1>13,
     <1>14, <1>15, <1>16 DEF Next, Step

\* A finished call has reported what it did.
LEMMA ReportInit == RegistryAssumption /\ Init => ReportInv
BY TypeInit DEF Init, ReportInv, Roles, Progress, PublicationReported, At

\* The reports are truthful whatever fails, races or is dropped.
THEOREM ReportsAreTruthful == RegistryAssumption => (Spec => []PublicationReported)
<1> SUFFICES ASSUME RegistryAssumption PROVE Spec => []PublicationReported
  OBVIOUS
<1>1. Init => ReportInv
  BY ReportInit
<1>2. ReportInv /\ [Next]_vars => ReportInv'
  BY ReportStep
<1>3. ReportInv => PublicationReported
  BY DEF ReportInv
<1> QED
  BY <1>1, <1>2, <1>3, PTL DEF Spec

(***************************************************************************)
(* Updates.                                                                *)
(***************************************************************************)
OneHolder == \A c, d \in Calls : Holds(c) /\ Holds(d) => c = d

\* An undisturbed update works on the file as it still is.
View ==
    \A c \in Calls : Op(c) \in Updates /\ c \notin disturbed =>
        /\ pc[c] = "parse" => seen[c] = file
        /\ pc[c] \in {"prepare", "publish"} =>
             Current # Preset /\ seen[c] = After(c, Current)

UpdateInv == ReportInv /\ OneHolder /\ View

\* Only the acquisition makes a holder, and only when there is none.
LEMMA HolderStep == RegistryAssumption /\ UpdateInv /\ [Next]_vars => OneHolder'
<1> SUFFICES ASSUME RegistryAssumption, UpdateInv, [Next]_vars PROVE OneHolder'
  OBVIOUS
<1> USE DEF UpdateInv, ReportInv, TypeOK, OneHolder, Holds, Locked, Working, At, Go, End, Mutates, Op
<1>1. ASSUME NEW c \in Calls, Acquire(c) PROVE OneHolder'
  BY <1>1 DEF Acquire
<1>2. ASSUME \A c \in Calls : Holds(c)' => Holds(c) PROVE OneHolder'
  BY <1>2
<1>3. ASSUME NEW c \in Calls, Start(c) PROVE OneHolder'
  <2>1. \A d \in Calls : Holds(d)' => Holds(d)
    BY <1>3 DEF Start, Updates, Inits, Readers
  <2> QED
    BY <1>2, <2>1
<1>4. ASSUME NEW c \in Calls, ~Start(c), ~Acquire(c), Step(c) PROVE OneHolder'
  <2>1. \A d \in Calls : Holds(d)' => Holds(d)
    BY <1>4 DEF Step, Canonical, Resolve, Read, Parse, Decide, ReadOverlays, Prepare, Publish,
                Cleanup, Validate, Overwrite
  <2> QED
    BY <1>2, <2>1
<1>5. ASSUME NEW c \in Calls, Drop(c) \/ LateEffect(c) PROVE OneHolder'
  BY <1>2, <1>5 DEF Drop, LateEffect
<1>6. CASE PolicyReload \/ UNCHANGED vars
  BY <1>2, <1>6 DEF PolicyReload, vars
<1> QED
  BY <1>1, <1>3, <1>4, <1>5, <1>6 DEF Next

\* A step that leaves the file and every other call alone leaves their views alone.
LEMMA OthersView ==
    ASSUME RegistryAssumption, UpdateInv, NEW c \in Calls, UNCHANGED <<req, file>>,
           \A d \in Calls \ {c} : pc'[d] = pc[d] /\ seen'[d] = seen[d]
                                 /\ (d \in disturbed => d \in disturbed'),
           Op(c) \in Updates /\ c \notin disturbed' =>
               /\ pc'[c] = "parse" => seen'[c] = file
               /\ pc'[c] \in {"prepare", "publish"} =>
                    Current # Preset /\ seen'[c] = After(c, Current)
    PROVE  View'
<1>1. Current' = Current
  BY DEF Current
<1>2. \A d \in Calls : Op(d)' = Op(d) /\ After(d, Current)' = After(d, Current)
  BY <1>1 DEF Op, After, Others
<1> QED
  BY <1>1, <1>2 DEF View, UpdateInv

\* A step that changes the file without the lock marks every call that has read it.
LEMMA DisturbingView ==
    ASSUME UpdateInv, NEW c \in Calls, UNCHANGED <<req, seen>>,
           pc'[c] \notin Working, \A d \in Calls \ {c} : pc'[d] = pc[d],
           disturbed' = disturbed \cup Readings(c)
    PROVE  View'
BY DEF View, Readings, Working, Op

\* Every step keeps the views right.
LEMMA ViewStep == RegistryAssumption /\ UpdateInv /\ [Next]_vars => View'
<1> SUFFICES ASSUME RegistryAssumption, UpdateInv, [Next]_vars PROVE View'
  OBVIOUS
<1> USE DEF At, Go, End
<1>0. TypeOK /\ Roles /\ Progress /\ OneHolder /\ View
  BY DEF UpdateInv, ReportInv
<1>1. ASSUME NEW c \in Calls, Start(c) PROVE View'
  BY <1>0, <1>1, OthersView DEF Start, TypeOK
<1>2. ASSUME NEW c \in Calls, Canonical(c) PROVE View'
  BY <1>0, <1>2, OthersView DEF Canonical, TypeOK
<1>3. ASSUME NEW c \in Calls, Acquire(c) PROVE View'
  <2>1. Op(c) \in Updates => pc'[c] = "resolve"
    BY <1>0, <1>3 DEF Acquire, TypeOK, Updates, Inits
  <2> QED
    BY <1>0, <1>3, <2>1, OthersView DEF Acquire, TypeOK
<1>4. ASSUME NEW c \in Calls, Resolve(c) PROVE View'
  <2>1. pc'[c] \in {"prepare", "publish"} => file = Absent /\ seen'[c] = After(c, {})
    BY <1>0, <1>4 DEF Resolve, Decide, TypeOK
  <2>2. pc'[c] # "parse"
    BY <1>0, <1>4 DEF Resolve, Decide, TypeOK
  <2>3. Absent # Preset /\ {} # Preset
    BY DEF RegistryAssumption
  <2>4. /\ \A d \in Calls \ {c} : pc'[d] = pc[d] /\ seen'[d] = seen[d]
        /\ UNCHANGED <<req, file, disturbed>>
    BY <1>0, <1>4 DEF Resolve, Decide, TypeOK
  <2> QED
    BY <2>1, <2>2, <2>3, <2>4, OthersView DEF Current
<1>5. ASSUME NEW c \in Calls, Read(c) PROVE View'
  BY <1>0, <1>5, OthersView DEF Read, TypeOK
<1>6. ASSUME NEW c \in Calls, Parse(c) PROVE View'
  <2>1. pc'[c] \in {"prepare", "publish"} => Usable(c) /\ seen'[c] = After(c, seen[c])
    BY <1>0, <1>6 DEF Parse, Decide, TypeOK
  <2>2. seen[c] # Absent
    BY <1>0, <1>6 DEF Parse, TypeOK
  <2>3. Op(c) \in Updates /\ c \notin disturbed => seen[c] = file
    BY <1>0, <1>6 DEF Parse, View
  <2>4. /\ \A d \in Calls \ {c} : pc'[d] = pc[d] /\ seen'[d] = seen[d]
        /\ UNCHANGED <<req, file, disturbed>> /\ pc'[c] # "parse"
    BY <1>0, <1>6 DEF Parse, Decide, TypeOK
  <2> QED
    BY <2>1, <2>2, <2>3, <2>4, OthersView DEF Current, Usable
<1>7. ASSUME NEW c \in Calls, ReadOverlays(c) PROVE View'
  BY <1>0, <1>7, OthersView DEF ReadOverlays, TypeOK
<1>8. ASSUME NEW c \in Calls, Prepare(c) PROVE View'
  BY <1>0, <1>8, OthersView DEF Prepare, TypeOK, View
<1>9. ASSUME NEW c \in Calls, Publish(c) PROVE View'
  <2>1. Holds(c)
    BY <1>0, <1>9 DEF Publish, Roles, Holds, Locked, Working
  <2>2. \A d \in Calls : Op(d) \in Updates /\ pc[d] \in Locked => d = c
    BY <1>0, <2>1 DEF OneHolder, Holds, Mutates
  <2>3. pc'[c] = "cleanup" /\ UNCHANGED <<req, seen, disturbed>> /\ \A d \in Calls \ {c} : pc'[d] = pc[d]
    BY <1>0, <1>9 DEF Publish, TypeOK
  <2> QED
    BY <2>2, <2>3 DEF View, Op, Locked, Working
<1>10. ASSUME NEW c \in Calls, Cleanup(c) PROVE View'
  BY <1>0, <1>10, OthersView DEF Cleanup, TypeOK
<1>11. ASSUME NEW c \in Calls, Validate(c) PROVE View'
  BY <1>0, <1>11, OthersView DEF Validate, TypeOK
<1>12. ASSUME NEW c \in Calls, Overwrite(c) PROVE View'
  BY <1>0, <1>12, DisturbingView DEF Overwrite, TypeOK, Working
<1>13. ASSUME NEW c \in Calls, Drop(c) PROVE View'
  BY <1>0, <1>13, OthersView DEF Drop, TypeOK
<1>14. ASSUME NEW c \in Calls, LateEffect(c) PROVE View'
  <2>1. pc'[c] \notin Working /\ UNCHANGED <<pc, req, seen>>
    BY <1>0, <1>14 DEF LateEffect, Progress, Working
  <2>2. CASE disturbed' = disturbed \cup Readings(c)
    BY <2>1, <2>2, DisturbingView
  <2>3. CASE UNCHANGED <<file, disturbed>>
    BY <2>1, <2>3, OthersView, <1>0 DEF Working
  <2> QED
    BY <1>14, <2>2, <2>3 DEF LateEffect
<1>15. CASE PolicyReload \/ UNCHANGED vars
  BY <1>0, <1>15 DEF PolicyReload, vars, View, Current, Op, After, Others
<1> QED
  BY <1>1, <1>2, <1>3, <1>4, <1>5, <1>6, <1>7, <1>8, <1>9, <1>10, <1>11, <1>12, <1>13,
     <1>14, <1>15 DEF Next, Step

LEMMA UpdateInvariant == ASSUME RegistryAssumption PROVE Spec => []UpdateInv
<1>1. Init => UpdateInv
  BY ReportInit DEF Init, UpdateInv, OneHolder, View, Holds, Locked, Working
<1>2. UpdateInv /\ [Next]_vars => UpdateInv'
  BY ReportStep, HolderStep, ViewStep DEF UpdateInv
<1> QED BY <1>1, <1>2, PTL DEF Spec

\* The file changes for a call when it publishes, when a note tool writes, or late.
LEMMA Landing ==
    ASSUME UpdateInv, [Next]_vars, NEW c \in landed' \ landed
    PROVE  c \in Calls /\ (Publish(c) \/ Overwrite(c) \/ LateEffect(c))
<1>1. PICK d \in Calls : Publish(d) \/ Overwrite(d) \/ LateEffect(d)
  BY DEF Next, Step, Start, Canonical, Acquire, Resolve, Read, Parse, ReadOverlays, Prepare,
         Cleanup, Validate, Drop, PolicyReload, vars
<1>2. d = c
  BY <1>1 DEF Publish, Overwrite, LateEffect, Effect
<1> QED BY <1>1, <1>2

\* No registration or removal made under the lock is lost to another.
THEOREM NoRegistrationLost == ASSUME RegistryAssumption PROVE Spec => RegistryUpdatesAtomic
<1>1. ASSUME UpdateInv, [Next]_vars PROVE UpdatesTheCurrent
  <2> SUFFICES ASSUME NEW c \in landed' \ (landed \cup disturbed \cup late), Op(c) \in Updates
               PROVE  Current # Preset /\ file' = After(c, Current)
    BY DEF UpdatesTheCurrent
  <2>1. c \in Calls
    BY <1>1, Landing
  <2>2. Publish(c) \/ Overwrite(c) \/ LateEffect(c)
    BY <1>1, Landing
  <2>3. ~Overwrite(c)
    BY <1>1, <2>1, <2>2 DEF Overwrite, At, UpdateInv, ReportInv, Roles, Updates, Outside
  <2>4. Publish(c) /\ Effect(c)
    BY <2>2, <2>3 DEF Publish, LateEffect
  <2>5. file' = seen[c]
    BY <2>4 DEF Effect, Text, Updates, Inits
  <2> QED
    BY <1>1, <2>1, <2>4, <2>5 DEF UpdateInv, View, Publish, At
<1> QED
  BY <1>1, UpdateInvariant, PTL DEF Spec, RegistryUpdatesAtomic

\* framework_init in mode create replaces nothing: the hard link that publishes its file,
\* also for a dropped call, fails where there is one.
THEOREM InitReplacesNothing == ASSUME RegistryAssumption PROVE Spec => InitNeverReplaces
<1>1. ASSUME UpdateInv, [Next]_vars PROVE InitsNothingThere
  <2> SUFFICES ASSUME NEW c \in landed' \ landed, Creates(c) PROVE file = Absent
    BY DEF InitsNothingThere
  <2>1. c \in Calls /\ (Publish(c) \/ Overwrite(c) \/ LateEffect(c))
    BY <1>1, Landing
  <2>2. ~Overwrite(c)
    BY <1>1, <2>1 DEF Overwrite, At, UpdateInv, ReportInv, Roles, Creates, Outside
  <2>3. Effect(c)
    BY <2>1, <2>2 DEF Publish, LateEffect
  <2> QED BY <2>3 DEF Effect
<1> QED BY <1>1, UpdateInvariant, PTL DEF Spec, InitNeverReplaces

(***************************************************************************)
(* The refinement of AtomicRegistry.  A call is answered when it is done,  *)
(* its one change comes before that, and what it is about to write has its *)
(* own change in it, whatever has become of the file meanwhile.            *)
(***************************************************************************)
Unanswered == \A c \in Calls : pc[c] # "done" => outcome[c] = "none"

LandedOnce ==
    /\ \A c \in landed : pc[c] \in {"cleanup", "done", "dropped"} /\ c \notin late
    /\ \A c \in late : Mutates(c)

Shaped ==
    \A c \in Calls : Op(c) \in Updates /\ (pc[c] \in {"prepare", "publish"} \/ c \in late) =>
        seen[c] # Preset /\ seen[c] = After(c, seen[c])

AtomicInv == UpdateInv /\ Unanswered /\ LandedOnce /\ Shaped

\* Making the change of a call twice is making it once.
LEMMA AfterTwice ==
    ASSUME NEW c \in Calls, NEW es, Op(c) \in Updates
    PROVE  After(c, After(c, es)) = After(c, es)
<1>1. Others(c, Others(c, es)) = Others(c, es)
  BY DEF Others
<1>2. Others(c, Others(c, es) \cup {req[c].entry}) = Others(c, es)
  BY DEF Others
<1> QED BY <1>1, <1>2 DEF After, Updates

\* A call is decided on the registrations es.
LEMMA DecideShaped ==
    ASSUME RegistryAssumption, TypeOK, NEW c \in Calls, NEW es \in SUBSET Entries, Decide(c, es),
           Op(c) \in Updates
    PROVE  seen'[c] # Preset /\ seen'[c] = After(c, seen'[c])
<1>1. seen'[c] = After(c, es)
  BY DEF Decide, TypeOK
<1>2. After(c, es) # Preset
  BY AfterType DEF RegistryAssumption
<1> QED BY <1>1, <1>2, AfterTwice

\* Every step keeps what a call is about to write in shape.
LEMMA ShapedStep == RegistryAssumption /\ AtomicInv /\ [Next]_vars => Shaped'
<1> SUFFICES ASSUME RegistryAssumption, AtomicInv, [Next]_vars PROVE Shaped'
  OBVIOUS
<1>0. TypeOK /\ Roles /\ Progress /\ Shaped
  BY DEF AtomicInv, UpdateInv, ReportInv
<1> DEFINE Right(d) == Op(d) \in Updates => seen'[d] # Preset /\ seen'[d] = After(d, seen'[d])
<1>1. ASSUME UNCHANGED req,
             \A d \in Calls : seen'[d] = seen[d] \/ Right(d) \/ (pc'[d] = "parse" /\ d \notin late'),
             \A d \in Calls : pc'[d] \in {"prepare", "publish"} /\ Op(d) \in Updates =>
                                pc[d] \in {"prepare", "publish"} \/ Right(d),
             \A d \in late' : d \in late \/ pc[d] = "publish"
      PROVE  Shaped'
  BY <1>0, <1>1 DEF Shaped, Op, After, Others
<1> USE DEF At, Go, End
<1>2. ASSUME NEW c \in Calls, Step(c), ~Resolve(c), ~Parse(c) PROVE Shaped'
  <2>1. UNCHANGED <<req, late>> /\ \A d \in Calls : seen'[d] = seen[d] \/ pc'[d] = "parse"
    BY <1>0, <1>2 DEF Step, Start, Canonical, Acquire, Read, ReadOverlays, Prepare, Publish, Cleanup, Validate,
                      Overwrite, TypeOK
  <2>2. \A d \in Calls : pc'[d] \in {"prepare", "publish"} /\ Op(d) \in Updates => pc[d] \in {"prepare", "publish"}
    BY <1>0, <1>2 DEF Step, Start, Canonical, Acquire, Read, ReadOverlays, Prepare, Publish, Cleanup, Validate,
                      Overwrite, TypeOK, Updates, Inits
  <2>3. \A d \in Calls : pc'[d] = "parse" => d \notin late
    BY <1>0, <1>2 DEF Step, Start, Canonical, Acquire, Read, ReadOverlays, Prepare, Publish, Cleanup, Validate,
                      Overwrite, TypeOK, Progress
  <2> QED BY <1>1, <2>1, <2>2, <2>3
<1>3. ASSUME NEW c \in Calls, NEW es \in SUBSET Entries, Decide(c, es), UNCHANGED <<req, late>>
      PROVE  Shaped'
  <2>1. Right(c)
    BY <1>0, <1>3, DecideShaped
  <2>2. \A d \in Calls : d # c => seen'[d] = seen[d] /\ pc'[d] = pc[d]
    BY <1>0, <1>3 DEF Decide, TypeOK
  <2> QED BY <1>1, <1>3, <2>1, <2>2
<1>4. ASSUME NEW c \in Calls, Resolve(c) PROVE Shaped'
  <2>1. CASE Decide(c, {})
    BY <1>3, <1>4, <2>1 DEF Resolve
  <2>2. CASE UNCHANGED seen /\ pc' \in {[pc EXCEPT ![c] = "done"], [pc EXCEPT ![c] = "read"]}
    BY <1>0, <1>1, <1>4, <2>2 DEF Resolve, TypeOK
  <2> QED BY <1>4, <2>1, <2>2 DEF Resolve
<1>5. ASSUME NEW c \in Calls, Parse(c) PROVE Shaped'
  <2>1. CASE Usable(c) /\ Decide(c, seen[c])
    <3>1. seen[c] \in SUBSET Entries
      BY <1>0, <1>5, <2>1 DEF Parse, Usable, TypeOK, Contents
    <3> QED BY <1>3, <1>5, <2>1, <3>1 DEF Parse
  <2>2. CASE UNCHANGED seen /\ pc' = [pc EXCEPT ![c] = "done"]
    BY <1>0, <1>1, <1>5, <2>2 DEF Parse, TypeOK
  <2> QED BY <1>5, <2>1, <2>2 DEF Parse
<1>6. ASSUME NEW c \in Calls, Drop(c) PROVE Shaped'
  BY <1>0, <1>1, <1>6 DEF Drop, TypeOK
<1>7. ASSUME NEW c \in Calls, LateEffect(c) PROVE Shaped'
  BY <1>0, <1>1, <1>7 DEF LateEffect
<1>8. CASE PolicyReload \/ UNCHANGED vars
  BY <1>0, <1>1, <1>8 DEF PolicyReload, vars
<1> QED BY <1>2, <1>4, <1>5, <1>6, <1>7, <1>8 DEF Next

\* A call changes the file at most once, and is answered when it is done.
LEMMA LandedOnceStep == AtomicInv /\ [Next]_vars => Unanswered' /\ LandedOnce'
<1> SUFFICES ASSUME AtomicInv, [Next]_vars PROVE Unanswered' /\ LandedOnce'
  OBVIOUS
<1>0. TypeOK /\ Progress /\ Unanswered /\ LandedOnce
  BY DEF AtomicInv, UpdateInv, ReportInv
<1> USE DEF At, Go, End, Mutates, Op
<1>1. ASSUME NEW c \in Calls, Publish(c) PROVE Unanswered' /\ LandedOnce'
  BY <1>0, <1>1 DEF Publish, Effect, Unanswered, LandedOnce, Progress, TypeOK
<1>2. ASSUME NEW c \in Calls, Overwrite(c) PROVE Unanswered' /\ LandedOnce'
  BY <1>0, <1>2 DEF Overwrite, Unanswered, LandedOnce, Progress, TypeOK
<1>3. ASSUME NEW c \in Calls, Step(c), ~Publish(c), ~Overwrite(c) PROVE Unanswered' /\ LandedOnce'
  BY <1>0, <1>3 DEF Step, Start, Canonical, Acquire, Resolve, Read, Parse, Decide, ReadOverlays, Prepare, Cleanup,
                    Validate, Unanswered, LandedOnce, TypeOK
<1>4. ASSUME NEW c \in Calls, Drop(c) PROVE Unanswered' /\ LandedOnce'
  <2>1. pc[c] = "publish" => Mutates(c)
    BY DEF AtomicInv, UpdateInv, ReportInv, Roles
  <2> QED BY <1>0, <1>4, <2>1 DEF Drop, Unanswered, LandedOnce, TypeOK, Locked, Working
<1>5. ASSUME NEW c \in Calls, LateEffect(c) PROVE Unanswered' /\ LandedOnce'
  BY <1>0, <1>5 DEF LateEffect, Effect, Unanswered, LandedOnce, Progress, TypeOK
<1>6. CASE PolicyReload \/ UNCHANGED vars
  BY <1>0, <1>6 DEF PolicyReload, vars, Unanswered, LandedOnce
<1> QED BY <1>1, <1>2, <1>3, <1>4, <1>5, <1>6 DEF Next

LEMMA AtomicInvariant == ASSUME RegistryAssumption PROVE Spec => []AtomicInv
<1>1. Init => Unanswered /\ LandedOnce /\ Shaped
  BY DEF Init, Unanswered, LandedOnce, Shaped
<1>2. UpdateInv /\ Unanswered /\ LandedOnce /\ Shaped /\ [Next]_vars => Unanswered' /\ LandedOnce' /\ Shaped'
  BY ShapedStep, LandedOnceStep DEF AtomicInv
<1>3. UpdateInv /\ Unanswered /\ LandedOnce /\ Shaped => AtomicInv
  BY DEF AtomicInv
<1> QED BY <1>1, <1>2, <1>3, UpdateInvariant, PTL DEF Spec

\* What AtomicRegistry says in its own words.
LEMMA AtomicWords ==
    /\ Atomic!Registered = Current
    /\ \A c \in Calls : \A es : Op(c) \in Updates => Atomic!Updated(c, es) = After(c, es)
    /\ \A c \in Calls : Atomic!Op(c) = Op(c)
<1>1. \A c, es : Atomic!Others(c, es) = Others(c, es)
  BY DEF Atomic!Others, Others
<1> QED BY <1>1 DEF Atomic!Registered, Current, Atomic!Updated, After, Updates, Atomic!Op, Op

LEMMA AtomicStep == RegistryAssumption /\ AtomicInv /\ [Next]_vars => ActsAtomically
<1> SUFFICES ASSUME RegistryAssumption, AtomicInv, [Next]_vars PROVE [Atomic!Next]_(Atomic!vars)
  BY DEF ActsAtomically
<1>0. TypeOK /\ Roles /\ Progress /\ View /\ Unanswered /\ LandedOnce /\ Shaped
  BY DEF AtomicInv, UpdateInv, ReportInv
<1> DEFINE Goal == [Atomic!Next]_(Atomic!vars)
<1>1. UNCHANGED <<req, outcome, file, landed, disturbed, late>> => Goal
  BY DEF Atomic!vars
<1>2. ASSUME NEW c \in Calls, pc[c] # "done",
             outcome' = [outcome EXCEPT ![c] = IF c \in landed THEN "unclean" ELSE "error"],
             UNCHANGED <<req, file, landed, late>>, disturbed' \in {disturbed, disturbed \ {c}}, c \notin late
      PROVE  Goal
  BY <1>0, <1>2 DEF Atomic!Next, Atomic!Refuse, Atomic!Answer, Unanswered
<1>3. ASSUME NEW c \in Calls, pc[c] # "done", outcome' = [outcome EXCEPT ![c] = "ok"],
             UNCHANGED <<req, file, landed, late, disturbed>>,
             Op(c) \in Readers \/ c \in landed \/ Atomic!NothingToRemove(c)
      PROVE  Goal
  BY <1>0, <1>3, AtomicWords DEF Atomic!Next, Atomic!Accept, Atomic!Answer, Unanswered, Readers
<1>4. ASSUME NEW c \in Calls, Effect(c), Mutates(c), pc[c] # "done", c \notin landed, UNCHANGED <<req, outcome>>,
             IF c \in disturbed \cup late
                THEN (disturbed \cup late) \ {c} \subseteq disturbed' \cup late'
                ELSE UNCHANGED <<disturbed, late>>,
             Op(c) \in Updates => IF c \in disturbed \cup late
                                     THEN seen[c] # Preset /\ seen[c] = After(c, seen[c])
                                     ELSE Current # Preset /\ seen[c] = After(c, Current)
      PROVE  Goal
  <2>1. Atomic!Land(c) /\ Atomic!Overtakes(c)
    BY <1>0, <1>4 DEF Atomic!Land, Atomic!Overtakes, Effect, Unanswered
  <2>2. CASE Op(c) \in Inits
    <3>1. file' = Preset /\ (Op(c) = "init_create" => file = Absent)
      BY <1>4, <2>2 DEF Effect, Text, Creates
    <3>2. Atomic!Initialise(c)
      BY <1>4, <2>1, <2>2, <3>1, AtomicWords DEF Atomic!Initialise, Inits
    <3> QED BY <3>2 DEF Atomic!Next
  <2>3. CASE Op(c) \in Updates
    <3>1. file' = seen[c]
      BY <1>4, <2>3 DEF Effect, Text, Updates, Inits
    <3>2. CASE c \in disturbed \cup late
      <4>1. Atomic!StaleUpdate(c)
        BY <1>4, <2>1, <2>3, <3>1, <3>2, AtomicWords DEF Atomic!StaleUpdate, Updates
      <4> QED BY <4>1 DEF Atomic!Next
    <3>3. CASE c \notin disturbed \cup late
      <4>1. Atomic!Update(c)
        BY <1>4, <2>1, <2>3, <3>1, <3>3, AtomicWords DEF Atomic!Update, Updates
      <4> QED BY <4>1 DEF Atomic!Next
    <3> QED BY <3>2, <3>3
  <2> QED BY <1>4, <2>2, <2>3 DEF Mutates
<1> USE DEF At, Go, End
<1>5. ASSUME NEW c \in Calls, Start(c) \/ Canonical(c) \/ Acquire(c) \/ Prepare(c) \/ Validate(c) PROVE Goal
  <2>1. c \notin late /\ pc[c] # "done" /\ c \notin landed
    BY <1>0, <1>5 DEF Start, Canonical, Acquire, Prepare, Validate, Progress, LandedOnce
  <2> QED BY <1>1, <1>2, <1>5, <2>1 DEF Start, Canonical, Acquire, Prepare, Validate
<1>6. ASSUME NEW c \in Calls, NEW es \in SUBSET Entries, Decide(c, es), pc[c] # "done",
             UNCHANGED <<req, file, landed, late, disturbed>>, c \in disturbed \/ (Current # Preset /\ es = Current)
      PROVE  Goal
  <2>1. CASE ~Finished(c, es)
    BY <1>1, <1>6, <2>1 DEF Decide
  <2>2. CASE Finished(c, es)
    <3>1. Op(c) = "unregister" /\ Others(c, es) = es => After(c, es) = es
      BY DEF After
    <3>2. Op(c) \in Readers \/ Atomic!NothingToRemove(c)
      BY <1>6, <2>2, <3>1, AtomicWords DEF Finished, Readers, Atomic!NothingToRemove, Updates
    <3> QED BY <1>3, <1>6, <2>2, <3>2 DEF Decide
  <2> QED BY <2>1, <2>2
<1>7. ASSUME NEW c \in Calls, Resolve(c) PROVE Goal
  <2>1. /\ c \notin late /\ pc[c] # "done" /\ c \notin landed
        /\ UNCHANGED <<req, file, landed, late, disturbed>>
    BY <1>0, <1>7 DEF Resolve, Progress, LandedOnce
  <2>2. CASE Decide(c, {}) /\ file = Absent
    <3>1. Current = {} /\ {} # Preset
      BY <2>2 DEF Current, RegistryAssumption
    <3> QED BY <1>6, <2>1, <2>2, <3>1
  <2> QED BY <1>1, <1>2, <1>7, <2>1, <2>2 DEF Resolve
<1>8. ASSUME NEW c \in Calls, Read(c) PROVE Goal
  <2>1. c \notin late /\ pc[c] # "done" /\ c \notin landed
    BY <1>0, <1>8 DEF Read, Progress, LandedOnce
  <2>2. CASE UNCHANGED outcome
    <3>1. Atomic!Refresh(c)
      BY <1>8, <2>1, <2>2 DEF Read, Atomic!Refresh
    <3> QED BY <3>1 DEF Atomic!Next
  <2>3. CASE outcome' = [outcome EXCEPT ![c] = "error"]
    BY <1>2, <1>8, <2>1, <2>3 DEF Read
  <2> QED BY <1>8, <2>2, <2>3 DEF Read
<1>9. ASSUME NEW c \in Calls, Parse(c) PROVE Goal
  <2>1. /\ c \notin late /\ pc[c] # "done" /\ c \notin landed /\ seen[c] # Absent
        /\ UNCHANGED <<req, file, landed, late, disturbed>>
    BY <1>0, <1>9 DEF Parse, Progress, LandedOnce, TypeOK
  <2>2. CASE Usable(c) /\ Decide(c, seen[c]) /\ Op(c) \in Updates
    <3>1. seen[c] \in SUBSET Entries
      BY <1>0, <2>1, <2>2 DEF Usable, TypeOK, Contents
    <3>2. c \notin disturbed => seen[c] = file
      BY <1>0, <1>9, <2>2 DEF Parse, View
    <3>3. c \in disturbed \/ (Current # Preset /\ seen[c] = Current)
      BY <2>1, <2>2, <3>2 DEF Usable, Current
    <3> QED BY <1>6, <2>1, <2>2, <3>1, <3>3
  <2>3. CASE Usable(c) /\ Decide(c, seen[c]) /\ Op(c) \in Readers
    BY <1>1, <1>3, <2>1, <2>3 DEF Decide
  <2>4. CASE outcome' = [outcome EXCEPT ![c] = "error"]
    BY <1>2, <2>1, <2>4
  <2> QED BY <1>0, <1>9, <2>2, <2>3, <2>4 DEF Parse, Roles
<1>10. ASSUME NEW c \in Calls, ReadOverlays(c) PROVE Goal
  <2>1. c \notin late /\ pc[c] # "done" /\ c \notin landed /\ Op(c) \in Readers
    BY <1>0, <1>10 DEF ReadOverlays, Progress, LandedOnce, Roles
  <2> QED BY <1>2, <1>3, <1>10, <2>1 DEF ReadOverlays
<1>11. ASSUME NEW c \in Calls, Publish(c) PROVE Goal
  <2>1. /\ c \notin late /\ pc[c] # "done" /\ Mutates(c) /\ c \notin landed
        /\ UNCHANGED <<req, outcome, late, disturbed>>
    BY <1>0, <1>11 DEF Publish, Progress, Roles, LandedOnce
  <2>2. Op(c) \in Updates => IF c \in disturbed \cup late
                                THEN seen[c] # Preset /\ seen[c] = After(c, seen[c])
                                ELSE Current # Preset /\ seen[c] = After(c, Current)
    BY <1>0, <1>11 DEF Publish, View, Shaped
  <2> QED BY <1>1, <1>4, <1>11, <2>1, <2>2 DEF Publish
<1>12. ASSUME NEW c \in Calls, Cleanup(c) PROVE Goal
  <2>1. c \notin late /\ pc[c] # "done"
    BY <1>0, <1>12 DEF Cleanup, Progress
  <2> QED BY <1>2, <1>3, <1>12, <2>1 DEF Cleanup
<1>13. ASSUME NEW c \in Calls, Overwrite(c) PROVE Goal
  <2>1. outcome[c] = "none" /\ c \notin landed /\ Op(c) = "note_write"
    BY <1>0, <1>13 DEF Overwrite, Unanswered, LandedOnce, Roles, Outside
  <2>2. Atomic!NoteTool(c)
    BY <1>13, <2>1, AtomicWords DEF Overwrite, Atomic!NoteTool, Atomic!Land
  <2> QED BY <2>2 DEF Atomic!Next
<1>14. ASSUME NEW c \in Calls, Drop(c) PROVE Goal
  <2>1. c \in Droppable /\ outcome[c] = "none" /\ UNCHANGED <<req, outcome, file, landed, disturbed>>
    BY <1>0, <1>14 DEF Drop, Unanswered, Locked, Working
  <2>2. CASE late' = late \cup {c}
    BY <2>1, <2>2 DEF Atomic!Next, Atomic!Abandon
  <2> QED BY <1>1, <1>14, <2>1, <2>2 DEF Drop
<1>15. ASSUME NEW c \in Calls, LateEffect(c) PROVE Goal
  <2>1. /\ c \in late /\ late' = late \ {c} /\ pc[c] # "done" /\ Mutates(c) /\ c \notin landed
        /\ UNCHANGED <<req, outcome>>
    BY <1>0, <1>15 DEF LateEffect, Progress, LandedOnce
  <2>2. CASE Effect(c) /\ disturbed' = disturbed \cup Readings(c)
    <3>1. Op(c) \in Updates => seen[c] # Preset /\ seen[c] = After(c, seen[c])
      BY <1>0, <2>1 DEF Shaped
    <3> QED BY <1>4, <2>1, <2>2, <3>1
  <2>3. CASE UNCHANGED <<file, temps, landed, disturbed>>
    <3>1. c \notin disturbed => Atomic!Refresh(c)
      BY <2>1, <2>3 DEF Atomic!Refresh
    <3>2. c \in disturbed => UNCHANGED Atomic!vars
      BY <2>1, <2>3 DEF Atomic!vars
    <3> QED BY <3>1, <3>2 DEF Atomic!Next
  <2> QED BY <1>15, <2>2, <2>3 DEF LateEffect
<1>16. CASE PolicyReload \/ UNCHANGED vars
  BY <1>1, <1>16 DEF PolicyReload, vars
<1> QED
  BY <1>5, <1>7, <1>8, <1>9, <1>10, <1>11, <1>12, <1>13, <1>14, <1>15, <1>16 DEF Next, Step

\* The registry tools implement AtomicRegistry through I/O errors, policy reloads, note
\* tools and dropped calls: whatever happens between the steps of a call, it changes the
\* registry in one of them, as its request says, or not at all (registrations,
\* write_metadata).
THEOREM RegistryIsLinearizable == ASSUME RegistryAssumption PROVE Spec => ImplementsAtomicRegistry
<1>1. Init => Atomic!Init
  <2>1. ASSUME Init PROVE file # Preset
    BY <2>1 DEF Init, RegistryAssumption
  <2> QED BY <2>1 DEF Init, Atomic!Init
<1>2. AtomicInv /\ [Next]_vars => ActsAtomically
  BY AtomicStep
<1> QED BY <1>1, <1>2, AtomicInvariant, PTL DEF Spec, ImplementsAtomicRegistry

=============================================================================
