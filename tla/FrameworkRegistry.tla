------------------------- MODULE FrameworkRegistry -------------------------
(***************************************************************************)
(* The overlay registry _meta/schemas.json: framework_register,            *)
(* framework_unregister, framework_init, and the tools that only read it   *)
(* (src/framework/mod.rs), with the publication of src/framework/          *)
(* metadata.rs.  Every mutation is a read-modify-write of the whole file   *)
(* under registry_lock.  The note tools can write the same file under the  *)
(* writer's locks instead, and a skill reload can hide paths meanwhile.    *)
(*                                                                         *)
(* The file is its set of registrations: their order in it is that of a    *)
(* sort on every save.  A preset written over it is not registry JSON.     *)
(***************************************************************************)

CONSTANTS
    Calls,        \* the tool calls that are ever issued
    Droppable,    \* those whose future may be dropped
    Overlays,     \* paths of overlay schemas
    RegistryPath, \* _meta/schemas.json
    Names,        \* registration names
    Requests,     \* the requests calls may carry
    Absent,       \* there is no registry file
    Preset,       \* the registry file holds a preset schema
    Environment   \* which of EnvironmentEvents happen

EnvironmentEvents == {"io", "reload"}
Entries == [name: Names, path: Overlays]
Contents == (SUBSET Entries) \cup {Absent, Preset}
Updates == {"register", "unregister"}
Inits == {"init_create", "init_overwrite"}
Readers == {"list", "reload", "compose"}
Outside == {"note_write"}
RequestType == [op: Updates \cup Inits \cup Readers \cup Outside, entry: Entries]

RegistryAssumption ==
    /\ Absent # Preset /\ \A es \in SUBSET Entries : es # Absent /\ es # Preset
    /\ Requests \subseteq RequestType /\ Droppable \subseteq Calls
    /\ RegistryPath \notin Overlays
    /\ Environment \subseteq EnvironmentEvents

VARIABLES
    pc, req, outcome,
    seen,       \* the content a call has read, then what it will write
    file,       \* _meta/schemas.json
    temps,      \* calls whose .framework-*.tmp is on disk
    blocked,    \* the paths the policy hides
    late,       \* dropped calls whose rename or link is still to happen
    landed,     \* history: calls that have changed the file
    disturbed   \* history: calls that read the file before someone without the lock changed it

vars == <<pc, req, outcome, seen, file, temps, blocked, late, landed, disturbed>>

\* An error of a call whose change stands has a text of its own ("unclean").
Outcomes == {"none", "ok", "error", "unclean"}
Working == {"read", "parse", "prepare", "publish", "cleanup"}
Locked == {"resolve"} \cup Working
PCs == {"idle", "canonical", "waiting", "overlays", "validate", "overwrite", "done", "dropped"} \cup Locked

TypeOK ==
    /\ pc \in [Calls -> PCs]
    /\ req \in [Calls -> Requests]
    /\ outcome \in [Calls -> Outcomes]
    /\ seen \in [Calls -> Contents]
    /\ \A c \in Calls : pc[c] = "parse" => seen[c] # Absent
    /\ file \in Contents
    /\ temps \subseteq Calls /\ late \subseteq Calls
    /\ blocked \subseteq Overlays \cup {RegistryPath}
    /\ landed \subseteq Calls /\ disturbed \subseteq Calls

Init ==
    /\ pc = [c \in Calls |-> "idle"]
    /\ req \in [Calls -> Requests]
    /\ outcome = [c \in Calls |-> "none"]
    /\ seen = [c \in Calls |-> Absent]
    /\ file \in {Absent} \cup {es \in SUBSET Entries : \A e, f \in es : e.name = f.name => e = f}
    /\ temps = {} /\ late = {}
    /\ blocked = {}
    /\ landed = {} /\ disturbed = {}

At(c, at) == pc[c] = at
Go(c, to) == pc' = [pc EXCEPT ![c] = to]
End(c, with) == Go(c, "done") /\ outcome' = [outcome EXCEPT ![c] = with]
Op(c) == req[c].op
Mutates(c) == Op(c) \in Updates \cup Inits
Hidden(p) == p \in blocked

\* registry_lock is held from its acquisition to the end of the call.
Holds(c) == Mutates(c) /\ pc[c] \in Locked

(***************************************************************************)
(* Start of a call                                                         *)
(***************************************************************************)
Start(c) ==
    /\ At(c, "idle")
    /\ \/ Op(c) = "register" /\ ~Hidden(req[c].entry.path) /\ Go(c, "canonical") /\ UNCHANGED outcome
       \/ Op(c) = "register" /\ Hidden(req[c].entry.path) /\ End(c, "error")
       \/ Op(c) \in Inits \cup {"unregister"} /\ Go(c, "waiting") /\ UNCHANGED outcome
       \/ Op(c) \in Readers /\ Go(c, "resolve") /\ UNCHANGED outcome
       \/ Op(c) \in Outside /\ Go(c, "validate") /\ UNCHANGED outcome
    /\ UNCHANGED <<req, seen, file, temps, blocked, late, landed, disturbed>>

\* Canonicalising the overlay path and checking the result.
Canonical(c) ==
    /\ At(c, "canonical")
    /\ \/ ~Hidden(req[c].entry.path) /\ Go(c, "waiting") /\ UNCHANGED outcome
       \/ Hidden(req[c].entry.path) /\ End(c, "error")
       \/ "io" \in Environment /\ End(c, "error")
    /\ UNCHANGED <<req, seen, file, temps, blocked, late, landed, disturbed>>

\* Slip: unregister does not take the lock.
AcquireForRegister(c) ==
    /\ At(c, "waiting") /\ (Op(c) = "unregister" \/ \A d \in Calls : ~Holds(d))
    /\ Go(c, IF Op(c) \in Inits THEN "prepare" ELSE "resolve")
    /\ UNCHANGED <<req, outcome, seen, file, temps, blocked, late, landed, disturbed>>

Acquire(c) ==
    /\ At(c, "waiting") /\ \A d \in Calls : ~Holds(d)
    /\ Go(c, IF Op(c) \in Inits THEN "prepare" ELSE "resolve")
    /\ UNCHANGED <<req, outcome, seen, file, temps, blocked, late, landed, disturbed>>

(***************************************************************************)
(* registrations() and the change a call makes to its result               *)
(***************************************************************************)
Others(c, entries) == {e \in entries : e.name # req[c].entry.name}
After(c, entries) ==
    CASE Op(c) = "register" -> Others(c, entries) \cup {req[c].entry}
      [] Op(c) = "unregister" -> Others(c, entries)
      [] OTHER -> entries

\* What follows the parsed registrations: a list ends, and so does an unregister that
\* removes nothing; the other readers go on to the overlays.
Finished(c, entries) == Op(c) = "list" \/ (Op(c) = "unregister" /\ Others(c, entries) = entries)
Decide(c, entries) ==
    /\ seen' = [seen EXCEPT ![c] = After(c, entries)]
    /\ \/ Finished(c, entries) /\ End(c, "ok")
       \/ /\ ~Finished(c, entries) /\ UNCHANGED outcome
          /\ Go(c, IF Op(c) \in Readers THEN "overlays" ELSE "prepare")

Resolve(c) ==
    /\ At(c, "resolve")
    /\ \/ Hidden(RegistryPath) /\ End(c, "error") /\ UNCHANGED seen
       \/ ~Hidden(RegistryPath) /\ file = Absent /\ Decide(c, {})
       \/ ~Hidden(RegistryPath) /\ file # Absent /\ Go(c, "read") /\ UNCHANGED <<outcome, seen>>
       \/ "io" \in Environment /\ End(c, "error") /\ UNCHANGED seen
    /\ UNCHANGED <<req, file, temps, blocked, late, landed, disturbed>>

Read(c) ==
    /\ At(c, "read")
    /\ \/ file # Absent /\ Go(c, "parse") /\ seen' = [seen EXCEPT ![c] = file] /\ UNCHANGED outcome
       \/ (file = Absent \/ "io" \in Environment) /\ End(c, "error") /\ UNCHANGED seen
    /\ disturbed' = disturbed \ {c}
    /\ UNCHANGED <<req, file, temps, blocked, late, landed>>

\* One hidden overlay path fails the whole list.
Usable(c) ==
    ~Hidden(RegistryPath) /\ seen[c] # Preset /\ \A e \in seen[c] : ~Hidden(e.path)

Parse(c) ==
    /\ At(c, "parse")
    /\ \/ ~Usable(c) /\ End(c, "error") /\ UNCHANGED seen
       \/ Usable(c) /\ Decide(c, seen[c])
    /\ UNCHANGED <<req, file, temps, blocked, late, landed, disturbed>>

\* compose fails with the first overlay it cannot read; reload reports it and goes on.
ReadOverlays(c) ==
    /\ At(c, "overlays")
    /\ \/ (Op(c) = "reload" \/ \A e \in seen[c] : ~Hidden(e.path)) /\ End(c, "ok")
       \/ Op(c) = "compose" /\ seen[c] # {} /\ End(c, "error")
    /\ UNCHANGED <<req, seen, file, temps, blocked, late, landed, disturbed>>

(***************************************************************************)
(* write_metadata                                                          *)
(***************************************************************************)
Text(c) == IF Op(c) \in Inits THEN Preset ELSE seen[c]
Creates(c) == Op(c) = "init_create"

\* The checks on path, symlinks and existence, and the temporary file.  Any of the
\* awaits may fail, before or after the temporary file is there.
Prepare(c) ==
    /\ At(c, "prepare")
    /\ \/ (Hidden(RegistryPath) \/ (Creates(c) /\ file # Absent))
          /\ End(c, "error") /\ UNCHANGED temps
       \/ "io" \in Environment /\ End(c, "error") /\ temps' \in {temps, temps \cup {c}}
       \/ ~Hidden(RegistryPath) /\ ~(Creates(c) /\ file # Absent)
          /\ temps' = temps \cup {c} /\ UNCHANGED outcome
          /\ Go(c, "publish")
    /\ UNCHANGED <<req, seen, file, blocked, late, landed, disturbed>>

\* Calls whose view of the file is gone when d changes it.
Readings(d) == {c \in Calls \ {d} : pc[c] \in Working}

\* Slip: a created file is renamed into place like any other.
EffectByRename(c) ==
    /\ file' = Text(c) /\ temps' = temps \ {c} /\ landed' = landed \cup {c}

\* A rename takes the temporary file with it, a hard link leaves it.
Effect(c) ==
    /\ ~(Creates(c) /\ file # Absent)
    /\ file' = Text(c)
    /\ temps' = IF Creates(c) THEN temps ELSE temps \ {c}
    /\ landed' = landed \cup {c}

\* The policy is checked once more, then the rename or hard link is handed to the pool.
Publish(c) ==
    /\ At(c, "publish")
    /\ Go(c, "cleanup")
    /\ \/ ~Hidden(RegistryPath) /\ Effect(c)
       \/ (Hidden(RegistryPath) \/ "io" \in Environment \/ (Creates(c) /\ file # Absent))
          /\ UNCHANGED <<file, temps, landed>>
    /\ UNCHANGED <<req, outcome, seen, blocked, late, disturbed>>

\* Slip: a failed removal of the temporary file is always ignored.
CleanupIgnored(c) ==
    /\ At(c, "cleanup")
    /\ End(c, IF c \in landed THEN "ok" ELSE "error")
    /\ temps' \in {temps \ {c}, temps}
    /\ UNCHANGED <<req, seen, file, blocked, late, landed, disturbed>>

\* A published call reports an error if the removal fails, even where the rename has
\* taken the temporary file away; only that the file is missing is no failure.
Cleanup(c) ==
    /\ At(c, "cleanup")
    /\ \/ temps' = temps \ {c} /\ End(c, IF c \in landed THEN "ok" ELSE "error")
       \/ "io" \in Environment /\ UNCHANGED temps /\ End(c, IF c \in landed THEN "unclean" ELSE "error")
    /\ UNCHANGED <<req, seen, file, blocked, late, landed, disturbed>>

(***************************************************************************)
(* What happens without the lock                                           *)
(***************************************************************************)

\* A note tool has checked the hash of the file, or that it is absent ...
Validate(c) ==
    /\ At(c, "validate")
    /\ \/ ~Hidden(RegistryPath) /\ Go(c, "overwrite") /\ UNCHANGED outcome
       \/ End(c, "error")
    /\ UNCHANGED <<req, seen, file, temps, blocked, late, landed, disturbed>>

\* ... and then replaces, creates or deletes it.
Overwrite(c) ==
    /\ At(c, "overwrite")
    /\ End(c, "ok")
    /\ file' \in {Absent, Preset, {req[c].entry}} \ {file}
    /\ landed' = landed \cup {c}
    /\ disturbed' = disturbed \cup Readings(c)
    /\ UNCHANGED <<req, seen, temps, blocked, late>>

\* A call is dropped: the lock is free, but what the pool runs goes on.
Drop(c) ==
    /\ c \in Droppable /\ pc[c] \in Locked \cup {"canonical", "waiting"}
    /\ Go(c, "dropped")
    /\ late' = IF At(c, "publish") /\ ~Hidden(RegistryPath) THEN late \cup {c} ELSE late
    /\ temps' \in IF At(c, "prepare") THEN {temps, temps \cup {c}} ELSE {temps}
    /\ UNCHANGED <<req, outcome, seen, file, blocked, landed, disturbed>>

LateEffect(c) ==
    /\ c \in late /\ late' = late \ {c}
    /\ \/ Effect(c) /\ disturbed' = disturbed \cup Readings(c)
       \/ UNCHANGED <<file, temps, landed, disturbed>>
    /\ UNCHANGED <<pc, req, outcome, seen, blocked>>

PolicyReload ==
    /\ "reload" \in Environment
    /\ blocked' \in SUBSET (Overlays \cup {RegistryPath})
    /\ UNCHANGED <<pc, req, outcome, seen, file, temps, late, landed, disturbed>>

Step(c) == Start(c) \/ Canonical(c) \/ Acquire(c) \/ Resolve(c) \/ Read(c) \/ Parse(c)
           \/ ReadOverlays(c) \/ Prepare(c) \/ Publish(c) \/ Cleanup(c) \/ Validate(c) \/ Overwrite(c)

Next == (\E c \in Calls : Step(c) \/ Drop(c) \/ LateEffect(c)) \/ PolicyReload

Spec == Init /\ [][Next]_vars

(***************************************************************************)
(* Properties                                                              *)
(***************************************************************************)

\* The registry tools implement AtomicRegistry: every change of the file is the whole
\* effect of one unanswered call on the registrations of that moment, and no answer
\* claims another, although between reading the file and renaming a new one over it a
\* call awaits many times (registrations, write_metadata).
Atomic == INSTANCE AtomicRegistry WITH stale <- disturbed \cup late
ActsAtomically == [Atomic!Next]_(Atomic!vars)
ImplementsAtomicRegistry == Atomic!Init /\ [][ActsAtomically]_vars

\* A registration or removal that takes effect changes the registrations as they are
\* at that moment by exactly its own entry, so none made under the lock is lost; a
\* writer without the lock (a note tool, a dropped call) is the one excuse.
Current == IF file = Absent THEN {} ELSE file
UpdatesTheCurrent ==
    \A c \in landed' \ (landed \cup disturbed \cup late) :
        Op(c) \in Updates => Current # Preset /\ file' = After(c, Current)
RegistryUpdatesAtomic == [][UpdatesTheCurrent]_vars

\* framework_init in mode create replaces nothing, although it looks for the file
\* long before it publishes and the lock keeps only other framework calls away.
InitsNothingThere == \A c \in landed' \ landed : Creates(c) => file = Absent
InitNeverReplaces == [][InitsNothingThere]_vars

\* What a finished call reports is what it did, through failures of every await, races
\* and drops: success means that the file was changed (or nothing was to be removed)
\* and nothing is left behind, an error that the file was not changed.  The one error
\* after a publication is that of the removal, also when the temporary file is gone
\* already (write_metadata): then the change stands.
PublicationReported ==
    \A c \in Calls : At(c, "done") /\ Mutates(c) =>
        /\ outcome[c] = "ok" => c \notin temps /\ (c \in landed \/ Op(c) = "unregister")
        /\ outcome[c] = "error" => c \notin landed
        /\ outcome[c] = "unclean" => c \in landed

\* A registered overlay that has become hidden is reported or can be removed: neither
\* framework_reload nor framework_unregister fails for a reason other than the
\* registry file itself.
HiddenOverlayHandled ==
    [][\A c \in Calls :
          At(c, "parse") /\ Op(c) \in {"reload", "unregister"} /\ outcome'[c] = "error"
          => Hidden(RegistryPath) \/ seen[c] = Preset]_vars
=============================================================================
