----------------------------- MODULE SkillReload -----------------------------
(***************************************************************************)
(* Skills and the privacy they impose: reload_skills and loaded_skills of  *)
(* src/runtime.rs, load_skills of src/skills.rs, read_note of              *)
(* src/vault/reader.rs.  A reload reads the skill maps and every note they *)
(* link to, takes the write lock of the snapshot, replaces the deny rules  *)
(* of the shared policy and then the snapshot.  Prompts read the snapshot  *)
(* under its read lock; note reads consult the policy alone, before and    *)
(* after they touch the file.  Maps and notes are edited meanwhile.        *)
(***************************************************************************)
EXTENDS Naturals

CONSTANTS
    Reloads,    \* the skills_reload calls that are ever issued
    Clients,    \* the calls that read a note or get a prompt
    Droppable,  \* the calls whose future may be dropped
    Map,        \* the configured skill map
    Paths,      \* note paths, that of the map among them
    Resolved,   \* [Paths -> Paths], where a path leads through links
    Configured, \* security.blocked_paths
    Vaults,     \* contents of the map and the skill notes
    MaxEdits,   \* bound: how often they change
    IoErrors    \* whether the file system may fail

Versions == 0..MaxEdits
\* links: the notes the map links to; readable: the paths that lead to a file;
\* valid: those that hold a valid skill.
VaultType == [links: SUBSET Paths, readable: SUBSET Paths, valid: SUBSET Paths]
Loads == [statuses: SUBSET Paths, skills: SUBSET Paths, version: Versions]

SkillAssumption ==
    /\ Map \in Paths /\ Resolved \in [Paths -> Paths] /\ Configured \subseteq Paths
    /\ Reloads \cap Clients = {} /\ Droppable \subseteq Reloads \cup Clients
    /\ Vaults \subseteq VaultType /\ MaxEdits \in Nat /\ IoErrors \in BOOLEAN

VARIABLES
    pc,
    vault,     \* the files
    edits,     \* how often they have changed
    target,    \* the note a client asks for
    todo,      \* the candidates a reload has still to read
    load,      \* what a reload has loaded
    paths,     \* the deny rules it has computed
    policy,    \* the deny rules in force
    snapshot,  \* the published skills and statuses
    got,       \* clients that were given the content of their target
    asked      \* history: the version there was when a reload was asked for

diskVars == <<vault, edits>>
vars == <<pc, diskVars, target, todo, load, paths, policy, snapshot, got, asked>>

Calls == Reloads \cup Clients
Reloading == {"map", "skills", "snapshot", "replace", "store"}
Writing == {"replace", "store"}
PCs == {"idle", "reload", "check", "content", "recheck", "prompt", "done", "dropped"} \cup Reloading

TypeOK ==
    /\ pc \in [Calls -> PCs]
    /\ vault \in Vaults /\ edits \in Versions
    /\ target \in [Clients -> Paths] /\ todo \in [Reloads -> SUBSET Paths]
    /\ load \in [Reloads -> Loads] /\ paths \in [Reloads -> SUBSET Paths]
    /\ policy \subseteq Paths /\ snapshot \in Loads
    /\ got \subseteq Clients /\ asked \in [Reloads -> Versions]

NoLoad == [statuses |-> {}, skills |-> {}, version |-> 0]

\* Slip: a candidate that is no valid skill is not made private.
RulesOfSkills(l, resolve) ==
    LET named == Configured \cup {Map} \cup l.skills
    IN named \cup {Resolved[p] : p \in named \cap resolve}
\* The configured paths, the maps, every candidate, and where those that resolve lead.
Rules(l, resolve) ==
    LET named == Configured \cup {Map} \cup l.statuses
    IN named \cup {Resolved[p] : p \in named \cap resolve}

Candidates == vault.links \ {Map}
Skills == vault.valid \cap vault.readable

\* What Runtime::create has loaded from the disk.
Init ==
    /\ pc = [c \in Calls |-> "idle"]
    /\ vault \in {v \in Vaults : Map \in v.readable} /\ edits = 0
    /\ target \in [Clients -> Paths] /\ todo = [r \in Reloads |-> {}]
    /\ load = [r \in Reloads |-> NoLoad] /\ paths = [r \in Reloads |-> {}]
    /\ snapshot = [statuses |-> Candidates, skills |-> Candidates \cap Skills, version |-> 0]
    /\ policy = Rules(snapshot, vault.readable)
    /\ got = {} /\ asked = [r \in Reloads |-> 0]

At(c, at) == pc[c] = at
Go(c, to) == pc' = [pc EXCEPT ![c] = to]
Writer == \E r \in Reloads : pc[r] \in Writing

(***************************************************************************)
(* reload_skills                                                           *)
(***************************************************************************)
Start(r) ==
    /\ At(r, "idle") /\ Go(r, "reload")
    /\ asked' = [asked EXCEPT ![r] = edits]
    /\ UNCHANGED <<diskVars, target, todo, load, paths, policy, snapshot, got>>

\* Slip: only the publication is serialised.
AcquireNothing(r) ==
    /\ At(r, "reload")
    /\ Go(r, "map")
    /\ UNCHANGED <<diskVars, target, todo, load, paths, policy, snapshot, got, asked>>

\* skill_reload is held until the reload returns.
Acquire(r) ==
    /\ At(r, "reload") /\ \A q \in Reloads : pc[q] \notin Reloading
    /\ Go(r, "map")
    /\ UNCHANGED <<diskVars, target, todo, load, paths, policy, snapshot, got, asked>>

\* An unreadable map is a status of its own; the notes it links to are unknown.
LoadMap(r) ==
    /\ At(r, "map") /\ Go(r, "skills")
    /\ \/ /\ Map \in vault.readable
          /\ todo' = [todo EXCEPT ![r] = Candidates]
          /\ load' = [load EXCEPT ![r] = [NoLoad EXCEPT !.version = edits]]
       \/ /\ Map \notin vault.readable \/ IoErrors
          /\ todo' = [todo EXCEPT ![r] = {}]
          /\ load' = [load EXCEPT ![r] = [NoLoad EXCEPT !.version = edits, !.statuses = {Map}]]
    /\ UNCHANGED <<diskVars, target, paths, policy, snapshot, got, asked>>

LoadSkill(r) ==
    /\ At(r, "skills")
    /\ \E p \in todo[r] :
          /\ todo' = [todo EXCEPT ![r] = @ \ {p}]
          /\ \E loaded \in {{p} \cap Skills} \cup (IF IoErrors THEN {{}} ELSE {}) :
                load' = [load EXCEPT ![r].statuses = @ \cup {p}, ![r].skills = @ \cup loaded]
    /\ UNCHANGED <<pc, diskVars, target, paths, policy, snapshot, got, asked>>

\* effective_paths: a path that cannot be resolved stands for itself alone.
LoadEnd(r) ==
    /\ At(r, "skills") /\ todo[r] = {} /\ Go(r, "snapshot")
    /\ \E resolve \in {vault.readable} \cup (IF IoErrors THEN {{}} ELSE {}) :
          paths' = [paths EXCEPT ![r] = Rules(load[r], resolve)]
    /\ UNCHANGED <<diskVars, target, todo, load, policy, snapshot, got, asked>>

\* The write lock: no prompt is reading the snapshot (Prompt is one step).
Lock(r) ==
    /\ At(r, "snapshot") /\ ~Writer /\ Go(r, "replace")
    /\ UNCHANGED <<diskVars, target, todo, load, paths, policy, snapshot, got, asked>>

ReplacePolicy(r) ==
    /\ At(r, "replace") /\ Go(r, "store")
    /\ policy' = paths[r]
    /\ UNCHANGED <<diskVars, target, todo, load, paths, snapshot, got, asked>>

StoreSnapshot(r) ==
    /\ At(r, "store") /\ Go(r, "done")
    /\ snapshot' = load[r]
    /\ UNCHANGED <<diskVars, target, todo, load, paths, policy, got, asked>>

(***************************************************************************)
(* Clients                                                                 *)
(***************************************************************************)
Blocked(p) == p \in policy \/ Resolved[p] \in policy

Begin(c) ==
    /\ At(c, "idle") /\ \E to \in {"check", "prompt"} : Go(c, to)
    /\ UNCHANGED <<diskVars, target, todo, load, paths, policy, snapshot, got, asked>>

\* read_note before the file is read.
Check(c) ==
    /\ At(c, "check")
    /\ Go(c, IF Blocked(target[c]) \/ target[c] \notin vault.readable THEN "done" ELSE "content")
    /\ UNCHANGED <<diskVars, target, todo, load, paths, policy, snapshot, got, asked>>

Content(c) ==
    /\ At(c, "content")
    /\ \/ target[c] \in vault.readable /\ Go(c, "recheck")
       \/ (target[c] \notin vault.readable \/ IoErrors) /\ Go(c, "done")
    /\ UNCHANGED <<diskVars, target, todo, load, paths, policy, snapshot, got, asked>>

\* Slip: the policy is not consulted again.
RecheckNothing(c) ==
    /\ At(c, "recheck") /\ Go(c, "done")
    /\ got' = got \cup {c}
    /\ UNCHANGED <<diskVars, target, todo, load, paths, policy, snapshot, asked>>

\* read_note once the file has been read.
Recheck(c) ==
    /\ At(c, "recheck") /\ Go(c, "done")
    /\ got' = IF Blocked(target[c]) THEN got ELSE got \cup {c}
    /\ UNCHANGED <<diskVars, target, todo, load, paths, policy, snapshot, asked>>

\* loaded_skills, for prompts/list and prompts/get.
Prompt(c) ==
    /\ At(c, "prompt") /\ ~Writer /\ Go(c, "done")
    /\ got' = IF target[c] \in snapshot.skills THEN got \cup {c} ELSE got
    /\ UNCHANGED <<diskVars, target, todo, load, paths, policy, snapshot, asked>>

(***************************************************************************)
(* The environment                                                         *)
(***************************************************************************)
Edit ==
    /\ edits < MaxEdits /\ edits' = edits + 1
    /\ vault' \in Vaults
    /\ UNCHANGED <<pc, target, todo, load, paths, policy, snapshot, got, asked>>

\* There is no await between the two stores.
Drop(c) ==
    /\ c \in Droppable /\ pc[c] \notin {"idle", "done", "dropped"} \cup Writing
    /\ Go(c, "dropped")
    /\ UNCHANGED <<diskVars, target, todo, load, paths, policy, snapshot, got, asked>>

Reload(r) ==
    \/ Start(r) \/ Acquire(r) \/ LoadMap(r) \/ LoadSkill(r) \/ LoadEnd(r) \/ Lock(r)
    \/ ReplacePolicy(r) \/ StoreSnapshot(r)
Client(c) == Begin(c) \/ Check(c) \/ Content(c) \/ Recheck(c) \/ Prompt(c)

Next ==
    \/ \E r \in Reloads : Reload(r)
    \/ \E c \in Clients : Client(c)
    \/ \E c \in Calls : Drop(c)
    \/ Edit

Spec == Init /\ [][Next]_vars

(***************************************************************************)
(* Properties                                                              *)
(***************************************************************************)

\* Whoever can read the snapshot finds only paths that the policy blocks, the invalid
\* candidates and the unreadable map included: the two are separate variables, replaced
\* one after the other (docs/TOOLS.md, skills_reload: new private skill paths become
\* blocked immediately, invalid candidates remain private).
PublishedIsPrivate == ~Writer => snapshot.statuses \subseteq policy

\* A note read that spans a reload does not return a path that the reload has published
\* as a skill candidate, under its own spelling or the one it leads to.
RespectsReload ==
    \A c \in Clients :
      At(c, "recheck") /\ c \in got' \ got /\ ~Writer =>
          {target[c], Resolved[target[c]]} \cap snapshot.statuses = {}
ReadsRespectReload == [][RespectsReload]_vars

\* A reload that has returned is never undone by one that began to load earlier: what is
\* published is at least as new as the files were when the reload was asked for.
ReloadNotUndone ==
    \A r \in Reloads : At(r, "done") => snapshot.version >= asked[r]
=============================================================================
