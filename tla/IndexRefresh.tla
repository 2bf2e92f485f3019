---------------------------- MODULE IndexRefresh ----------------------------
(***************************************************************************)
(* The search index and how mutating tool calls refresh it: write_tool,    *)
(* framework_tool and cold_rebuild of src/runtime.rs, the walk of the      *)
(* vault by src/vault/reader.rs, and the transaction of                    *)
(* src/vault/index.rs.  A call changes the vault (one step here, the       *)
(* module VaultWriter has its steps) and then rebuilds the whole index     *)
(* under a mutex: it lists the vault, reads each note, scans for conflict  *)
(* files and publishes what it collected from a blocking thread.  Other    *)
(* calls and policy reloads change the vault and the policy meanwhile.     *)
(* Both walks stat every name of the directory, those of the temporary     *)
(* files of other calls included: whatever vanishes under a walk, or       *)
(* becomes private before it is read, fails the refresh, which is logged   *)
(* and forgotten.                                                          *)
(*                                                                         *)
(* A note is its version: how often it has been created, replaced or       *)
(* deleted.  The index holds the version it has seen of a note; for a note *)
(* it does not hold, the version that was current when the walk began.     *)
(***************************************************************************)
EXTENDS Naturals

CONSTANTS
    Calls,        \* the tool calls that are ever issued and may change the vault
    Framework,    \* those that run under framework_mutation_lock
    Droppable,    \* those whose future may be dropped
    Notes,        \* note paths
    Environment   \* which of EnvironmentEvents happen

EnvironmentEvents == {"io", "reload"}

Entries == [here: BOOLEAN, ver: Nat]
Snapshots == [Notes -> Entries]

ASSUME IndexAssumption ==
    /\ Framework \subseteq Calls /\ Droppable \subseteq Calls
    /\ Environment \subseteq EnvironmentEvents

VARIABLES
    disk,        \* the vault: for each note, whether it exists, and its version
    temps,       \* calls whose temporary file is in the vault
    blocked,     \* the notes the policy hides
    index,       \* the tables of VaultIndex
    pc,
    target,      \* the note a call changes
    todo,        \* the directory entries or notes a walk has still to visit
    todoTemps,   \* the temporary files among the names it has still to visit
    listed,      \* the entries list_folder has collected
    snap,        \* the records a refresh has collected
    late,        \* calls dropped while their rebuild ran on a blocking thread
    written,     \* history: the version a call wrote, 0 if it wrote none
    refreshed,   \* history: calls whose rebuild was committed
    tripped      \* history: whether a refresh has failed on a temporary file of a call that
                 \* changed no note, and none has been committed since

walkVars == <<todo, todoTemps, listed, snap>>
vars == <<disk, temps, blocked, index, pc, target, walkVars, late, written, refreshed, tripped>>

Walking == {"list", "listing", "reading", "scan", "scanning"}
Refreshing == Walking \cup {"publish"}
PCs == {"idle", "framework", "mutate", "land", "read_back", "refresh", "done", "dropped"} \cup Refreshing

TypeOK ==
    /\ disk \in Snapshots /\ temps \subseteq Calls
    /\ blocked \subseteq Notes
    /\ index \in Snapshots
    /\ pc \in [Calls -> PCs]
    /\ target \in [Calls -> Notes]
    /\ todo \in [Calls -> SUBSET Notes] /\ todoTemps \in [Calls -> SUBSET Calls]
    /\ listed \in [Calls -> SUBSET Notes]
    /\ snap \in [Calls -> Snapshots]
    /\ late \subseteq Calls
    /\ written \in [Calls -> Nat]
    /\ refreshed \subseteq Calls /\ tripped \in BOOLEAN

Present == {n \in Notes : disk[n].here}
Unread == [n \in Notes |-> [here |-> FALSE, ver |-> disk[n].ver]]
Nothing == [n \in Notes |-> [here |-> FALSE, ver |-> 0]]
Record(n) == [here |-> TRUE, ver |-> disk[n].ver]

\* Runtime::create rebuilds the index before the first call.
Init ==
    /\ disk \in [Notes -> [here: BOOLEAN, ver: {0}]] /\ temps = {}
    /\ blocked \in SUBSET (IF "reload" \in Environment THEN Notes ELSE {})
    /\ index = [n \in Notes |-> IF n \in blocked THEN Unread[n] ELSE disk[n]]
    /\ pc = [c \in Calls |-> "idle"]
    /\ target \in [Calls -> Notes]
    /\ todo = [c \in Calls |-> {}] /\ todoTemps = [c \in Calls |-> {}]
    /\ listed = [c \in Calls |-> {}]
    /\ snap = [c \in Calls |-> Nothing]
    /\ late = {}
    /\ written = [c \in Calls |-> 0]
    /\ refreshed = {} /\ tripped = FALSE

At(c, at) == pc[c] = at
Go(c, to) == pc' = [pc EXCEPT ![c] = to]

(***************************************************************************)
(* The mutation.                                                           *)
(***************************************************************************)
Start(c) ==
    /\ At(c, "idle")
    /\ Go(c, IF c \in Framework THEN "framework" ELSE "mutate")
    /\ UNCHANGED <<disk, temps, blocked, index, target, walkVars, late, written, refreshed, tripped>>

\* Slip: dispatch asks again for the lock that framework_tool holds.
UnderFrameworkTwice(c) == c \in Framework /\ pc[c] \notin {"idle", "done", "dropped"}
UnderFramework(c) == c \in Framework /\ pc[c] \notin {"idle", "framework", "done", "dropped"}

\* framework_mutation_lock is held until the call returns.
AcquireFramework(c) ==
    /\ At(c, "framework") /\ \A d \in Calls : ~UnderFramework(d)
    /\ Go(c, "mutate")
    /\ UNCHANGED <<disk, temps, blocked, index, target, walkVars, late, written, refreshed, tripped>>

Change(c, here) ==
    /\ disk' = [disk EXCEPT ![target[c]] = [here |-> here, ver |-> @.ver + 1]]
    /\ written' = [written EXCEPT ![c] = disk[target[c]].ver + 1]

\* A delete, which framework tools do not know, needs no temporary file.  A framework tool
\* may find that the note is already as it should be.  A refused mutation returns before
\* the refresh.  A reload can hide the note after the writer's last look at the policy.
Mutate(c) ==
    /\ At(c, "mutate")
    /\ \/ /\ c \notin Framework /\ target[c] \in Present
          /\ Change(c, FALSE) /\ Go(c, "refresh")
       \/ c \in Framework /\ Go(c, "refresh") /\ UNCHANGED <<disk, written>>
       \/ Go(c, "done") /\ UNCHANGED <<disk, written>>
    /\ UNCHANGED <<temps, blocked, index, target, walkVars, late, refreshed, tripped>>

\* A new content goes to a temporary file beside its target, whether that is a note or
\* the _meta/schemas.json of framework_register and framework_unregister, which take no
\* framework lock.
Prepare(c) ==
    /\ At(c, "mutate") /\ Go(c, "land")
    /\ temps' = temps \cup {c}
    /\ UNCHANGED <<disk, blocked, index, target, walkVars, late, written, refreshed, tripped>>

\* Its end: the note is created or replaced; framework_init has written its schema, and
\* refreshes; the mutation has failed, or was that of a registry tool, and no refresh
\* follows.  The temporary file is gone with the rename, or is removed after a link or a
\* failure.
Land(c) ==
    /\ At(c, "land")
    /\ \/ /\ Change(c, TRUE)
          /\ \E to \in {"refresh"} \cup (IF c \in Framework THEN {"read_back"} ELSE {}) : Go(c, to)
       \/ c \in Framework /\ Go(c, "refresh") /\ UNCHANGED <<disk, written>>
       \/ Go(c, "done") /\ UNCHANGED <<disk, written>>
    /\ temps' \in {temps \ {c}} \cup (IF "io" \in Environment THEN {temps} ELSE {})
    /\ UNCHANGED <<blocked, index, target, walkVars, late, refreshed, tripped>>

\* The daily-note tools read the note they changed; if that fails the call fails
\* and the index is not refreshed.
ReadBack(c) ==
    /\ At(c, "read_back")
    /\ \/ target[c] \in Present \ blocked /\ Go(c, "refresh")
       \/ target[c] \notin Present \ blocked /\ Go(c, "done")
       \/ "io" \in Environment /\ Go(c, "done")
    /\ UNCHANGED <<disk, temps, blocked, index, target, walkVars, late, written, refreshed, tripped>>

(***************************************************************************)
(* cold_rebuild.                                                           *)
(***************************************************************************)

\* Slip: the mutex covers the publication alone.
AcquirePublishing(c) ==
    /\ At(c, "refresh") /\ \A d \in Calls : ~At(d, "publish")
    /\ Go(c, "list")
    /\ UNCHANGED <<disk, temps, blocked, index, target, walkVars, late, written, refreshed, tripped>>

Acquire(c) ==
    /\ At(c, "refresh") /\ \A d \in Calls : pc[d] \notin Refreshing
    /\ Go(c, "list")
    /\ UNCHANGED <<disk, temps, blocked, index, target, walkVars, late, written, refreshed, tripped>>

\* The names in the directory, before any of them is looked at.
ReadDir(c, from, to) ==
    /\ At(c, from) /\ Go(c, to)
    /\ todo' = [todo EXCEPT ![c] = Present]
    /\ todoTemps' = [todoTemps EXCEPT ![c] = temps]

ListStart(c) ==
    /\ ReadDir(c, "list", "listing")
    /\ listed' = [listed EXCEPT ![c] = {}]
    /\ snap' = [snap EXCEPT ![c] = Unread]
    /\ UNCHANGED <<disk, temps, blocked, index, target, late, written, refreshed, tripped>>

ScanStart(c) ==
    /\ ReadDir(c, "scan", "scanning")
    /\ UNCHANGED <<disk, temps, blocked, index, target, listed, snap, late, written, refreshed, tripped>>

\* What a walk has collected goes with it.
Forget(c) ==
    /\ todo' = [todo EXCEPT ![c] = {}] /\ todoTemps' = [todoTemps EXCEPT ![c] = {}]
    /\ listed' = [listed EXCEPT ![c] = {}] /\ snap' = [snap EXCEPT ![c] = Nothing]

\* Every `?` of cold_rebuild, logged by the caller, which still succeeds.
Fail(c) == Go(c, "done") /\ Forget(c)

Visit(c, n) == todo' = [todo EXCEPT ![c] = @ \ {n}] /\ UNCHANGED <<pc, todoTemps>>
VisitTemp(c, d) ==
    /\ todoTemps' = [todoTemps EXCEPT ![c] = @ \ {d}]
    /\ UNCHANGED <<pc, todo, listed, snap, tripped>>

\* The refresh fails on the temporary file that was d's.
Trip(c, d) ==
    /\ Fail(c) /\ tripped' = (tripped \/ written[d] = 0)

\* list_folder: stat, then skip what is private, and what is no Markdown file.
ListEntry(c) ==
    /\ At(c, "listing")
    /\ \/ \E n \in todo[c] :
             /\ UNCHANGED tripped
             /\ \/ n \notin Present /\ Fail(c)
                \/ /\ n \in Present /\ Visit(c, n)
                   /\ listed' = [listed EXCEPT ![c] = IF n \in blocked THEN @ ELSE @ \cup {n}]
                   /\ UNCHANGED snap
       \/ \E d \in todoTemps[c] :
             \/ d \notin temps /\ Trip(c, d)
             \/ d \in temps /\ VisitTemp(c, d)
    /\ UNCHANGED <<disk, temps, blocked, index, target, late, written, refreshed>>

\* What became private during the listing is dropped from it at the end.
ListEnd(c) ==
    /\ At(c, "listing") /\ todo[c] = {} /\ todoTemps[c] = {}
    /\ Go(c, "reading")
    /\ todo' = [todo EXCEPT ![c] = listed[c] \ blocked]
    /\ UNCHANGED <<disk, temps, blocked, index, target, todoTemps, listed, snap, late, written, refreshed, tripped>>

\* read_note: missing, or private once the content has been read, is an error.
ReadNote(c) ==
    /\ At(c, "reading")
    /\ \E n \in todo[c] :
          \/ n \notin Present \ blocked /\ Fail(c)
          \/ /\ n \in Present \ blocked
             /\ Visit(c, n) /\ UNCHANGED listed
             /\ snap' = [snap EXCEPT ![c][n] = Record(n)]
    /\ UNCHANGED <<disk, temps, blocked, index, target, late, written, refreshed, tripped>>

ReadEnd(c) ==
    /\ At(c, "reading") /\ todo[c] = {}
    /\ Go(c, "scan")
    /\ UNCHANGED <<disk, temps, blocked, index, target, walkVars, late, written, refreshed, tripped>>

\* scan_conflicts: private entries are skipped before the stat; a rule that hides a note
\* may hide the temporary file beside it too.
ScanEntry(c) ==
    /\ At(c, "scanning")
    /\ \/ \E n \in todo[c] :
             /\ UNCHANGED tripped
             /\ \/ n \notin Present \cup blocked /\ Fail(c)
                \/ n \in Present \cup blocked /\ Visit(c, n) /\ UNCHANGED <<listed, snap>>
       \/ \E d \in todoTemps[c] :
             \/ d \notin temps /\ Trip(c, d)
             \/ (d \in temps \/ target[d] \in blocked) /\ VisitTemp(c, d)
    /\ UNCHANGED <<disk, temps, blocked, index, target, late, written, refreshed>>

\* The collected records move to a blocking thread.
ScanEnd(c) ==
    /\ At(c, "scanning") /\ todo[c] = {} /\ todoTemps[c] = {}
    /\ Go(c, "publish")
    /\ UNCHANGED <<disk, temps, blocked, index, target, walkVars, late, written, refreshed, tripped>>

\* Slip: the rows of the last rebuild are not deleted first.
RebuildKeepsRows(c) ==
    index' = [n \in Notes |-> IF snap[c][n].here THEN snap[c][n] ELSE index[n]]
\* Slip: rows for the listed notes only, in a table keyed by them.
RebuildListed(c) == index' = [n \in listed[c] |-> snap[c][n]]
\* One transaction deletes every row and inserts the collected ones.
Rebuild(c) == index' = snap[c]

Publish(c) ==
    /\ At(c, "publish") /\ Go(c, "done") /\ Forget(c)
    /\ \/ Rebuild(c) /\ refreshed' = refreshed \cup {c} /\ tripped' = FALSE
       \/ "io" \in Environment /\ UNCHANGED <<index, refreshed, tripped>>
    /\ UNCHANGED <<disk, temps, blocked, target, late, written>>

\* Any other error of the walk.
WalkError(c) ==
    /\ "io" \in Environment
    /\ pc[c] \in Walking /\ Fail(c)
    /\ UNCHANGED <<disk, temps, blocked, index, target, late, written, refreshed, tripped>>

(***************************************************************************)
(* The environment.                                                        *)
(***************************************************************************)

\* The call's future is dropped: the mutex is released, a rebuild that was
\* handed to the blocking thread goes on.
Drop(c) ==
    /\ c \in Droppable
    /\ pc[c] \in {"read_back", "refresh"} \cup Refreshing
    /\ Go(c, "dropped")
    /\ \/ At(c, "publish") /\ late' = late \cup {c} /\ UNCHANGED walkVars
       \/ ~At(c, "publish") /\ Forget(c) /\ UNCHANGED late
    /\ UNCHANGED <<disk, temps, blocked, index, target, written, refreshed, tripped>>

LateRebuild(c) ==
    /\ c \in late /\ late' = late \ {c}
    /\ Rebuild(c) /\ Forget(c)
    /\ UNCHANGED <<disk, temps, blocked, pc, target, written, refreshed, tripped>>

\* skills_reload replaces the policy as a whole.
PolicyReload ==
    /\ "reload" \in Environment
    /\ blocked' \in SUBSET Notes
    /\ UNCHANGED <<disk, temps, index, pc, target, walkVars, late, written, refreshed, tripped>>

Step(c) ==
    \/ AcquireFramework(c) \/ Mutate(c) \/ Prepare(c) \/ Land(c) \/ ReadBack(c)
    \/ Acquire(c) \/ ListStart(c) \/ ListEntry(c) \/ ListEnd(c)
    \/ ReadNote(c) \/ ReadEnd(c) \/ ScanStart(c) \/ ScanEntry(c) \/ ScanEnd(c)
    \/ Publish(c) \/ WalkError(c)

Next ==
    \/ \E c \in Calls : Start(c) \/ Step(c) \/ Drop(c) \/ LateRebuild(c)
    \/ PolicyReload

Spec == Init /\ [][Next]_vars

\* tokio polls ready futures and its mutexes are first in, first out.
Fairness ==
    \A c \in Calls : WF_vars(Step(c)) /\ SF_vars(AcquireFramework(c)) /\ SF_vars(Acquire(c))
FairSpec == Spec /\ Fairness

(***************************************************************************)
(* Properties.                                                             *)
(***************************************************************************)

\* A published snapshot never takes a note back to a version older than the
\* one already in the index (cold_rebuild: "an older refresh cannot publish
\* after a newer one following overlapping mutations").
IndexNeverGoesBack == [][\A n \in Notes : index'[n].ver >= index[n].ver]_vars

\* Only the rebuild of a dropped call, which outlives the mutex, can take the index
\* back: whatever calls are dropped, every other publication is no older than what
\* the index holds (cold_rebuild keeps the mutex from the listing to the commit).
PublishedInOrder ==
    [][late \subseteq late' => \A n \in Notes : index'[n].ver >= index[n].ver]_vars

\* A call whose refresh was committed finds its own write, or a later one, in
\* the index from then on, whatever refreshes of other calls come after it.
ReadYourWrite ==
    \A c \in refreshed : index[target[c]].ver >= written[c]

\* Although notes and temporary files that vanish make refreshes fail silently (write_tool
\* and framework_tool ignore a failed cold_rebuild), the index is exact whenever every
\* call has returned and none was dropped: whoever makes a walk fail refreshes the index
\* itself, later.  The exception is the temporary file of a call that changes no note, a
\* registry tool or a failed write: a refresh that it fails is made up for by the next one
\* that is committed, but by nothing before.
QuietIndexExact ==
    (\A c \in Calls : pc[c] \in {"idle", "done"}) => index = disk \/ tripped

\* Every call returns: the framework lock, the refresh mutex and the silent
\* failures never leave one waiting, even when the call ahead is dropped.
EveryCallReturns ==
    \A c \in Calls : pc[c] \in {"framework", "mutate"} ~> pc[c] \in {"done", "dropped"}

=============================================================================
