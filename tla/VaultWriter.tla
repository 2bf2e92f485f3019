---------------------------- MODULE VaultWriter ----------------------------
(***************************************************************************)
(* The audited vault writer (src/vault/writer.rs, with the lifecycle rows  *)
(* of src/vault/audit.rs): every tool call that mutates the vault runs     *)
(* VaultWriter::mutate on one shared instance.  A call is a future; each   *)
(* await is a point where other calls, a policy reload, an external editor *)
(* or the end of the process can intervene, so each await is one value of  *)
(* pc and one action.                                                      *)
(*                                                                         *)
(* A SHA-256 is represented by the content it is taken of.  Paths are      *)
(* normalised spellings; FileOf maps a spelling to the directory entry it  *)
(* denotes: injective on a case-sensitive file system, many-to-one on a    *)
(* case-insensitive one.                                                   *)
(***************************************************************************)
EXTENDS Naturals, FiniteSets

CONSTANTS
    Calls,        \* the tool calls that are ever issued; also their attempt ids, and the
                  \* trash names a call makes up when the first one is taken
    Paths,        \* normalised vault paths (spellings)
    Files,        \* directory entries
    FileOf,       \* Paths -> Files
    TrashPath,    \* Paths -> Paths: where a soft delete moves a note to
    Locks,        \* lock objects (Arc<Mutex<()>> allocations)
    NoLock,       \* a Weak that was never there
    Fronts,       \* frontmatter values
    Bodies,       \* note bodies
    MarkedBodies, \* the bodies that hold the section's marker pair
    Absent,       \* the content of an entry that does not exist
    Requests,     \* the requests calls may carry
    Vaults,       \* the contents of the entries when the server starts
    Quarantined,  \* entries in the startup quarantine snapshot
    Exposed,      \* entries that editors and policy reloads get at
    Cooldown,     \* whether cooldown_seconds > 0
    Environment   \* which of EnvironmentEvents happen

EnvironmentEvents == {"io", "audit", "cancel", "crash", "external", "reload"}

Contents == [front: Fronts, body: Bodies]
Ops == {"create", "replace", "frontmatter", "marker", "delete", "hard_delete"}
RequestType == [op: Ops, path: Paths, base: Contents, text: Contents]

ASSUME ConstantsAssumption ==
    /\ Calls \subseteq Paths
    /\ FileOf \in [Paths -> Files]
    /\ TrashPath \in [Paths -> Paths]
    /\ NoLock \notin Locks
    /\ Absent \notin Contents
    /\ MarkedBodies \subseteq Bodies
    /\ Requests \subseteq RequestType
    /\ Vaults \subseteq [Files -> Contents \cup {Absent}]
    /\ Quarantined \subseteq Files
    /\ Exposed \subseteq Files
    /\ Cooldown \in BOOLEAN
    /\ Environment \subseteq EnvironmentEvents

VARIABLES
    (***********************************************************************)
    (* Calls in flight and the lock table                                  *)
    (***********************************************************************)
    pc, req, ident, lockOf, table, slot, outcome,
    late,         \* a file or database operation that outlives its dropped call
    (***********************************************************************)
    (* The vault directory and the reloadable policy                       *)
    (***********************************************************************)
    text, spell, temps, blocked,
    (***********************************************************************)
    (* The audit tables: one set per kind of row, rows named by their call *)
    (***********************************************************************)
    started, succeeded, failed, provenance,
    (***********************************************************************)
    (* History, read only by properties                                    *)
    (***********************************************************************)
    landed,       \* calls whose mutation took effect in the vault
    trashed,      \* calls that linked their target into the trash
    dirty,        \* validated calls whose files were then changed by no lock holder
    unlogged,     \* calls whose start row could not be written
    cleared       \* calls whose target was permitted by the policy in force when they passed
                  \* their last guard, or is now for those that have not

callVars == <<pc, req, ident, lockOf, table, slot, outcome, late>>
lockVars == <<req, ident, lockOf, table>>
vaultVars == <<text, spell, temps>>
auditVars == <<started, succeeded, failed, provenance, unlogged>>
histVars == <<landed, trashed, dirty, cleared>>
vars == <<callVars, vaultVars, blocked, auditVars, histVars>>

Waiting == {"waiting"}
BeforeRead == {"recheck", "log_start", "guard", "exists", "stat", "read"}
Checked == {"prepare_guard", "prepare", "publish_guard", "publish", "trash_guard",
            "note_guard", "trash_link", "trash_unlink", "unlink_guard", "unlink"}
\* `let _ = loop { .. }` would drop the guard where it is bound.
HoldingDropped == {"recheck"}
Holding == BeforeRead \cup Checked \cup {"cleanup", "log_end"}
InFlight == {"identify", "lookup"} \cup Waiting \cup Holding
PCs == InFlight \cup {"idle", "done", "dead"}
\* Awaits on an operation already handed to the blocking pool.
PoolSteps == {"log_start", "prepare", "publish", "cleanup", "trash_link",
              "trash_unlink", "unlink", "log_end"}
\* Those that change what the vault holds.
Changing == {"publish", "trash_link", "trash_unlink", "unlink"}

TypeOK ==
    /\ pc \in [Calls -> PCs]
    /\ req \in [Calls -> Requests]
    /\ ident \in [Calls -> Paths]
    /\ lockOf \in [Calls -> Locks \cup {NoLock}]
    /\ table \in [Paths -> Locks \cup {NoLock}]
    /\ slot \in [Calls -> Paths]
    /\ outcome \in [Calls -> {"none", "ok", "error"}]
    /\ late \in [Calls -> PoolSteps \cup {"none"}]
    /\ text \in [Files -> Contents \cup {Absent}]
    /\ spell \in [Files -> Paths]
    /\ temps \subseteq Calls
    /\ blocked \subseteq Files
    /\ started \subseteq Calls
    /\ succeeded \subseteq Calls
    /\ failed \subseteq Calls
    /\ provenance \subseteq Calls
    /\ landed \subseteq Calls
    /\ trashed \subseteq Calls
    /\ dirty \subseteq Calls
    /\ unlogged \subseteq Calls
    /\ cleared \subseteq Calls

Target(c) == FileOf[req[c].path]
Trash(c) == FileOf[slot[c]]
Exists(c) == text[Target(c)] # Absent

\* Canonical identity: the stored spelling of an existing entry, else its own.
Canonical(p) == IF text[FileOf[p]] # Absent THEN spell[FileOf[p]] ELSE p

\* check_policy on the lexical path and on the canonical identity.
Permitted(f) == f \notin blocked \cup Quarantined

\* Slips in the merge: the body lost, or the caller's text taken whole.
NextTextBodyless(r) == [front |-> r.text.front]
NextTextWhole(r) == r.text
\* The content a replacing call publishes over its base.
NextText(r) ==
    [front |-> IF r.op = "marker" THEN r.base.front ELSE r.text.front,
     body  |-> IF r.op = "frontmatter" THEN r.base.body ELSE r.text.body]

Init ==
    /\ pc = [c \in Calls |-> "idle"]
    /\ req \in [Calls -> Requests]
    /\ ident = [c \in Calls |-> req[c].path]
    /\ lockOf = [c \in Calls |-> NoLock]
    /\ table = [p \in Paths |-> NoLock]
    /\ slot = [c \in Calls |-> TrashPath[req[c].path]]
    /\ outcome = [c \in Calls |-> "none"]
    /\ late = [c \in Calls |-> "none"]
    /\ text \in Vaults /\ \A c \in Calls : text[FileOf[c]] = Absent
    /\ spell \in {s \in [Files -> Paths] : \A f \in Files : FileOf[s[f]] = f}
    /\ temps = {}
    /\ blocked \in SUBSET (IF "reload" \in Environment THEN Exposed ELSE {})
    /\ started = {} /\ succeeded = {} /\ failed = {} /\ provenance = {}
    /\ landed = {} /\ trashed = {} /\ dirty = {} /\ unlogged = {}
    /\ cleared = {c \in Calls : Permitted(Target(c))}

(***************************************************************************)
(* Control of one call.                                                    *)
(***************************************************************************)
At(c, at) == pc[c] = at
Go(c, to) == pc' = [pc EXCEPT ![c] = to]
Continue(c, to) == Go(c, to) /\ UNCHANGED outcome
Settle(c, result, to) == Go(c, to) /\ outcome' = [outcome EXCEPT ![c] = result]
Reject(c) == Settle(c, "error", IF c \in temps THEN "cleanup" ELSE "log_end")
Unlock(c) == lockOf' = [lockOf EXCEPT ![c] = NoLock]

\* Calls that have looked at a file, and now it is changed before they have.
Overtaken ==
    {c \in Calls : /\ pc[c] \in Checked
                  /\ \/ text'[Target(c)] # text[Target(c)]
                     \/ At(c, "trash_unlink") /\ text'[Trash(c)] # text[Trash(c)]}

Start(c) ==
    /\ At(c, "idle") /\ Go(c, "identify")
    /\ UNCHANGED <<lockVars, slot, outcome, late, vaultVars, blocked, auditVars, histVars>>

(***************************************************************************)
(* The lock loop: canonicalise, look the identity up in the table of weak  *)
(* references, wait for the lock, canonicalise again.                      *)
(***************************************************************************)
Identify(c) ==
    /\ At(c, "identify") /\ Go(c, "lookup")
    /\ ident' = [ident EXCEPT ![c] = Canonical(req[c].path)]
    /\ UNCHANGED <<req, lockOf, table, slot, outcome, late, vaultVars, blocked, auditVars, histVars>>

\* A lock object lives while some call waits for it or holds it.
Referenced(l) == \E d \in Calls : lockOf[d] = l
\* Slip: the table never upgrades what it finds.
RetainedNone == [p \in Paths |-> NoLock]
Retained == [p \in Paths |-> IF Referenced(table[p]) THEN table[p] ELSE NoLock]

Lookup(c) ==
    /\ At(c, "lookup") /\ Go(c, "waiting")
    /\ \E l \in Locks :
          /\ \/ Retained[ident[c]] = l
             \/ Retained[ident[c]] = NoLock /\ ~Referenced(l)
          /\ table' = [Retained EXCEPT ![ident[c]] = l]
          /\ lockOf' = [lockOf EXCEPT ![c] = l]
    /\ UNCHANGED <<req, ident, slot, outcome, late, vaultVars, blocked, auditVars, histVars>>

Acquire(c) ==
    /\ At(c, "waiting") /\ Go(c, "recheck")
    /\ \A d \in Calls : lockOf[d] = lockOf[c] => pc[d] \notin Holding
    /\ UNCHANGED <<lockVars, slot, outcome, late, vaultVars, blocked, auditVars, histVars>>

\* Slip: the recheck compares the lexical path.
RecheckLexical(c) ==
    /\ At(c, "recheck")
    /\ \/ req[c].path = ident[c] /\ Go(c, "log_start") /\ UNCHANGED lockOf
       \/ req[c].path # ident[c] /\ Go(c, "identify") /\ Unlock(c)
    /\ UNCHANGED <<req, ident, table, slot, outcome, late, vaultVars, blocked, auditVars, histVars>>

Recheck(c) ==
    /\ At(c, "recheck")
    /\ \/ /\ Canonical(req[c].path) = ident[c]
          /\ Go(c, "log_start") /\ UNCHANGED lockOf
       \/ /\ Canonical(req[c].path) # ident[c]
          /\ Go(c, "identify") /\ Unlock(c)
    /\ UNCHANGED <<req, ident, table, slot, outcome, late, vaultVars, blocked, auditVars, histVars>>

\* The `?` of either canonicalisation: the call ends before any audit row.
IdentifyError(c) ==
    /\ "io" \in Environment
    /\ At(c, "identify") \/ At(c, "recheck")
    /\ Settle(c, "error", "done") /\ Unlock(c)
    /\ UNCHANGED <<req, ident, table, slot, late, vaultVars, blocked, auditVars, histVars>>

(***************************************************************************)
(* Effects on the vault and on the audit tables.  They are separate from   *)
(* the control because the blocking pool completes them even when the call *)
(* that awaits them has been dropped.                                      *)
(***************************************************************************)
WriteText(c, x) ==
    /\ text' = [text EXCEPT ![Target(c)] = x]
    /\ landed' = landed \cup {c}

PrepareEffect(c) ==
    /\ req[c].op # "create" => Exists(c)
    /\ temps' = temps \cup {c}
    /\ UNCHANGED <<text, spell, trashed, landed>>

\* hard_link(temp, absolute): fails if the entry exists; the temp stays.
PublishCreateEffect(c) ==
    /\ req[c].op = "create" /\ ~Exists(c)
    /\ WriteText(c, req[c].text)
    /\ spell' = [spell EXCEPT ![Target(c)] = req[c].path]
    /\ UNCHANGED <<temps, trashed>>

\* rename(temp, absolute): replaces whatever the entry holds.
PublishReplaceEffect(c) ==
    /\ req[c].op # "create"
    /\ WriteText(c, NextText(req[c]))
    /\ temps' = temps \ {c}
    /\ UNCHANGED <<spell, trashed>>

PublishEffect(c) == PublishCreateEffect(c) \/ PublishReplaceEffect(c)

CleanupEffect(c) ==
    /\ temps' = temps \ {c}
    /\ UNCHANGED <<text, spell, trashed, landed>>

\* The trash name becomes another name of the target's file.
Relocate(c) ==
    /\ text' = [text EXCEPT ![Trash(c)] = text[Target(c)]]
    /\ spell' = [spell EXCEPT ![Trash(c)] = slot[c]]
    /\ trashed' = trashed \cup {c}
    /\ UNCHANGED <<temps, landed>>

\* Slip: a rename into the trash takes the name whatever it holds.
TrashRenameEffect(c) == Exists(c) /\ Relocate(c)

\* hard_link(absolute, destination): fails if the destination exists, so that the name is
\* reserved atomically.  It is an ordinary path: calls may be sent to it, and move_to_trash
\* does not take its lock.
TrashLinkEffect(c) == Exists(c) /\ text[Trash(c)] = Absent /\ Relocate(c)

RemoveEffect(c) ==
    /\ Exists(c)
    /\ WriteText(c, Absent)
    /\ UNCHANGED <<spell, temps, trashed>>

LogStartEffect(c) ==
    /\ started' = started \cup {c}
    /\ UNCHANGED <<succeeded, failed, provenance, unlogged>>

\* Slip: the success row is committed before the provenance row.
LogEndInTwo(c) ==
    /\ outcome[c] = "ok"
    /\ succeeded' = succeeded \cup ({c} \cap started)
    /\ \/ provenance' = provenance \cup {c}
       \/ UNCHANGED provenance
    /\ UNCHANGED <<started, failed, unlogged>>

\* record_write_completed commits the terminal row, if the attempt has a
\* start row, and the provenance row in one transaction.
LogEndEffect(c) ==
    /\ \/ /\ outcome[c] = "ok"
          /\ succeeded' = succeeded \cup ({c} \cap started)
          /\ provenance' = provenance \cup {c}
          /\ UNCHANGED failed
       \/ /\ outcome[c] = "error"
          /\ failed' = failed \cup ({c} \cap started)
          /\ UNCHANGED <<succeeded, provenance>>
    /\ UNCHANGED <<started, unlogged>>

VaultEffect(c, step) ==
    \/ step = "prepare" /\ PrepareEffect(c)
    \/ step = "publish" /\ PublishEffect(c)
    \/ step = "cleanup" /\ CleanupEffect(c)
    \/ step = "trash_link" /\ TrashLinkEffect(c)
    \/ step \in {"trash_unlink", "unlink"} /\ RemoveEffect(c)

(***************************************************************************)
(* Under the lock.                                                         *)
(***************************************************************************)
LogStart(c) ==
    /\ At(c, "log_start") /\ Go(c, "guard")
    /\ \/ LogStartEffect(c)
       \/ /\ "audit" \in Environment
          /\ unlogged' = unlogged \cup {c}
          /\ UNCHANGED <<started, succeeded, failed, provenance>>
    /\ UNCHANGED <<lockVars, slot, outcome, late, vaultVars, blocked, histVars>>

\* The guard at the head of apply, and the ones repeated before each change.
GuardNext(c) ==
    CASE At(c, "guard")         -> IF req[c].op = "create" THEN "exists" ELSE "stat"
      [] At(c, "prepare_guard") -> "prepare"
      [] At(c, "publish_guard") -> "publish"
      [] At(c, "trash_guard")   -> "note_guard"
      [] At(c, "note_guard")    -> "trash_link"
      [] At(c, "unlink_guard")  -> "unlink"

Guarding == {"guard", "prepare_guard", "publish_guard", "trash_guard", "note_guard", "unlink_guard"}
\* A move to the trash guards both of its names.
Guarded(c) == IF At(c, "trash_guard") THEN Trash(c) ELSE Target(c)

\* Slip: atomic_write does not ask again once the temporary file is written.
GuardPublishesBlindly(c) ==
    /\ pc[c] \in Guarding
    /\ \/ (Permitted(Guarded(c)) \/ At(c, "publish_guard")) /\ Continue(c, GuardNext(c))
       \/ ~Permitted(Guarded(c)) /\ ~At(c, "publish_guard") /\ Reject(c)
    /\ UNCHANGED <<lockVars, slot, late, vaultVars, blocked, auditVars, histVars>>

Guard(c) ==
    /\ pc[c] \in Guarding
    /\ \/ Permitted(Guarded(c)) /\ Continue(c, GuardNext(c))
       \/ ~Permitted(Guarded(c)) /\ Reject(c)
    /\ UNCHANGED <<lockVars, slot, late, vaultVars, blocked, auditVars, histVars>>

\* path_exists
CheckExists(c) ==
    /\ At(c, "exists")
    /\ \/ ~Exists(c) /\ Continue(c, "prepare_guard")
       \/ Exists(c) /\ Reject(c)
    /\ UNCHANGED <<lockVars, slot, late, vaultVars, blocked, auditVars, histVars>>

\* path_missing, and retryable_conflict inside the cooldown window: the age of a file is
\* not modelled, an editor can give it any.
Stat(c) ==
    /\ At(c, "stat")
    /\ \/ Exists(c) /\ Continue(c, "read")
       \/ (~Exists(c) \/ Cooldown) /\ Reject(c)
    /\ UNCHANGED <<lockVars, slot, late, vaultVars, blocked, auditVars, histVars>>

ReadNext(c) ==
    CASE req[c].op = "delete"      -> "trash_guard"
      [] req[c].op = "hard_delete" -> "unlink_guard"
      [] OTHER                     -> "prepare_guard"

\* Slip: the base hash is not compared.
ReadAnyBase(c) ==
    /\ At(c, "read") /\ Continue(c, ReadNext(c))
    /\ UNCHANGED <<lockVars, slot, late, vaultVars, blocked, auditVars, histVars>>

\* retryable_conflict on a stale base; markers_missing
Read(c) ==
    /\ At(c, "read")
    /\ LET accepted == /\ text[Target(c)] = req[c].base
                       /\ req[c].op = "marker" => req[c].base.body \in MarkedBodies
       IN  \/ accepted /\ Continue(c, ReadNext(c))
           \/ ~accepted /\ Reject(c)
    /\ UNCHANGED <<lockVars, slot, late, vaultVars, blocked, auditVars, histVars>>

\* Permissions of the replaced file, then the temporary file.
Prepare(c) ==
    /\ At(c, "prepare")
    /\ \/ PrepareEffect(c) /\ Continue(c, "publish_guard")
       \/ /\ req[c].op # "create" /\ ~Exists(c)
          /\ Reject(c) /\ UNCHANGED <<vaultVars, landed, trashed>>
    /\ UNCHANGED <<lockVars, slot, late, blocked, auditVars, dirty, cleared>>

Publish(c) ==
    /\ At(c, "publish")
    /\ \/ PublishEffect(c) /\ Settle(c, "ok", "cleanup")
       \/ /\ req[c].op = "create" /\ Exists(c)
          /\ Settle(c, "error", "cleanup") /\ UNCHANGED <<vaultVars, landed, trashed>>
    /\ UNCHANGED <<lockVars, slot, late, blocked, auditVars, dirty, cleared>>

\* Slip: a temporary file that cannot be removed fails the published call.
CleanupFailsCall(c) ==
    /\ At(c, "cleanup")
    /\ \/ CleanupEffect(c) /\ Go(c, "log_end") /\ UNCHANGED outcome
       \/ Settle(c, "error", "log_end") /\ UNCHANGED <<vaultVars, landed, trashed>>
    /\ UNCHANGED <<lockVars, slot, late, blocked, auditVars, dirty, cleared>>

Cleanup(c) ==
    /\ At(c, "cleanup") /\ Go(c, "log_end")
    /\ \/ CleanupEffect(c)
       \/ "io" \in Environment /\ UNCHANGED <<vaultVars, landed, trashed>>
    /\ UNCHANGED <<lockVars, slot, outcome, late, blocked, auditVars, dirty, cleared>>

\* A taken name sends the call round the loop with a new one.
TrashLink(c) ==
    /\ At(c, "trash_link")
    /\ \/ /\ TrashLinkEffect(c)
          /\ Continue(c, "trash_unlink") /\ UNCHANGED <<slot, cleared>>
       \/ /\ Exists(c) /\ text[Trash(c)] # Absent
          /\ slot' = [slot EXCEPT ![c] = c] /\ Continue(c, "trash_guard")
          /\ cleared' = IF Permitted(Target(c)) THEN cleared ELSE cleared \ {c}
          /\ UNCHANGED <<vaultVars, landed, trashed>>
       \/ /\ ~Exists(c)
          /\ Reject(c) /\ UNCHANGED <<vaultVars, landed, trashed, slot, cleared>>
    /\ UNCHANGED <<lockVars, late, blocked, auditVars, dirty>>

Remove(c) ==
    /\ pc[c] \in {"trash_unlink", "unlink"}
    /\ \/ RemoveEffect(c) /\ Settle(c, "ok", "log_end")
       \/ ~Exists(c) /\ Reject(c) /\ UNCHANGED <<vaultVars, landed, trashed>>
    /\ UNCHANGED <<lockVars, slot, late, blocked, auditVars, dirty, cleared>>

\* An I/O error, a refused symlink or an invalid value anywhere in apply.
ApplyError(c) ==
    /\ "io" \in Environment
    /\ pc[c] \in (BeforeRead \ {"recheck", "log_start"}) \cup Checked
    /\ Reject(c)
    /\ UNCHANGED <<lockVars, slot, late, vaultVars, blocked, auditVars, histVars>>

LogEnd(c) ==
    /\ At(c, "log_end") /\ Go(c, "done") /\ Unlock(c)
    /\ \/ LogEndEffect(c)
       \/ "audit" \in Environment /\ UNCHANGED auditVars
    /\ UNCHANGED <<req, ident, table, slot, outcome, late, vaultVars, blocked, histVars>>

(***************************************************************************)
(* The environment.                                                        *)
(***************************************************************************)

\* Dropping the future releases the lock; an operation already handed to the
\* blocking pool may still run, at any later time.
Cancel(c) ==
    /\ "cancel" \in Environment
    /\ pc[c] \in InFlight
    /\ Go(c, "dead") /\ Unlock(c)
    /\ late' \in {late} \cup (IF pc[c] \in PoolSteps
                              THEN {[late EXCEPT ![c] = pc[c]]} ELSE {})
    /\ UNCHANGED <<req, ident, table, slot, outcome, vaultVars, blocked, auditVars, histVars>>

LateStep(c) ==
    /\ late[c] # "none"
    /\ late' = [late EXCEPT ![c] = "none"]
    /\ \/ /\ VaultEffect(c, late[c])
          /\ dirty' = dirty \cup Overtaken
          /\ UNCHANGED auditVars
       \/ /\ \/ late[c] = "log_start" /\ LogStartEffect(c)
             \/ late[c] = "log_end" /\ LogEndEffect(c)
          /\ UNCHANGED <<vaultVars, landed, trashed, dirty>>
       \/ UNCHANGED <<vaultVars, landed, trashed, dirty, auditVars>>
    /\ UNCHANGED <<pc, lockVars, slot, outcome, blocked, cleared>>

\* The process ends and a new one starts: the lock table is gone.
Crash ==
    /\ "crash" \in Environment
    /\ pc' = [c \in Calls |-> IF pc[c] \in InFlight THEN "dead" ELSE pc[c]]
    /\ lockOf' = [c \in Calls |-> NoLock]
    /\ table' = [p \in Paths |-> NoLock]
    /\ late' = [c \in Calls |-> "none"]
    /\ UNCHANGED <<req, ident, slot, outcome, vaultVars, blocked, auditVars, histVars>>

ExternalEdit(f) ==
    /\ "external" \in Environment /\ f \in Exposed
    /\ \E x \in Contents \cup {Absent}, p \in Paths :
          /\ x # text[f] /\ FileOf[p] = f
          /\ text' = [text EXCEPT ![f] = x]
          /\ spell' = [spell EXCEPT ![f] = IF text[f] = Absent THEN p ELSE @]
    /\ dirty' = dirty \cup Overtaken
    /\ UNCHANGED <<callVars, temps, blocked, auditVars, landed, trashed, cleared>>

PolicyReload ==
    /\ "reload" \in Environment
    /\ blocked' \in SUBSET Exposed
    /\ cleared' = {c \in Calls : IF {pc[c], late[c]} \cap Changing # {} THEN c \in cleared
                                 ELSE Target(c) \notin blocked' \cup Quarantined}
    /\ UNCHANGED <<callVars, vaultVars, auditVars, landed, trashed, dirty>>

Step(c) ==
    \/ Identify(c) \/ Lookup(c) \/ Acquire(c) \/ Recheck(c) \/ IdentifyError(c)
    \/ LogStart(c) \/ Guard(c) \/ CheckExists(c) \/ Stat(c) \/ Read(c)
    \/ Prepare(c) \/ Publish(c) \/ Cleanup(c)
    \/ TrashLink(c) \/ Remove(c)
    \/ ApplyError(c) \/ LogEnd(c)

Next ==
    \/ \E c \in Calls : Start(c) \/ Step(c) \/ Cancel(c) \/ LateStep(c)
    \/ Crash
    \/ \E f \in Files : ExternalEdit(f)
    \/ PolicyReload

Spec == Init /\ [][Next]_vars

\* tokio keeps polling a ready future, and its Mutex is first in, first out.
Fairness == \A c \in Calls : WF_vars(Step(c)) /\ SF_vars(Acquire(c))
FairSpec == Spec /\ Fairness

(***************************************************************************)
(* Properties.                                                             *)
(***************************************************************************)

\* Two calls never run the section under the lock for one canonical identity,
\* although each lock object is created, shared and forgotten dynamically
\* (mutate, lock loop over the table of weak references).
LockExclusive ==
    \A c, d \in Calls :
        c # d /\ pc[c] \in Holding /\ pc[d] \in Holding => ident[c] # ident[d]

\* From the moment apply accepts the base hash until the call changes the
\* file, the file still holds that base, unless something that takes no lock
\* (an external editor, the late operation of a dropped call) changed it.
BaseIsCurrent ==
    \A c \in Calls :
        pc[c] \in Checked /\ req[c].op # "create" /\ c \notin dirty
            => text[Target(c)] = req[c].base

\* Content disappears from the vault only when the call that replaces it named
\* it as its base, and a soft delete has it in the trash first, where it still is
\* unless another call was sent to that name meanwhile; a create never replaces
\* anything.  Steps of the outside world and late operations excepted.
NothingVanishes ==
    [][\A c \in Calls :
          /\ c \in landed' \ landed /\ UNCHANGED late /\ c \notin dirty /\ Exists(c)
          => /\ req[c].op # "create" /\ text[Target(c)] = req[c].base
             /\ req[c].op = "delete" => \/ text[Trash(c)] = req[c].base
                                        \/ \E d \in landed \ {c} : Target(d) = Trash(c)]_vars

\* What an entry holds, be it a note or an older deletion in the trash, is replaced or
\* removed by the server only at the hands of a call that was sent to that very entry.
\* A move to the trash replaces nothing, whether it is the first try or one of two
\* that chose the same name, still awaited or left behind by a dropped call, and although
\* it holds no lock for its destination (move_to_trash).
MovesReplaceNothing ==
    [][\A f \in Files :
          text[f] \notin {Absent, text'[f]} /\ <<pc, late>>' # <<pc, late>>
          => \E c \in landed' \ landed : Target(c) = f]_vars

\* list_incomplete_writes
Incomplete == started \ (succeeded \cup failed)

\* The audit tables never claim what did not happen: provenance and success
\* rows belong to mutations that took effect, failure rows to mutations that
\* did not, and the success row and its provenance row appear together.
AuditTruthful ==
    /\ provenance \subseteq landed
    /\ failed \cap landed = {}
    /\ succeeded \subseteq provenance \cap started
    /\ failed \subseteq started

\* Every mutation that took effect has provenance or is listed as incomplete,
\* across cancellation, late operations, crashes and failed completions,
\* unless its start row itself could not be written.
NoSilentWrite == landed \subseteq provenance \cup Incomplete \cup unlogged

\* A policy reload that blocks a path stops every call on it that has not passed the last
\* guard in front of its change, however far it has come: queued for the lock, with its
\* base accepted, its temporary file written, its trash name found taken.  What lands was
\* permitted by the last policy that came into force before that guard, also when it
\* lands late, for a call that was dropped (atomic_write, move_to_trash, apply).
PolicySealed == [][landed' \ landed \subseteq cleared]_vars

\* The writer implements the atomic vault: every behaviour of calls that race for the
\* same files, with editors at work on them and calls dropped at any await, is one of
\* single compare-and-set steps, each answered truthfully and none made twice.
Atomic == INSTANCE AtomicVault WITH
    kept <- trashed, overtaken <- dirty,
    abandoned <- {c \in Calls : late[c] \in Changing},
    Edited <- "external" \in Environment, Droppable <- "cancel" \in Environment
ImplementsAtomicVault == Atomic!Spec

\* Every call that starts ends, whatever the identity does while it waits for
\* its lock and however often the trash name is taken.
EveryCallEnds ==
    \A c \in Calls : pc[c] = "identify" ~> pc[c] \in {"done", "dead"}

=============================================================================
