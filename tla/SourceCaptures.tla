--------------------------- MODULE SourceCaptures ---------------------------
(***************************************************************************)
(* Captures that are keyed by a source id (src/framework/records.rs):      *)
(* inbox_capture with strategy replace_by_source_id looks the id up in the *)
(* index, reads the note it finds and replaces it, or creates a note when  *)
(* the index knows none; the other captures always create.  Framework      *)
(* calls hold framework_mutation_lock until their index refresh is over;   *)
(* note tools change and refresh without it.                               *)
(*                                                                         *)
(* The writer's own steps are in VaultWriter and the walk over the vault   *)
(* in IndexRefresh: here a write is one step, and a refresh reads one note *)
(* at a time.  A note is its source id and the call that wrote it, which   *)
(* stands for its hash: no two calls write the same text.                  *)
(***************************************************************************)
CONSTANTS
    Calls,       \* the tool calls that are ever issued
    Droppable,   \* those whose future may be dropped
    Paths,       \* note paths
    Sources,     \* source ids
    NoSource,    \* the source id of a note that has none
    Nobody,      \* the author of a note that was there before
    Absent,      \* there is no such note, in the vault or in the index
    Requests,    \* the requests calls may carry
    Hideable,    \* the notes a policy reload may hide
    IoErrors     \* whether the file system and the index may fail

Captures == {"replace_by_source_id", "create"}
NoteTools == {"write", "delete"}
Notes == [source: Sources \cup {NoSource}, by: Calls \cup {Nobody}]
Rows == Sources \cup {NoSource, Absent}
\* path: where the schema puts a new capture, or the note a note tool names.
RequestType ==
    [op: Captures, source: Sources, path: Paths]
    \cup [op: NoteTools, source: Sources \cup {NoSource}, path: Paths]

CaptureAssumption ==
    /\ \A n \in Notes : n # Absent
    /\ Absent \notin Sources \cup {NoSource} /\ NoSource \notin Sources /\ Nobody \notin Calls
    /\ Droppable \subseteq Calls /\ Requests \subseteq RequestType
    /\ Hideable \subseteq Paths /\ IoErrors \in BOOLEAN

VARIABLES
    pc, req,
    notes,      \* the vault
    hidden,     \* the notes the policy hides
    index,      \* the source_id column of the notes table
    found,      \* the path a capture's lookup returned
    read,       \* the note a capture has read
    todo, snap, \* the notes a refresh has still to read, the rows it has collected
    late,       \* what a dropped call left to the pool: a write, a rebuild
    published,  \* history: calls whose rebuild is part of the index
    known,      \* history: what was published when a capture looked its source up
    unsure      \* history: sources a note was given without the index learning of it

refreshVars == <<todo, snap>>
historyVars == <<published, known, unsure>>
vars == <<pc, req, notes, hidden, index, found, read, refreshVars, late, historyVars>>

Refreshing == {"collect", "publish"}
Landed == {"refresh", "done"} \cup Refreshing
PCs == {"idle", "framework", "lookup", "read", "replace", "create", "note_tool", "failed", "dropped"} \cup Landed

TypeOK ==
    /\ pc \in [Calls -> PCs] /\ req \in [Calls -> Requests]
    /\ notes \in [Paths -> Notes \cup {Absent}] /\ hidden \subseteq Paths
    /\ index \in [Paths -> Rows]
    /\ found \in [Calls -> Paths] /\ read \in [Calls -> Notes \cup {Absent}]
    /\ todo \in [Calls -> SUBSET Paths] /\ snap \in [Calls -> [Paths -> Rows]]
    /\ late \in [Calls -> {"nothing", "write", "rebuild"}]
    /\ published \subseteq Calls /\ known \in [Calls -> SUBSET Calls] /\ unsure \subseteq Sources

Row(p) == IF notes[p] = Absent THEN Absent ELSE notes[p].source
EmptyRows == [p \in Paths |-> Absent]

\* A start: no two notes carry one source id, and Runtime::create has built the index.
Init ==
    /\ pc = [c \in Calls |-> "idle"] /\ req \in [Calls -> Requests]
    /\ notes \in [Paths -> {Absent} \cup [source: Sources \cup {NoSource}, by: {Nobody}]]
    /\ \A p, q \in Paths : Row(p) = Row(q) /\ Row(p) \in Sources => p = q
    /\ hidden = {}
    /\ index = [p \in Paths |-> Row(p)]
    /\ found = [c \in Calls |-> req[c].path] /\ read = [c \in Calls |-> Absent]
    /\ todo = [c \in Calls |-> {}] /\ snap = [c \in Calls |-> EmptyRows]
    /\ late = [c \in Calls |-> "nothing"]
    /\ published = {} /\ known = [c \in Calls |-> {}] /\ unsure = {}

At(c, at) == pc[c] = at
Go(c, to) == pc' = [pc EXCEPT ![c] = to]
Op(c) == req[c].op
Source(c) == {req[c].source} \cap Sources
New(c) == [source |-> req[c].source, by |-> c]
UnderFramework(c) ==
    Op(c) \in Captures /\ pc[c] \notin {"idle", "framework", "done", "failed", "dropped"}

Start(c) ==
    /\ At(c, "idle") /\ Go(c, IF Op(c) \in Captures THEN "framework" ELSE "note_tool")
    /\ UNCHANGED <<req, notes, hidden, index, found, read, refreshVars, late, historyVars>>

\* Slip: captures do not wait for each other.
AcquireNothing(c) ==
    /\ At(c, "framework") /\ Go(c, IF Op(c) = "create" THEN "create" ELSE "lookup")
    /\ UNCHANGED <<req, notes, hidden, index, found, read, refreshVars, late, historyVars>>

\* The lock, then the composition of the schema, which may fail.
Acquire(c) ==
    /\ At(c, "framework") /\ \A d \in Calls : ~UnderFramework(d)
    /\ \/ Go(c, IF Op(c) = "create" THEN "create" ELSE "lookup")
       \/ Go(c, "failed")
    /\ UNCHANGED <<req, notes, hidden, index, found, read, refreshVars, late, historyVars>>

\* One row that carries the id, whichever it is; a hidden one counts as none.
Lookup(c) ==
    /\ At(c, "lookup")
    /\ LET matches == {p \in Paths : index[p] = req[c].source}
       IN \/ /\ matches = {} /\ Go(c, "create") /\ UNCHANGED found
          \/ \E p \in matches :
                /\ Go(c, IF p \in hidden THEN "create" ELSE "read")
                /\ found' = [found EXCEPT ![c] = IF p \in hidden THEN @ ELSE p]
          \/ IoErrors /\ Go(c, "failed") /\ UNCHANGED found
    /\ known' = [known EXCEPT ![c] = published]
    /\ UNCHANGED <<req, notes, hidden, index, read, refreshVars, late, published, unsure>>

Read(c) ==
    /\ At(c, "read")
    /\ \/ /\ notes[found[c]] # Absent /\ found[c] \notin hidden
          /\ read' = [read EXCEPT ![c] = notes[found[c]]] /\ Go(c, "replace")
       \/ /\ notes[found[c]] = Absent \/ found[c] \in hidden \/ IoErrors
          /\ Go(c, "failed") /\ UNCHANGED read
    /\ UNCHANGED <<req, notes, hidden, index, found, refreshVars, late, historyVars>>

(***************************************************************************)
(* The write.  The writer refuses for more reasons than a stale base: the  *)
(* cooldown, quarantine, the audit store.                                  *)
(***************************************************************************)
Undeduplicated(c) == IF Op(c) = "replace_by_source_id" THEN {} ELSE Source(c)
Write(c, p, note) ==
    /\ notes' = [notes EXCEPT ![p] = note]
    /\ unsure' = IF note = Absent THEN unsure ELSE unsure \cup Undeduplicated(c)

Refused(c) == Go(c, "failed") /\ UNCHANGED <<notes, unsure>>

Replace(c) ==
    /\ At(c, "replace")
    /\ \/ /\ notes[found[c]] = read[c] /\ found[c] \notin hidden
          /\ Write(c, found[c], New(c)) /\ Go(c, "refresh")
       \/ Refused(c)
    /\ UNCHANGED <<req, hidden, index, found, read, refreshVars, late, published, known>>

\* create_record: the template is read, then the note must not exist.
Create(c) ==
    /\ At(c, "create")
    /\ \/ /\ notes[req[c].path] = Absent /\ req[c].path \notin hidden
          /\ Write(c, req[c].path, New(c)) /\ Go(c, "refresh")
       \/ Refused(c)
    /\ UNCHANGED <<req, hidden, index, found, read, refreshVars, late, published, known>>

\* A note tool replaces or creates its note, or deletes it.
NoteTool(c) ==
    /\ At(c, "note_tool")
    /\ \/ /\ req[c].path \notin hidden /\ (Op(c) = "write" \/ notes[req[c].path] # Absent)
          /\ Write(c, req[c].path, IF Op(c) = "write" THEN New(c) ELSE Absent) /\ Go(c, "refresh")
       \/ Refused(c)
    /\ UNCHANGED <<req, hidden, index, found, read, refreshVars, late, published, known>>

(***************************************************************************)
(* cold_rebuild                                                            *)
(***************************************************************************)
\* Slip: a note the index knows is not read again.
RefreshNewNotes(c) ==
    /\ At(c, "refresh") /\ \A d \in Calls : pc[d] \notin Refreshing
    /\ Go(c, "collect")
    /\ todo' = [todo EXCEPT ![c] = {p \in Paths \ hidden : notes[p] # Absent /\ index[p] = Absent}]
    /\ snap' = [snap EXCEPT ![c] = index]
    /\ UNCHANGED <<req, notes, hidden, index, found, read, late, historyVars>>

\* index_refresh, then the listing.
Refresh(c) ==
    /\ At(c, "refresh") /\ \A d \in Calls : pc[d] \notin Refreshing
    /\ Go(c, "collect")
    /\ todo' = [todo EXCEPT ![c] = {p \in Paths \ hidden : notes[p] # Absent}]
    /\ snap' = [snap EXCEPT ![c] = EmptyRows]
    /\ UNCHANGED <<req, notes, hidden, index, found, read, late, historyVars>>

\* A failed refresh is logged; the call succeeds.
RefreshFails(c) ==
    /\ Go(c, "done") /\ unsure' = unsure \cup Source(c)
    /\ UNCHANGED refreshVars

Collect(c) ==
    /\ At(c, "collect")
    /\ \/ \E p \in todo[c] :
             /\ notes[p] # Absent /\ p \notin hidden
             /\ todo' = [todo EXCEPT ![c] = @ \ {p}] /\ snap' = [snap EXCEPT ![c][p] = Row(p)]
             /\ UNCHANGED <<pc, unsure>>
       \/ /\ IoErrors \/ \E p \in todo[c] : notes[p] = Absent \/ p \in hidden
          /\ RefreshFails(c)
       \/ todo[c] = {} /\ Go(c, "publish") /\ UNCHANGED <<refreshVars, unsure>>
    /\ UNCHANGED <<req, notes, hidden, index, found, read, late, published, known>>

Publish(c) ==
    /\ At(c, "publish")
    /\ \/ index' = snap[c] /\ Go(c, "done") /\ published' = published \cup {c}
          /\ UNCHANGED <<refreshVars, unsure>>
       \/ IoErrors /\ RefreshFails(c) /\ UNCHANGED <<index, published>>
    /\ UNCHANGED <<req, notes, hidden, found, read, late, known>>

(***************************************************************************)
(* Dropped calls and policy reloads                                        *)
(***************************************************************************)
\* What the thread pool still carries out.
Left(c) ==
    CASE At(c, "replace") /\ notes[found[c]] = read[c] /\ found[c] \notin hidden -> "write"
      [] At(c, "create") /\ req[c].path \notin hidden -> "write"
      [] At(c, "publish") -> "rebuild"
      [] OTHER -> "nothing"

Drop(c) ==
    /\ c \in Droppable /\ pc[c] \notin {"idle", "note_tool", "done", "failed", "dropped"}
    /\ Go(c, "dropped")
    /\ late' = [late EXCEPT ![c] = Left(c)]
    /\ unsure' = unsure \cup Source(c)
    /\ UNCHANGED <<req, notes, hidden, index, found, read, refreshVars, published, known>>

\* A rename replaces whatever is there, a hard link nothing.
LateWrite(c) ==
    /\ late[c] = "write" /\ late' = [late EXCEPT ![c] = "nothing"]
    /\ LET p == IF read[c] = Absent THEN req[c].path ELSE found[c]
       IN IF read[c] = Absent /\ notes[p] # Absent THEN UNCHANGED notes
          ELSE notes' = [notes EXCEPT ![p] = New(c)]
    /\ UNCHANGED <<pc, req, hidden, index, found, read, refreshVars, historyVars>>

LateRebuild(c) ==
    /\ late[c] = "rebuild" /\ late' = [late EXCEPT ![c] = "nothing"]
    /\ index' = snap[c] /\ published' = {} /\ unsure' = Sources
    /\ UNCHANGED <<pc, req, notes, hidden, found, read, refreshVars, known>>

PolicyReload ==
    /\ hidden' \in SUBSET Hideable
    /\ unsure' = unsure \cup ({Row(p) : p \in hidden'} \cap Sources)
    /\ UNCHANGED <<pc, req, notes, index, found, read, refreshVars, late, published, known>>

Step(c) ==
    \/ Start(c) \/ Acquire(c) \/ Lookup(c) \/ Read(c) \/ Replace(c) \/ Create(c) \/ NoteTool(c)
    \/ Refresh(c) \/ Collect(c) \/ Publish(c)

Next == (\E c \in Calls : Step(c) \/ Drop(c) \/ LateWrite(c) \/ LateRebuild(c)) \/ PolicyReload

Spec == Init /\ [][Next]_vars

(***************************************************************************)
(* Properties                                                              *)
(***************************************************************************)

\* Captures that replace by source id, however they race or are retried, leave at most
\* one note per id; the excuses are an id given by a call that does not deduplicate, a
\* note that was hidden, and a capture whose refresh failed or which was dropped.
OneNotePerSource ==
    \A s \in Sources \ unsure, p, q \in Paths : Row(p) = s /\ Row(q) = s => p = q

\* A capture trusts the index: it does not look again at the source id of the note it
\* replaces.  Still it never replaces a note of another id whose writer had finished its
\* refresh when the capture looked.
RespectsFinishedWrites ==
    \A c \in Calls, p \in Paths :
      Op(c) \in Captures /\ notes'[p] # notes[p] /\ notes'[p] = New(c) /\ notes[p] # Absent
      /\ notes[p].by \in known[c]
      => Row(p) = req[c].source
FinishedWritesRespected == [][RespectsFinishedWrites]_vars
=============================================================================
