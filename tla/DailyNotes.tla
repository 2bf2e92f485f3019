----------------------------- MODULE DailyNotes -----------------------------
(***************************************************************************)
(* The note of one day (src/framework/daily.rs): daily_note_get creates it *)
(* from a template when it is missing, daily_note_append adds an entry to  *)
(* its log section, daily_note_repair_markers puts missing markers back.   *)
(* The tools run one at a time under framework_mutation_lock; note tools   *)
(* and editors change the note whenever they like.                         *)
(*                                                                         *)
(* append and repair read the note, compute a new text from what they read *)
(* and hand it to the writer with the hash the client sent: the writer     *)
(* compares that hash with the note, not with the text that was read.      *)
(***************************************************************************)

CONSTANTS
    Calls,      \* the tool calls that are ever issued; an entry is the call that adds it
    Droppable,  \* those whose future may be dropped
    Ops,        \* [Calls -> Tools], what each call does
    Rests,      \* texts outside the log section
    Drafts,     \* the contents a note tool or an editor may give the note
    Absent,     \* the note does not exist
    Faults      \* whether reads and writes may fail, for I/O, policy or cooldown

Tools == {"get", "append", "repair", "outside"}
Marks == {"good", "missing", "reversed"}
Contents == [section: SUBSET Calls, rest: Rests, marks: Marks]

DailyAssumption ==
    /\ (\A d \in Contents : d # Absent) /\ Droppable \subseteq Calls
    /\ Ops \subseteq [Calls -> Tools] /\ Drafts \subseteq Contents /\ Faults \in BOOLEAN

VARIABLES
    pc, op,
    base,      \* the version whose hash the client sends
    seen,      \* the text the call has read
    text,      \* the text the call hands to the writer
    note,      \* the note of the day
    template,  \* the daily template
    late,      \* dropped calls whose rename or link is still to happen
    past,      \* history: what the note has ever been
    landed,    \* history: calls that have changed the note
    disturbed  \* history: calls that met a fault, or a change made without the lock after they read

vars == <<pc, op, base, seen, text, note, template, late, past, landed, disturbed>>

Locked == {"read", "template", "create", "write", "read_back", "refresh"}
PCs == {"idle", "framework", "outside", "done", "failed", "dropped"} \cup Locked

TypeOK ==
    /\ pc \in [Calls -> PCs] /\ op \in Ops
    /\ base \in [Calls -> Contents \cup {Absent}]
    /\ seen \in [Calls -> Contents \cup {Absent}] /\ text \in [Calls -> Contents \cup {Absent}]
    /\ note \in Contents \cup {Absent} /\ template \in Contents \cup {Absent}
    /\ late \subseteq Calls /\ past \subseteq Contents
    /\ landed \subseteq Calls /\ disturbed \subseteq Calls

Init ==
    /\ pc = [c \in Calls |-> "idle"] /\ op \in Ops
    /\ base = [c \in Calls |-> Absent]
    /\ seen = [c \in Calls |-> Absent] /\ text = [c \in Calls |-> Absent]
    /\ note \in Drafts \cup {Absent}
    /\ template \in {t \in Drafts : t.section = {}} \cup {Absent}
    /\ late = {} /\ past = {note} \ {Absent} /\ landed = {} /\ disturbed = {}

At(c, at) == pc[c] = at
Go(c, to) == pc' = [pc EXCEPT ![c] = to]
Fail(c) == Go(c, "failed") /\ disturbed' = disturbed \cup {c}

\* The client of an append or a repair sends the hash of a version it has seen.
Start(c) ==
    /\ At(c, "idle") /\ Go(c, IF op[c] = "outside" THEN "outside" ELSE "framework")
    /\ \/ op[c] \in {"append", "repair"} /\ \E v \in past : base' = [base EXCEPT ![c] = v]
       \/ op[c] \in {"get", "outside"} /\ UNCHANGED base
    /\ UNCHANGED <<op, seen, text, note, template, late, past, landed, disturbed>>

\* Slip: the daily tools do not wait for each other.
AcquireNothing(c) ==
    /\ At(c, "framework")
    /\ Go(c, "read")
    /\ UNCHANGED <<op, base, seen, text, note, template, late, past, landed, disturbed>>

Acquire(c) ==
    /\ At(c, "framework") /\ \A d \in Calls : pc[d] \notin Locked
    /\ Go(c, "read")
    /\ UNCHANGED <<op, base, seen, text, note, template, late, past, landed, disturbed>>

\* An append needs a writable section with its markers in order.
AfterRead(c) ==
    CASE op[c] = "get" -> "refresh"
      [] op[c] = "append" -> "write"
      [] op[c] = "repair" -> "template"
Unusable(c) == op[c] = "append" /\ note.marks # "good"

ReadNote(c) ==
    /\ At(c, "read")
    /\ \/ note # Absent /\ ~Unusable(c) /\ Go(c, AfterRead(c)) /\ UNCHANGED disturbed
       \/ note # Absent /\ Unusable(c) /\ Go(c, "failed") /\ UNCHANGED disturbed
       \/ note = Absent /\ Go(c, IF op[c] = "get" THEN "template" ELSE "failed") /\ UNCHANGED disturbed
       \/ Faults /\ Fail(c)
    /\ seen' = [seen EXCEPT ![c] = note]
    /\ text' = [text EXCEPT ![c] =
          IF op[c] = "append" /\ note # Absent THEN [note EXCEPT !.section = @ \cup {c}] ELSE @]
    /\ UNCHANGED <<op, base, note, template, late, past, landed>>

\* Both tools need the template.  A repair with no marker to add, or none to take from
\* the template, writes nothing.
Repairable(c) == seen[c].marks = "missing" /\ template.marks = "good"
ReadTemplate(c) ==
    /\ At(c, "template")
    /\ \/ /\ template # Absent /\ op[c] = "get"
          /\ Go(c, "create") /\ text' = [text EXCEPT ![c] = template] /\ UNCHANGED disturbed
       \/ /\ template # Absent /\ op[c] = "repair" /\ Repairable(c)
          /\ Go(c, "write") /\ text' = [text EXCEPT ![c] = [seen[c] EXCEPT !.marks = "good"]]
          /\ UNCHANGED disturbed
       \/ /\ template # Absent /\ op[c] = "repair" /\ ~Repairable(c)
          /\ Go(c, "refresh") /\ UNCHANGED <<text, disturbed>>
       \/ (template = Absent \/ Faults) /\ Fail(c) /\ UNCHANGED text
    /\ UNCHANGED <<op, base, seen, note, template, late, past, landed>>

Change(c, to) ==
    /\ note' = to /\ past' = past \cup ({to} \ {Absent}) /\ landed' = landed \cup {c}

CreateNote(c) ==
    /\ At(c, "create")
    /\ \/ note = Absent /\ Change(c, text[c]) /\ Go(c, "read_back") /\ UNCHANGED disturbed
       \/ note # Absent /\ Go(c, "failed") /\ UNCHANGED <<note, past, landed, disturbed>>
       \/ Faults /\ Fail(c) /\ UNCHANGED <<note, past, landed>>
    /\ UNCHANGED <<op, base, seen, text, template, late>>

\* An append replaces the section of the writer's own reading of the note; a repair
\* replaces the whole of it.
Written(c) ==
    IF op[c] = "append" THEN [base[c] EXCEPT !.section = text[c].section] ELSE text[c]

\* Slip: the writer does not compare the hash.
WriteAnyBase(c) ==
    /\ At(c, "write") /\ note # Absent
    /\ Change(c, IF op[c] = "append" THEN [note EXCEPT !.section = text[c].section] ELSE text[c])
    /\ Go(c, "read_back") /\ UNCHANGED disturbed
    /\ UNCHANGED <<op, base, seen, text, template, late>>

Accepts(c) == note = base[c] /\ (op[c] = "append" => base[c].marks = "good")
Write(c) ==
    /\ At(c, "write")
    /\ \/ Accepts(c) /\ Change(c, Written(c)) /\ Go(c, "read_back") /\ UNCHANGED disturbed
       \/ ~Accepts(c) /\ Go(c, "failed") /\ UNCHANGED <<note, past, landed, disturbed>>
       \/ Faults /\ Fail(c) /\ UNCHANGED <<note, past, landed>>
    /\ UNCHANGED <<op, base, seen, text, template, late>>

\* A failed read-back fails the call, and the index is not refreshed.
ReadBack(c) ==
    /\ At(c, "read_back")
    /\ \/ note # Absent /\ Go(c, "refresh") /\ UNCHANGED disturbed
       \/ note = Absent /\ Go(c, "failed") /\ UNCHANGED disturbed
       \/ Faults /\ Fail(c)
    /\ UNCHANGED <<op, base, seen, text, note, template, late, past, landed>>

Refresh(c) ==
    /\ At(c, "refresh") /\ Go(c, "done")
    /\ UNCHANGED <<op, base, seen, text, note, template, late, past, landed, disturbed>>

(***************************************************************************)
(* Without the lock                                                        *)
(***************************************************************************)
InProgress(c) == {d \in Calls \ {c} : pc[d] \in Locked \ {"read"}}

\* A note tool gives the note a new content, an old one, or deletes it.
Outside(c) ==
    /\ At(c, "outside") /\ Go(c, "done")
    /\ \E to \in Drafts \cup past \cup {Absent} : to # note /\ Change(c, to)
    /\ disturbed' = disturbed \cup InProgress(c)
    /\ UNCHANGED <<op, base, seen, text, template, late>>

Drop(c) ==
    /\ c \in Droppable /\ pc[c] \in Locked
    /\ Go(c, "dropped")
    /\ late' = IF At(c, "create") \/ (At(c, "write") /\ Accepts(c)) THEN late \cup {c} ELSE late
    /\ UNCHANGED <<op, base, seen, text, note, template, past, landed, disturbed>>

LateWrite(c) ==
    /\ c \in late /\ late' = late \ {c}
    /\ \/ op[c] = "get" /\ note = Absent /\ Change(c, text[c])
       \/ op[c] # "get" /\ Change(c, Written(c))
       \/ UNCHANGED <<note, past, landed>>
    /\ disturbed' = disturbed \cup InProgress(c)
    /\ UNCHANGED <<pc, op, base, seen, text, template>>

Step(c) ==
    \/ Start(c) \/ Acquire(c) \/ ReadNote(c) \/ ReadTemplate(c) \/ CreateNote(c) \/ Write(c)
    \/ ReadBack(c) \/ Refresh(c) \/ Outside(c)

Next == \E c \in Calls : Step(c) \/ Drop(c) \/ LateWrite(c)

Spec == Init /\ [][Next]_vars

(***************************************************************************)
(* Properties                                                              *)
(***************************************************************************)

\* An append or a repair adds to the note what it is called for and costs no entry of the
\* log and no text around it, although its new text is made from its own reading of the
\* note and checked against the version that the client names.  There is one exception:
\* without the lock, someone turned the note back into the named version after the call
\* had read another.  Then it takes the entries with it that were not there at the
\* reading, and no others; an append still leaves the rest of the note alone.
AsRead(c) == c \notin disturbed \/ seen[c] = base[c]
Adds ==
    \A c \in Calls :
      At(c, "write") /\ pc'[c] = "read_back" =>
          /\ note # Absent /\ note.section \cap seen[c].section \subseteq note'.section
          /\ op[c] = "append" => c \in note'.section /\ note'.rest = note.rest
          /\ AsRead(c) => note.section \subseteq note'.section /\ note'.rest = note.rest
OnlyAdds == [][Adds]_vars

\* Daily tools do not fail each other: a get fails, or a call reports a failure for a
\* change it has made, only when a fault, the template or a change made without the
\* lock is behind it.  So two first reads of a day both return the note.
FailuresExplained ==
    \A c \in Calls : At(c, "failed") /\ (op[c] = "get" \/ c \in landed) => c \in disturbed
=============================================================================
