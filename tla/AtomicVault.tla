---------------------------- MODULE AtomicVault ----------------------------
(***************************************************************************)
(* What the writer promises its callers: each tool call is answered once,  *)
(* and an accepted mutation is one atomic compare-and-set of one file.     *)
(* A create is accepted only where nothing exists, every other operation   *)
(* only while the file holds the content the caller named as its base.     *)
(* A soft delete is accepted only once the content is kept elsewhere.      *)
(* Refusal is always allowed: a hash, policy, cooldown or I/O error says   *)
(* only that nothing was changed.                                          *)
(*                                                                         *)
(* Two kinds of calls get less.  A call that was overtaken, by an editor   *)
(* or a late change, may find something else than its base.  A call that   *)
(* was abandoned while its change was on the way may still make it, once,  *)
(* at any later time and unanswered.                                       *)
(***************************************************************************)
CONSTANTS Calls, Files, FileOf, Absent,
          Edited,     \* whether someone else edits the files
          Droppable   \* whether calls may be abandoned

VARIABLES req, outcome, text,
          kept,       \* calls that have copied their note to the trash
          landed,     \* calls that have made their change
          overtaken, abandoned

vars == <<req, outcome, text, kept, landed, overtaken, abandoned>>

Entry(c) == FileOf[req[c].path]

\* Each operation writes what the caller sent and keeps what it did not send.
Result(r) ==
    CASE r.op = "replace"     -> r.text
      [] r.op = "frontmatter" -> [r.base EXCEPT !.front = r.text.front]
      [] r.op = "marker"      -> [r.base EXCEPT !.body = r.text.body]

Init ==
    /\ outcome = [c \in Calls |-> "none"]
    /\ kept = {} /\ landed = {} /\ overtaken = {} /\ abandoned = {}

BaseCurrent(c) == text[Entry(c)] = req[c].base \/ c \in overtaken \cup abandoned

\* The one change of a call, which answers it unless it was abandoned.
Land(c, x) ==
    /\ outcome[c] = "none" /\ c \notin landed
    /\ text' = [text EXCEPT ![Entry(c)] = x]
    /\ landed' = landed \cup {c}
    /\ \/ /\ c \notin abandoned /\ outcome' = [outcome EXCEPT ![c] = "ok"]
          /\ UNCHANGED <<overtaken, abandoned>>
       \/ /\ c \in abandoned /\ abandoned' = abandoned \ {c}
          /\ overtaken \subseteq overtaken' /\ UNCHANGED outcome
    /\ UNCHANGED <<req, kept>>

Create(c) ==
    /\ req[c].op = "create" /\ text[Entry(c)] = Absent
    /\ Land(c, req[c].text)

Update(c) ==
    /\ req[c].op \in {"replace", "frontmatter", "marker"}
    /\ BaseCurrent(c) /\ Land(c, Result(req[c]))

Delete(c) ==
    /\ req[c].op \in {"delete", "hard_delete"}
    /\ BaseCurrent(c) /\ text[Entry(c)] # Absent
    /\ req[c].op = "delete" => c \in kept
    /\ Land(c, Absent)

Refuse(c) ==
    /\ outcome[c] = "none" /\ c \notin landed \cup abandoned
    /\ outcome' = [outcome EXCEPT ![c] = "error"]
    /\ UNCHANGED <<req, text, kept, landed, overtaken, abandoned>>

\* A delete that is still undecided copies the note to a name that is free.
Keep(c) ==
    /\ outcome[c] = "none" /\ c \notin landed
    /\ req[c].op = "delete" /\ BaseCurrent(c) /\ text[Entry(c)] # Absent
    /\ \E f \in Files :
          text[f] = Absent /\ text' = [text EXCEPT ![f] = text[Entry(c)]]
    /\ kept' = kept \cup {c}
    /\ \/ c \notin abandoned /\ UNCHANGED <<overtaken, abandoned>>
       \/ /\ c \in abandoned /\ abandoned' = abandoned \ {c}
          /\ overtaken \subseteq overtaken'
    /\ UNCHANGED <<req, outcome, landed>>

Abandon(c) ==
    /\ Droppable /\ outcome[c] = "none" /\ c \notin landed
    /\ abandoned' = abandoned \cup {c}
    /\ UNCHANGED <<req, outcome, text, kept, landed, overtaken>>

\* Changes on the way fail, or end with the process.
Forget ==
    /\ abandoned' \subseteq abandoned
    /\ UNCHANGED <<req, outcome, text, kept, landed, overtaken>>

Edit(f) ==
    /\ Edited
    /\ text' = [text EXCEPT ![f] = text'[f]]
    /\ overtaken \subseteq overtaken'
    /\ UNCHANGED <<req, outcome, kept, landed, abandoned>>

Next ==
    \/ \E c \in Calls : Create(c) \/ Update(c) \/ Delete(c) \/ Refuse(c) \/ Keep(c) \/ Abandon(c)
    \/ Forget
    \/ \E f \in Files : Edit(f)

Spec == Init /\ [][Next]_vars
=============================================================================
