--------------------------- MODULE AtomicRegistry ---------------------------
(***************************************************************************)
(* What the registry tools promise their callers: a call changes the       *)
(* registry file at most once, in one step and before it is answered, and  *)
(* the change is the one its request describes, made to the registrations  *)
(* of that very moment.  Success is answered for a change that was made or *)
(* for a removal that had nothing to remove, an error for a change that    *)
(* was not made.  One error has a text of its own: the change stands, but  *)
(* something was left undone after it.                                     *)
(* The exceptions are the stale calls: those overtaken by a writer that    *)
(* does not take the lock, and dropped calls whose change is still to      *)
(* come.  They may write what they have read earlier, with their own       *)
(* change made to it.                                                      *)
(***************************************************************************)
CONSTANTS Calls, Droppable, Absent, Preset

VARIABLES req, outcome, file, landed, stale

vars == <<req, outcome, file, landed, stale>>

Op(c) == req[c].op
Registered == IF file = Absent THEN {} ELSE file

Others(c, entries) == {e \in entries : e.name # req[c].entry.name}
Updated(c, entries) ==
    IF Op(c) = "register" THEN Others(c, entries) \cup {req[c].entry} ELSE Others(c, entries)

Init ==
    /\ outcome = [c \in Calls |-> "none"]
    /\ file # Preset
    /\ landed = {} /\ stale = {}

\* A change of the file, the only one of its call.
Land(c) ==
    /\ outcome[c] = "none" /\ c \notin landed
    /\ landed' = landed \cup {c}
    /\ UNCHANGED req

\* Only a stale call makes others stale.
Overtakes(c) == IF c \in stale THEN stale \ {c} \subseteq stale' ELSE UNCHANGED stale

Update(c) ==
    /\ Op(c) \in {"register", "unregister"} /\ c \notin stale
    /\ Registered # Preset /\ file' = Updated(c, Registered)
    /\ Land(c) /\ UNCHANGED <<outcome, stale>>

StaleUpdate(c) ==
    /\ Op(c) \in {"register", "unregister"} /\ c \in stale
    /\ file' # Preset /\ file' = Updated(c, file')
    /\ Land(c) /\ Overtakes(c) /\ UNCHANGED outcome

Initialise(c) ==
    /\ Op(c) \in {"init_create", "init_overwrite"}
    /\ Op(c) = "init_create" => file = Absent
    /\ file' = Preset
    /\ Land(c) /\ Overtakes(c) /\ UNCHANGED outcome

\* A note tool does not know what the file is to the registry.
NoteTool(c) ==
    /\ Op(c) = "note_write"
    /\ file' # file /\ stale \subseteq stale'
    /\ Land(c) /\ outcome' = [outcome EXCEPT ![c] = "ok"]

Answer(c, result) ==
    /\ outcome[c] = "none"
    /\ outcome' = [outcome EXCEPT ![c] = result]
    /\ stale' \in {stale, stale \ {c}}
    /\ UNCHANGED <<req, file, landed>>

NothingToRemove(c) ==
    Op(c) = "unregister" /\ (c \in stale \/ (Registered # Preset /\ Updated(c, Registered) = Registered))

Accept(c) ==
    /\ Op(c) \in {"list", "reload", "compose"} \/ c \in landed \/ NothingToRemove(c)
    /\ Answer(c, "ok")

Refuse(c) == Answer(c, IF c \in landed THEN "unclean" ELSE "error")

Abandon(c) ==
    /\ c \in Droppable /\ outcome[c] = "none"
    /\ stale' = stale \cup {c}
    /\ UNCHANGED <<req, outcome, file, landed>>

\* It reads the file again, or will not change it any more.
Refresh(c) == stale' = stale \ {c} /\ UNCHANGED <<req, outcome, file, landed>>

Next == \E c \in Calls : Update(c) \/ StaleUpdate(c) \/ Initialise(c) \/ NoteTool(c)
                         \/ Accept(c) \/ Refuse(c) \/ Abandon(c) \/ Refresh(c)

Spec == Init /\ [][Next]_vars
=============================================================================
