-------------------------- MODULE DailyNotesProofs --------------------------
(***************************************************************************)
(* Proofs about DailyNotes: an append or a repair costs the note nothing,  *)
(* but for a version restored under it without the lock, and the daily     *)
(* tools do not fail each other.                                           *)
(***************************************************************************)
EXTENDS DailyNotes, TLAPS

(***************************************************************************)
(* What a call carries: the text handed to the writer is made from the     *)
(* text that was read, by the tool that was called.                        *)
(***************************************************************************)
Derived(c) ==
    /\ seen[c] \in Contents
    /\ text[c] = IF op[c] = "append" THEN [seen[c] EXCEPT !.section = @ \cup {c}]
                                      ELSE [seen[c] EXCEPT !.marks = "good"]

CarriesInv ==
    \A c \in Calls :
      /\ pc[c] \in {"framework"} \cup Locked => op[c] # "outside"
      /\ pc[c] = "create" => op[c] = "get" /\ text[c] \in Contents
      /\ pc[c] = "template" => op[c] = "get" \/ (op[c] = "repair" /\ seen[c] \in Contents)
      /\ pc[c] = "write" => op[c] \in {"append", "repair"} /\ Derived(c)
      /\ pc[c] # "idle" /\ op[c] \in {"append", "repair"} => base[c] \in Contents
      /\ c \in late => pc[c] = "dropped" /\ text[c] \in Contents /\ op[c] # "outside"

TextInv == TypeOK /\ CarriesInv

LEMMA DerivedText ==
    ASSUME NEW c \in Calls, Derived(c) PROVE text[c] \in Contents
<1>1. "good" \in Marks
  BY DEF Marks
<1>2. [seen[c] EXCEPT !.section = @ \cup {c}] \in Contents
  BY DEF Derived, Contents
<1>3. [seen[c] EXCEPT !.marks = "good"] \in Contents
  BY <1>1 DEF Derived, Contents
<1> QED BY <1>2, <1>3 DEF Derived

LEMMA WrittenText ==
    ASSUME NEW c \in Calls, text[c] \in Contents, op[c] = "append" => base[c] \in Contents
    PROVE  Written(c) \in Contents
<1>1. op[c] = "append" => [base[c] EXCEPT !.section = text[c].section] \in Contents
  BY DEF Contents
<1> QED BY <1>1 DEF Written

LEMMA ChangeTypes ==
    ASSUME TypeOK, NEW c \in Calls, NEW to \in Contents \cup {Absent}, Change(c, to)
    PROVE  note' \in Contents \cup {Absent} /\ past' \subseteq Contents /\ landed' \subseteq Calls
BY DEF TypeOK, Change

LEMMA InitText == DailyAssumption /\ Init => TextInv
<1> SUFFICES ASSUME DailyAssumption, Init PROVE TextInv
  OBVIOUS
<1>1. TypeOK
  BY DEF Init, TypeOK, DailyAssumption, PCs
<1>2. CarriesInv
  BY DEF Init, CarriesInv, Locked
<1> QED BY <1>1, <1>2 DEF TextInv

LEMMA StepText == DailyAssumption /\ TextInv /\ [Next]_vars => TextInv'
<1> SUFFICES ASSUME DailyAssumption, TextInv, [Next]_vars PROVE TextInv'
  OBVIOUS
<1>0. TypeOK /\ CarriesInv /\ \A c \in Calls : op[c] \in Tools
  BY DEF TextInv, TypeOK, DailyAssumption
<1> USE DEF At, Go, Fail
<1>1. ASSUME NEW c \in Calls, Start(c) PROVE TextInv'
  <2>1. TypeOK'
    BY <1>0, <1>1 DEF Start, TypeOK, PCs
  <2>2. CarriesInv'
    BY <1>0, <1>1 DEF Start, TypeOK, CarriesInv, Locked, Derived
  <2> QED BY <2>1, <2>2 DEF TextInv
<1>2. ASSUME NEW c \in Calls, Acquire(c) PROVE TextInv'
  <2>1. TypeOK'
    BY <1>0, <1>2 DEF Acquire, TypeOK, PCs, Locked
  <2>2. CarriesInv'
    BY <1>0, <1>2 DEF Acquire, TypeOK, CarriesInv, Locked, Derived
  <2> QED BY <2>1, <2>2 DEF TextInv
<1>3. ASSUME NEW c \in Calls, ReadNote(c) PROVE TextInv'
  <2>1. note # Absent => [note EXCEPT !.section = @ \cup {c}] \in Contents
    BY <1>0 DEF TypeOK, Contents
  <2>2. op[c] \in {"get", "append", "repair"}
    BY <1>0, <1>3 DEF ReadNote, CarriesInv, Locked, Tools
  <2>3. AfterRead(c) = IF op[c] = "get" THEN "refresh" ELSE IF op[c] = "append" THEN "write" ELSE "template"
    BY <2>2 DEF AfterRead
  <2>4. \E to \in {"refresh", "write", "template", "failed"} : pc' = [pc EXCEPT ![c] = to]
    BY <1>3, <2>2, <2>3 DEF ReadNote
  <2>5. TypeOK'
    BY <1>0, <1>3, <2>1, <2>4 DEF ReadNote, TypeOK, PCs, Locked
  <2>6. pc'[c] = "write" => op[c] = "append" /\ note # Absent
    BY <1>0, <1>3, <2>2, <2>3 DEF ReadNote, TypeOK
  <2>7. pc'[c] = "template" => op[c] = "get" \/ (op[c] = "repair" /\ note # Absent)
    BY <1>0, <1>3, <2>2, <2>3 DEF ReadNote, TypeOK
  <2>8. seen'[c] = note /\ (op[c] = "append" /\ note # Absent => text'[c] = [note EXCEPT !.section = @ \cup {c}])
    BY <1>0, <1>3 DEF ReadNote, TypeOK
  <2>9. /\ pc[c] = "read" /\ pc'[c] \notin {"create", "idle"} /\ UNCHANGED <<op, base, late>>
        /\ \A d \in Calls : d # c => pc'[d] = pc[d] /\ seen'[d] = seen[d] /\ text'[d] = text[d]
    BY <1>0, <1>3, <2>4 DEF ReadNote, TypeOK
  <2>10. pc'[c] = "write" => Derived(c)'
    <3>1. note # Absent => note \in Contents
      BY <1>0 DEF TypeOK
    <3> QED BY <2>6, <2>8, <2>9, <3>1 DEF Derived
  <2>11. CarriesInv'
    <3> SUFFICES ASSUME NEW d \in Calls
                 PROVE  /\ pc'[d] \in {"framework"} \cup Locked => op'[d] # "outside"
                        /\ pc'[d] = "create" => op'[d] = "get" /\ text'[d] \in Contents
                        /\ pc'[d] = "template" => op'[d] = "get" \/ (op'[d] = "repair" /\ seen'[d] \in Contents)
                        /\ pc'[d] = "write" => op'[d] \in {"append", "repair"} /\ Derived(d)'
                        /\ pc'[d] # "idle" /\ op'[d] \in {"append", "repair"} => base'[d] \in Contents
                        /\ d \in late' => pc'[d] = "dropped" /\ text'[d] \in Contents /\ op'[d] # "outside"
      BY DEF CarriesInv
    <3>1. CASE d # c
      BY <1>0, <2>9, <3>1 DEF CarriesInv, Derived
    <3>2. CASE d = c
      BY <1>0, <2>2, <2>6, <2>7, <2>8, <2>9, <2>10, <3>2 DEF CarriesInv, TypeOK
    <3> QED BY <3>1, <3>2
  <2> QED BY <2>5, <2>11 DEF TextInv
<1>4. ASSUME NEW c \in Calls, ReadTemplate(c) PROVE TextInv'
  <2>1. op[c] = "repair" => seen[c] \in Contents /\ [seen[c] EXCEPT !.marks = "good"] \in Contents
    BY <1>0, <1>4 DEF ReadTemplate, CarriesInv, Contents, Marks
  <2>2. \E to \in {"create", "write", "refresh", "failed"} : pc' = [pc EXCEPT ![c] = to]
    BY <1>4 DEF ReadTemplate
  <2>3. text' \in [Calls -> Contents \cup {Absent}]
    BY <1>0, <1>4, <2>1 DEF ReadTemplate, TypeOK
  <2>4. TypeOK'
    BY <1>0, <1>4, <2>2, <2>3 DEF ReadTemplate, TypeOK, PCs, Locked
  <2>5. pc'[c] = "create" => op[c] = "get" /\ text'[c] \in Contents
    BY <1>0, <1>4 DEF ReadTemplate, TypeOK
  <2>6. pc'[c] = "write" => op[c] = "repair" /\ text'[c] = [seen[c] EXCEPT !.marks = "good"]
    BY <1>0, <1>4 DEF ReadTemplate, TypeOK
  <2>7. /\ pc[c] = "template" /\ pc'[c] \notin {"template", "idle"} /\ UNCHANGED <<op, base, late, seen>>
        /\ \A d \in Calls : d # c => pc'[d] = pc[d] /\ text'[d] = text[d]
    BY <1>0, <1>4, <2>2 DEF ReadTemplate, TypeOK
  <2>8. CarriesInv'
    BY <1>0, <2>1, <2>5, <2>6, <2>7 DEF CarriesInv, Locked, Derived, TypeOK
  <2> QED BY <2>4, <2>8 DEF TextInv
<1>5. ASSUME NEW c \in Calls, CreateNote(c) PROVE TextInv'
  <2>1. \E to \in {"read_back", "failed"} : pc' = [pc EXCEPT ![c] = to]
    BY <1>5 DEF CreateNote
  <2>2. text[c] \in Contents
    BY <1>0, <1>5 DEF CreateNote, CarriesInv
  <2>3. note' \in Contents \cup {Absent} /\ past' \subseteq Contents /\ landed' \subseteq Calls
    BY <1>0, <1>5, <2>2, ChangeTypes DEF CreateNote, TypeOK
  <2>4. TypeOK'
    BY <1>0, <1>5, <2>1, <2>3 DEF CreateNote, TypeOK, PCs, Locked
  <2>5. CarriesInv'
    BY <1>0, <1>5, <2>1 DEF CreateNote, CarriesInv, Locked, Derived, TypeOK
  <2> QED BY <2>4, <2>5 DEF TextInv
<1>6. ASSUME NEW c \in Calls, Write(c) PROVE TextInv'
  <2>1. \E to \in {"read_back", "failed"} : pc' = [pc EXCEPT ![c] = to]
    BY <1>6 DEF Write
  <2>2. Written(c) \in Contents
    BY <1>0, <1>6, DerivedText, WrittenText DEF Write, CarriesInv
  <2>3. note' \in Contents \cup {Absent} /\ past' \subseteq Contents /\ landed' \subseteq Calls
    BY <1>0, <1>6, <2>2, ChangeTypes DEF Write, TypeOK
  <2>4. TypeOK'
    BY <1>0, <1>6, <2>1, <2>3 DEF Write, TypeOK, PCs, Locked
  <2>5. CarriesInv'
    BY <1>0, <1>6, <2>1 DEF Write, CarriesInv, Locked, Derived, TypeOK
  <2> QED BY <2>4, <2>5 DEF TextInv
<1>7. ASSUME NEW c \in Calls, ReadBack(c) \/ Refresh(c) PROVE TextInv'
  <2>1. \E to \in {"refresh", "failed", "done"} : pc' = [pc EXCEPT ![c] = to]
    BY <1>7 DEF ReadBack, Refresh
  <2>2. TypeOK'
    BY <1>0, <1>7, <2>1 DEF ReadBack, Refresh, TypeOK, PCs, Locked
  <2>3. CarriesInv'
    BY <1>0, <1>7, <2>1 DEF ReadBack, Refresh, CarriesInv, Locked, Derived, TypeOK
  <2> QED BY <2>2, <2>3 DEF TextInv
<1>8. ASSUME NEW c \in Calls, Outside(c) PROVE TextInv'
  <2>1. PICK to \in Contents \cup {Absent} : Change(c, to)
    BY <1>0, <1>8 DEF Outside, TypeOK, DailyAssumption
  <2>2. note' \in Contents \cup {Absent} /\ past' \subseteq Contents /\ landed' \subseteq Calls
    BY <1>0, <2>1, ChangeTypes
  <2>3. TypeOK'
    BY <1>0, <1>8, <2>2 DEF Outside, TypeOK, PCs, InProgress
  <2>4. CarriesInv'
    BY <1>0, <1>8 DEF Outside, CarriesInv, Locked, Derived, TypeOK
  <2> QED BY <2>3, <2>4 DEF TextInv
<1>9. ASSUME NEW c \in Calls, Drop(c) PROVE TextInv'
  <2>1. TypeOK'
    BY <1>0, <1>9 DEF Drop, TypeOK, PCs
  <2>2. c \in late' \ late => text[c] \in Contents /\ op[c] # "outside"
    BY <1>0, <1>9, DerivedText DEF Drop, CarriesInv
  <2>3. c \in late => FALSE
    BY <1>0, <1>9 DEF Drop, CarriesInv, Locked
  <2>4. CarriesInv'
    BY <1>0, <1>9, <2>2, <2>3 DEF Drop, CarriesInv, Locked, Derived, TypeOK
  <2> QED BY <2>1, <2>4 DEF TextInv
<1>10. ASSUME NEW c \in Calls, LateWrite(c) PROVE TextInv'
  <2>1. pc[c] = "dropped" /\ text[c] \in Contents /\ op[c] # "outside"
    BY <1>0, <1>10 DEF LateWrite, CarriesInv
  <2>2. op[c] # "get" => Written(c) \in Contents
    BY <1>0, <2>1, WrittenText DEF CarriesInv, Tools
  <2>3. note' \in Contents \cup {Absent} /\ past' \subseteq Contents /\ landed' \subseteq Calls
    BY <1>0, <1>10, <2>1, <2>2, ChangeTypes DEF LateWrite, TypeOK
  <2>4. TypeOK'
    BY <1>0, <1>10, <2>3 DEF LateWrite, TypeOK, InProgress
  <2>5. CarriesInv'
    BY <1>0, <1>10 DEF LateWrite, CarriesInv, Locked, Derived
  <2> QED BY <2>4, <2>5 DEF TextInv
<1>11. CASE UNCHANGED vars
  BY <1>0, <1>11 DEF vars, TextInv, TypeOK, CarriesInv, Locked, Derived
<1> QED
  BY <1>1, <1>2, <1>3, <1>4, <1>5, <1>6, <1>7, <1>8, <1>9, <1>10, <1>11 DEF Next, Step

\* Every variable keeps its type, and every call carries the text its tool made.
THEOREM DailyTypes == ASSUME DailyAssumption PROVE Spec => []TextInv
BY InitText, StepText, PTL DEF Spec

(***************************************************************************)
(* Failures.  One call at a time holds the lock; what the holder has seen  *)
(* of the note stays true of it, unless the holder was disturbed.          *)
(***************************************************************************)
OneHolder == \A c, d \in Calls : pc[c] \in Locked /\ pc[d] \in Locked => c = d
Calm ==
    \A c \in Calls : c \notin disturbed =>
      /\ pc[c] \in {"template", "write"} => note = seen[c]
      /\ pc[c] \in {"template", "create"} /\ op[c] = "get" => note = Absent
      /\ pc[c] = "read_back" => note # Absent
Landings == \A c \in landed : pc[c] \in {"read_back", "refresh", "done", "failed", "dropped"}
FailInv == OneHolder /\ Calm /\ Landings /\ FailuresExplained

LEMMA InitFail == Init => FailInv
<1> SUFFICES ASSUME Init PROVE FailInv
  OBVIOUS
<1>1. OneHolder /\ Calm /\ Landings
  BY DEF Init, OneHolder, Calm, Landings, Locked
<1>2. FailuresExplained
  BY DEF Init, FailuresExplained, At
<1> QED BY <1>1, <1>2 DEF FailInv

\* A step of one call that leaves the note alone.
LEMMA FailKept ==
    ASSUME TextInv, FailInv, NEW c \in Calls, NEW to \in PCs, Go(c, to),
           to \in Locked => \A d \in Calls : d # c => pc[d] \notin Locked,
           to \in {"template", "write"} => note = seen'[c] \/ c \in disturbed',
           to \in {"template", "create"} /\ op[c] = "get" => note = Absent \/ c \in disturbed',
           to = "read_back" => note # Absent \/ c \in disturbed',
           c \in landed => to \in {"refresh", "done", "failed", "dropped"},
           to = "failed" /\ (op[c] = "get" \/ c \in landed) => c \in disturbed',
           disturbed \subseteq disturbed', UNCHANGED <<op, note, landed>>,
           \A d \in Calls : d # c => seen'[d] = seen[d]
    PROVE  FailInv'
<1>1. pc'[c] = to /\ \A d \in Calls : d # c => pc'[d] = pc[d]
  BY DEF Go, TextInv, TypeOK
<1> USE DEF FailInv
<1>2. OneHolder'
  BY <1>1 DEF OneHolder
<1>3. Calm'
  BY <1>1 DEF Calm
<1>4. Landings'
  BY <1>1 DEF Landings, TextInv, TypeOK
<1>5. FailuresExplained'
  BY <1>1 DEF FailuresExplained, At
<1> QED BY <1>2, <1>3, <1>4, <1>5

\* The holder of the lock changes the note: nobody else has seen it.
LEMMA FailChange ==
    ASSUME TextInv, FailInv, NEW c \in Calls, pc[c] \in Locked,
           Go(c, "read_back"), note' # Absent, landed' = landed \cup {c}, UNCHANGED <<op, seen, disturbed>>
    PROVE  FailInv'
<1>1. pc'[c] = "read_back" /\ \A d \in Calls : d # c => pc'[d] = pc[d] /\ pc[d] \notin Locked
  BY DEF Go, TextInv, TypeOK, FailInv, OneHolder
<1> USE DEF FailInv
<1>2. OneHolder'
  BY <1>1 DEF OneHolder
<1>3. Calm'
  BY <1>1 DEF Calm, Locked
<1>4. Landings'
  BY <1>1 DEF Landings, TextInv, TypeOK
<1>5. FailuresExplained'
  BY <1>1 DEF FailuresExplained, At
<1> QED BY <1>2, <1>3, <1>4, <1>5

\* A change made without the lock disturbs whoever holds it.
LEMMA FailDisturbed ==
    ASSUME TextInv, FailInv, NEW c \in Calls, NEW to \in {"done", "dropped"},
           pc[c] \notin Locked, Go(c, to) \/ (pc[c] = "dropped" /\ pc' = pc),
           landed' \in {landed, landed \cup {c}}, UNCHANGED <<op, seen>>,
           disturbed' = disturbed \cup InProgress(c)
    PROVE  FailInv'
<1>1. pc'[c] \in {"done", "dropped"} /\ \A d \in Calls : d # c => pc'[d] = pc[d]
  BY DEF Go, TextInv, TypeOK
<1>2. \A d \in Calls : pc'[d] \in Locked => (d \in disturbed' \/ pc'[d] = "read") /\ pc'[d] = pc[d]
  BY <1>1 DEF InProgress, Locked
<1> USE DEF FailInv
<1>3. OneHolder'
  BY <1>2 DEF OneHolder
<1>4. Calm'
  BY <1>2 DEF Calm, Locked
<1>5. Landings'
  BY <1>1 DEF Landings, TextInv, TypeOK
<1>6. FailuresExplained'
  BY <1>1 DEF FailuresExplained, At
<1> QED BY <1>3, <1>4, <1>5, <1>6

LEMMA FailStep == DailyAssumption /\ TextInv /\ FailInv /\ [Next]_vars => FailInv'
<1> SUFFICES ASSUME DailyAssumption, TextInv, FailInv, [Next]_vars PROVE FailInv'
  OBVIOUS
<1>a. ASSUME NEW c \in Calls, c \in landed
      PROVE  pc[c] \in {"read_back", "refresh", "done", "failed", "dropped"}
  BY <1>a DEF FailInv, Landings
<1>b. ASSUME NEW c \in Calls, pc[c] \in Locked PROVE \A d \in Calls : d # c => pc[d] \notin Locked
  BY <1>b DEF FailInv, OneHolder
<1>c. ASSUME NEW c \in Calls, text[c] \in Contents PROVE text[c] # Absent /\ {text[c]} \ {Absent} = {text[c]}
  BY <1>c DEF DailyAssumption
<1> USE DEF At
<1>1. ASSUME NEW c \in Calls, Start(c) PROVE FailInv'
  <2>1. PICK to \in {"outside", "framework"} : Go(c, to)
    BY <1>1 DEF Start
  <2>2. to \in PCs \ Locked /\ c \notin landed
    BY <1>1, <1>a DEF Start, PCs, Locked
  <2> QED BY <1>1, <2>1, <2>2, FailKept DEF Start
<1>2. ASSUME NEW c \in Calls, Acquire(c) PROVE FailInv'
  <2>1. "read" \in PCs /\ c \notin landed
    BY <1>2, <1>a DEF Acquire, PCs, Locked
  <2> QED BY <1>2, <2>1, FailKept DEF Acquire
<1>3. ASSUME NEW c \in Calls, ReadNote(c) PROVE FailInv'
  <2>1. pc[c] = "read" /\ c \notin landed /\ pc[c] \in Locked
    BY <1>3, <1>a DEF ReadNote, Locked
  <2>2. op[c] \in {"get", "append", "repair"}
    BY <2>1 DEF TextInv, TypeOK, CarriesInv, DailyAssumption, Tools
  <2>3. AfterRead(c) \in {"refresh", "write", "template"} /\ (op[c] = "get" => AfterRead(c) = "refresh")
    BY <2>2 DEF AfterRead
  <2>4. PICK to \in {"refresh", "write", "template", "failed"} :
            /\ Go(c, to) /\ disturbed \subseteq disturbed'
            /\ to = "template" /\ op[c] = "get" => note = Absent
            /\ to = "failed" /\ op[c] = "get" => c \in disturbed'
    BY <1>3, <2>3 DEF ReadNote, Unusable, Fail
  <2>5. to \in PCs /\ to \notin {"create", "read_back"}
    BY <2>4 DEF PCs, Locked
  <2>6. UNCHANGED <<op, note, landed>> /\ seen'[c] = note /\ \A d \in Calls : d # c => seen'[d] = seen[d]
    BY <1>3 DEF ReadNote, TextInv, TypeOK
  <2> QED BY <1>b, <2>1, <2>4, <2>5, <2>6, FailKept
<1>4. ASSUME NEW c \in Calls, ReadTemplate(c) PROVE FailInv'
  <2>1. pc[c] = "template" /\ c \notin landed /\ pc[c] \in Locked
    BY <1>4, <1>a DEF ReadTemplate, Locked
  <2>2. PICK to \in {"create", "write", "refresh", "failed"} :
            /\ Go(c, to) /\ disturbed \subseteq disturbed'
            /\ to = "failed" => c \in disturbed'
    BY <1>4 DEF ReadTemplate, Fail
  <2>3. (op[c] = "get" => note = Absent \/ c \in disturbed) /\ (note = seen[c] \/ c \in disturbed)
    BY <2>1 DEF FailInv, Calm
  <2>4. to \in PCs /\ to \notin {"template", "read_back"}
    BY <2>2 DEF PCs, Locked
  <2>5. UNCHANGED <<op, note, landed, seen>>
    BY <1>4 DEF ReadTemplate
  <2> QED BY <1>b, <2>1, <2>2, <2>3, <2>4, <2>5, FailKept
<1>5. ASSUME NEW c \in Calls, CreateNote(c) PROVE FailInv'
  <2>1. pc[c] = "create" /\ c \notin landed /\ pc[c] \in Locked /\ op[c] = "get" /\ text[c] # Absent
    BY <1>5, <1>a, <1>c DEF CreateNote, Locked, TextInv, CarriesInv
  <2>2. CASE Change(c, text[c]) /\ Go(c, "read_back") /\ UNCHANGED disturbed
    BY <1>5, <2>1, <2>2, FailChange DEF CreateNote, Change
  <2>3. CASE /\ Go(c, "failed") /\ UNCHANGED <<note, landed>>
             /\ disturbed' = disturbed \cup {c} \/ (note # Absent /\ UNCHANGED disturbed)
    <3>1. c \in disturbed' /\ disturbed \subseteq disturbed'
      BY <2>1, <2>3 DEF FailInv, Calm
    <3>2. "failed" \in PCs \ Locked
      BY DEF PCs, Locked
    <3> QED BY <1>5, <2>1, <2>3, <3>1, <3>2, FailKept DEF CreateNote
  <2> QED BY <1>5, <2>2, <2>3 DEF CreateNote, Fail
<1>6. ASSUME NEW c \in Calls, Write(c) PROVE FailInv'
  <2>1. pc[c] = "write" /\ c \notin landed /\ pc[c] \in Locked /\ op[c] # "get" /\ Written(c) # Absent
    <3>1. pc[c] = "write" /\ op[c] \in {"append", "repair"} /\ text[c] \in Contents /\ base[c] \in Contents
      BY <1>6, DerivedText DEF Write, TextInv, CarriesInv
    <3>2. Written(c) \in Contents
      BY <3>1, WrittenText
    <3> QED BY <1>a, <3>1, <3>2 DEF Locked, DailyAssumption
  <2>2. CASE Change(c, Written(c)) /\ Go(c, "read_back") /\ UNCHANGED disturbed
    BY <1>6, <2>1, <2>2, FailChange DEF Write, Change
  <2>3. CASE Go(c, "failed") /\ UNCHANGED <<note, landed>> /\ disturbed \subseteq disturbed'
    <3>1. "failed" \in PCs \ Locked
      BY DEF PCs, Locked
    <3> QED BY <1>6, <2>1, <2>3, <3>1, FailKept DEF Write
  <2> QED BY <1>6, <2>2, <2>3 DEF Write, Fail
<1>7. ASSUME NEW c \in Calls, ReadBack(c) PROVE FailInv'
  <2>1. pc[c] = "read_back" /\ pc[c] \in Locked
    BY <1>7 DEF ReadBack, Locked
  <2>2. PICK to \in {"refresh", "failed"} :
            Go(c, to) /\ disturbed \subseteq disturbed' /\ (to = "failed" => note = Absent \/ c \in disturbed')
    BY <1>7 DEF ReadBack, Fail
  <2>3. to = "failed" => c \in disturbed'
    BY <2>1, <2>2 DEF FailInv, Calm
  <2>4. to \in PCs /\ to \notin {"template", "create", "read_back"}
    BY <2>2 DEF PCs, Locked
  <2>5. UNCHANGED <<op, note, landed, seen>>
    BY <1>7 DEF ReadBack
  <2> QED BY <1>b, <2>1, <2>2, <2>3, <2>4, <2>5, FailKept
<1>8. ASSUME NEW c \in Calls, Refresh(c) PROVE FailInv'
  <2>1. "done" \in PCs \ Locked
    BY DEF PCs, Locked
  <2> QED BY <1>8, <2>1, FailKept DEF Refresh
<1>9. ASSUME NEW c \in Calls, Outside(c) PROVE FailInv'
  <2>1. pc[c] \notin Locked /\ landed' = landed \cup {c}
    BY <1>9 DEF Outside, Locked, Change
  <2> QED BY <1>9, <2>1, FailDisturbed DEF Outside
<1>10. ASSUME NEW c \in Calls, Drop(c) PROVE FailInv'
  <2>1. "dropped" \in PCs \ Locked
    BY DEF PCs, Locked
  <2> QED BY <1>10, <2>1, FailKept DEF Drop
<1>11. ASSUME NEW c \in Calls, LateWrite(c) PROVE FailInv'
  <2>1. pc[c] = "dropped" /\ pc' = pc /\ pc[c] \notin Locked
    BY <1>11 DEF LateWrite, TextInv, CarriesInv, Locked
  <2>2. landed' \in {landed, landed \cup {c}}
    BY <1>11 DEF LateWrite, Change
  <2> QED BY <1>11, <2>1, <2>2, FailDisturbed DEF LateWrite
<1>12. CASE UNCHANGED vars
  BY <1>12 DEF vars, FailInv, OneHolder, Calm, Landings, FailuresExplained
<1> QED
  BY <1>1, <1>2, <1>3, <1>4, <1>5, <1>6, <1>7, <1>8, <1>9, <1>10, <1>11, <1>12 DEF Next, Step

\* A daily_note_get fails, and a daily tool reports a failure for a change it has made, only
\* when a fault, a missing template or a change made without framework_mutation_lock is
\* behind it: two first reads of a day do not fail each other (daily_note_get creates the
\* note).
THEOREM DailyFailuresExplained == ASSUME DailyAssumption PROVE Spec => []FailuresExplained
<1>1. FailInv => FailuresExplained
  BY DEF FailInv
<1> QED BY <1>1, InitFail, FailStep, DailyTypes, PTL DEF Spec

\* An append or a repair loses no entry and no text of the note, unless a change made
\* without framework_mutation_lock, between its reading and its write, brought back the
\* version its client had named; then it loses only entries that it did not read
\* (Framework::daily computes the text from its reading, the writer compares the hash the
\* client sent).
THEOREM DailyToolsOnlyAdd == ASSUME DailyAssumption PROVE Spec => OnlyAdds
<1>1. TextInv /\ FailInv /\ [Next]_vars => [Adds]_vars
  <2> SUFFICES ASSUME TextInv, FailInv, Next, NEW c \in Calls, pc[c] = "write", pc'[c] = "read_back"
               PROVE  /\ note # Absent /\ note.section \cap seen[c].section \subseteq note'.section
                      /\ op[c] = "append" => c \in note'.section /\ note'.rest = note.rest
                      /\ AsRead(c) => note.section \subseteq note'.section /\ note'.rest = note.rest
    BY DEF Adds, At
  <2>1. Write(c)
    <3>1. PICK d \in Calls : Step(d) \/ Drop(d) \/ LateWrite(d)
      BY DEF Next
    <3>2. ASSUME NEW at, Go(d, at) PROVE d = c /\ at = "read_back"
      BY <3>2 DEF Go, TextInv, TypeOK
    <3>3. ~Start(d) /\ ~Acquire(d) /\ ~Refresh(d) /\ ~Outside(d)
      BY <3>2 DEF Start, Acquire, Refresh, Outside, At
    <3>4. ~ReadNote(d) /\ ~ReadTemplate(d)
      BY <3>2 DEF ReadNote, ReadTemplate, Fail, At
    <3>5. ~CreateNote(d) /\ ~ReadBack(d)
      BY <3>2 DEF CreateNote, ReadBack, Fail, At
    <3>6. ~Drop(d) /\ ~LateWrite(d)
      BY <3>2 DEF Drop, LateWrite
    <3> QED BY <3>1, <3>2, <3>3, <3>4, <3>5, <3>6 DEF Step, Write, Fail
  <2>2. Accepts(c) /\ note' = Written(c)
    BY <2>1 DEF Write, Change, Go, Fail, TextInv, TypeOK
  <2>3. note = base[c] /\ note \in Contents /\ op[c] \in {"append", "repair"} /\ Derived(c)
    BY <2>2 DEF Accepts, TextInv, CarriesInv
  <2>4. AsRead(c) => note = seen[c]
    BY <2>3 DEF AsRead, FailInv, Calm
  <2>5. CASE op[c] = "append"
    <3>1. note' = [note EXCEPT !.section = seen[c].section \cup {c}]
      BY <2>2, <2>3, <2>5 DEF Written, Derived, Contents
    <3> QED BY <2>3, <2>4, <2>5, <3>1 DEF Contents, DailyAssumption
  <2>6. CASE op[c] = "repair"
    <3>1. note' = [seen[c] EXCEPT !.marks = "good"]
      BY <2>2, <2>3, <2>6 DEF Written, Derived
    <3> QED BY <2>3, <2>4, <2>6, <3>1 DEF Contents, DailyAssumption, Derived
  <2> QED BY <2>3, <2>5, <2>6
<1> QED BY <1>1, InitFail, FailStep, DailyTypes, PTL DEF Spec, OnlyAdds
=============================================================================
