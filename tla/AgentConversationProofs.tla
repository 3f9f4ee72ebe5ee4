---------------------- MODULE AgentConversationProofs ----------------------
(* Proofs about AgentConversation for every set of messages and submitters   *)
(* and any number of published configurations: first what holds whatever     *)
(* overlaps and fails, then what holds in an orderly preview, then why a     *)
(* published app loses answers.                                              *)
EXTENDS AgentConversation, TLAPS

(* The parts of a thread that its actions leave alone together: what it      *)
(* loaded and was given, who it is, and what its save will write.            *)
SameLoaded(y, x) == y.base = x.base /\ y.pending = x.pending /\ y.answer = x.answer
SameWho(y, x) == y.scope = x.scope /\ y.resumes = x.resumes
SameWrites(y, x) == y.row = x.row /\ y.sets = x.sets /\ y.others = x.others

OnlyTurn(t) == turn' \in [Turn -> Thread] /\ \A u \in Turn \ {t} : turn'[u] = turn[u]

Pcs == {"idle", "queued", "ready", "loaded", "running", "asking",
        "saving", "selected", "flushed", "done", "failed"}

(* Assigning to one field of a thread yields a thread and keeps the others.  *)
LEMMA SetPc ==
    ASSUME NEW x \in Thread, NEW v \in Pcs
    PROVE  LET y == [x EXCEPT !.pc = v]
           IN  y \in Thread /\ y.pc = v /\ SameLoaded(y, x) /\ SameWho(y, x) /\ SameWrites(y, x)
BY DEF Thread, Pcs, SameLoaded, SameWho, SameWrites

LEMMA SetScope ==
    ASSUME NEW x \in Thread, NEW v \in Scope
    PROVE  LET y == [x EXCEPT !.scope = v]
           IN  /\ y \in Thread /\ y.pc = x.pc /\ SameLoaded(y, x) /\ SameWrites(y, x)
               /\ y.scope = v /\ y.resumes = x.resumes
BY DEF Thread, SameLoaded, SameWrites

LEMMA SetResumes ==
    ASSUME NEW x \in Thread, NEW v \in Turn \cup {None}
    PROVE  LET y == [x EXCEPT !.resumes = v]
           IN  /\ y \in Thread /\ y.pc = x.pc /\ SameLoaded(y, x) /\ SameWrites(y, x)
               /\ y.resumes = v /\ y.scope = x.scope
BY DEF Thread, SameLoaded, SameWrites

LEMMA SetBase ==
    ASSUME NEW x \in Thread, NEW v \in Turn \cup {None}
    PROVE  LET y == [x EXCEPT !.base = v]
           IN  /\ y \in Thread /\ y.pc = x.pc /\ SameWho(y, x) /\ SameWrites(y, x)
               /\ y.base = v /\ y.pending = x.pending /\ y.answer = x.answer
BY DEF Thread, SameWho, SameWrites

LEMMA SetPending ==
    ASSUME NEW x \in Thread, NEW v \in Turn \cup {None}
    PROVE  LET y == [x EXCEPT !.pending = v]
           IN  /\ y \in Thread /\ y.pc = x.pc /\ SameWho(y, x) /\ SameWrites(y, x)
               /\ y.base = x.base /\ y.pending = v /\ y.answer = x.answer
BY DEF Thread, SameWho, SameWrites

LEMMA SetAnswer ==
    ASSUME NEW x \in Thread, NEW v \in Turn \cup {None}
    PROVE  LET y == [x EXCEPT !.answer = v]
           IN  /\ y \in Thread /\ y.pc = x.pc /\ SameWho(y, x) /\ SameWrites(y, x)
               /\ y.base = x.base /\ y.pending = x.pending /\ y.answer = v
BY DEF Thread, SameWho, SameWrites

LEMMA SetRow ==
    ASSUME NEW x \in Thread, NEW v \in Turn \cup {None}
    PROVE  LET y == [x EXCEPT !.row = v]
           IN  /\ y \in Thread /\ y.pc = x.pc /\ SameLoaded(y, x) /\ SameWho(y, x)
               /\ y.row = v /\ y.sets = x.sets /\ y.others = x.others
BY DEF Thread, SameLoaded, SameWho

LEMMA SetSets ==
    ASSUME NEW x \in Thread, NEW v \in SUBSET {"status", "pending"}
    PROVE  LET y == [x EXCEPT !.sets = v]
           IN  /\ y \in Thread /\ y.pc = x.pc /\ SameLoaded(y, x) /\ SameWho(y, x)
               /\ y.row = x.row /\ y.sets = v /\ y.others = x.others
BY DEF Thread, SameLoaded, SameWho

LEMMA SetOthers ==
    ASSUME NEW x \in Thread, NEW v \in SUBSET Turn
    PROVE  LET y == [x EXCEPT !.others = v]
           IN  /\ y \in Thread /\ y.pc = x.pc /\ SameLoaded(y, x) /\ SameWho(y, x)
               /\ y.row = x.row /\ y.sets = x.sets /\ y.others = v
BY DEF Thread, SameLoaded, SameWho

(* The columns an UPDATE sets, and the correlation it writes.                *)
LEMMA ColumnsType ==
    ASSUME NEW t \in Turn, NEW r \in Turn
    PROVE  Columns(t, r) \in SUBSET {"status", "pending"} /\ Correlation(t) \in {t, None}
BY DEF Columns, Correlation

-----------------------------------------------------------------------------
(* What the actions of a thread assign to its record.                        *)
LEMMA MoveGives ==
    ASSUME turn \in [Turn -> Thread], NEW t \in Turn, NEW pc \in Pcs,
           turn' = [turn EXCEPT ![t].pc = pc]
    PROVE  /\ OnlyTurn(t) /\ turn'[t].pc = pc
           /\ SameLoaded(turn'[t], turn[t]) /\ SameWho(turn'[t], turn[t]) /\ SameWrites(turn'[t], turn[t])
<1>. DEFINE new == [turn[t] EXCEPT !.pc = pc]
<1>1. turn' = [turn EXCEPT ![t] = new]
  OBVIOUS
<1>2. /\ new \in Thread /\ new.pc = pc
      /\ SameLoaded(new, turn[t]) /\ SameWho(new, turn[t]) /\ SameWrites(new, turn[t])
  BY SetPc
<1>. HIDE DEF new
<1>. QED  BY <1>1, <1>2 DEF OnlyTurn

LEMMA SendGives ==
    ASSUME TypeOK, NEW t \in Turn, Send(t)
    PROVE  /\ OnlyTurn(t) /\ turn'[t].pc = "ready"
           /\ turn'[t].scope = SessionScope /\ turn'[t].resumes = None
           /\ turn'[t].pending = None /\ turn'[t].answer = None
<1>1. SessionScope \in Scope
  BY ConversationAssumption, SMT DEF TypeOK, SessionScope, Scope, NullScope
<1>. DEFINE new == [NoThread EXCEPT !.pc = "ready", !.scope = SessionScope]
<1>2. /\ new \in Thread /\ new.pc = "ready" /\ new.scope = SessionScope
      /\ new.resumes = None /\ new.pending = None /\ new.answer = None
  BY <1>1 DEF NoThread, Thread
<1>3. turn' = [turn EXCEPT ![t] = new] /\ turn \in [Turn -> Thread]
  BY DEF Send, TypeOK
<1>. HIDE DEF new
<1>. QED  BY <1>2, <1>3 DEF OnlyTurn

LEMMA TakeGives ==
    ASSUME TypeOK, NEW t \in Turn, TakeResume(t)
    PROVE  /\ OnlyTurn(t) /\ turn'[t].pc = "ready"
           /\ turn'[t].scope = NullScope /\ turn'[t].resumes = turn[t].resumes
           /\ SameLoaded(turn'[t], turn[t])
<1>. DEFINE mid == [turn[t] EXCEPT !.pc = "ready"]
            new == [mid EXCEPT !.scope = NullScope]
<1>0. turn \in [Turn -> Thread] /\ turn[t] \in Thread
  BY DEF TypeOK
<1>1. turn' = [turn EXCEPT ![t] = new]
  BY <1>0 DEF TakeResume, ResumeScope
<1>2. /\ mid \in Thread /\ mid.pc = "ready" /\ mid.resumes = turn[t].resumes
      /\ SameLoaded(mid, turn[t])
  BY <1>0, SetPc DEF Pcs, SameWho
<1>. HIDE DEF mid
<1>3. NullScope \in Scope
  BY ConversationAssumption DEF NullScope, Scope
<1>4. /\ new \in Thread /\ new.pc = "ready" /\ new.scope = NullScope
      /\ new.resumes = turn[t].resumes /\ SameLoaded(new, mid)
  BY <1>2, <1>3, SetScope
<1>. HIDE DEF new
<1>. QED  BY <1>0, <1>1, <1>2, <1>4 DEF OnlyTurn, SameLoaded

(* A load finds an active row of its scope, or none.                         *)
LoadedFrom(t) == {r \in Turn : row[r].status = "active" /\ row[r].scope = turn[t].scope}

LEMMA LoadGives ==
    ASSUME TypeOK, NEW t \in Turn, Load(t)
    PROVE  /\ OnlyTurn(t) /\ turn'[t].pc = "loaded"
           /\ SameWho(turn'[t], turn[t]) /\ turn'[t].answer = turn[t].answer
           /\ \/ \E r \in LoadedFrom(t) :
                   turn'[t].base = row[r].snapshot /\ turn'[t].pending = row[r].pending
              \/ LoadedFrom(t) = {} /\ turn'[t].base = turn[t].base /\ turn'[t].pending = turn[t].pending
<1>0. turn \in [Turn -> Thread] /\ turn[t] \in Thread
  BY DEF TypeOK
<1>1. ASSUME NEW r \in LoadedFrom(t),
             turn' = [turn EXCEPT ![t].pc = "loaded", ![t].base = row[r].snapshot,
                                  ![t].pending = row[r].pending]
      PROVE  /\ OnlyTurn(t) /\ turn'[t].pc = "loaded"
             /\ SameWho(turn'[t], turn[t]) /\ turn'[t].answer = turn[t].answer
             /\ turn'[t].base = row[r].snapshot /\ turn'[t].pending = row[r].pending
  <2>. DEFINE b == row[r].snapshot
              p == row[r].pending
              mid == [turn[t] EXCEPT !.pc = "loaded"]
              mid2 == [mid EXCEPT !.base = b]
              new == [mid2 EXCEPT !.pending = p]
  <2>1. turn' = [turn EXCEPT ![t] = new]
    BY <1>0, <1>1
  <2>2. b \in Turn \cup {None} /\ p \in Turn \cup {None}
    BY DEF TypeOK, Row, LoadedFrom
  <2>3. mid \in Thread /\ mid.pc = "loaded" /\ SameWho(mid, turn[t]) /\ mid.answer = turn[t].answer
    BY <1>0, SetPc DEF Pcs, SameLoaded
  <2>. HIDE DEF b, p, mid
  <2>4. mid2 \in Thread /\ mid2.pc = "loaded" /\ mid2.base = b /\ SameWho(mid2, mid) /\ mid2.answer = mid.answer
    BY <2>2, <2>3, SetBase
  <2>. HIDE DEF mid2
  <2>5. /\ new \in Thread /\ new.pc = "loaded" /\ new.base = b /\ new.pending = p
        /\ SameWho(new, mid2) /\ new.answer = mid2.answer
    BY <2>2, <2>4, SetPending
  <2>. HIDE DEF new
  <2>. QED  BY <1>0, <2>1, <2>3, <2>4, <2>5 DEF OnlyTurn, SameWho, b, p
<1>2. CASE LoadedFrom(t) = {} /\ turn' = [turn EXCEPT ![t].pc = "loaded"]
  BY <1>0, <1>2, MoveGives DEF Pcs, SameLoaded
<1>. QED  BY <1>1, <1>2 DEF Load, LoadedFrom

LEMMA RunGives ==
    ASSUME TypeOK, NEW t \in Turn, StartRun(t)
    PROVE  LET f == turn[t].pending IN
           /\ OnlyTurn(t) /\ turn'[t].pc = "running"
           /\ SameWho(turn'[t], turn[t]) /\ turn'[t].base = turn[t].base /\ turn'[t].pending = f
           /\ turn'[t].answer \in {f, None}
           /\ f # None /\ form[f].status \in Settled => turn'[t].answer = f
<1>. DEFINE f == turn[t].pending
            a == IF f # None /\ form[f].status \in Settled THEN f ELSE None
            mid == [turn[t] EXCEPT !.pc = "running"]
            new == [mid EXCEPT !.answer = a]
<1>0. turn \in [Turn -> Thread] /\ turn[t] \in Thread
  BY DEF TypeOK
<1>1. turn' = [turn EXCEPT ![t] = new]
  BY <1>0 DEF StartRun
<1>2. a \in Turn \cup {None} /\ (f # None /\ form[f].status \in Settled => a = f) /\ a \in {f, None}
  BY <1>0 DEF Thread
<1>3. /\ mid \in Thread /\ mid.pc = "running" /\ mid.base = turn[t].base /\ mid.pending = f
      /\ SameWho(mid, turn[t])
  BY <1>0, SetPc DEF Pcs, SameLoaded
<1>. HIDE DEF a, f, mid
<1>4. /\ new \in Thread /\ new.pc = "running" /\ new.answer = a /\ new.base = mid.base
      /\ new.pending = mid.pending /\ SameWho(new, mid)
  BY <1>2, <1>3, SetAnswer
<1>. HIDE DEF new
<1>. QED  BY <1>0, <1>1, <1>2, <1>3, <1>4 DEF OnlyTurn, SameWho, f

LEMMA EndGives ==
    ASSUME TypeOK, NEW t \in Turn, NEW pc \in Pcs, Ended(t, pc)
    PROVE  /\ OnlyTurn(t) /\ turn'[t].pc = pc
           /\ SameLoaded(turn'[t], turn[t]) /\ SameWho(turn'[t], turn[t])
<1>. DEFINE y1 == [turn[t] EXCEPT !.pc = pc]
            y2 == [y1 EXCEPT !.row = None]
            y3 == [y2 EXCEPT !.sets = {}]
            new == [y3 EXCEPT !.others = {}]
<1>0. turn \in [Turn -> Thread] /\ turn[t] \in Thread
  BY DEF TypeOK
<1>1. turn' = [turn EXCEPT ![t] = new]
  BY <1>0 DEF Ended
<1>2. y1 \in Thread /\ y1.pc = pc /\ SameLoaded(y1, turn[t]) /\ SameWho(y1, turn[t])
  BY <1>0, SetPc
<1>. HIDE DEF y1
<1>3. y2 \in Thread /\ y2.pc = pc /\ SameLoaded(y2, y1) /\ SameWho(y2, y1)
  BY <1>2, SetRow
<1>. HIDE DEF y2
<1>4. y3 \in Thread /\ y3.pc = pc /\ SameLoaded(y3, y2) /\ SameWho(y3, y2)
  BY <1>3, SetSets
<1>. HIDE DEF y3
<1>5. new \in Thread /\ new.pc = pc /\ SameLoaded(new, y3) /\ SameWho(new, y3)
  BY <1>4, SetOthers
<1>. HIDE DEF new
<1>. QED  BY <1>0, <1>1, <1>2, <1>3, <1>4, <1>5 DEF OnlyTurn, SameLoaded, SameWho

LEMMA EnqueueGives ==
    ASSUME TypeOK, NEW f \in Turn, EnqueueResume(f)
    PROVE  \/ Faulty /\ turn' = turn
           \/ \E t \in Turn :
                /\ OnlyTurn(t) /\ turn[t].pc = "idle" /\ turn'[t].pc = "queued"
                /\ turn'[t].resumes = f /\ turn'[t].scope = turn[t].scope
                /\ SameLoaded(turn'[t], turn[t])
<1>1. ASSUME NEW t \in Turn, turn[t].pc = "idle",
             turn' = [turn EXCEPT ![t].pc = "queued", ![t].resumes = f]
      PROVE  /\ OnlyTurn(t) /\ turn'[t].pc = "queued"
             /\ turn'[t].resumes = f /\ turn'[t].scope = turn[t].scope
             /\ SameLoaded(turn'[t], turn[t])
  <2>. DEFINE mid == [turn[t] EXCEPT !.pc = "queued"]
              new == [mid EXCEPT !.resumes = f]
  <2>0. turn \in [Turn -> Thread] /\ turn[t] \in Thread
    BY DEF TypeOK
  <2>1. turn' = [turn EXCEPT ![t] = new]
    BY <1>1, <2>0
  <2>2. mid \in Thread /\ mid.pc = "queued" /\ mid.scope = turn[t].scope /\ SameLoaded(mid, turn[t])
    BY <2>0, SetPc DEF Pcs, SameWho
  <2>. HIDE DEF mid
  <2>3. /\ new \in Thread /\ new.pc = "queued" /\ new.resumes = f /\ new.scope = mid.scope
        /\ SameLoaded(new, mid)
    BY <2>2, SetResumes
  <2>. HIDE DEF new
  <2>. QED  BY <2>0, <2>1, <2>2, <2>3 DEF OnlyTurn, SameLoaded
<1>. QED  BY <1>1 DEF EnqueueResume

(* The rows a save may select.                                               *)
Selectable(t) == {r \in Turn : row[r].status # "absent" /\ row[r].scope = turn[t].scope}

LEMMA SelectGives ==
    ASSUME TypeOK, NEW t \in Turn, SelectRow(t)
    PROVE  /\ OnlyTurn(t) /\ turn'[t].pc = "selected"
           /\ SameLoaded(turn'[t], turn[t]) /\ SameWho(turn'[t], turn[t])
           /\ turn'[t].row \in Turn
           /\ \/ /\ turn'[t].row \in Selectable(t)
                 /\ turn'[t].sets = Columns(t, turn'[t].row)
              \/ turn'[t].row = t /\ Selectable(t) = {}
<1>0. turn \in [Turn -> Thread] /\ turn[t] \in Thread
  BY DEF TypeOK
<1>. DEFINE y1 == [turn[t] EXCEPT !.pc = "selected"]
<1>1. y1 \in Thread /\ y1.pc = "selected" /\ SameLoaded(y1, turn[t]) /\ SameWho(y1, turn[t])
  BY <1>0, SetPc DEF Pcs
<1>2. ASSUME NEW r \in Selectable(t),
             turn' = [turn EXCEPT ![t].pc = "selected", ![t].row = r, ![t].sets = Columns(t, r)]
      PROVE  /\ OnlyTurn(t) /\ turn'[t].pc = "selected"
             /\ SameLoaded(turn'[t], turn[t]) /\ SameWho(turn'[t], turn[t])
             /\ turn'[t].row = r /\ turn'[t].sets = Columns(t, r)
  <2>. DEFINE c == Columns(t, r)
              y2 == [y1 EXCEPT !.row = r]
              new == [y2 EXCEPT !.sets = c]
  <2>1. turn' = [turn EXCEPT ![t] = new]
    BY <1>0, <1>2
  <2>2. r \in Turn /\ c \in SUBSET {"status", "pending"}
    BY ColumnsType DEF Selectable
  <2>. HIDE DEF y1, c
  <2>3. y2 \in Thread /\ y2.pc = "selected" /\ SameLoaded(y2, y1) /\ SameWho(y2, y1) /\ y2.row = r
    BY <1>1, <2>2, SetRow
  <2>. HIDE DEF y2
  <2>4. /\ new \in Thread /\ new.pc = "selected" /\ SameLoaded(new, y2) /\ SameWho(new, y2)
        /\ new.row = r /\ new.sets = c
    BY <2>2, <2>3, SetSets
  <2>. HIDE DEF new
  <2>. QED  BY <1>0, <1>1, <2>1, <2>3, <2>4 DEF OnlyTurn, SameLoaded, SameWho, c
<1>3. ASSUME turn' = [turn EXCEPT ![t].pc = "selected", ![t].row = t]
      PROVE  /\ OnlyTurn(t) /\ turn'[t].pc = "selected"
             /\ SameLoaded(turn'[t], turn[t]) /\ SameWho(turn'[t], turn[t])
             /\ turn'[t].row = t
  <2>. DEFINE new == [y1 EXCEPT !.row = t]
  <2>1. turn' = [turn EXCEPT ![t] = new]
    BY <1>0, <1>3
  <2>. HIDE DEF y1
  <2>2. new \in Thread /\ new.pc = "selected" /\ SameLoaded(new, y1) /\ SameWho(new, y1) /\ new.row = t
    BY <1>1, SetRow
  <2>. HIDE DEF new
  <2>. QED  BY <1>0, <1>1, <2>1, <2>2 DEF OnlyTurn, SameLoaded, SameWho
<1>4. \/ \E r \in Selectable(t) :
           turn' = [turn EXCEPT ![t].pc = "selected", ![t].row = r, ![t].sets = Columns(t, r)]
      \/ Selectable(t) = {} /\ turn' = [turn EXCEPT ![t].pc = "selected", ![t].row = t]
  BY DEF SelectRow, Selectable
<1>. HIDE DEF y1
<1>. QED  BY <1>2, <1>3, <1>4 DEF Selectable

LEMMA FlushGives ==
    ASSUME TypeOK, NEW t \in Turn, FlushRow(t)
    PROVE  /\ OnlyTurn(t) /\ turn'[t].pc = "flushed"
           /\ SameLoaded(turn'[t], turn[t]) /\ SameWho(turn'[t], turn[t])
           /\ turn'[t].row = turn[t].row /\ turn'[t].sets = turn[t].sets
           /\ turn'[t].others = ActiveRows \ {turn[t].row}
<1>. DEFINE o == {r \in Turn \ {turn[t].row} : row[r].status = "active"}
            mid == [turn[t] EXCEPT !.pc = "flushed"]
            new == [mid EXCEPT !.others = o]
<1>0. turn \in [Turn -> Thread] /\ turn[t] \in Thread
  BY DEF TypeOK
<1>1. turn' = [turn EXCEPT ![t] = new]
  BY <1>0 DEF FlushRow
<1>2. o \in SUBSET Turn /\ o = ActiveRows \ {turn[t].row}
  BY DEF ActiveRows
<1>. HIDE DEF o
<1>3. /\ mid \in Thread /\ mid.pc = "flushed" /\ SameLoaded(mid, turn[t]) /\ SameWho(mid, turn[t])
      /\ mid.row = turn[t].row /\ mid.sets = turn[t].sets
  BY <1>0, SetPc DEF Pcs, SameWrites
<1>. HIDE DEF mid
<1>4. /\ new \in Thread /\ new.pc = "flushed" /\ SameLoaded(new, mid) /\ SameWho(new, mid)
      /\ new.row = mid.row /\ new.sets = mid.sets /\ new.others = o
  BY <1>2, <1>3, SetOthers
<1>. HIDE DEF new
<1>. QED  BY <1>0, <1>1, <1>2, <1>3, <1>4 DEF OnlyTurn, SameLoaded, SameWho

-----------------------------------------------------------------------------
(* The correlation travels unbroken: from the row that a save writes,        *)
(* through what a later turn loads, to the answer its run is given; the      *)
(* exception is a snapshot saved during an overlap.                          *)
Unstarted == {"idle", "queued", "ready", "loaded"}

CorrelationInv ==
    /\ \A r \in Turn : Matches(row[r].snapshot, row[r].pending)
    /\ \A t \in Turn : Matches(turn[t].base, turn[t].pending)
    /\ \A t \in Turn : turn[t].answer \in {None, turn[t].pending}
    /\ \A t \in Turn : turn[t].pc \in Unstarted => turn[t].answer = None

(* A row is there once the turn that inserts it has committed; a save writes *)
(* its own row or one of its scope, and retires rows that are there.         *)
RowInv ==
    /\ \A r \in Turn : row[r].status # "absent" => turn[r].pc = "done"
    /\ \A t \in Turn : Saving(t) =>
         LET r == turn[t].row IN
         r = t \/ (row[r].status # "absent" /\ row[r].scope = turn[t].scope)
    /\ \A t \in Turn : turn[t].pc = "flushed" => \A o \in turn[t].others : row[o].status # "absent"

(* Two open saves know of each other; what a save that is alone has selected *)
(* is what is there when it commits.                                         *)
AloneInv ==
    /\ \A t, u \in Turn : Saving(t) /\ Saving(u) /\ t # u => t \in overlap
    /\ \A t \in Turn : Saving(t) /\ t \notin overlap /\ turn[t].row # t =>
         turn[t].sets = Columns(t, turn[t].row)
    /\ \A t \in Turn : turn[t].pc = "flushed" /\ t \notin overlap =>
         turn[t].others = ActiveRows \ {turn[t].row}

(* A form is checked or found expired after it was made.                     *)
FormsExist ==
    /\ \A h \in Submitter : submit[h].pc = "checked" => form[submit[h].form].status # "none"
    /\ \A f \in scan : form[f].status # "none"

IInv == TypeOK /\ CorrelationInv /\ RowInv /\ AloneInv /\ FormsExist

LEMMA InitInv == Init => IInv
<1>. SUFFICES ASSUME Init PROVE IInv
  OBVIOUS
<1>. USE ConversationAssumption
<1>1. TypeOK
  BY SMT DEF Init, TypeOK, Row, Thread, NoThread, Settled, Scope, NullScope
<1>2. CorrelationInv
  BY DEF Init, CorrelationInv, NoThread, Unstarted, Matches
<1>3. RowInv /\ AloneInv
  BY DEF Init, RowInv, AloneInv, Saving, NoThread
<1>4. FormsExist
  BY DEF Init, FormsExist
<1>. QED  BY <1>1, <1>2, <1>3, <1>4 DEF IInv

LEMMA TurnType ==
    ASSUME TypeOK, NEW t \in Turn, OnlyTurn(t),
           turn'[t].pc \in {"selected", "flushed"} => turn'[t].row \in Turn,
           UNCHANGED <<published, row, form, submit, scan>>, overlap' \in SUBSET Turn
    PROVE  TypeOK'
BY DEF TypeOK, OnlyTurn

LEMMA SameCorrelation ==
    ASSUME CorrelationInv, NEW t \in Turn, OnlyTurn(t), UNCHANGED row, overlap \subseteq overlap',
           SameLoaded(turn'[t], turn[t]), turn'[t].pc \in Unstarted => turn[t].pc \in Unstarted
    PROVE  CorrelationInv'
BY DEF CorrelationInv, Matches, OnlyTurn, SameLoaded

(* A step that neither opens a save nor writes a row.                        *)
LEMMA QuietStep ==
    ASSUME IInv, UNCHANGED <<row, overlap>>,
           \A t \in Turn : Saving(t)' =>
              turn'[t].pc = turn[t].pc /\ SameWrites(turn'[t], turn[t]) /\ SameWho(turn'[t], turn[t]),
           \A t \in Turn : turn[t].pc = "done" => turn'[t].pc = "done",
           \A t \in Turn : Saving(t) => (form'[t].status = "none" <=> form[t].status = "none")
    PROVE  RowInv' /\ AloneInv'
<1>1. ASSUME NEW t \in Turn, Saving(t)'
      PROVE  /\ Saving(t) /\ turn'[t].pc = turn[t].pc /\ turn'[t].row = turn[t].row
             /\ turn'[t].sets = turn[t].sets /\ turn'[t].others = turn[t].others
             /\ turn'[t].scope = turn[t].scope
  BY <1>1 DEF Saving, SameWrites, SameWho
<1>2. ASSUME NEW t \in Turn, Saving(t)'
      PROVE  Columns(t, turn[t].row)' = Columns(t, turn[t].row)
  <2>1. Correlation(t)' = Correlation(t)
    BY <1>1, <1>2 DEF Correlation
  <2>. QED  BY <1>1, <1>2, <2>1 DEF Columns
<1>3. ActiveRows' = ActiveRows
  BY DEF ActiveRows
<1>4. RowInv'
  BY <1>1 DEF IInv, RowInv, Saving
<1>5. AloneInv'
  <2>1. \A t, u \in Turn : Saving(t)' /\ Saving(u)' /\ t # u => t \in overlap
    BY <1>1 DEF IInv, AloneInv
  <2>2. \A t \in Turn : Saving(t)' /\ t \notin overlap /\ turn'[t].row # t =>
           turn'[t].sets = Columns(t, turn[t].row)'
    BY <1>1, <1>2 DEF IInv, AloneInv
  <2>3. \A t \in Turn : turn'[t].pc = "flushed" /\ t \notin overlap =>
           turn'[t].others = ActiveRows' \ {turn'[t].row}
    BY <1>1, <1>3 DEF IInv, AloneInv, Saving
  <2>. QED  BY <2>1, <2>2, <2>3 DEF AloneInv
<1>. QED  BY <1>4, <1>5

LEMMA QuietTurn ==
    ASSUME IInv, NEW t \in Turn, OnlyTurn(t), turn[t].pc # "done",
           turn'[t].pc \notin {"selected", "flushed"},
           UNCHANGED <<published, row, form, submit, scan, overlap>>
    PROVE  TypeOK' /\ RowInv' /\ AloneInv' /\ FormsExist'
<1>1. TypeOK'
  BY TurnType DEF IInv, TypeOK
<1>2. RowInv' /\ AloneInv'
  BY QuietStep DEF OnlyTurn, Saving, SameWrites, SameWho
<1>3. FormsExist'
  BY DEF IInv, FormsExist
<1>. QED  BY <1>1, <1>2, <1>3

(* The steps of a thread up to its save.                                     *)
LEMMA RunStepInv ==
    ASSUME IInv, NEW t \in Turn,
           \/ Send(t) \/ TakeResume(t) \/ InputGuardAnswers(t) \/ Load(t) \/ StartRun(t)
           \/ RunSucceeds(t) \/ TurnFails(t) \/ SaveFails(t)
    PROVE  IInv'
<1>0. /\ turn[t].pc # "done" /\ UNCHANGED <<published, row, form, submit, scan, overlap>>
      /\ TypeOK /\ CorrelationInv /\ turn \in [Turn -> Thread]
  BY DEF IInv, TypeOK, Send, TakeResume, InputGuardAnswers, Load, StartRun, RunSucceeds, TurnFails, SaveFails,
         Paused, Over
<1>1. CASE Send(t)
  <2>1. Matches(turn'[t].base, turn'[t].pending)
    BY <1>0, <1>1, SendGives DEF Matches
  <2>2. CorrelationInv'
    BY <1>0, <1>1, <2>1, SendGives DEF CorrelationInv, Matches, OnlyTurn
  <2>. QED  BY <1>0, <1>1, <2>2, SendGives, QuietTurn DEF IInv
<1>2. CASE TakeResume(t)
  <2>1. CorrelationInv'
    BY <1>0, <1>2, TakeGives, SameCorrelation DEF TakeResume, Unstarted
  <2>. QED  BY <1>0, <1>2, <2>1, TakeGives, QuietTurn DEF IInv
<1>3. CASE InputGuardAnswers(t) \/ RunSucceeds(t)
  <2>1. PICK pc \in {"done", "saving", "asking"} : turn' = [turn EXCEPT ![t].pc = pc]
    BY <1>3 DEF InputGuardAnswers, RunSucceeds
  <2>2. /\ OnlyTurn(t) /\ turn'[t].pc = pc /\ SameLoaded(turn'[t], turn[t])
    BY <1>0, <2>1, MoveGives DEF Pcs
  <2>3. CorrelationInv'
    BY <1>0, <2>2, SameCorrelation DEF Unstarted
  <2>. QED  BY <1>0, <2>2, <2>3, QuietTurn DEF IInv
<1>4. CASE Load(t)
  <2>1. turn[t].answer = None
    BY <1>0, <1>4 DEF Load, CorrelationInv, Unstarted
  <2>2. /\ OnlyTurn(t) /\ turn'[t].pc = "loaded" /\ turn'[t].answer = None
        /\ Matches(turn'[t].base, turn'[t].pending)
    BY <1>0, <1>4, <2>1, LoadGives DEF CorrelationInv, LoadedFrom, Matches
  <2>3. CorrelationInv'
    BY <1>0, <2>2 DEF CorrelationInv, Matches, OnlyTurn
  <2>. QED  BY <1>0, <2>2, <2>3, QuietTurn DEF IInv
<1>5. CASE StartRun(t)
  <2>1. /\ OnlyTurn(t) /\ turn'[t].pc = "running" /\ turn'[t].base = turn[t].base
        /\ turn'[t].pending = turn[t].pending /\ turn'[t].answer \in {None, turn[t].pending}
    BY <1>0, <1>5, RunGives
  <2>2. CorrelationInv'
    BY <1>0, <2>1 DEF CorrelationInv, Matches, OnlyTurn, Unstarted
  <2>. QED  BY <1>0, <2>1, <2>2, QuietTurn DEF IInv
<1>6. CASE TurnFails(t) \/ SaveFails(t)
  <2>1. PICK pc \in {"done", "failed"} : Ended(t, pc)
    BY <1>6 DEF TurnFails, SaveFails
  <2>2. OnlyTurn(t) /\ turn'[t].pc = pc /\ SameLoaded(turn'[t], turn[t])
    BY <1>0, <2>1, EndGives DEF Pcs
  <2>3. CorrelationInv'
    BY <1>0, <2>2, SameCorrelation DEF Unstarted
  <2>. QED  BY <1>0, <2>2, <2>3, QuietTurn DEF IInv
<1>. QED  BY <1>1, <1>2, <1>3, <1>4, <1>5, <1>6

(* What a save writes: its snapshot over its own scope, and, if it is alone, *)
(* an active session with its own correlation.                               *)
LEMMA WrittenGives ==
    ASSUME TypeOK, RowInv, AloneInv, NEW t \in Turn, turn[t].pc = "flushed"
    PROVE  /\ Written(t) \in Row /\ Written(t).snapshot = t /\ Written(t).scope = turn[t].scope
           /\ Written(t).status # "absent"
           /\ \/ Written(t).pending = Correlation(t)
              \/ turn[t].row # t /\ Written(t).pending = row[turn[t].row].pending
           /\ t \notin overlap => Written(t).status = "active" /\ Written(t).pending = Correlation(t)
<1>. DEFINE r == turn[t].row
<1>1. r \in Turn /\ row[r] \in Row /\ turn[t] \in Thread /\ Correlation(t) \in {t, None}
  BY ColumnsType DEF TypeOK
<1>2. turn[t].scope \in Scope
  BY <1>1 DEF Thread
<1>3. CASE r = t
  BY <1>1, <1>2, <1>3 DEF Written, Row
<1>4. CASE r # t
  <2>. DEFINE s == IF "status" \in turn[t].sets THEN "active" ELSE row[r].status
              p == IF "pending" \in turn[t].sets THEN Correlation(t) ELSE row[r].pending
              w == [[[row[r] EXCEPT !.snapshot = t] EXCEPT !.status = s] EXCEPT !.pending = p]
  <2>1. Written(t) = w
    BY <1>1, <1>4 DEF Written, Row
  <2>2. row[r].status # "absent" /\ row[r].scope = turn[t].scope
    BY <1>4 DEF RowInv, Saving
  <2>3. s \in {"active", "cleaned"} /\ p \in {Correlation(t), row[r].pending}
    BY <1>1, <2>2 DEF Row
  <2>4. t \notin overlap => s = "active" /\ p = Correlation(t)
    <3>1. t \notin overlap => turn[t].sets = Columns(t, r)
      BY <1>4 DEF AloneInv, Saving
    <3>. QED  BY <3>1 DEF Columns
  <2>5. p \in Turn \cup {None}
    BY <1>1, <2>3 DEF Row
  <2>. HIDE DEF s, p
  <2>6. /\ w \in Row /\ w.snapshot = t /\ w.scope = row[r].scope /\ w.status = s /\ w.pending = p
    BY <1>1, <2>3, <2>5 DEF Row
  <2>. HIDE DEF w
  <2>. QED  BY <1>4, <2>1, <2>2, <2>3, <2>4, <2>6
<1>. QED  BY <1>3, <1>4

(* What a commit leaves: the row it writes, and the others as they were or   *)
(* retired.                                                                  *)
LEMMA CommitGives ==
    ASSUME TypeOK, RowInv, AloneInv, NEW t \in Turn, CommitSave(t)
    PROVE  /\ turn[t].row \in Turn /\ row' \in [Turn -> Row] /\ row'[turn[t].row] = Written(t)
           /\ \A o \in Turn \ {turn[t].row} :
                /\ row'[o].scope = row[o].scope /\ row'[o].snapshot = row[o].snapshot
                /\ row'[o].pending = row[o].pending
                /\ row'[o].status = IF o \in turn[t].others THEN "cleaned" ELSE row[o].status
<1>1. turn[t].row \in Turn /\ row \in [Turn -> Row] /\ turn[t].pc = "flushed"
  BY DEF TypeOK, CommitSave
<1>2. Written(t) \in Row
  BY <1>1, WrittenGives
<1>3. ASSUME NEW o \in Turn
      PROVE  LET c == [row[o] EXCEPT !.status = "cleaned"]
             IN  /\ c \in Row /\ c.status = "cleaned" /\ c.scope = row[o].scope
                 /\ c.snapshot = row[o].snapshot /\ c.pending = row[o].pending
  BY <1>1 DEF Row
<1>4. row' = [r \in Turn |-> IF r = turn[t].row THEN Written(t)
                             ELSE IF r \in turn[t].others THEN [row[r] EXCEPT !.status = "cleaned"]
                             ELSE row[r]]
  BY DEF CommitSave
<1>5. row' \in [Turn -> Row]
  BY <1>1, <1>2, <1>3, <1>4
<1>6. row'[turn[t].row] = Written(t)
  BY <1>1, <1>4
<1>7. ASSUME NEW o \in Turn, o # turn[t].row
      PROVE  /\ row'[o].scope = row[o].scope /\ row'[o].snapshot = row[o].snapshot
             /\ row'[o].pending = row[o].pending
             /\ row'[o].status = IF o \in turn[t].others THEN "cleaned" ELSE row[o].status
  <2>1. CASE o \in turn[t].others
    BY <1>3, <1>4, <1>7, <2>1
  <2>2. CASE o \notin turn[t].others
    BY <1>4, <1>7, <2>2
  <2>. QED  BY <2>1, <2>2
<1>. QED  BY <1>1, <1>5, <1>6, <1>7

LEMMA CommitInv ==
    ASSUME IInv, NEW t \in Turn, CommitSave(t)
    PROVE  IInv'
<1>1. /\ TypeOK /\ RowInv /\ AloneInv /\ CorrelationInv /\ FormsExist
      /\ turn[t].pc = "flushed" /\ UNCHANGED <<published, form, submit, scan, overlap>>
  BY DEF IInv, CommitSave
<1>. DEFINE r == turn[t].row
<1>2. /\ OnlyTurn(t) /\ turn'[t].pc = "done" /\ SameLoaded(turn'[t], turn[t])
  BY <1>1, EndGives DEF CommitSave, Pcs
<1>3. /\ r \in Turn /\ row' \in [Turn -> Row] /\ row'[r] = Written(t)
      /\ \A o \in Turn \ {r} :
           /\ row'[o].scope = row[o].scope /\ row'[o].snapshot = row[o].snapshot
           /\ row'[o].pending = row[o].pending
           /\ row'[o].status = IF o \in turn[t].others THEN "cleaned" ELSE row[o].status
  BY <1>1, CommitGives
<1>4. /\ row'[r].snapshot = t /\ row'[r].scope = turn[t].scope /\ row'[r].status # "absent"
      /\ t \notin overlap => row'[r].pending = Correlation(t)
  BY <1>1, <1>3, WrittenGives
<1>. HIDE DEF r
<1>5. TypeOK'
  <2>1. \A o \in Turn : row'[o].status = "active" => row'[o].snapshot \in Turn
    BY <1>1, <1>3, <1>4 DEF TypeOK
  <2>. QED  BY <1>1, <1>2, <1>3, <2>1 DEF TypeOK, OnlyTurn
<1>6. CorrelationInv'
  <2>1. \A o \in Turn : Matches(row'[o].snapshot, row'[o].pending)
    BY <1>1, <1>3, <1>4, ColumnsType DEF CorrelationInv, Matches
  <2>. QED  BY <1>1, <1>2, <2>1 DEF CorrelationInv, Matches, OnlyTurn, SameLoaded, Unstarted
<1>7. RowInv'
  <2>1. \A o \in Turn : row'[o].status # "absent" => turn'[o].pc = "done"
    <3>1. \A o \in Turn : row[o].status # "absent" => turn'[o].pc = "done"
      BY <1>1, <1>2 DEF RowInv, OnlyTurn
    <3>2. turn'[r].pc = "done"
      BY <1>1, <1>2, <1>3, <3>1 DEF RowInv, Saving, r
    <3>3. \A o \in turn[t].others : row[o].status # "absent"
      BY <1>1 DEF RowInv
    <3>. QED  BY <1>3, <3>1, <3>2, <3>3
  <2>2. \A o \in Turn : row[o].status # "absent" => row'[o].status # "absent" /\ row'[o].scope = row[o].scope
    BY <1>1, <1>3, <1>4 DEF RowInv, Saving, r
  <2>3. \A u \in Turn \ {t} : turn'[u] = turn[u]
    BY <1>2 DEF OnlyTurn
  <2>4. ASSUME NEW u \in Turn, Saving(u)'
        PROVE  turn'[u].row = u \/ (row'[turn'[u].row].status # "absent"
                                    /\ row'[turn'[u].row].scope = turn'[u].scope)
    <3>1. u # t /\ turn'[u] = turn[u] /\ Saving(u) /\ turn[u].row \in Turn
      BY <1>1, <1>2, <2>3, <2>4 DEF Saving, TypeOK
    <3>. QED  BY <1>1, <2>2, <3>1 DEF RowInv
  <2>5. ASSUME NEW u \in Turn, turn'[u].pc = "flushed", NEW o \in turn'[u].others
        PROVE  row'[o].status # "absent"
    <3>1. u # t /\ turn'[u] = turn[u] /\ turn[u].others \in SUBSET Turn
      BY <1>1, <1>2, <2>3, <2>5 DEF TypeOK, Thread
    <3>. QED  BY <1>1, <2>2, <2>5, <3>1 DEF RowInv
  <2>. QED  BY <2>1, <2>4, <2>5 DEF RowInv
<1>8. AloneInv'
  <2>1. ASSUME NEW u \in Turn, Saving(u)' PROVE u # t /\ Saving(u) /\ u \in overlap
    <3>1. u # t /\ Saving(u)
      BY <1>2, <2>1 DEF Saving, OnlyTurn
    <3>. QED  BY <1>1, <3>1 DEF AloneInv, Saving
  <2>. QED  BY <1>1, <2>1 DEF AloneInv, Saving
<1>9. FormsExist'
  BY <1>1 DEF FormsExist
<1>. QED  BY <1>5, <1>6, <1>7, <1>8, <1>9 DEF IInv

LEMMA SelectInv ==
    ASSUME IInv, NEW t \in Turn, SelectRow(t)
    PROVE  IInv'
<1>. DEFINE open == {o \in Turn : Saving(o)}
<1>1. /\ TypeOK /\ RowInv /\ AloneInv /\ CorrelationInv /\ FormsExist
      /\ turn[t].pc \in {"asking", "saving"} /\ UNCHANGED <<published, row, form, submit, scan>>
      /\ overlap' = IF open = {} THEN overlap ELSE overlap \cup open \cup {t}
  BY DEF IInv, SelectRow, Paused
<1>2. PICK r \in Turn :
        /\ OnlyTurn(t) /\ turn'[t].pc = "selected" /\ turn'[t].row = r
        /\ SameLoaded(turn'[t], turn[t]) /\ SameWho(turn'[t], turn[t])
        /\ \/ r \in Selectable(t) /\ turn'[t].sets = Columns(t, r)
           \/ r = t
  BY <1>1, SelectGives
<1>3. TypeOK'
  BY <1>1, <1>2, TurnType DEF TypeOK
<1>4. CorrelationInv'
  BY <1>1, <1>2, SameCorrelation DEF Unstarted
<1>5. \A u \in Turn \ {t} : turn'[u] = turn[u]
  BY <1>2 DEF OnlyTurn
<1>6. RowInv'
  <2>1. \A o \in Turn : row[o].status # "absent" => turn'[o].pc = "done"
    BY <1>1, <1>2, <1>5 DEF RowInv
  <2>2. r = t \/ (row[r].status # "absent" /\ row[r].scope = turn'[t].scope)
    BY <1>2 DEF Selectable, SameWho
  <2>. QED  BY <1>1, <1>2, <1>5, <2>1, <2>2 DEF RowInv, Saving
<1>7. AloneInv'
  <2>1. \A u \in Turn \ {t} : Saving(u)' => Saving(u) /\ u \in open
    BY <1>5 DEF Saving
  <2>2. \A u, v \in Turn : Saving(u)' /\ Saving(v)' /\ u # v => u \in overlap'
    BY <1>1, <2>1 DEF AloneInv
  <2>3. ASSUME NEW u \in Turn, Saving(u)', u \notin overlap' PROVE u = t
    BY <1>1, <2>1, <2>3
  <2>4. Columns(t, r)' = Columns(t, r)
    <3>1. Correlation(t)' = Correlation(t)
      BY <1>1 DEF Correlation
    <3>. QED  BY <1>1, <3>1 DEF Columns
  <2>5. r # t => turn'[t].sets = Columns(t, r)
    BY <1>2
  <2>. QED
    <3>1. \A u \in Turn : Saving(u)' /\ u \notin overlap' /\ turn'[u].row # u =>
            turn'[u].sets = Columns(u, turn[u].row)'
      BY <1>2, <2>3, <2>4, <2>5
    <3>2. \A u \in Turn : turn'[u].pc = "flushed" /\ u \notin overlap' => u = t
      BY <2>3 DEF Saving
    <3>. QED  BY <1>2, <2>2, <3>1, <3>2 DEF AloneInv
<1>8. FormsExist'
  BY <1>1 DEF FormsExist
<1>. QED  BY <1>3, <1>4, <1>6, <1>7, <1>8 DEF IInv

LEMMA FlushInv ==
    ASSUME IInv, NEW t \in Turn, FlushRow(t)
    PROVE  IInv'
<1>1. /\ TypeOK /\ RowInv /\ AloneInv /\ CorrelationInv /\ FormsExist
      /\ turn[t].pc = "selected" /\ turn[t].row \in Turn
      /\ UNCHANGED <<published, row, form, submit, scan, overlap>>
  BY DEF IInv, FlushRow, TypeOK
<1>2. /\ OnlyTurn(t) /\ turn'[t].pc = "flushed"
      /\ SameLoaded(turn'[t], turn[t]) /\ SameWho(turn'[t], turn[t])
      /\ turn'[t].row = turn[t].row /\ turn'[t].sets = turn[t].sets
      /\ turn'[t].others = ActiveRows \ {turn[t].row}
  BY <1>1, FlushGives
<1>3. TypeOK'
  BY <1>1, <1>2, TurnType DEF TypeOK
<1>4. CorrelationInv'
  BY <1>1, <1>2, SameCorrelation DEF Unstarted
<1>5. \A u \in Turn \ {t} : turn'[u] = turn[u]
  BY <1>2 DEF OnlyTurn
<1>6. /\ \A u \in Turn : turn'[u].row = turn[u].row /\ turn'[u].sets = turn[u].sets
                         /\ turn'[u].scope = turn[u].scope
      /\ \A u \in Turn : Saving(u)' => Saving(u)
  BY <1>1, <1>2, <1>5 DEF SameWho, Saving
<1>7. ActiveRows' = ActiveRows /\ \A o \in ActiveRows : row[o].status # "absent"
  BY <1>1 DEF ActiveRows
<1>8. RowInv'
  BY <1>1, <1>2, <1>5, <1>6, <1>7 DEF RowInv
<1>9. AloneInv'
  <2>1. \A u, v \in Turn : Saving(u)' /\ Saving(v)' /\ u # v => u \in overlap'
    BY <1>1, <1>6 DEF AloneInv
  <2>2. \A u \in Turn : Columns(u, turn[u].row)' = Columns(u, turn[u].row)
    <3>1. \A u \in Turn : Correlation(u)' = Correlation(u)
      BY <1>1 DEF Correlation
    <3>. QED  BY <1>1, <1>6, <3>1 DEF Columns
  <2>3. \A u \in Turn : Saving(u)' /\ u \notin overlap' /\ turn'[u].row # u =>
          turn'[u].sets = Columns(u, turn[u].row)'
    BY <1>1, <1>6, <2>2 DEF AloneInv
  <2>4. \A u \in Turn : turn'[u].pc = "flushed" /\ u \notin overlap' =>
          turn'[u].others = ActiveRows' \ {turn'[u].row}
    BY <1>1, <1>2, <1>5, <1>7 DEF AloneInv
  <2>. QED  BY <2>1, <2>3, <2>4 DEF AloneInv
<1>10. FormsExist'
  BY <1>1 DEF FormsExist
<1>. QED  BY <1>3, <1>4, <1>8, <1>9, <1>10 DEF IInv

(* Steps on forms leave threads as they are, or queue one more.              *)
LEMMA FormStepInv ==
    ASSUME IInv, turn' = turn \/ \E f \in Turn : EnqueueResume(f), UNCHANGED <<row, overlap>>,
           \A t \in Turn : Saving(t) => (form'[t].status = "none" <=> form[t].status = "none")
    PROVE  CorrelationInv' /\ RowInv' /\ AloneInv' /\ turn' \in [Turn -> Thread]
           /\ \A t \in Turn : turn'[t].pc \in {"selected", "flushed"} => turn'[t].row \in Turn
<1>1. TypeOK /\ CorrelationInv /\ turn \in [Turn -> Thread]
  BY DEF IInv, TypeOK
<1>2. CASE turn' = turn
  <2>1. CorrelationInv'
    BY <1>1, <1>2 DEF CorrelationInv, Matches
  <2>2. RowInv' /\ AloneInv'
    BY <1>2, QuietStep DEF Saving, SameWrites, SameWho
  <2>. QED  BY <1>1, <1>2, <2>1, <2>2 DEF TypeOK
<1>3. CASE turn' # turn
  <2>1. PICK t \in Turn :
           /\ OnlyTurn(t) /\ turn[t].pc = "idle" /\ turn'[t].pc = "queued"
           /\ SameLoaded(turn'[t], turn[t])
    BY <1>1, <1>3, EnqueueGives
  <2>2. CorrelationInv'
    BY <1>1, <2>1, SameCorrelation DEF Unstarted
  <2>3. RowInv' /\ AloneInv'
    BY <2>1, QuietStep DEF OnlyTurn, Saving, SameWrites, SameWho
  <2>. QED  BY <1>1, <2>1, <2>2, <2>3 DEF OnlyTurn, TypeOK
<1>. QED  BY <1>2, <1>3

(* A form as its steps leave it.                                             *)
FormRecord == [status : Settled \cup {"none", "waiting"}, by : Submitter \cup {None}, due : BOOLEAN]

LEMMA SetStatus ==
    ASSUME NEW x \in FormRecord, NEW v \in Settled \cup {"none", "waiting"}
    PROVE  [x EXCEPT !.status = v] \in FormRecord /\ [x EXCEPT !.status = v].status = v
<1>1. [x EXCEPT !.status = v] \in FormRecord
  BY Zenon DEF FormRecord
<1>2. [x EXCEPT !.status = v].status = v
  BY DEF FormRecord
<1>. QED  BY <1>1, <1>2

LEMMA SetBy ==
    ASSUME NEW x \in FormRecord, NEW v \in Submitter
    PROVE  [x EXCEPT !.by = v] \in FormRecord /\ [x EXCEPT !.by = v].status = x.status
<1>1. [x EXCEPT !.by = v] \in FormRecord
  BY Zenon DEF FormRecord
<1>2. [x EXCEPT !.by = v].status = x.status
  BY DEF FormRecord
<1>. QED  BY <1>1, <1>2

LEMMA SetDue ==
    ASSUME NEW x \in FormRecord
    PROVE  [x EXCEPT !.due = TRUE] \in FormRecord /\ [x EXCEPT !.due = TRUE].status = x.status
<1>1. [x EXCEPT !.due = TRUE] \in FormRecord
  BY Zenon DEF FormRecord
<1>2. [x EXCEPT !.due = TRUE].status = x.status
  BY DEF FormRecord
<1>. QED  BY <1>1, <1>2

LEMMA FormGives ==
    ASSUME TypeOK, NEW f \in Turn
    PROVE  /\ CreateForm(f) => form' = [form EXCEPT ![f] = [form[f] EXCEPT !.status = "waiting"]]
           /\ Deadline(f) => form' = [form EXCEPT ![f] = [form[f] EXCEPT !.due = TRUE]]
           /\ WriteTimeout(f) => form' = [form EXCEPT ![f] = [form[f] EXCEPT !.status = "timeout"]]
           /\ \A h \in Submitter : MarkSubmitted(h) /\ f = submit[h].form =>
                form' = [form EXCEPT ![f] = [[form[f] EXCEPT !.status = "submitted"] EXCEPT !.by = h]]
           /\ form \in [Turn -> FormRecord]
<1>1. form \in [Turn -> FormRecord]
  BY DEF TypeOK, FormRecord
<1>. QED  BY <1>1 DEF CreateForm, Deadline, WriteTimeout, MarkSubmitted

LEMMA FormStep ==
    ASSUME TypeOK,
           \/ \E f \in Turn : CreateForm(f) \/ Deadline(f) \/ WriteTimeout(f)
           \/ \E h \in Submitter : MarkSubmitted(h)
    PROVE  /\ form' \in [Turn -> FormRecord]
           /\ \A f \in Turn : form[f].status # "none" => form'[f].status # "none"
           /\ \A f \in Turn : form[f].status = "none" /\ form'[f].status # "none" =>
                CreateForm(f) \/ f \in scan \/ \E h \in Submitter : MarkSubmitted(h) /\ f = submit[h].form
<1>0. form \in [Turn -> FormRecord]
  BY DEF TypeOK, FormRecord
<1>1. ASSUME NEW f \in Turn, CreateForm(f)
      PROVE  form' \in [Turn -> FormRecord] /\ form'[f].status = "waiting" /\ \A g \in Turn \ {f} : form'[g] = form[g]
  <2>. DEFINE new == [form[f] EXCEPT !.status = "waiting"]
  <2>1. form' = [form EXCEPT ![f] = new]
    BY <1>1, FormGives
  <2>2. new \in FormRecord /\ new.status = "waiting"
    BY <1>0, SetStatus
  <2>. HIDE DEF new
  <2>. QED  BY <1>0, <2>1, <2>2
<1>2. ASSUME NEW f \in Turn, Deadline(f)
      PROVE  form' \in [Turn -> FormRecord] /\ form'[f].status = form[f].status /\ \A g \in Turn \ {f} : form'[g] = form[g]
  <2>. DEFINE new == [form[f] EXCEPT !.due = TRUE]
  <2>1. form' = [form EXCEPT ![f] = new]
    BY <1>2, FormGives
  <2>2. new \in FormRecord /\ new.status = form[f].status
    BY <1>0, SetDue
  <2>. HIDE DEF new
  <2>. QED  BY <1>0, <2>1, <2>2
<1>3. ASSUME NEW f \in Turn, WriteTimeout(f)
      PROVE  form' \in [Turn -> FormRecord] /\ form'[f].status = "timeout" /\ \A g \in Turn \ {f} : form'[g] = form[g]
  <2>. DEFINE new == [form[f] EXCEPT !.status = "timeout"]
  <2>1. form' = [form EXCEPT ![f] = new]
    BY <1>3, FormGives
  <2>2. new \in FormRecord /\ new.status = "timeout"
    BY <1>0, SetStatus DEF Settled
  <2>. HIDE DEF new
  <2>. QED  BY <1>0, <2>1, <2>2
<1>4. ASSUME NEW h \in Submitter, MarkSubmitted(h)
      PROVE  LET f == submit[h].form IN
             /\ f \in Turn /\ form' \in [Turn -> FormRecord] /\ form'[f].status = "submitted"
             /\ \A g \in Turn \ {f} : form'[g] = form[g]
  <2>. DEFINE f == submit[h].form
  <2>1. f \in Turn
    BY <1>4 DEF MarkSubmitted, TypeOK
  <2>2. form' = [form EXCEPT ![f] = [[form[f] EXCEPT !.status = "submitted"] EXCEPT !.by = h]]
    BY <1>4, <2>1, FormGives
  <2>. HIDE DEF f
  <2>3. [form[f] EXCEPT !.status = "submitted"] \in FormRecord
        /\ [form[f] EXCEPT !.status = "submitted"].status = "submitted"
    BY <1>0, <2>1, SetStatus DEF Settled
  <2>4. /\ [[form[f] EXCEPT !.status = "submitted"] EXCEPT !.by = h] \in FormRecord
        /\ [[form[f] EXCEPT !.status = "submitted"] EXCEPT !.by = h].status = "submitted"
    BY <2>3, SetBy
  <2>5. form' \in [Turn -> FormRecord] /\ form'[f].status = "submitted" /\ \A g \in Turn \ {f} : form'[g] = form[g]
    BY <1>0, <2>1, <2>2, <2>4
  <2>. QED  BY <2>1, <2>5 DEF f
<1>. QED  BY <1>1, <1>2, <1>3, <1>4 DEF WriteTimeout

LEMMA FormInvStep ==
    ASSUME IInv,
           \/ \E f \in Turn : CreateForm(f) \/ Deadline(f) \/ ReadTimeout(f) \/ WriteTimeout(f)
           \/ \E h \in Submitter : MarkSubmitted(h) \/ \E f \in Turn : CheckForm(h, f)
    PROVE  IInv'
<1>1. TypeOK /\ FormsExist /\ CorrelationInv /\ UNCHANGED <<published, row, overlap>>
  BY DEF IInv, CreateForm, Deadline, ReadTimeout, WriteTimeout, MarkSubmitted, CheckForm
<1>2. turn' = turn \/ \E f \in Turn : EnqueueResume(f)
  <2>1. ASSUME NEW h \in Submitter, MarkSubmitted(h) PROVE \E f \in Turn : EnqueueResume(f)
    BY <1>1, <2>1 DEF MarkSubmitted, TypeOK
  <2>. QED  BY <2>1 DEF CreateForm, Deadline, ReadTimeout, WriteTimeout, CheckForm
<1>3. /\ form' \in [Turn -> FormRecord]
      /\ \A f \in Turn : form[f].status # "none" => form'[f].status # "none"
      /\ \A f \in Turn : form[f].status = "none" /\ form'[f].status # "none" => CreateForm(f)
  <2>1. CASE form' = form
    BY <1>1, <2>1 DEF TypeOK, FormRecord
  <2>2. CASE form' # form
    <3>1. \/ \E f \in Turn : CreateForm(f) \/ Deadline(f) \/ WriteTimeout(f)
          \/ \E h \in Submitter : MarkSubmitted(h)
      BY <2>2 DEF ReadTimeout, CheckForm
    <3>2. ASSUME NEW h \in Submitter, MarkSubmitted(h) PROVE form[submit[h].form].status # "none"
      BY <1>1, <3>2 DEF FormsExist, MarkSubmitted
    <3>. QED  BY <1>1, <3>1, <3>2, FormStep DEF FormsExist
  <2>. QED  BY <2>1, <2>2
<1>4. \A t \in Turn : Saving(t) => (form'[t].status = "none" <=> form[t].status = "none")
  BY <1>3 DEF CreateForm, Saving
<1>5. CorrelationInv' /\ RowInv' /\ AloneInv' /\ turn' \in [Turn -> Thread]
      /\ \A t \in Turn : turn'[t].pc \in {"selected", "flushed"} => turn'[t].row \in Turn
  BY <1>1, <1>2, <1>4, FormStepInv
<1>6. /\ submit' \in [Submitter -> [pc : {"idle", "checked", "over"}, form : Turn \cup {None}]]
      /\ scan' \in SUBSET Turn
      /\ \A h \in Submitter : submit'[h].pc = "checked" => submit'[h].form \in Turn
      /\ FormsExist'
  <2>1. CASE submit' = submit
    <3>1. scan' \in SUBSET Turn /\ \A f \in scan' : f \in scan \/ form[f].status = "waiting"
      BY <1>1, <2>1 DEF TypeOK, CreateForm, Deadline, ReadTimeout, WriteTimeout, MarkSubmitted, CheckForm
    <3>. QED  BY <1>1, <1>3, <2>1, <3>1 DEF TypeOK, FormsExist
  <2>2. ASSUME NEW h \in Submitter, MarkSubmitted(h)
        PROVE  <1>6!1 /\ <1>6!2 /\ <1>6!3 /\ FormsExist'
    <3>1. submit' = [submit EXCEPT ![h].pc = "over"] /\ scan' = scan
      BY <2>2 DEF MarkSubmitted
    <3>2. /\ submit' \in [Submitter -> [pc : {"idle", "checked", "over"}, form : Turn \cup {None}]]
          /\ \A g \in Submitter : submit'[g].pc = "checked" => submit'[g] = submit[g]
      BY <1>1, <3>1 DEF TypeOK
    <3>3. \A g \in Submitter : submit'[g].pc = "checked" => submit[g].form \in Turn
      BY <1>1, <3>2 DEF TypeOK
    <3>4. scan \in SUBSET Turn
      BY <1>1 DEF TypeOK
    <3>. QED  BY <1>1, <1>3, <3>1, <3>2, <3>3, <3>4 DEF FormsExist
  <2>3. ASSUME NEW h \in Submitter, NEW f \in Turn, CheckForm(h, f)
        PROVE  <1>6!1 /\ <1>6!2 /\ <1>6!3 /\ FormsExist'
    <3>1. /\ submit' = [submit EXCEPT ![h] = [pc |-> "checked", form |-> f]]
          /\ form[f].status = "waiting" /\ scan' = scan /\ form' = form
      BY <2>3 DEF CheckForm
    <3>. QED  BY <1>1, <3>1 DEF TypeOK, FormsExist
  <2>. QED  BY <2>1, <2>2, <2>3 DEF CreateForm, Deadline, ReadTimeout, WriteTimeout
<1>7. TypeOK'
  BY <1>1, <1>3, <1>5, <1>6 DEF TypeOK, FormRecord
<1>. QED  BY <1>5, <1>6, <1>7 DEF IInv

LEMMA StepInv == IInv /\ [Next]_vars => IInv'
<1>. SUFFICES ASSUME IInv, [Next]_vars PROVE IInv'
  OBVIOUS
<1>1. CASE Publish
  <2>1. published' \in Scope \ {NullScope} /\ UNCHANGED <<row, turn, form, submit, scan, overlap>>
    BY <1>1, ConversationAssumption, SMT DEF Publish, IInv, TypeOK, Scope, NullScope
  <2>. QED  BY <2>1 DEF IInv, TypeOK, CorrelationInv, Matches, RowInv, AloneInv, FormsExist, Saving,
                        Columns, Correlation, ActiveRows
<1>2. ASSUME NEW t \in Turn, Send(t) \/ TurnStep(t) PROVE IInv'
  BY <1>2, RunStepInv, FormInvStep, SelectInv, FlushInv, CommitInv DEF TurnStep
<1>3. ASSUME NEW f \in Turn, Deadline(f) \/ ReadTimeout(f) \/ WriteTimeout(f) PROVE IInv'
  BY <1>3, FormInvStep
<1>4. ASSUME NEW h \in Submitter, MarkSubmitted(h) \/ \E f \in Turn : CheckForm(h, f) PROVE IInv'
  BY <1>4, FormInvStep
<1>5. CASE UNCHANGED vars
  BY <1>5 DEF vars, IInv, TypeOK, CorrelationInv, Matches, RowInv, AloneInv, FormsExist, Saving,
              Columns, Correlation, ActiveRows
<1>. QED  BY <1>1, <1>2, <1>3, <1>4, <1>5 DEF Next

THEOREM Invariance == Spec => []IInv
<1>1. Init => IInv
  BY InitInv
<1>2. IInv /\ [Next]_vars => IInv'
  BY StepInv
<1>. QED  BY <1>1, <1>2, PTL DEF Spec

(* Every reachable state is well typed, and a row that is active can be      *)
(* resumed.                                                                  *)
THEOREM ConversationTypeCorrect == Spec => []TypeOK
BY Invariance, PTL DEF IInv

(* A human's answer always reaches the agent with the snapshot suspended on  *)
(* that very call, unless two saves overlapped when that snapshot was saved. *)
THEOREM AnswersMatch == Spec => []AnswerMatchesSnapshot
<1>1. IInv => AnswerMatchesSnapshot
  BY DEF IInv, CorrelationInv, AnswerMatchesSnapshot, Matches
<1>. QED  BY <1>1, Invariance, PTL

(* Only CommitSave writes rows.                                              *)
LEMMA RowWriter ==
    ASSUME [Next]_vars, row' # row
    PROVE  \E t \in Turn : CommitSave(t)
BY DEF Next, TurnStep, Publish, Send, TakeResume, InputGuardAnswers, Load, StartRun, RunSucceeds,
       TurnFails, CreateForm, SelectRow, FlushRow, SaveFails, Deadline, ReadTimeout, WriteTimeout,
       MarkSubmitted, CheckForm, vars

LEMMA CommitLeavesOne ==
    ASSUME IInv, [Next]_vars, NEW t \in Turn,
           turn[t].pc = "flushed", row' # row, turn'[t].pc = "done", t \notin overlap
    PROVE  ActiveRows' = {turn[t].row} /\ row'[turn[t].row].snapshot = t
<1>1. PICK u \in Turn : CommitSave(u)
  BY RowWriter
<1>2. TypeOK /\ RowInv /\ AloneInv
  BY DEF IInv
<1>3. u = t
  <2>1. OnlyTurn(u)
    BY <1>1, <1>2, EndGives DEF CommitSave, Pcs
  <2>. QED  BY <2>1 DEF OnlyTurn
<1>4. /\ turn[t].row \in Turn /\ row'[turn[t].row] = Written(t)
      /\ \A o \in Turn \ {turn[t].row} :
           row'[o].status = IF o \in turn[t].others THEN "cleaned" ELSE row[o].status
  BY <1>1, <1>2, <1>3, CommitGives
<1>5. Written(t).status = "active" /\ Written(t).snapshot = t
  BY <1>2, WrittenGives
<1>6. turn[t].others = ActiveRows \ {turn[t].row}
  BY <1>2 DEF AloneInv
<1>. QED  BY <1>4, <1>5, <1>6 DEF ActiveRows

(* A save whose transaction no other overlapped leaves one active session,   *)
(* its own, whatever the saves before it left.                               *)
THEOREM SavesLeaveOneSession == Spec => SaveLeavesOneSession
<1>1. IInv /\ [Next]_vars =>
        [\A t \in Turn :
           turn[t].pc = "flushed" /\ row' # row /\ turn'[t].pc = "done" /\ t \notin overlap
             => ActiveRows' = {turn[t].row} /\ row'[turn[t].row].snapshot = t]_vars
  BY CommitLeavesOne
<1>. QED  BY <1>1, Invariance, PTL DEF Spec, SaveLeavesOneSession

-----------------------------------------------------------------------------
(* A console preview without faults, in which people and deadlines act one   *)
(* by one and at rest.                                                       *)
Preview == Debug /\ Orderly /\ ~Faulty

Active(t) == turn[t].pc \notin Over
Checked(h) == submit[h].pc = "checked"

(* Turns and answers come one at a time.                                     *)
OneAtATime ==
    /\ \A t, u \in Turn : Active(t) /\ Active(u) => t = u
    /\ \A g, h \in Submitter : Checked(g) /\ Checked(h) => g = h

(* Every turn uses the one row that there is, once there is one.             *)
OneScope ==
    /\ \A t \in Turn : turn[t].scope = NullScope
    /\ \A r \in Turn : row[r].status # "absent" => row[r].status = "active" /\ row[r].scope = NullScope
    /\ \A r, s \in Turn : row[r].status # "absent" /\ row[s].status # "absent" => r = s

(* The session is suspended on the form f.                                   *)
SuspendedOn(f) == \E r \in ActiveRows : row[r].snapshot = f /\ row[r].pending = f

(* A form that waits either has a turn that has yet to save its session, or  *)
(* nothing runs and the session is suspended on it.                          *)
FormInv == \A f \in Turn :
    /\ form[f].status # "none" => turn[f].pc \in {"asking", "selected", "flushed", "done"}
    /\ form[f].status \in Settled \/ form[f].due => turn[f].pc = "done"
    /\ form[f].status = "waiting" /\ turn[f].pc = "done" =>
         SuspendedOn(f) /\ \A t \in Turn : ~Active(t)

(* Who is about to settle a form: a person before its deadline, or the scan  *)
(* after it, of a form that has been saved.                                  *)
SettlerInv ==
    /\ \A h \in Submitter : Checked(h) =>
         LET f == submit[h].form IN form[f].status = "waiting" /\ ~form[f].due /\ turn[f].pc = "done"
    /\ \A f \in scan : form[f].status = "waiting" /\ form[f].due

(* The session stays suspended on the form until the resumed turn loads it,  *)
(* and stays what any turn loaded until it commits its save, which writes    *)
(* the row that there is.                                                    *)
CarriedBy(t) ==
    LET f == turn[t].resumes IN
    f # None =>
      /\ turn[t].pc \in {"queued", "ready"} => form[f].status \in Settled /\ SuspendedOn(f)
      /\ turn[t].pc = "loaded" => form[f].status \in Settled /\ turn[t].pending = f
      /\ turn[t].pc \in {"running", "asking", "saving", "selected", "flushed", "done"} => turn[t].answer = f

LoadedBy(t) ==
    turn[t].pc \in {"loaded", "running", "asking", "saving", "selected", "flushed"} =>
      \A r \in ActiveRows : row[r].snapshot = turn[t].base

SavedBy(t) ==
    Saving(t) => \A r \in Turn : row[r].status # "absent" => r = turn[t].row

PreviewInv ==
    /\ OneAtATime /\ OneScope /\ FormInv /\ SettlerInv /\ overlap = {}
    /\ \A t \in Turn : CarriedBy(t) /\ LoadedBy(t) /\ SavedBy(t)

LEMMA TurnField ==
    ASSUME TypeOK, NEW t \in Turn
    PROVE  turn \in [Turn -> Thread] /\ turn[t] \in Thread
BY DEF TypeOK

(* While a turn is active nobody answers and no other form waits.            *)
LEMMA ActiveAlone ==
    ASSUME TypeOK, PreviewInv, NEW t \in Turn, Active(t)
    PROVE  /\ \A u \in Turn \ {t} : ~Active(u)
           /\ \A f \in Turn : form[f].status = "waiting" =>
                f = t /\ turn[t].pc \in {"asking", "selected", "flushed"}
           /\ \A h \in Submitter : ~Checked(h)
           /\ scan = {}
<1>1. \A u \in Turn \ {t} : ~Active(u)
  BY DEF PreviewInv, OneAtATime
<1>2. ASSUME NEW f \in Turn, form[f].status = "waiting"
      PROVE  f = t /\ turn[t].pc \in {"asking", "selected", "flushed"}
  <2>1. turn[f].pc \in {"asking", "selected", "flushed"}
    BY <1>2 DEF PreviewInv, FormInv, Active, Over
  <2>. QED  BY <1>1, <2>1 DEF Active, Over
<1>3. ASSUME NEW h \in Submitter, Checked(h) PROVE FALSE
  <2>1. submit[h].form \in Turn
    BY <1>3 DEF TypeOK, Checked
  <2>. QED  BY <1>2, <1>3, <2>1 DEF PreviewInv, SettlerInv
<1>4. ASSUME NEW f \in scan PROVE FALSE
  <2>1. f \in Turn /\ form[f].status = "waiting" /\ turn[f].pc = "done"
    BY DEF PreviewInv, SettlerInv, FormInv, TypeOK
  <2>. QED  BY <1>2, <2>1
<1>. QED  BY <1>1, <1>2, <1>3, <1>4

(* An active turn that goes on; if it has asked, to its save.                *)
LEMMA TurnGoes ==
    ASSUME TypeOK, PreviewInv, NEW t \in Turn, Active(t), OnlyTurn(t),
           form[t].status # "none" => turn'[t].pc \in {"selected", "flushed"},
           UNCHANGED <<row, form, submit, scan, overlap>>,
           turn'[t].scope = turn[t].scope \/ turn'[t].scope = NullScope,
           CarriedBy(t)', LoadedBy(t)', SavedBy(t)'
    PROVE  PreviewInv'
<1>0. \A u \in Turn \ {t} : turn'[u] = turn[u]
  BY DEF OnlyTurn
<1>1. /\ \A u \in Turn \ {t} : ~Active(u)
      /\ \A f \in Turn : form[f].status = "waiting" => f = t
      /\ \A h \in Submitter : ~Checked(h)
      /\ scan = {}
  BY ActiveAlone
<1>2. \A h \in Submitter : ~Checked(h)'
  BY <1>1 DEF Checked
<1>3. OneAtATime'
  BY <1>0, <1>1, <1>2 DEF OneAtATime, Active
<1>4. OneScope'
  BY <1>0 DEF PreviewInv, OneScope
<1>5. FormInv'
  <2>1. turn[t].pc # "done" /\ form[t].status \notin Settled /\ ~form[t].due
    BY DEF PreviewInv, FormInv, Active, Over, TypeOK
  <2>2. form[t].status = "waiting" => turn'[t].pc # "done"
    OBVIOUS
  <2>. QED  BY <1>0, <1>1, <2>1, <2>2 DEF PreviewInv, FormInv
<1>6. SettlerInv'
  BY <1>1, <1>2 DEF SettlerInv
<1>7. ASSUME NEW u \in Turn \ {t} PROVE CarriedBy(u)' /\ LoadedBy(u)' /\ SavedBy(u)'
  <2>1. turn'[u] = turn[u] /\ CarriedBy(u) /\ LoadedBy(u) /\ SavedBy(u)
    BY <1>0 DEF PreviewInv
  <2>. QED  BY <2>1 DEF CarriedBy, LoadedBy, SavedBy, SuspendedOn, Saving, ActiveRows
<1>. QED  BY <1>3, <1>4, <1>5, <1>6, <1>7 DEF PreviewInv

LEMMA TurnAgrees ==
    ASSUME TypeOK, PreviewInv, ~Faulty, NEW t \in Turn,
           \/ TakeResume(t) \/ InputGuardAnswers(t) \/ Load(t) \/ StartRun(t)
           \/ RunSucceeds(t) \/ TurnFails(t)
    PROVE  PreviewInv'
<1>1. /\ Active(t) /\ turn[t].pc \in {"queued", "ready", "loaded", "running"}
      /\ UNCHANGED <<row, form, submit, scan, overlap>>
      /\ CarriedBy(t) /\ LoadedBy(t) /\ turn[t].scope = NullScope /\ turn \in [Turn -> Thread]
  BY TurnField
     DEF TakeResume, InputGuardAnswers, Load, StartRun, RunSucceeds, TurnFails, Active, Over,
         PreviewInv, OneScope
<1>0. form[t].status = "none"
  BY <1>1 DEF PreviewInv, FormInv
<1>2. CASE TakeResume(t)
  <2>1. \A f \in Turn : SuspendedOn(f) => SuspendedOn(f)'
    BY <1>1 DEF SuspendedOn, ActiveRows
  <2>2. turn[t].pc = "queued" /\ turn[t].resumes \in Turn \cup {None}
    BY <1>2, TurnField DEF TakeResume, Thread
  <2>3. CarriedBy(t)'
    BY <1>1, <1>2, <2>1, <2>2, TakeGives DEF CarriedBy
  <2>4. LoadedBy(t)' /\ SavedBy(t)'
    BY <1>2, TakeGives DEF LoadedBy, SavedBy, Saving
  <2>. QED  BY <1>0, <1>1, <1>2, <2>3, <2>4, TakeGives, TurnGoes
<1>3. CASE InputGuardAnswers(t) \/ RunSucceeds(t)
  <2>1. PICK pc \in {"saving", "asking", "done"} :
           /\ turn' = [turn EXCEPT ![t].pc = pc]
           /\ IF turn[t].pc = "running" THEN pc # "done" ELSE pc = "done" /\ turn[t].resumes = None
    BY <1>3 DEF InputGuardAnswers, RunSucceeds
  <2>2. /\ OnlyTurn(t) /\ turn'[t].pc = pc /\ SameLoaded(turn'[t], turn[t]) /\ SameWho(turn'[t], turn[t])
    BY <1>1, <2>1, MoveGives DEF Pcs
  <2>3. CarriedBy(t)' /\ LoadedBy(t)' /\ SavedBy(t)'
    BY <1>1, <2>1, <2>2 DEF CarriedBy, LoadedBy, SavedBy, Saving, ActiveRows, SameLoaded, SameWho
  <2>. QED  BY <1>0, <1>1, <2>2, <2>3, TurnGoes DEF SameWho
<1>4. CASE Load(t)
  <2>1. turn[t].pc = "ready" /\ LoadedFrom(t) = ActiveRows /\ \A r, s \in ActiveRows : r = s
    BY <1>1, <1>4 DEF Load, LoadedFrom, ActiveRows, PreviewInv, OneScope
  <2>2. LoadedBy(t)'
    BY <1>1, <1>4, <2>1, LoadGives DEF LoadedBy, ActiveRows
  <2>3. CarriedBy(t)'
    BY <1>1, <1>4, <2>1, LoadGives DEF CarriedBy, SuspendedOn, ActiveRows, SameWho
  <2>4. SavedBy(t)'
    BY <1>4, LoadGives DEF SavedBy, Saving
  <2>. QED  BY <1>0, <1>1, <1>4, <2>2, <2>3, <2>4, LoadGives, TurnGoes DEF SameWho
<1>5. CASE StartRun(t)
  <2>1. turn[t].pc = "loaded"
    BY <1>5 DEF StartRun
  <2>2. LoadedBy(t)'
    BY <1>1, <1>5, <2>1, RunGives DEF LoadedBy, ActiveRows
  <2>3. CarriedBy(t)'
    BY <1>1, <1>5, <2>1, RunGives DEF CarriedBy, SameWho
  <2>4. SavedBy(t)'
    BY <1>5, RunGives DEF SavedBy, Saving
  <2>. QED  BY <1>0, <1>1, <1>5, <2>2, <2>3, <2>4, RunGives, TurnGoes DEF SameWho
<1>6. CASE TurnFails(t)
  <2>1. /\ OnlyTurn(t) /\ turn'[t].pc = "failed"
        /\ SameLoaded(turn'[t], turn[t]) /\ SameWho(turn'[t], turn[t])
    BY <1>6, EndGives DEF TurnFails, Pcs
  <2>2. CarriedBy(t)' /\ LoadedBy(t)' /\ SavedBy(t)'
    BY <2>1 DEF CarriedBy, LoadedBy, SavedBy, Saving
  <2>. QED  BY <1>0, <1>1, <2>1, <2>2, TurnGoes DEF SameWho
<1>. QED  BY <1>2, <1>3, <1>4, <1>5, <1>6

(* The save of a turn opens alone, on the row that there is, and writes it.  *)
LEMMA SaveStepAgrees ==
    ASSUME TypeOK, PreviewInv, NEW t \in Turn, SelectRow(t) \/ FlushRow(t)
    PROVE  PreviewInv'
<1>1. /\ Active(t) /\ turn[t].pc \in {"asking", "saving", "selected"} /\ UNCHANGED <<row, form, submit, scan>>
      /\ CarriedBy(t) /\ LoadedBy(t) /\ SavedBy(t) /\ turn[t].scope = NullScope /\ overlap = {}
  BY DEF SelectRow, FlushRow, Paused, Active, Over, PreviewInv, OneScope
<1>2. CASE SelectRow(t)
  <2>1. \A u \in Turn : ~Saving(u)
    BY <1>1, <1>2, ActiveAlone DEF Active, Over, Saving, SelectRow, Paused
  <2>2. overlap' = overlap
    BY <1>2, <2>1 DEF SelectRow
  <2>3. Selectable(t) = {r \in Turn : row[r].status # "absent"}
    BY <1>1 DEF Selectable, PreviewInv, OneScope
  <2>4. SavedBy(t)'
    BY <1>1, <1>2, <2>3, SelectGives DEF SavedBy, PreviewInv, OneScope
  <2>5. turn[t].pc \in {"asking", "saving"}
    BY <1>2 DEF SelectRow, Paused
  <2>6. CarriedBy(t)'
    BY <1>1, <1>2, <2>5, SelectGives DEF CarriedBy, SameLoaded, SameWho
  <2>7. LoadedBy(t)'
    BY <1>1, <1>2, <2>5, SelectGives DEF LoadedBy, ActiveRows, SameLoaded
  <2>. QED  BY <1>1, <1>2, <2>2, <2>4, <2>6, <2>7, SelectGives, TurnGoes DEF SameWho
<1>3. CASE FlushRow(t)
  <2>1. turn[t].pc = "selected" /\ overlap' = overlap
    BY <1>3 DEF FlushRow
  <2>2. SavedBy(t)'
    BY <1>1, <1>3, <2>1, FlushGives DEF SavedBy, Saving
  <2>3. CarriedBy(t)' /\ LoadedBy(t)'
    BY <1>1, <1>3, <2>1, FlushGives DEF CarriedBy, LoadedBy, ActiveRows, SameLoaded, SameWho
  <2>. QED  BY <1>1, <1>3, <2>1, <2>2, <2>3, FlushGives, TurnGoes DEF SameWho
<1>. QED  BY <1>2, <1>3

(* A message that is sent while all is at rest.                              *)
LEMMA SendAgrees ==
    ASSUME TypeOK, PreviewInv, Preview, NEW t \in Turn, Send(t)
    PROVE  PreviewInv'
<1>1. /\ \A u \in Turn : ~Active(u) /\ form[u].status # "waiting"
      /\ turn[t].pc = "idle" /\ UNCHANGED <<row, form, submit, scan, overlap>>
  BY DEF Send, Preview, AtRest, Active
<1>2. /\ \A u \in Turn \ {t} : turn'[u] = turn[u]
      /\ turn'[t].pc = "ready" /\ turn'[t].scope = NullScope /\ turn'[t].resumes = None
  BY SendGives DEF OnlyTurn, SessionScope, Preview
<1>3. (\A h \in Submitter : ~Checked(h)) /\ scan = {}
  BY <1>1 DEF PreviewInv, SettlerInv, Checked, TypeOK
<1>4. OneAtATime'
  BY <1>1, <1>2, <1>3 DEF OneAtATime, Active, Checked
<1>5. OneScope'
  BY <1>1, <1>2 DEF PreviewInv, OneScope
<1>6. FormInv'
  BY <1>1, <1>2 DEF PreviewInv, FormInv, Settled
<1>7. SettlerInv'
  BY <1>1, <1>3 DEF SettlerInv, Checked
<1>8. ASSUME NEW u \in Turn \ {t} PROVE CarriedBy(u)' /\ LoadedBy(u)' /\ SavedBy(u)'
  <2>1. turn'[u] = turn[u] /\ CarriedBy(u) /\ LoadedBy(u) /\ SavedBy(u)
    BY <1>2 DEF PreviewInv
  <2>. QED  BY <1>1, <2>1 DEF CarriedBy, LoadedBy, SavedBy, SuspendedOn, Saving, ActiveRows
<1>9. CarriedBy(t)' /\ LoadedBy(t)' /\ SavedBy(t)'
  BY <1>2, ConversationAssumption DEF CarriedBy, LoadedBy, SavedBy, Saving
<1>. QED  BY <1>1, <1>4, <1>5, <1>6, <1>7, <1>8, <1>9 DEF PreviewInv

(* The form record of a paused turn appears; its session is yet to be saved. *)
LEMMA CreateAgrees ==
    ASSUME TypeOK, PreviewInv, NEW t \in Turn, CreateForm(t)
    PROVE  PreviewInv'
<1>1. turn[t].pc = "asking" /\ form[t].status = "none" /\ UNCHANGED <<row, turn, submit, scan, overlap>>
  BY DEF CreateForm
<1>2. /\ \A f \in Turn \ {t} : form'[f] = form[f]
      /\ form'[t].status = "waiting" /\ form'[t].due = form[t].due
  BY DEF CreateForm, TypeOK
<1>3. Active(t)
  BY <1>1 DEF Active, Over
<1>4. (\A h \in Submitter : ~Checked(h)) /\ scan = {}
  BY <1>3, ActiveAlone
<1>5. OneAtATime' /\ OneScope'
  BY <1>1 DEF PreviewInv, OneAtATime, OneScope, Active, Checked
<1>6. FormInv'
  <2>1. ASSUME NEW f \in Turn, f # t, form[f].status = "waiting" PROVE FALSE
    BY <1>3, <2>1, ActiveAlone
  <2>. QED  BY <1>1, <1>2, <2>1 DEF PreviewInv, FormInv, Settled
<1>7. SettlerInv'
  BY <1>1, <1>4 DEF SettlerInv, Checked
<1>8. ASSUME NEW u \in Turn PROVE CarriedBy(u)' /\ LoadedBy(u)' /\ SavedBy(u)'
  <2>1. CarriedBy(u) /\ LoadedBy(u) /\ SavedBy(u)
    BY DEF PreviewInv
  <2>2. \A f \in Turn : form[f].status \in Settled => form'[f].status \in Settled
    BY <1>1, <1>2 DEF Settled
  <2>3. turn[u].resumes \in Turn \cup {None}
    BY TurnField DEF Thread, TypeOK
  <2>. QED  BY <1>1, <2>1, <2>2, <2>3 DEF CarriedBy, LoadedBy, SavedBy, SuspendedOn, Saving, ActiveRows
<1>. QED  BY <1>1, <1>5, <1>6, <1>7, <1>8 DEF PreviewInv

(* What the commit of a save leaves, and what was there before it.           *)
LEMMA SaveGives ==
    ASSUME IInv, PreviewInv, NEW t \in Turn, CommitSave(t)
    PROVE  /\ Active(t) /\ UNCHANGED <<form, submit, scan, overlap>>
           /\ \A u \in Turn \ {t} : turn'[u] = turn[u]
           /\ turn'[t].pc = "done" /\ SameLoaded(turn'[t], turn[t]) /\ SameWho(turn'[t], turn[t])
           /\ OneScope' /\ (form[t].status # "none" => SuspendedOn(t)')
<1>1. /\ turn[t].pc = "flushed" /\ UNCHANGED <<form, submit, scan, overlap>>
      /\ TypeOK /\ RowInv /\ AloneInv
  BY DEF CommitSave, IInv
<1>2. /\ OnlyTurn(t) /\ turn'[t].pc = "done"
      /\ SameLoaded(turn'[t], turn[t]) /\ SameWho(turn'[t], turn[t])
  BY <1>1, EndGives DEF CommitSave, Pcs
<1>3. turn[t].scope = NullScope /\ t \notin overlap /\ \A r \in Turn : row[r].status # "absent" => r = turn[t].row
  BY <1>1 DEF PreviewInv, OneScope, SavedBy, Saving
<1>4. turn[t].others = {}
  BY <1>1, <1>3 DEF AloneInv, ActiveRows
<1>5. /\ turn[t].row \in Turn /\ row'[turn[t].row] = Written(t)
      /\ \A o \in Turn \ {turn[t].row} : row'[o].status = "absent"
  <2>1. \A o \in Turn \ {turn[t].row} : row'[o].status = row[o].status
    BY <1>1, <1>4, CommitGives
  <2>. QED  BY <1>1, <1>3, <2>1, CommitGives
<1>6. /\ Written(t).status = "active" /\ Written(t).scope = NullScope
      /\ Written(t).snapshot = t /\ Written(t).pending = Correlation(t)
  BY <1>1, <1>3, WrittenGives
<1>7. OneScope'
  <2>1. \A u \in Turn : turn'[u].scope = NullScope
    BY <1>2 DEF PreviewInv, OneScope, OnlyTurn, SameWho
  <2>. QED  BY <1>5, <1>6, <2>1 DEF OneScope
<1>8. form[t].status # "none" => SuspendedOn(t)'
  BY <1>5, <1>6 DEF SuspendedOn, ActiveRows, Correlation
<1>. QED  BY <1>1, <1>2, <1>7, <1>8 DEF Active, Over, OnlyTurn

LEMMA SaveAgrees ==
    ASSUME IInv, PreviewInv, NEW t \in Turn, CommitSave(t)
    PROVE  PreviewInv'
<1>0. TypeOK /\ turn[t].pc = "flushed"
  BY DEF IInv, CommitSave
<1>1. /\ \A u \in Turn \ {t} : ~Active(u)
      /\ \A f \in Turn : form[f].status = "waiting" => f = t
      /\ (\A h \in Submitter : ~Checked(h)) /\ scan = {}
  BY <1>0, SaveGives, ActiveAlone
<1>2. \A u \in Turn : ~Active(u)'
  BY <1>1, SaveGives DEF Active, Over
<1>3. OneAtATime' /\ OneScope' /\ overlap' = {}
  BY <1>1, <1>2, SaveGives DEF PreviewInv, OneAtATime, Checked
<1>4. FormInv'
  <2>1. ASSUME NEW f \in Turn, form'[f].status = "waiting" PROVE SuspendedOn(f)'
    BY <1>1, <2>1, SaveGives
  <2>. QED  BY <1>2, <2>1, SaveGives DEF PreviewInv, FormInv
<1>5. SettlerInv'
  BY <1>1, SaveGives DEF SettlerInv, Checked
<1>6. ASSUME NEW u \in Turn \ {t} PROVE CarriedBy(u)' /\ LoadedBy(u)' /\ SavedBy(u)'
  <2>1. turn'[u] = turn[u] /\ CarriedBy(u) /\ ~Active(u)
    BY <1>1, SaveGives DEF PreviewInv
  <2>. QED  BY <2>1 DEF CarriedBy, LoadedBy, SavedBy, Saving, Active, Over
<1>7. CarriedBy(t)' /\ LoadedBy(t)' /\ SavedBy(t)'
  <2>1. CarriedBy(t)
    BY DEF PreviewInv
  <2>. QED  BY <1>0, <2>1, SaveGives DEF CarriedBy, LoadedBy, SavedBy, Saving, SameLoaded, SameWho
<1>. QED  BY <1>3, <1>4, <1>5, <1>6, <1>7 DEF PreviewInv

(* A form that is settled at rest: its resume is queued, and nothing else    *)
(* waits.                                                                    *)
LEMMA SettleAgrees ==
    ASSUME TypeOK, PreviewInv, ~Faulty, NEW f \in Turn, EnqueueResume(f),
           form[f].status = "waiting", turn[f].pc = "done", form'[f].status \in Settled,
           \A g \in Turn \ {f} : form'[g] = form[g],
           \A h \in Submitter : ~Checked(h)', scan' = {}, UNCHANGED <<row, overlap>>
    PROVE  PreviewInv'
<1>1. SuspendedOn(f) /\ \A u \in Turn : ~Active(u)
  BY DEF PreviewInv, FormInv
<1>2. PICK t \in Turn :
         /\ \A u \in Turn \ {t} : turn'[u] = turn[u]
         /\ turn[t].pc = "idle" /\ turn'[t].pc = "queued" /\ turn'[t].resumes = f
         /\ turn'[t].scope = turn[t].scope
  BY EnqueueGives DEF OnlyTurn
<1>3. \A g \in Turn \ {f} : form[g].status # "waiting"
  <2>1. ASSUME NEW g \in Turn, form[g].status = "waiting" PROVE g = f
    <3>1. turn[g].pc = "done"
      BY <1>1, <2>1 DEF PreviewInv, FormInv, Active, Over
    <3>2. SuspendedOn(g)
      BY <2>1, <3>1 DEF PreviewInv, FormInv
    <3>. QED  BY <1>1, <3>2 DEF SuspendedOn, ActiveRows, PreviewInv, OneScope
  <2>. QED  BY <2>1
<1>4. OneAtATime'
  BY <1>1, <1>2 DEF OneAtATime, Active
<1>5. OneScope'
  BY <1>2 DEF PreviewInv, OneScope
<1>6. FormInv'
  <2>1. form[t].status = "none" /\ ~form[t].due /\ t # f
    BY <1>2 DEF PreviewInv, FormInv, TypeOK, Settled
  <2>2. \A g \in Turn : form'[g].status # "waiting"
    BY <1>3 DEF Settled
  <2>. QED  BY <1>2, <2>1, <2>2 DEF PreviewInv, FormInv, Settled
<1>7. SettlerInv'
  BY DEF SettlerInv
<1>8. ASSUME NEW u \in Turn \ {t} PROVE CarriedBy(u)' /\ LoadedBy(u)' /\ SavedBy(u)'
  <2>1. turn'[u] = turn[u] /\ CarriedBy(u) /\ ~Active(u)
    BY <1>1, <1>2 DEF PreviewInv
  <2>. QED  BY <2>1 DEF CarriedBy, LoadedBy, SavedBy, Saving, Active, Over
<1>9. CarriedBy(t)' /\ LoadedBy(t)' /\ SavedBy(t)'
  BY <1>1, <1>2 DEF CarriedBy, LoadedBy, SavedBy, Saving, SuspendedOn, ActiveRows
<1>. QED  BY <1>4, <1>5, <1>6, <1>7, <1>8, <1>9 DEF PreviewInv

(* Who settles a form does so alone.                                         *)
LEMMA SettlerAlone ==
    ASSUME TypeOK, PreviewInv, NEW f \in Turn, form[f].status = "waiting", turn[f].pc = "done"
    PROVE  /\ \A h \in Submitter : Checked(h) => submit[h].form = f /\ ~form[f].due
           /\ \A g \in scan : g = f /\ form[f].due
<1>1. ASSUME NEW g \in Turn, form[g].status = "waiting", turn[g].pc = "done" PROVE g = f
  BY <1>1 DEF PreviewInv, FormInv, SuspendedOn, ActiveRows, OneScope
<1>2. ASSUME NEW h \in Submitter, Checked(h) PROVE submit[h].form = f /\ ~form[f].due
  <2>1. submit[h].form \in Turn
    BY <1>2 DEF TypeOK, Checked
  <2>. QED  BY <1>1, <1>2, <2>1 DEF PreviewInv, SettlerInv
<1>3. ASSUME NEW g \in scan PROVE g = f /\ form[f].due
  <2>1. g \in Turn /\ form[g].status = "waiting" /\ form[g].due /\ turn[g].pc = "done"
    BY DEF PreviewInv, SettlerInv, FormInv, TypeOK
  <2>. QED  BY <1>1, <2>1
<1>. QED  BY <1>2, <1>3

LEMMA SubmitAgrees ==
    ASSUME TypeOK, PreviewInv, Preview, NEW h \in Submitter, MarkSubmitted(h)
    PROVE  PreviewInv'
<1>. DEFINE f == submit[h].form
<1>1. f \in Turn /\ Checked(h)
  BY DEF MarkSubmitted, TypeOK, Checked
<1>2. form[f].status = "waiting" /\ ~form[f].due /\ turn[f].pc = "done"
  BY <1>1 DEF PreviewInv, SettlerInv
<1>3. EnqueueResume(f) /\ ~Faulty /\ UNCHANGED <<row, scan, overlap>>
  BY DEF MarkSubmitted, Preview
<1>4. form'[f].status = "submitted" /\ \A g \in Turn \ {f} : form'[g] = form[g]
  <2>1. form' = [form EXCEPT ![f] = [[form[f] EXCEPT !.status = "submitted"] EXCEPT !.by = h]]
        /\ form \in [Turn -> FormRecord]
    BY <1>1, FormGives
  <2>. HIDE DEF f
  <2>2. /\ [form[f] EXCEPT !.status = "submitted"] \in FormRecord
        /\ [form[f] EXCEPT !.status = "submitted"].status = "submitted"
    BY <1>1, <2>1, SetStatus DEF Settled
  <2>3. [[form[f] EXCEPT !.status = "submitted"] EXCEPT !.by = h].status = "submitted"
    BY <2>2, SetBy
  <2>. QED  BY <1>1, <2>1, <2>3
<1>5. \A g \in Submitter : ~Checked(g)'
  <2>1. \A g \in Submitter \ {h} : ~Checked(g)
    BY <1>1 DEF PreviewInv, OneAtATime
  <2>. QED  BY <2>1 DEF MarkSubmitted, Checked, TypeOK
<1>6. scan = {}
  BY <1>1, <1>2, SettlerAlone DEF TypeOK
<1>. HIDE DEF f
<1>. QED  BY <1>1, <1>2, <1>3, <1>4, <1>5, <1>6, SettleAgrees DEF Settled

LEMMA TimeoutAgrees ==
    ASSUME TypeOK, PreviewInv, Preview, NEW f \in Turn, WriteTimeout(f)
    PROVE  PreviewInv'
<1>1. form[f].status = "waiting" /\ form[f].due /\ turn[f].pc = "done"
  BY DEF WriteTimeout, PreviewInv, SettlerInv, FormInv
<1>2. EnqueueResume(f) /\ ~Faulty /\ UNCHANGED <<row, submit, overlap>> /\ scan' = scan \ {f}
  BY DEF WriteTimeout, Preview
<1>3. form'[f].status = "timeout" /\ \A g \in Turn \ {f} : form'[g] = form[g]
  BY DEF WriteTimeout, TypeOK
<1>4. (\A h \in Submitter : ~Checked(h)) /\ \A g \in scan : g = f
  BY <1>1, SettlerAlone
<1>5. (\A h \in Submitter : ~Checked(h)') /\ scan' = {}
  BY <1>2, <1>4 DEF Checked
<1>. QED  BY <1>1, <1>2, <1>3, <1>5, SettleAgrees DEF Settled

(* Steps that leave turns and sessions alone.                                *)
LEMMA FormStepAgrees ==
    ASSUME TypeOK, PreviewInv, UNCHANGED <<row, turn, overlap>>,
           \A f \in Turn : form'[f].status = form[f].status,
           \A f \in Turn : form'[f].due /\ ~form[f].due => turn[f].pc = "done",
           SettlerInv', \A g, h \in Submitter : Checked(g)' /\ Checked(h)' => g = h
    PROVE  PreviewInv'
<1>1. OneAtATime' /\ OneScope'
  BY DEF PreviewInv, OneAtATime, OneScope, Active
<1>2. FormInv'
  BY DEF PreviewInv, FormInv, SuspendedOn, Active, ActiveRows
<1>3. ASSUME NEW u \in Turn PROVE CarriedBy(u)' /\ LoadedBy(u)' /\ SavedBy(u)'
  <2>1. CarriedBy(u) /\ LoadedBy(u) /\ SavedBy(u) /\ turn[u].resumes \in Turn \cup {None}
    BY TurnField DEF PreviewInv, Thread
  <2>. QED  BY <2>1 DEF CarriedBy, LoadedBy, SavedBy, Saving, SuspendedOn, ActiveRows
<1>. QED  BY <1>1, <1>2, <1>3 DEF PreviewInv

LEMMA DeadlineAgrees ==
    ASSUME TypeOK, PreviewInv, Preview, NEW f \in Turn, Deadline(f)
    PROVE  PreviewInv'
<1>1. /\ UNCHANGED <<row, turn, submit, scan, overlap>> /\ form[f].status = "waiting"
      /\ turn[f].pc \in Over /\ \A h \in Submitter : ~Checked(h)
  BY DEF Deadline, Preview, Checked
<1>2. /\ \A g \in Turn : form'[g].status = form[g].status
      /\ \A g \in Turn \ {f} : form'[g] = form[g]
      /\ form'[f].due
  BY DEF Deadline, TypeOK
<1>3. turn[f].pc = "done"
  BY <1>1 DEF PreviewInv, FormInv, Over
<1>4. SettlerInv'
  BY <1>1, <1>2 DEF PreviewInv, SettlerInv, Checked, TypeOK
<1>. QED  BY <1>1, <1>2, <1>3, <1>4, FormStepAgrees DEF Checked

LEMMA CheckAgrees ==
    ASSUME TypeOK, PreviewInv, Preview, NEW h \in Submitter, NEW f \in Turn, CheckForm(h, f)
    PROVE  PreviewInv'
<1>1. /\ UNCHANGED <<row, turn, form, scan, overlap>> /\ form[f].status = "waiting" /\ ~form[f].due
      /\ turn[f].pc \in Over /\ \A g \in Submitter : ~Checked(g)
  BY DEF CheckForm, Preview, Checked
<1>2. /\ submit'[h].form = f /\ \A g \in Submitter \ {h} : ~Checked(g)'
  BY <1>1 DEF CheckForm, TypeOK, Checked
<1>3. turn[f].pc = "done"
  BY <1>1 DEF PreviewInv, FormInv, Over
<1>4. SettlerInv'
  BY <1>1, <1>2, <1>3 DEF PreviewInv, SettlerInv
<1>. QED  BY <1>1, <1>2, <1>4, FormStepAgrees

LEMMA PreviewStep == IInv /\ PreviewInv /\ Preview /\ [Next]_vars => PreviewInv'
<1>. SUFFICES ASSUME IInv, PreviewInv, Preview, [Next]_vars PROVE PreviewInv'
  OBVIOUS
<1>0. TypeOK
  BY DEF IInv
<1>1. CASE Publish \/ UNCHANGED vars
  <2>1. UNCHANGED <<row, turn, form, submit, scan, overlap>>
    BY <1>1 DEF Publish, vars
  <2>2. SettlerInv' /\ \A g, h \in Submitter : Checked(g)' /\ Checked(h)' => g = h
    BY <2>1 DEF PreviewInv, SettlerInv, OneAtATime, Checked
  <2>. QED  BY <1>0, <2>1, <2>2, FormStepAgrees
<1>2. ASSUME NEW t \in Turn, Send(t) \/ TurnStep(t) PROVE PreviewInv'
  <2>1. ~SaveFails(t) /\ ~Faulty
    BY DEF SaveFails, Preview
  <2>. QED  BY <1>0, <1>2, <2>1, SendAgrees, TurnAgrees, CreateAgrees, SaveStepAgrees, SaveAgrees DEF TurnStep
<1>3. ASSUME NEW f \in Turn, Deadline(f) \/ ReadTimeout(f) \/ WriteTimeout(f) PROVE PreviewInv'
  <2>1. CASE ReadTimeout(f)
    <3>1. /\ UNCHANGED <<row, turn, form, submit, overlap>> /\ scan' = scan \cup {f}
          /\ form[f].status = "waiting" /\ form[f].due
      BY <2>1 DEF ReadTimeout
    <3>2. SettlerInv' /\ \A g, h \in Submitter : Checked(g)' /\ Checked(h)' => g = h
      BY <3>1 DEF PreviewInv, SettlerInv, OneAtATime, Checked
    <3>. QED  BY <1>0, <3>1, <3>2, FormStepAgrees
  <2>. QED  BY <1>0, <1>3, <2>1, DeadlineAgrees, TimeoutAgrees
<1>4. ASSUME NEW h \in Submitter, MarkSubmitted(h) \/ \E f \in Turn : CheckForm(h, f) PROVE PreviewInv'
  BY <1>0, <1>4, SubmitAgrees, CheckAgrees
<1>. QED  BY <1>1, <1>2, <1>3, <1>4 DEF Next

LEMMA PreviewInit == Init => PreviewInv
<1>. SUFFICES ASSUME Init PROVE PreviewInv
  OBVIOUS
<1>1. OneAtATime /\ OneScope /\ FormInv /\ SettlerInv /\ overlap = {}
  BY DEF Init, OneAtATime, OneScope, FormInv, SettlerInv, NoThread, Active, Over, Checked, Settled
<1>2. ASSUME NEW t \in Turn PROVE CarriedBy(t) /\ LoadedBy(t) /\ SavedBy(t)
  BY DEF Init, CarriedBy, LoadedBy, SavedBy, Saving, NoThread
<1>. QED  BY <1>1, <1>2 DEF PreviewInv

LEMMA PreviewInvariance == Preview /\ Spec => [](IInv /\ PreviewInv)
<1>. SUFFICES ASSUME Preview PROVE Spec => [](IInv /\ PreviewInv)
  OBVIOUS
<1>1. Init => PreviewInv
  BY PreviewInit
<1>2. IInv /\ PreviewInv /\ [Next]_vars => PreviewInv'
  BY PreviewStep
<1>. QED  BY <1>1, <1>2, Invariance, PTL DEF Spec

(* In a preview without faults, in which people and deadlines act at rest,   *)
(* the turn that a settled form resumes carries that form's answer, through  *)
(* any number of pauses, configurations published meanwhile, people and      *)
(* deadlines.                                                                *)
THEOREM PreviewResumeCarriesAnswer == Preview /\ Spec => []ResumeCarriesAnswer
<1>1. PreviewInv => ResumeCarriesAnswer
  BY DEF PreviewInv, CarriedBy, ResumeCarriesAnswer
<1>. QED  BY <1>1, PreviewInvariance, PTL

LEMMA SaveContinues ==
    ASSUME IInv, PreviewInv, [Next]_vars, NEW t \in Turn,
           row' # row, turn[t].pc # "done", turn'[t].pc = "done"
    PROVE  ActiveSnapshots \subseteq {turn[t].base}
<1>1. PICK u \in Turn : CommitSave(u)
  BY RowWriter
<1>2. u = t
  BY <1>1, SaveGives
<1>3. turn[t].pc = "flushed" /\ LoadedBy(t)
  BY <1>1, <1>2 DEF CommitSave, PreviewInv
<1>. QED  BY <1>3 DEF ActiveSnapshots, LoadedBy

(* In such a preview each saved turn continues the session that the          *)
(* conversation had.                                                         *)
THEOREM PreviewKeepsContext == Preview /\ Spec => KeepsContext
<1>. SUFFICES ASSUME Preview PROVE Spec => KeepsContext
  OBVIOUS
<1>1. IInv /\ PreviewInv /\ [Next]_vars =>
         [\A t \in Turn : row' # row /\ turn[t].pc # "done" /\ turn'[t].pc = "done"
            => ActiveSnapshots \subseteq {turn[t].base}]_vars
  BY SaveContinues
<1>. QED  BY <1>1, PreviewInvariance, PTL DEF Spec, KeepsContext

-----------------------------------------------------------------------------
(* The published app, where a resumed turn looks for its session under NULL  *)
(* and a user's turn under the configuration it was sent to.                 *)
AskedByResume(p) == p # None => turn[p].pc = "done" /\ turn[p].resumes # None

(* The rows that resumed turns use.                                          *)
NullRows == {r \in Turn : row[r].status # "absent" /\ row[r].scope = NullScope}

Scoped == {"ready", "loaded", "running", "asking", "saving", "selected", "flushed"}

PublishedInv ==
    /\ \A t \in Turn : turn[t].pc \in Scoped => (turn[t].scope = NullScope <=> turn[t].resumes # None)
    /\ \A t \in Turn : turn[t].pc = "queued" => turn[t].resumes # None
    /\ \A t \in Turn : turn[t].pc \in {"idle", "queued", "ready"} => turn[t].pending = None
    /\ \A t \in Turn : turn[t].resumes # None => AskedByResume(turn[t].pending)
    /\ \A r \in NullRows : AskedByResume(row[r].pending)

(* One turn, which is not done, changes; a row of NULL scope is what it was, *)
(* or carries no call or that turn's.                                        *)
LEMMA OneTurnKeeps ==
    ASSUME TypeOK, PublishedInv, NEW t \in Turn, turn[t].pc # "done", OnlyTurn(t),
           turn'[t].pc \in Scoped => (turn'[t].scope = NullScope <=> turn'[t].resumes # None),
           turn'[t].pc = "queued" => turn'[t].resumes # None,
           turn'[t].pc \in {"idle", "queued", "ready"} => turn'[t].pending = None,
           turn'[t].resumes # None =>
             \/ turn'[t].pending = None
             \/ \E r \in NullRows : turn'[t].pending = row[r].pending
             \/ turn'[t].pending = turn[t].pending /\ turn[t].resumes # None,
           \A r \in NullRows' :
             \/ row'[r].pending = None
             \/ \E s \in NullRows : row'[r].pending = row[s].pending
             \/ row'[r].pending = t /\ turn'[t].pc = "done" /\ turn'[t].resumes # None
    PROVE  PublishedInv'
<1>0. \A u \in Turn \ {t} : turn'[u] = turn[u]
  BY DEF OnlyTurn
<1>1. /\ \A u \in Turn : turn[u].pending \in Turn \cup {None}
      /\ \A r \in Turn : row[r].pending \in Turn \cup {None}
      /\ None \notin Turn
  BY TurnField, ConversationAssumption DEF TypeOK, Thread, Row
<1>. DEFINE After(p) == p # None => turn'[p].pc = "done" /\ turn'[p].resumes # None
<1>2. \A p \in Turn \cup {None} : AskedByResume(p) => After(p)
  BY <1>0 DEF AskedByResume
<1>3. After(None) /\ (turn'[t].pc = "done" /\ turn'[t].resumes # None => After(t))
  OBVIOUS
<1>. HIDE DEF After
<1>4. \A s \in NullRows : After(row[s].pending)
  BY <1>1, <1>2 DEF PublishedInv, NullRows
<1>5. ASSUME NEW r \in NullRows' PROVE After(row'[r].pending)
  BY <1>3, <1>4
<1>6. ASSUME NEW u \in Turn, turn'[u].resumes # None PROVE After(turn'[u].pending)
  <2>1. CASE u # t \/ (turn'[t].pending = turn[t].pending /\ turn[t].resumes # None)
    <3>1. turn'[u].pending = turn[u].pending /\ turn[u].resumes # None
      BY <1>0, <1>6, <2>1
    <3>2. AskedByResume(turn[u].pending)
      BY <3>1 DEF PublishedInv
    <3>. QED  BY <1>1, <1>2, <3>1, <3>2
  <2>. QED  BY <1>3, <1>4, <1>6, <2>1
<1>7. /\ \A u \in Turn : turn'[u].pc \in Scoped => (turn'[u].scope = NullScope <=> turn'[u].resumes # None)
      /\ \A u \in Turn : turn'[u].pc = "queued" => turn'[u].resumes # None
      /\ \A u \in Turn : turn'[u].pc \in {"idle", "queued", "ready"} => turn'[u].pending = None
  BY <1>0 DEF PublishedInv
<1>. QED  BY <1>5, <1>6, <1>7 DEF PublishedInv, AskedByResume, After

(* No turn and no row changes.                                               *)
LEMMA NoTurnKeeps ==
    ASSUME PublishedInv, UNCHANGED <<turn, row>>
    PROVE  PublishedInv'
BY DEF PublishedInv, AskedByResume, NullRows

LEMMA SettleKeeps ==
    ASSUME TypeOK, PublishedInv, NEW f \in Turn, EnqueueResume(f), UNCHANGED row
    PROVE  PublishedInv'
<1>1. CASE turn' = turn
  BY <1>1, NoTurnKeeps
<1>2. CASE turn' # turn
  <2>1. PICK t \in Turn :
           /\ OnlyTurn(t) /\ turn[t].pc = "idle" /\ turn'[t].pc = "queued"
           /\ turn'[t].resumes = f /\ turn'[t].pending = turn[t].pending
    BY <1>2, EnqueueGives DEF SameLoaded
  <2>2. turn'[t].pending = None /\ f # None /\ NullRows' = NullRows
    BY <2>1, ConversationAssumption DEF PublishedInv, NullRows
  <2>. QED  BY <2>1, <2>2, OneTurnKeeps DEF Scoped
<1>. QED  BY <1>1, <1>2

LEMMA SaveKeeps ==
    ASSUME IInv, PublishedInv, NEW t \in Turn, CommitSave(t)
    PROVE  PublishedInv'
<1>1. /\ TypeOK /\ RowInv /\ AloneInv /\ turn[t].pc = "flushed"
  BY DEF IInv, CommitSave
<1>2. /\ OnlyTurn(t) /\ turn'[t].pc = "done"
      /\ turn'[t].resumes = turn[t].resumes /\ turn'[t].pending = turn[t].pending
  BY <1>1, EndGives DEF CommitSave, Pcs, SameWho, SameLoaded
<1>. DEFINE r == turn[t].row
<1>3. /\ r \in Turn /\ row'[r] = Written(t)
      /\ \A o \in Turn \ {r} :
           /\ row'[o].scope = row[o].scope /\ row'[o].pending = row[o].pending
           /\ row'[o].status # "absent" => row[o].status # "absent"
  <2>1. turn[t].others \in SUBSET Turn /\ \A o \in turn[t].others : row[o].status # "absent"
    BY <1>1 DEF TypeOK, Thread, RowInv
  <2>. QED  BY <1>1, <2>1, CommitGives
<1>4. /\ Written(t).scope = turn[t].scope
      /\ \/ Written(t).pending \in {t, None}
         \/ r # t /\ Written(t).pending = row[r].pending
  BY <1>1, WrittenGives, ColumnsType
<1>5. r # t => row[r].status # "absent" /\ row[r].scope = turn[t].scope
  BY <1>1 DEF RowInv, Saving
<1>. HIDE DEF r
<1>6. turn[t].scope = NullScope <=> turn[t].resumes # None
  BY <1>1 DEF PublishedInv, Scoped
<1>7. ASSUME NEW o \in NullRows'
      PROVE  \/ row'[o].pending = None
             \/ \E s \in NullRows : row'[o].pending = row[s].pending
             \/ row'[o].pending = t /\ turn[t].resumes # None
  <2>1. CASE o = r
    <3>1. turn[t].scope = NullScope
      BY <1>3, <1>4, <2>1 DEF NullRows
    <3>2. r # t => r \in NullRows
      BY <1>3, <1>5, <3>1 DEF NullRows
    <3>. QED  BY <1>3, <1>4, <1>6, <2>1, <3>1, <3>2
  <2>2. CASE o # r
    <3>1. o \in NullRows /\ row'[o].pending = row[o].pending
      BY <1>3, <2>2 DEF NullRows
    <3>. QED  BY <3>1
  <2>. QED  BY <2>1, <2>2
<1>. QED  BY <1>1, <1>2, <1>7, OneTurnKeeps DEF PublishedInv, Scoped

LEMMA PublishedStep == IInv /\ PublishedInv /\ ~Debug /\ [Next]_vars => PublishedInv'
<1>. SUFFICES ASSUME IInv, PublishedInv, ~Debug, [Next]_vars PROVE PublishedInv'
  OBVIOUS
<1>0. TypeOK /\ turn \in [Turn -> Thread]
  BY DEF IInv, TypeOK
<1>1. CASE Publish \/ UNCHANGED vars \/ \E f \in Turn : Deadline(f) \/ ReadTimeout(f) \/ CreateForm(f)
  BY <1>1, NoTurnKeeps DEF Publish, Deadline, ReadTimeout, CreateForm, vars
<1>2. ASSUME NEW h \in Submitter, NEW f \in Turn, CheckForm(h, f) PROVE PublishedInv'
  BY <1>2, NoTurnKeeps DEF CheckForm
<1>3. ASSUME NEW t \in Turn, Send(t) PROVE PublishedInv'
  <2>1. /\ turn[t].pc = "idle" /\ NullRows' = NullRows /\ \A r \in NullRows : row'[r] = row[r]
        /\ OnlyTurn(t) /\ turn'[t].pc = "ready" /\ turn'[t].resumes = None /\ turn'[t].pending = None
        /\ turn'[t].scope = published
    BY <1>0, <1>3, SendGives DEF Send, SessionScope, NullRows
  <2>2. published # NullScope
    BY <1>0 DEF TypeOK
  <2>. QED  BY <1>0, <2>1, <2>2, OneTurnKeeps
<1>4. ASSUME NEW t \in Turn, TakeResume(t) PROVE PublishedInv'
  <2>1. turn[t].pc = "queued" /\ NullRows' = NullRows /\ row' = row
    BY <1>4 DEF TakeResume, NullRows
  <2>2. turn[t].resumes # None /\ turn[t].pending = None
    BY <2>1 DEF PublishedInv
  <2>. QED  BY <1>0, <1>4, <2>1, <2>2, TakeGives, OneTurnKeeps DEF SameLoaded
<1>5. ASSUME NEW t \in Turn, Load(t) PROVE PublishedInv'
  <2>1. turn[t].pc = "ready" /\ NullRows' = NullRows /\ row' = row
    BY <1>5 DEF Load, NullRows
  <2>2. turn[t].scope = NullScope <=> turn[t].resumes # None
    BY <2>1 DEF PublishedInv, Scoped
  <2>3. turn[t].resumes # None => LoadedFrom(t) \subseteq NullRows
    BY <2>2 DEF LoadedFrom, NullRows
  <2>4. /\ OnlyTurn(t) /\ turn'[t].pc = "loaded" /\ turn'[t].scope = turn[t].scope
        /\ turn'[t].resumes = turn[t].resumes
        /\ turn[t].resumes # None =>
             \/ \E r \in NullRows : turn'[t].pending = row[r].pending
             \/ turn'[t].pending = turn[t].pending
    BY <1>0, <1>5, <2>3, LoadGives DEF SameWho
  <2>. QED  BY <1>0, <2>1, <2>2, <2>4, OneTurnKeeps
<1>6. ASSUME NEW t \in Turn,
             \/ StartRun(t) \/ InputGuardAnswers(t) \/ RunSucceeds(t) \/ TurnFails(t)
             \/ SelectRow(t) \/ FlushRow(t) \/ SaveFails(t)
      PROVE  PublishedInv'
  <2>1. turn[t].pc # "done" /\ NullRows' = NullRows /\ row' = row
    BY <1>6 DEF StartRun, InputGuardAnswers, RunSucceeds, TurnFails, SelectRow, FlushRow, SaveFails,
                Paused, Over, NullRows
  <2>2. /\ OnlyTurn(t) /\ SameWho(turn'[t], turn[t]) /\ turn'[t].pending = turn[t].pending
        /\ turn'[t].pc \notin {"idle", "queued", "ready"}
        /\ turn'[t].pc \in Scoped => turn[t].pc \in Scoped
    <3>1. CASE StartRun(t)
      BY <1>0, <3>1, RunGives DEF StartRun, Scoped
    <3>2. CASE InputGuardAnswers(t) \/ RunSucceeds(t)
      <4>1. PICK pc \in {"saving", "asking", "done"} : turn' = [turn EXCEPT ![t].pc = pc]
        BY <3>2 DEF InputGuardAnswers, RunSucceeds
      <4>. QED  BY <1>0, <3>2, <4>1, MoveGives DEF Pcs, SameLoaded, InputGuardAnswers, RunSucceeds, Scoped
    <3>3. CASE TurnFails(t) \/ SaveFails(t)
      <4>1. PICK pc \in {"done", "failed"} : Ended(t, pc)
        BY <3>3 DEF TurnFails, SaveFails
      <4>. QED  BY <1>0, <4>1, EndGives DEF Pcs, SameLoaded, Scoped
    <3>4. CASE SelectRow(t)
      BY <1>0, <3>4, SelectGives DEF SelectRow, Paused, Scoped, SameLoaded
    <3>5. CASE FlushRow(t)
      BY <1>0, <3>5, FlushGives DEF FlushRow, Scoped, SameLoaded
    <3>. QED  BY <1>6, <3>1, <3>2, <3>3, <3>4, <3>5
  <2>3. turn'[t].pc \in Scoped => (turn'[t].scope = NullScope <=> turn'[t].resumes # None)
    BY <2>2 DEF PublishedInv, SameWho
  <2>4. turn'[t].resumes # None => turn[t].resumes # None
    BY <2>2 DEF SameWho
  <2>. QED  BY <1>0, <2>1, <2>2, <2>3, <2>4, OneTurnKeeps
<1>7. ASSUME NEW t \in Turn, CommitSave(t) PROVE PublishedInv'
  BY <1>7, SaveKeeps
<1>8. ASSUME NEW h \in Submitter, MarkSubmitted(h) PROVE PublishedInv'
  <2>1. submit[h].form \in Turn
    BY <1>0, <1>8 DEF MarkSubmitted, TypeOK
  <2>. QED  BY <1>0, <1>8, <2>1, SettleKeeps DEF MarkSubmitted
<1>9. ASSUME NEW f \in Turn, WriteTimeout(f) PROVE PublishedInv'
  BY <1>0, <1>9, SettleKeeps DEF WriteTimeout
<1>. QED
  BY <1>1, <1>2, <1>3, <1>4, <1>5, <1>6, <1>7, <1>8, <1>9 DEF Next, TurnStep

(* Why the answer to a published app's form is lost (run                     *)
(* conversation_published_resume), in every environment: a resumed turn is   *)
(* never given the answer to what a user's turn asked.  It gets an answer    *)
(* only if the question was itself asked by a resumed turn.                  *)
THEOREM PublishedResumeMissesAnswer ==
    ~Debug /\ Spec =>
      [](\A t \in Turn : turn[t].resumes # None /\ turn[t].answer # None
                           => turn[turn[t].answer].resumes # None)
<1>. SUFFICES ASSUME ~Debug
              PROVE  Spec => [](\A t \in Turn : turn[t].resumes # None /\ turn[t].answer # None
                                   => turn[turn[t].answer].resumes # None)
  OBVIOUS
<1>1. ASSUME Init PROVE PublishedInv
  <2>1. NullRows = {}
    BY <1>1 DEF Init, NullRows
  <2>2. \A t \in Turn : turn[t].pc = "idle" /\ turn[t].resumes = None /\ turn[t].pending = None
    BY <1>1 DEF Init, NoThread
  <2>. QED  BY <2>1, <2>2 DEF PublishedInv, AskedByResume, Scoped
<1>2. IInv /\ PublishedInv /\ [Next]_vars => PublishedInv'
  BY PublishedStep
<1>3. IInv /\ PublishedInv => \A t \in Turn : turn[t].resumes # None /\ turn[t].answer # None
                                 => turn[turn[t].answer].resumes # None
  BY DEF IInv, CorrelationInv, PublishedInv, AskedByResume
<1>. QED  BY <1>1, <1>2, <1>3, Invariance, PTL DEF Spec
=============================================================================
