-------------------------- MODULE AgentRunsProofs --------------------------
(* Proofs about AgentRuns for any set of runs and any bounds. *)
EXTENDS AgentRuns, TLAPS

(* The tables that drive a coroutine from one store call to the next only  *)
(* name steps a run can be in.                                              *)
LEMMA StepTables ==
  ASSUME NEW s \in CallStep
  PROVE  /\ AfterCall(s) \in Step /\ AfterError(s) \in Step
         /\ s \in EmitStep => EventOf(s) \in Event
         /\ s \in PutStep => StatusOf(s) \in Status
BY DEF CallStep, EmitStep, GetStep, PutStep, MarkStep, TaskStep, EndStep, Step,
       AfterCall, AfterError, EventOf, StatusOf, Event, TerminalEvent, Status, TerminalStatus

LEMMA GotoType ==
  ASSUME step \in [Runs -> Step], io \in [Runs -> CallState],
         NEW r \in Runs, NEW s \in Step, Goto(r, s)
  PROVE  step' \in [Runs -> Step] /\ io' \in [Runs -> CallState]
BY DEF Goto, CallState

LEMMA TypeInit == Init => TypeOK
<1>1. "none" \in Status \cup {"none"} /\ "absent" \in Step /\ "sent" \in CallState
  BY DEF Step, CallState
<1>2. <<>> \in Seq(Event)
  OBVIOUS
<1>. QED
  BY ZenonT(60), <1>1, <1>2 DEF Init, TypeOK

LEMMA TypeNext == TypeOK /\ [Next]_vars => TypeOK'
<1>. SUFFICES ASSUME TypeOK, [Next]_vars PROVE TypeOK'
  OBVIOUS
<1>. USE DEF TypeOK
<1>1. ASSUME NEW r \in Runs, Execute(r) PROVE TypeOK'
  <2>1. step[r] \in CallStep
    BY <1>1 DEF Execute
  <2>2. io' \in [Runs -> CallState]
    BY <1>1 DEF Execute, CallState
  <2>3. record' \in [Runs -> Status \cup {"none"}]
    <3>1. CASE step[r] = "creating"
      <4>1. record' = [record EXCEPT ![r] = "running"]
        BY <1>1, <3>1 DEF Execute, PutStep
      <4>. QED
        BY <4>1 DEF Status
    <3>2. CASE step[r] \in PutStep
      <4>1. record' = [record EXCEPT ![r] = StatusOf(step[r])]
        BY <1>1, <3>2 DEF Execute, PutStep
      <4>. QED
        BY <4>1, <3>2, <2>1, StepTables
    <3>3. CASE step[r] # "creating" /\ step[r] \notin PutStep
      BY <1>1, <3>3 DEF Execute
    <3>. QED
      BY <3>1, <3>2, <3>3
  <2>4. log' \in [Runs -> Seq(Event)]
    <3>1. CASE step[r] \in EmitStep
      <4>1. EventOf(step[r]) \in Event
        BY <2>1, <3>1, StepTables
      <4>2. Append(log[r], EventOf(step[r])) \in Seq(Event)
        BY <4>1
      <4>. QED
        BY <1>1, <3>1, <4>2 DEF Execute
    <3>2. CASE step[r] \notin EmitStep
      BY <1>1, <3>2 DEF Execute
    <3>. QED
      BY <3>1, <3>2
  <2>. QED
    BY <1>1, <2>2, <2>3, <2>4 DEF Execute, control, faults
<1>2. ASSUME NEW r \in Runs, LoseCall(r) PROVE TypeOK'
  BY <1>2 DEF LoseCall, store, control, CallState
<1>3. ASSUME NEW r \in Runs, Expire(r) PROVE TypeOK'
  <2>1. <<>> \in Seq(Event)
    OBVIOUS
  <2>2. log' \in [Runs -> Seq(Event)] /\ record' \in [Runs -> Status \cup {"none"}]
    BY <1>3, <2>1 DEF Expire
  <2>. QED
    BY <1>3, <2>2 DEF Expire, control
<1>4. ASSUME UNCHANGED up, NEW r \in Runs, CreateRun(r) PROVE TypeOK'
  <2>1. "refused" \in Step /\ "creating" \in Step
    BY DEF Step, CallStep
  <2>2. step' \in [Runs -> Step] /\ io' \in [Runs -> CallState]
    BY <1>4, <2>1, GotoType DEF CreateRun
  <2>. QED
    BY <1>4, <2>2 DEF CreateRun, store, faults, ProcessNext
<1>5. ASSUME UNCHANGED up, NEW r \in Runs, Resume(r) PROVE TypeOK'
  <2>1. step[r] \in CallStep
    BY <1>5 DEF Resume
  <2>2. step' \in [Runs -> Step] /\ io' \in [Runs -> CallState]
    BY <1>5, <2>1, StepTables, GotoType DEF Resume
  <2>. QED
    BY <1>5, <2>2 DEF Resume, store, faults
<1>6. ASSUME UNCHANGED up, NEW r \in Runs, TaskNext(r) PROVE TypeOK'
  <2>1. {"get_running", "emit_stream", "emit_succeeded", "emit_failed", "cancelled"} \subseteq Step
    BY DEF Step, CallStep, EmitStep, GetStep, EndStep
  <2>2. step' \in [Runs -> Step] /\ io' \in [Runs -> CallState]
    BY <1>6, <2>1, GotoType DEF TaskNext, StartTask, AgentStreams, AgentEnds, ObserveCancel
  <2>. QED
    BY <1>6, <2>2 DEF TaskNext, StartTask, AgentStreams, AgentEnds, ObserveCancel, store, control, faults
<1>7. ASSUME UNCHANGED up, NEW r \in Runs, Unregister(r) PROVE TypeOK'
  BY <1>7 DEF Unregister, store, faults
<1>8. ASSUME UNCHANGED up, CallShutdown PROVE TypeOK'
  BY <1>8 DEF CallShutdown, store, faults
<1>9. ASSUME UNCHANGED up, ShutdownNext PROVE TypeOK'
  <2>1. ASSUME UNCHANGED up, StopAdmitting PROVE TypeOK'
    BY <2>1 DEF StopAdmitting, store, faults
  <2>2. ASSUME UNCHANGED up, EndWait PROVE TypeOK'
    BY <2>2 DEF EndWait, store, faults
  <2>3. ASSUME UNCHANGED up, EndGather PROVE TypeOK'
    BY <2>3 DEF EndGather, store, faults
  <2>4. ASSUME UNCHANGED up, MarkNext PROVE TypeOK'
    <3>1. "mark_emit" \in Step
      BY DEF Step, CallStep, EmitStep
    <3>2. step' \in [Runs -> Step] /\ io' \in [Runs -> CallState]
      BY <2>4, <3>1, GotoType DEF MarkNext
    <3>. QED
      BY <2>4, <3>2 DEF MarkNext, store, faults
  <2>. QED
    BY <1>9, <2>1, <2>2, <2>3, <2>4 DEF ShutdownNext
<1>10. ASSUME Crash PROVE TypeOK'
  BY <1>10 DEF Crash, store, control, faults
<1>11. ASSUME UNCHANGED vars PROVE TypeOK'
  BY <1>11 DEF vars, store, control, faults
<1>. QED
  BY <1>1, <1>2, <1>3, <1>4, <1>5, <1>6, <1>7, <1>8, <1>9, <1>10, <1>11 DEF Next, ProcessNext

(* The variables always have their declared types. *)
THEOREM TypeCorrect == Spec => []TypeOK
BY TypeInit, TypeNext, PTL DEF Spec

-----------------------------------------------------------------------------
(* A coroutine stays in its own part of the tables: the task, create_run or *)
(* the marking loop of shutdown.                                            *)
LEMMA StepOwners ==
  ASSUME NEW s \in CallStep, NEW t \in {AfterCall(s), AfterError(s)}
  PROVE  /\ t # "creating"
         /\ s = "creating" => t \in {"scheduled", "refused"}
         /\ s = "creating" /\ t = AfterError(s) => t = "refused"
         /\ s \in MarkStep => t \in MarkStep \cup {"marked"}
         /\ s \notin MarkStep => t \notin MarkStep
         /\ s \in MarkStep => t \notin TaskStep
         /\ t \in TaskStep => s = "creating" \/ s \in TaskStep
BY DEF CallStep, EmitStep, GetStep, PutStep, MarkStep, TaskStep, AfterCall, AfterError

LEMMA StepNames ==
  /\ {"creating", "refused", "absent", "marked", "cancelled", "done", "mark_emit"} \cap TaskStep = {}
  /\ MarkStep \cap (TaskStep \cup EndStep) = {} /\ "creating" \notin MarkStep /\ "refused" \notin MarkStep
  /\ {"scheduled", "agent", "get_running", "emit_stream", "emit_succeeded", "emit_failed"} \subseteq TaskStep
  /\ "mark_emit" \in MarkStep /\ CallStep \subseteq {"creating"} \cup TaskStep \cup MarkStep
BY DEF TaskStep, MarkStep, CallStep, EmitStep, GetStep, PutStep, EndStep

LEMMA AdmissionInit == Init => AdmissionInv
BY StepNames DEF Init, AdmissionInv, Live, Stopping, MarkStep

LEMMA AdmissionNext == TypeOK /\ AdmissionInv /\ [Next]_vars => AdmissionInv'
<1>. SUFFICES ASSUME TypeOK, AdmissionInv, [Next]_vars PROVE AdmissionInv'
  OBVIOUS
<1>. USE DEF AdmissionInv, Live, Stopping
<1>t. step \in [Runs -> Step] /\ shutdown \in {"serving", "called", "waiting", "gathering", "marking", "stopped"}
      /\ lock \in BOOLEAN
  BY DEF TypeOK
<1>1. ASSUME NEW r \in Runs, Execute(r) PROVE AdmissionInv'
  BY <1>1 DEF Execute, control
<1>2. ASSUME NEW r \in Runs, LoseCall(r) PROVE AdmissionInv'
  BY <1>2 DEF LoseCall, control
<1>3. ASSUME NEW r \in Runs, Expire(r) PROVE AdmissionInv'
  BY <1>3 DEF Expire, control
<1>4. ASSUME NEW r \in Runs, CreateRun(r) PROVE AdmissionInv'
  <2>1. CASE Stopping
    BY <1>4, <2>1, <1>t, StepNames DEF CreateRun, Goto
  <2>2. CASE ~Stopping
    BY <1>4, <2>2, <1>t, StepNames DEF CreateRun, Goto
  <2>. QED
    BY <2>1, <2>2
<1>5. ASSUME NEW r \in Runs, Resume(r) PROVE AdmissionInv'
  <2>. DEFINE s == step[r]
              t == IF io[r] = "applied" THEN AfterCall(s) ELSE AfterError(s)
  <2>1. s \in CallStep /\ t \in {AfterCall(s), AfterError(s)} /\ step' = [step EXCEPT ![r] = t]
    BY <1>5 DEF Resume, Goto
  <2>2. /\ t # "creating" /\ (s = "creating" => t \in {"scheduled", "refused"})
        /\ s = "creating" /\ io[r] # "applied" => t = "refused"
        /\ s \in MarkStep => t \notin TaskStep
        /\ s \notin MarkStep => t \notin MarkStep
        /\ t \in TaskStep => s = "creating" \/ s \in TaskStep
    BY <2>1, StepOwners
  <2>. HIDE DEF t
  <2>. QED
    BY <1>5, <2>1, <2>2, <1>t, StepNames DEF Resume, EndStep
<1>6. ASSUME NEW r \in Runs, TaskNext(r) PROVE AdmissionInv'
  <2>1. PICK t \in TaskStep \cup {"cancelled"} : step' = [step EXCEPT ![r] = t]
    BY <1>6, StepNames DEF TaskNext, StartTask, AgentStreams, AgentEnds, ObserveCancel, Goto
  <2>2. Live(r) /\ UNCHANGED <<active, lock, shutdown, waitSet, pending>>
    BY <1>6, StepNames DEF TaskNext, StartTask, AgentStreams, AgentEnds, ObserveCancel, control
  <2>. QED
    BY <2>1, <2>2, <1>t, StepNames DEF EndStep
<1>7. ASSUME NEW r \in Runs, Unregister(r) PROVE AdmissionInv'
  BY <1>7 DEF Unregister
<1>8. ASSUME CallShutdown PROVE AdmissionInv'
  BY <1>8 DEF CallShutdown
<1>9. ASSUME StopAdmitting PROVE AdmissionInv'
  BY <1>9, <1>t DEF StopAdmitting
<1>10. ASSUME EndWait PROVE AdmissionInv'
  BY <1>10 DEF EndWait
<1>11. ASSUME EndGather PROVE AdmissionInv'
  BY <1>11 DEF EndGather
<1>12. ASSUME MarkNext PROVE AdmissionInv'
  <2>1. CASE shutdown' = shutdown
    <3>1. PICK r \in pending : step' = [step EXCEPT ![r] = "mark_emit"]
      BY <1>12, <2>1, <1>t DEF MarkNext, Goto
    <3>. QED
      BY <1>12, <2>1, <3>1, <1>t, StepNames DEF MarkNext
  <2>2. CASE shutdown' # shutdown
    BY <1>12, <2>2 DEF MarkNext
  <2>. QED
    BY <2>1, <2>2
<1>13. ASSUME Crash PROVE AdmissionInv'
  BY <1>13 DEF Crash, control
<1>14. ASSUME UNCHANGED vars PROVE AdmissionInv'
  BY <1>14 DEF vars, control
<1>. QED
  BY <1>1, <1>2, <1>3, <1>4, <1>5, <1>6, <1>7, <1>8, <1>9, <1>10, <1>11, <1>12, <1>13, <1>14
     DEF Next, ProcessNext, ShutdownNext

LEMMA AdmissionImplies == TypeOK /\ AdmissionInv => ShutdownCoversEveryTask
BY StepNames DEF AdmissionInv, ShutdownCoversEveryTask, Live, Stopping, TypeOK

(* Shutdown waits for or cancels every admitted run, and returns with no    *)
(* task and no store call left, for any number of runs.                     *)
THEOREM ShutdownSafe == Spec => []ShutdownCoversEveryTask
BY TypeInit, TypeNext, AdmissionInit, AdmissionNext, AdmissionImplies, PTL DEF Spec

-----------------------------------------------------------------------------
(* What appending an event to a stream keeps and adds. *)
LEMMA AppendFacts ==
  ASSUME NEW l \in Seq(Event), NEW e \in Event
  PROVE  /\ Append(l, e) # <<>> /\ Append(l, e)[Len(Append(l, e))] = e
         /\ Len(Append(l, e)) \in DOMAIN Append(l, e)
         /\ \A i \in DOMAIN l : i \in DOMAIN Append(l, e) /\ Append(l, e)[i] = l[i]
OBVIOUS

(* Which tables publish which outcome, and what a coroutine does next. *)
LEMMA OutcomeTables ==
  ASSUME NEW s \in CallStep
  PROVE  /\ s \in {"emit_failed", "mark_emit"} => EventOf(s) = "run_failed"
         /\ s = "emit_succeeded" => EventOf(s) = "run_succeeded"
         /\ s \in PutStep /\ StatusOf(s) = "failed" => s \in {"put_failed", "mark_put"}
         /\ s \in PutStep /\ StatusOf(s) = "succeeded" => s = "put_succeeded"
         /\ AfterCall(s) \in {"get_failed", "put_failed"} => s \in {"emit_failed", "get_failed"}
         /\ AfterCall(s) \in {"mark_get", "mark_put"} => s \in {"mark_emit", "mark_get"}
         /\ AfterCall(s) \in {"get_succeeded", "put_succeeded"} => s \in {"emit_succeeded", "get_succeeded"}
         /\ s = "mark_emit" => AfterCall(s) = "mark_get"
         /\ AfterError(s) \in {"refused", "emit_failed", "marked", "done"}
         /\ s \in {"put_failed", "put_succeeded"} => AfterCall(s) = "done" /\ AfterError(s) = "done"
BY DEF CallStep, EmitStep, GetStep, PutStep, MarkStep, AfterCall, AfterError, EventOf, StatusOf

LEMMA OutcomeInit == Init => OutcomeInv
BY DEF Init, OutcomeInv, OutcomeOf, FailurePublished, SuccessPublished

(* A run that no action touches keeps its part of the invariant. *)
LEMMA OutcomeKept ==
  ASSUME OutcomeInv, NEW q \in Runs,
         record'[q] = record[q], log'[q] = log[q], step'[q] = step[q],
         io'[q] = io[q] \/ io'[q] # "applied", q \in expired => q \in expired'
  PROVE  OutcomeOf(q)'
BY DEF OutcomeInv, OutcomeOf, FailurePublished, SuccessPublished, LastEvent

LEMMA OutcomeNext == TypeOK /\ OutcomeInv /\ [Next]_vars => OutcomeInv'
<1>. SUFFICES ASSUME TypeOK, OutcomeInv, [Next]_vars, NEW q \in Runs PROVE OutcomeOf(q)'
  BY DEF OutcomeInv
<1>. USE DEF store, control, faults
<1>t. /\ step \in [Runs -> Step] /\ io \in [Runs -> CallState] /\ log \in [Runs -> Seq(Event)]
      /\ record \in [Runs -> Status \cup {"none"}] /\ OutcomeOf(q)
  BY DEF TypeOK, OutcomeInv
<1>1. ASSUME NEW r \in Runs, Execute(r) PROVE OutcomeOf(q)'
  <2>1. step' = step /\ expired' = expired /\ step[r] \in CallStep
    BY <1>1 DEF Execute
  <2>2. CASE q # r
    <3>1. record'[q] = record[q] /\ log'[q] = log[q] /\ io'[q] = io[q]
      <4>1. record' \in {record, [record EXCEPT ![r] = "running"], [record EXCEPT ![r] = StatusOf(step[r])]}
        BY <1>1 DEF Execute
      <4>. QED
        BY <4>1, <1>1, <1>t, <2>2 DEF Execute
    <3>. QED
      BY <3>1, <2>1, OutcomeKept
  <2>3. CASE q = r /\ step[r] \in EmitStep
    <3>1. step[r] \notin {"creating"} \cup PutStep \cup GetStep
      BY <2>3 DEF EmitStep, PutStep, GetStep
    <3>2. record' = record /\ log'[r] = Append(log[r], EventOf(step[r])) /\ EventOf(step[r]) \in Event
      BY <1>1, <1>t, <2>1, <2>3, <3>1, StepTables DEF Execute
    <3>3. step[r] \notin {"get_failed", "put_failed", "mark_get", "mark_put", "get_succeeded", "put_succeeded"}
      BY <2>3 DEF EmitStep
    <3>4. ASSUME FailurePublished(r)' PROVE EventOf(step[r]) = "run_failed"
      <4>1. step[r] \in {"emit_failed", "mark_emit"}
        BY <3>4, <3>2, <2>1, <2>3, <3>3, <1>t DEF FailurePublished, OutcomeOf, EmitStep, MarkStep, EndStep
      <4>. QED
        BY <4>1, <2>1, OutcomeTables
    <3>5. ASSUME SuccessPublished(r)' PROVE \/ SuccessPublished(r)
                                           \/ EventOf(step[r]) = "run_succeeded"
      BY <3>5, <3>2, <2>1, <3>3, OutcomeTables DEF SuccessPublished
    <3>6. LastEvent(r)' = EventOf(step[r])
      BY <3>2, <1>t, AppendFacts DEF LastEvent
    <3>7. r \notin expired /\ SuccessPublished(r)' => \E i \in DOMAIN log'[r] : log'[r][i] = "run_succeeded"
      <4>. SUFFICES ASSUME r \notin expired, SuccessPublished(r)'
                    PROVE  \E i \in DOMAIN log'[r] : log'[r][i] = "run_succeeded"
        OBVIOUS
      <4>1. CASE SuccessPublished(r)
        <5>1. PICK i \in DOMAIN log[r] : log[r][i] = "run_succeeded"
          BY <4>1, <2>3, <1>t DEF OutcomeOf
        <5>. QED
          BY <5>1, <3>2, <1>t, AppendFacts
      <4>2. CASE EventOf(step[r]) = "run_succeeded"
        BY <4>2, <3>2, <1>t, AppendFacts
      <4>. QED
        BY <3>5, <4>1, <4>2
    <3>. QED
      BY <2>1, <2>3, <3>2, <3>4, <3>6, <3>7, <1>t DEF OutcomeOf
  <2>4. CASE q = r /\ step[r] \notin EmitStep
    <3>1. log' = log /\ step[r] \notin {"emit_failed", "mark_emit", "emit_succeeded"}
      BY <1>1, <2>4 DEF Execute, EmitStep
    <3>2. CASE step[r] \in PutStep
      <4>1. record'[r] = StatusOf(step[r])
        BY <1>1, <3>2, <1>t DEF Execute, PutStep
      <4>. QED
        BY <4>1, <3>1, <3>2, <2>1, <2>4, <1>t, OutcomeTables
           DEF OutcomeOf, FailurePublished, SuccessPublished, LastEvent, MarkStep
    <3>3. CASE step[r] = "creating"
      <4>1. record'[r] = "running"
        BY <1>1, <3>3, <1>t DEF Execute, PutStep
      <4>. QED
        BY <4>1, <3>1, <3>3, <2>1, <2>4 DEF OutcomeOf, FailurePublished, SuccessPublished
    <3>4. CASE step[r] # "creating" /\ step[r] \notin PutStep
      <4>1. record' = record
        BY <1>1, <3>4 DEF Execute
      <4>. QED
        BY <4>1, <3>1, <2>1, <2>4, <1>t DEF OutcomeOf, FailurePublished, SuccessPublished, LastEvent
    <3>. QED
      BY <3>2, <3>3, <3>4
  <2>. QED
    BY <2>2, <2>3, <2>4
<1>2. ASSUME NEW r \in Runs, LoseCall(r) PROVE OutcomeOf(q)'
  BY <1>2, <1>t, OutcomeKept DEF LoseCall
<1>3. ASSUME NEW r \in Runs, Expire(r) PROVE OutcomeOf(q)'
  <2>1. CASE q = r
    BY <1>3, <1>t, <2>1 DEF Expire, OutcomeOf
  <2>2. CASE q # r
    BY <1>3, <1>t, <2>2, OutcomeKept DEF Expire
  <2>. QED
    BY <2>1, <2>2
<1>4. ASSUME NEW r \in Runs, NEW t, Goto(r, t), UNCHANGED <<store, expired>>,
             t \notin {"get_failed", "put_failed", "mark_get", "mark_put", "get_succeeded", "put_succeeded"},
             record[r] \in TerminalStatus => t \in MarkStep \cup EndStep
      PROVE  OutcomeOf(q)'
  <2>1. CASE q = r
    BY <1>4, <1>t, <2>1 DEF Goto, OutcomeOf, TerminalStatus, FailurePublished, SuccessPublished, LastEvent
  <2>2. CASE q # r
    BY <1>4, <1>t, <2>2, OutcomeKept DEF Goto
  <2>. QED
    BY <2>1, <2>2
<1>5. ASSUME NEW r \in Runs, CreateRun(r) PROVE OutcomeOf(q)'
  <2>1. step[r] = "absent" /\ record[r] \notin TerminalStatus
    BY <1>5 DEF CreateRun, OutcomeInv, OutcomeOf, MarkStep, EndStep, TerminalStatus
  <2>2. Goto(r, "refused") \/ Goto(r, "creating")
    BY <1>5 DEF CreateRun
  <2>. QED
    BY <1>5, <2>1, <2>2, <1>4 DEF CreateRun
<1>6. ASSUME NEW r \in Runs, Resume(r) PROVE OutcomeOf(q)'
  <2>. DEFINE s == step[r]
              t == IF io[r] = "applied" THEN AfterCall(s) ELSE AfterError(s)
  <2>1. s \in CallStep /\ Goto(r, t) /\ UNCHANGED <<store, expired>>
    BY <1>6 DEF Resume
  <2>2. CASE q # r
    BY <2>1, <2>2, <1>t, OutcomeKept DEF Goto
  <2>3. CASE q = r
    <3>1. record[r] \in TerminalStatus => t \in MarkStep \cup EndStep
      <4>. SUFFICES ASSUME record[r] \in TerminalStatus PROVE t \in MarkStep \cup EndStep
        OBVIOUS
      <4>1. s \in {"put_failed", "put_succeeded"} \cup MarkStep
        BY <2>1, <2>3, <1>t DEF OutcomeOf, TerminalStatus, EndStep, CallStep, EmitStep, GetStep, PutStep, MarkStep
      <4>2. CASE s \in {"put_failed", "put_succeeded"}
        BY <4>2, <2>1, OutcomeTables DEF EndStep
      <4>3. CASE s \in MarkStep
        BY <4>3, <2>1, StepOwners DEF EndStep
      <4>. QED
        BY <4>1, <4>2, <4>3
    <3>2. t \in {"get_failed", "put_failed", "mark_get", "mark_put"} => FailurePublished(r)
      BY <2>1, OutcomeTables DEF FailurePublished
    <3>3. t \in {"get_succeeded", "put_succeeded"} => SuccessPublished(r)
      BY <2>1, OutcomeTables DEF SuccessPublished
    <3>. HIDE DEF t
    <3>. QED
      BY <2>1, <2>3, <3>1, <3>2, <3>3, <1>t DEF Goto, OutcomeOf, TerminalStatus, FailurePublished, SuccessPublished, LastEvent
  <2>. QED
    BY <2>2, <2>3
<1>7. ASSUME NEW r \in Runs, TaskNext(r) PROVE OutcomeOf(q)'
  <2>1. PICK t \in {"get_running", "emit_stream", "emit_succeeded", "emit_failed", "cancelled"} :
          Goto(r, t) /\ (t = "cancelled" \/ step[r] \in {"scheduled", "agent", "emit_stream"})
    BY <1>7 DEF TaskNext, StartTask, AgentStreams, AgentEnds, ObserveCancel
  <2>2. record[r] \in TerminalStatus => t = "cancelled"
    BY <2>1 DEF OutcomeInv, OutcomeOf, TerminalStatus, MarkStep, EndStep
  <2>3. UNCHANGED <<store, expired>>
    BY <1>7 DEF TaskNext, StartTask, AgentStreams, AgentEnds, ObserveCancel
  <2>. QED
    BY <2>1, <2>2, <2>3, <1>4 DEF EndStep
<1>8. ASSUME MarkNext PROVE OutcomeOf(q)'
  <2>1. UNCHANGED <<store, expired>>
    BY <1>8 DEF MarkNext
  <2>2. CASE \E r \in pending : Goto(r, "mark_emit")
    <3>1. pending \subseteq Runs /\ "mark_emit" \in MarkStep
      BY DEF TypeOK, MarkStep
    <3>. QED
      BY <2>1, <2>2, <3>1, <1>4
  <2>3. CASE UNCHANGED <<step, io>>
    BY <2>1, <2>3, OutcomeKept
  <2>. QED
    BY <1>8, <2>2, <2>3 DEF MarkNext
<1>9. ASSUME UNCHANGED <<store, step, io, faults>> PROVE OutcomeOf(q)'
  BY <1>9, OutcomeKept
<1>10. ASSUME \/ \E r \in Runs : Unregister(r)
              \/ CallShutdown \/ StopAdmitting \/ EndWait \/ EndGather \/ Crash \/ UNCHANGED vars
       PROVE  UNCHANGED <<store, step, io, faults>>
  BY <1>10 DEF Unregister, CallShutdown, StopAdmitting, EndWait, EndGather, Crash, vars
<1>. QED
  BY <1>1, <1>2, <1>3, <1>5, <1>6, <1>7, <1>8, <1>9, <1>10 DEF Next, ProcessNext, ShutdownNext

LEMMA OutcomeImplies == OutcomeInv => TerminalStatusHasEvent
BY DEF OutcomeInv, OutcomeOf, FailurePublished, SuccessPublished, TerminalStatusHasEvent

(* A final status is never visible before the event that explains it. *)
THEOREM StatusFollowsStream == Spec => []TerminalStatusHasEvent
BY TypeInit, TypeNext, AdmissionInit, AdmissionNext, OutcomeInit, OutcomeNext, OutcomeImplies, PTL DEF Spec

-----------------------------------------------------------------------------
(* Only the marking loop of shutdown replaces a final status. *)
LEMMA OverruleStep ==
  ASSUME TypeOK, AdmissionInv, OutcomeInv, [Next]_vars, NEW q \in Runs,
         record[q] \in TerminalStatus, record'[q] # record[q], record'[q] # "none"
  PROVE  record'[q] = "failed" /\ shutdown = "marking"
<1>1. PICK r \in Runs : Execute(r)
  <2>1. ASSUME NEW r \in Runs, Expire(r) PROVE FALSE
    BY <2>1 DEF Expire, TypeOK
  <2>2. record' # record
    OBVIOUS
  <2>. QED
    BY <2>1, <2>2 DEF Next, ProcessNext, TaskNext, ShutdownNext, LoseCall, CreateRun, Resume, StartTask,
       AgentStreams, AgentEnds, ObserveCancel, Unregister, CallShutdown, StopAdmitting, EndWait, EndGather,
       MarkNext, Crash, vars, store
<1>2. step[q] \in {"put_failed", "put_succeeded"} \cup MarkStep \cup EndStep
  BY DEF OutcomeInv, OutcomeOf, TerminalStatus
<1>3. q = r /\ step[q] \in PutStep \ {"put_running"} /\ record'[q] = StatusOf(step[q])
  <2>1. record' \in {record, [record EXCEPT ![r] = "running"], [record EXCEPT ![r] = StatusOf(step[r])]}
    BY <1>1 DEF Execute
  <2>2. q = r
    BY <2>1 DEF TypeOK
  <2>3. step[r] # "creating" /\ step[r] \in CallStep /\ step[r] # "put_running"
    BY <1>1, <1>2, <2>2 DEF Execute, MarkStep, EndStep
  <2>4. step[r] \in PutStep
    BY <1>1, <2>3 DEF Execute
  <2>. QED
    BY <1>1, <2>2, <2>3, <2>4 DEF Execute, TypeOK
<1>4. CASE step[q] = "mark_put"
  BY <1>3, <1>4 DEF AdmissionInv, StatusOf, MarkStep
<1>5. CASE step[q] \in {"put_failed", "put_succeeded"}
  <2>1. record[q] = IF step[q] = "put_failed" THEN "failed" ELSE "succeeded"
    BY <1>5 DEF OutcomeInv, OutcomeOf, TerminalStatus, MarkStep, EndStep
  <2>2. StatusOf(step[q]) = IF step[q] = "put_failed" THEN "failed" ELSE "succeeded"
    BY <1>5 DEF StatusOf
  <2>. QED
    BY <1>3, <2>1, <2>2
<1>. QED
  BY <1>3, <1>4, <1>5 DEF PutStep

(* A status that is final is changed by shutdown only, in every behaviour. *)
THEOREM FinalStatusStands == Spec => OnlyShutdownOverrules
<1>1. TypeOK /\ AdmissionInv /\ OutcomeInv /\ [Next]_vars =>
        [\A r \in Runs : record[r] \in TerminalStatus /\ record'[r] # record[r]
           => record'[r] = "none" \/ (record'[r] = "failed" /\ shutdown = "marking")]_vars
  BY OverruleStep
<1>. QED
  BY <1>1, TypeInit, TypeNext, AdmissionInit, AdmissionNext, OutcomeInit, OutcomeNext, PTL
     DEF Spec, OnlyShutdownOverrules
-----------------------------------------------------------------------------
(* The store refines RunContract.  For a run whose keys did not expire: how  *)
(* far its coroutine is says what is in Redis.                               *)
Ended(r) == \E i \in DOMAIN log[r] : log[r][i] \in TerminalEvent
Streaming(r) == log[r] # <<>> /\ ~Ended(r)

ProgressOf(r) ==
  /\ step[r] = "absent" \/ (step[r] = "creating" /\ io[r] = "sent") => record[r] = "none" /\ log[r] = <<>>
  /\ step[r] = "creating" /\ io[r] = "applied" => record[r] = "running" /\ log[r] = <<>>
  /\ step[r] \in {"scheduled", "get_running", "put_running"} \/ (step[r] = "emit_started" /\ io[r] = "sent")
       => record[r] = "running" /\ log[r] = <<>>
  /\ step[r] \in {"agent", "emit_stream"} \/ (step[r] = "emit_started" /\ io[r] = "applied")
       \/ (step[r] = "emit_succeeded" /\ io[r] = "sent") => Streaming(r)
  /\ step[r] \in {"get_succeeded", "put_succeeded"} \/ (step[r] = "emit_succeeded" /\ io[r] = "applied")
       => LastEvent(r) = "run_succeeded"
  /\ Admitted(r) => record[r] # "none"
ProgressInv == \A r \in Runs \ expired : ProgressOf(r)

(* shutdown only fails runs that were admitted. *)
PendingInv == \A r \in pending : Admitted(r)

LEMMA PendingInit == Init => PendingInv
BY DEF Init, PendingInv

LEMMA PendingNext == TypeOK /\ PendingInv /\ [Next]_vars => PendingInv'
<1>. SUFFICES ASSUME TypeOK, PendingInv, [Next]_vars, NEW q \in pending' PROVE Admitted(q)'
  BY DEF PendingInv
<1>. USE DEF PendingInv, Admitted, Live
<1>t. step \in [Runs -> Step] /\ pending \subseteq Runs
  BY DEF TypeOK
<1>1. ASSUME NEW r \in Runs, Resume(r) PROVE Admitted(q)'
  <2>. DEFINE s == step[r]
              t == IF io[r] = "applied" THEN AfterCall(s) ELSE AfterError(s)
  <2>1. /\ s \in CallStep /\ t \in {AfterCall(s), AfterError(s)}
        /\ step' = [step EXCEPT ![r] = t] /\ q \in pending
    BY <1>1 DEF Resume, Goto
  <2>2. s \in TaskStep \cup MarkStep \cup EndStep => t \in TaskStep \cup MarkStep \cup EndStep
    BY <2>1 DEF CallStep, EmitStep, GetStep, PutStep, MarkStep, TaskStep, EndStep, AfterCall, AfterError
  <2>. HIDE DEF t
  <2>. QED
    BY <2>1, <2>2, <1>t
<1>2. ASSUME NEW r \in Runs, TaskNext(r) PROVE Admitted(q)'
  <2>1. PICK t \in TaskStep \cup {"cancelled"} : step' = [step EXCEPT ![r] = t]
    BY <1>2, StepNames DEF TaskNext, StartTask, AgentStreams, AgentEnds, ObserveCancel, Goto
  <2>2. q \in pending
    BY <1>2 DEF TaskNext, StartTask, AgentStreams, AgentEnds, ObserveCancel, control
  <2>. QED
    BY <2>1, <2>2, <1>t DEF EndStep
<1>3. ASSUME NEW r \in Runs, CreateRun(r) PROVE Admitted(q)'
  <2>1. q \in pending /\ step[r] = "absent" /\ \E t \in Step : step' = [step EXCEPT ![r] = t]
    BY <1>3 DEF CreateRun, Goto, Step, CallStep
  <2>2. q # r
    BY <2>1, StepNames DEF MarkStep, EndStep
  <2>. QED
    BY <2>1, <2>2, <1>t
<1>4. ASSUME EndWait PROVE Admitted(q)'
  BY <1>4, <1>t DEF EndWait
<1>5. ASSUME MarkNext PROVE Admitted(q)'
  BY <1>5, <1>t, StepNames DEF MarkNext, Goto
<1>6. ASSUME \/ \E r \in Runs : Execute(r) \/ LoseCall(r) \/ Expire(r) \/ Unregister(r)
             \/ CallShutdown \/ StopAdmitting \/ EndGather \/ Crash \/ UNCHANGED vars
      PROVE  Admitted(q)'
  BY <1>6 DEF Execute, LoseCall, Expire, Unregister, CallShutdown, StopAdmitting, EndGather, Crash, vars, control
<1>. QED
  BY <1>1, <1>2, <1>3, <1>4, <1>5, <1>6 DEF Next, ProcessNext, ShutdownNext

LEMMA ProgressInit == Init => ProgressInv
BY StepNames DEF Init, ProgressInv, ProgressOf, Admitted, Live, MarkStep, EndStep

LEMMA ProgressKept ==
  ASSUME ProgressInv, NEW q \in Runs, q \notin expired, record'[q] = record[q], log'[q] = log[q],
         step'[q] = step[q], io'[q] = io[q] \/ io'[q] = "raised"
  PROVE  ProgressOf(q)'
BY DEF ProgressInv, ProgressOf, Streaming, Ended, LastEvent, Admitted, Live

(* One more event that is no outcome does not end a stream.                  *)
LEMMA StillStreaming ==
  ASSUME NEW l \in Seq(Event), NEW e \in Event \ TerminalEvent, \A i \in DOMAIN l : l[i] \notin TerminalEvent
  PROVE  Append(l, e) # <<>> /\ \A i \in DOMAIN Append(l, e) : Append(l, e)[i] \notin TerminalEvent
<1>1. /\ Len(Append(l, e)) = Len(l) + 1 /\ Len(l) \in Nat /\ DOMAIN l = 1..Len(l)
      /\ DOMAIN Append(l, e) = 1..Len(l) + 1 /\ Append(l, e)[Len(l) + 1] = e
      /\ \A i \in 1..Len(l) : Append(l, e)[i] = l[i]
  OBVIOUS
<1>2. ASSUME NEW i \in DOMAIN Append(l, e) PROVE Append(l, e)[i] \notin TerminalEvent
  <2>1. i \in 1..Len(l) \/ i = Len(l) + 1
    BY <1>1
  <2>2. CASE i \in 1..Len(l)
    <3>1. Append(l, e)[i] = l[i] /\ i \in DOMAIN l
      BY <1>1, <2>2
    <3>. QED
      BY <3>1
  <2>3. CASE i = Len(l) + 1
    BY <1>1, <2>3
  <2>. QED
    BY <2>1, <2>2, <2>3
<1>3. e \in Event
  OBVIOUS
<1>4. Append(l, e) # <<>>
  BY <1>3, AppendFacts
<1>. QED
  BY <1>2, <1>4

(* Where the tables lead from a call that returned, and from one that raised. *)
LEMMA ProgressTables ==
  ASSUME NEW s \in CallStep
  PROVE  /\ AfterCall(s) \in {"scheduled", "get_running", "put_running", "emit_started"}
              => s \in {"creating", "get_running", "put_running"}
         /\ AfterCall(s) \in {"agent", "emit_stream"} => s \in {"emit_started", "emit_stream"}
         /\ AfterCall(s) \in {"get_succeeded", "put_succeeded"} => s \in {"emit_succeeded", "get_succeeded"}
         /\ AfterCall(s) \notin {"absent", "creating", "emit_succeeded"}
         /\ s = "creating" => AfterCall(s) = "scheduled" /\ AfterError(s) = "refused"
         /\ AfterError(s) \in {"refused", "emit_failed", "marked", "done"}
         /\ AfterError(s) = "refused" => s = "creating"
BY DEF CallStep, EmitStep, GetStep, PutStep, MarkStep, AfterCall, AfterError

(* A step whose goal says nothing of the stream: what it needs is a record.  *)
LEMMA ProgressGoto ==
  ASSUME TypeOK, NEW r \in Runs, NEW t, Goto(r, t), UNCHANGED store,
         t \in {"absent", "creating"} => record[r] = "none" /\ log[r] = <<>>,
         t \in {"scheduled", "get_running", "put_running", "emit_started"} => record[r] = "running" /\ log[r] = <<>>,
         t \in {"agent", "emit_stream", "emit_succeeded"} => Streaming(r),
         t \in {"get_succeeded", "put_succeeded"} => LastEvent(r) = "run_succeeded",
         t \in TaskStep \cup MarkStep \cup EndStep => record[r] # "none"
  PROVE  ProgressOf(r)'
<1>1. step'[r] = t /\ io'[r] = "sent" /\ record'[r] = record[r] /\ log'[r] = log[r]
  BY DEF TypeOK, Goto, store
<1>. QED
  BY <1>1 DEF ProgressOf, Streaming, Ended, LastEvent, Admitted, Live

LEMMA ProgressNext == TypeOK /\ PendingInv /\ ProgressInv /\ [Next]_vars => ProgressInv'
<1>. SUFFICES ASSUME TypeOK, PendingInv, ProgressInv, [Next]_vars, NEW q \in Runs, q \notin expired'
              PROVE  ProgressOf(q)'
  BY DEF ProgressInv, TypeOK
<1>t. /\ step \in [Runs -> Step] /\ io \in [Runs -> CallState] /\ log \in [Runs -> Seq(Event)]
      /\ record \in [Runs -> Status \cup {"none"}]
  BY DEF TypeOK
<1>0. ASSUME q \notin expired, NEW r \in Runs, NEW t, Goto(r, t), UNCHANGED store, r # q PROVE ProgressOf(q)'
  BY <1>0, <1>t, ProgressKept DEF Goto, store
<1>1. ASSUME NEW r \in Runs, Execute(r) PROVE ProgressOf(q)'
  <2>1. step' = step /\ expired' = expired /\ step[r] \in CallStep /\ io[r] = "sent"
    BY <1>1 DEF Execute, faults
  <2>2. CASE q # r
    <3>1. record'[q] = record[q] /\ log'[q] = log[q] /\ io'[q] = io[q]
      <4>1. record' \in {record, [record EXCEPT ![r] = "running"], [record EXCEPT ![r] = StatusOf(step[r])]}
        BY <1>1 DEF Execute
      <4>. QED
        BY <4>1, <1>1, <1>t, <2>2 DEF Execute
    <3>. QED
      BY <3>1, <2>1, ProgressKept
  <2>3. CASE q = r
    <3>1. ProgressOf(r)
      BY <2>1, <2>3 DEF ProgressInv
    <3>2. io'[r] \in {"applied", "raised"}
      BY <1>1, <1>t DEF Execute
    <3>3. CASE step[r] \in EmitStep
      <4>1. /\ record'[r] = record[r] /\ log'[r] = Append(log[r], EventOf(step[r]))
            /\ EventOf(step[r]) \in Event /\ step[r] \notin {"creating"}
        BY <1>1, <1>t, <2>1, <3>3, StepTables DEF Execute, EmitStep, PutStep
      <4>2. LastEvent(r)' = EventOf(step[r])
        BY <4>1, <1>t, AppendFacts DEF LastEvent
      <4>3. step[r] = "emit_succeeded" => EventOf(step[r]) = "run_succeeded"
        BY <2>1, OutcomeTables
      <4>4. step[r] \in {"emit_started", "emit_stream"} => Streaming(r)'
        <5>1. ASSUME step[r] \in {"emit_started", "emit_stream"}
              PROVE  EventOf(step[r]) \in Event \ TerminalEvent
          BY <5>1, <4>1 DEF EventOf, TerminalEvent
        <5>2. ASSUME step[r] \in {"emit_started", "emit_stream"}
              PROVE  \A i \in DOMAIN log[r] : log[r][i] \notin TerminalEvent
          <6>1. CASE step[r] = "emit_started"
            <7>1. log[r] = <<>>
              BY <6>1, <3>1, <2>1 DEF ProgressOf
            <7>. QED
              BY <7>1
          <6>2. CASE step[r] = "emit_stream"
            BY <6>2, <3>1 DEF ProgressOf, Streaming, Ended
          <6>. QED
            BY <5>2, <6>1, <6>2
        <5>3. ASSUME step[r] \in {"emit_started", "emit_stream"}
              PROVE  log'[r] # <<>> /\ \A i \in DOMAIN log'[r] : log'[r][i] \notin TerminalEvent
          <6>1. log[r] \in Seq(Event)
            BY <1>t
          <6>. QED
            BY <5>1, <5>2, <5>3, <6>1, <4>1, StillStreaming
        <5>. QED
          BY <5>3 DEF Streaming, Ended
      <4>5. step[r] \notin {"absent", "scheduled", "get_running", "put_running", "agent", "get_succeeded", "put_succeeded"}
        BY <3>3 DEF EmitStep
      <4>. QED
        BY <2>1, <2>3, <3>1, <3>2, <4>1, <4>2, <4>3, <4>4, <4>5 DEF ProgressOf, Admitted, Live
    <3>4. CASE step[r] \notin EmitStep
      <4>1. log'[r] = log[r] /\ step[r] \notin {"emit_started", "emit_stream", "emit_succeeded"}
        BY <1>1, <3>4 DEF Execute, EmitStep
      <4>2. CASE step[r] = "creating"
        <5>1. record'[r] = "running" /\ io'[r] = "applied"
          BY <1>1, <1>t, <4>2 DEF Execute, PutStep, GetStep
        <5>. QED
          BY <2>1, <2>3, <3>1, <4>1, <4>2, <5>1 DEF ProgressOf, Admitted
      <4>3. CASE step[r] \in PutStep
        <5>1. record'[r] = StatusOf(step[r])
          BY <1>1, <1>t, <4>3 DEF Execute, PutStep
        <5>2. StatusOf(step[r]) # "none" /\ (step[r] = "put_running" => StatusOf(step[r]) = "running")
          BY DEF StatusOf
        <5>3. step[r] \notin {"absent", "creating", "scheduled", "get_running", "agent", "get_succeeded"}
          BY <4>3 DEF PutStep
        <5>. QED
          BY <2>1, <2>3, <3>1, <4>1, <5>1, <5>2, <5>3 DEF ProgressOf, LastEvent
      <4>4. CASE step[r] # "creating" /\ step[r] \notin PutStep
        <5>1. record'[r] = record[r]
          BY <1>1, <4>4 DEF Execute
        <5>. QED
          BY <2>1, <2>3, <3>1, <4>1, <4>4, <5>1 DEF ProgressOf, Streaming, Ended, LastEvent, Admitted, Live
      <4>. QED
        BY <4>2, <4>3, <4>4
    <3>. QED
      BY <3>3, <3>4
  <2>. QED
    BY <2>2, <2>3
<1>2. ASSUME NEW r \in Runs, LoseCall(r) PROVE ProgressOf(q)'
  BY <1>2, <1>t, ProgressKept DEF LoseCall, store
<1>3. ASSUME NEW r \in Runs, Expire(r) PROVE ProgressOf(q)'
  BY <1>3, <1>t, ProgressKept DEF Expire
<1>4. ASSUME NEW r \in Runs, CreateRun(r) PROVE ProgressOf(q)'
  <2>1. q \notin expired
    BY <1>4 DEF CreateRun, faults
  <2>2. CASE q # r
    BY <1>4, <1>0, <2>1, <2>2 DEF CreateRun
  <2>3. CASE q = r
    <3>1. record[r] = "none" /\ log[r] = <<>>
      BY <1>4, <2>1, <2>3 DEF CreateRun, ProgressInv, ProgressOf
    <3>2. UNCHANGED store /\ \E t \in {"refused", "creating"} : Goto(r, t)
      BY <1>4 DEF CreateRun
    <3>3. {"refused", "creating"} \cap (TaskStep \cup MarkStep \cup EndStep) = {}
      BY StepNames DEF EndStep
    <3>. QED
      BY <2>3, <3>1, <3>2, <3>3, ProgressGoto
  <2>. QED
    BY <2>2, <2>3
<1>5. ASSUME NEW r \in Runs, Resume(r) PROVE ProgressOf(q)'
  <2>. DEFINE s == step[r]
              t == IF io[r] = "applied" THEN AfterCall(s) ELSE AfterError(s)
  <2>1. s \in CallStep /\ Goto(r, t) /\ UNCHANGED store /\ q \notin expired
    BY <1>5 DEF Resume, faults
  <2>2. CASE q # r
    BY <1>0, <2>1, <2>2
  <2>3. CASE q = r
    <3>1. ProgressOf(r)
      BY <2>1, <2>3 DEF ProgressInv
    <3>2. t \notin {"absent", "creating"}
      BY <2>1, ProgressTables
    <3>3. t \in {"scheduled", "get_running", "put_running", "emit_started"} => record[r] = "running" /\ log[r] = <<>>
      BY <2>1, <3>1, ProgressTables DEF ProgressOf
    <3>4. t \in {"agent", "emit_stream", "emit_succeeded"} => Streaming(r)
      <4>1. ASSUME t \in {"agent", "emit_stream", "emit_succeeded"}
            PROVE  io[r] = "applied" /\ s \in {"emit_started", "emit_stream"}
        BY <4>1, <2>1, ProgressTables
      <4>. QED
        BY <4>1, <3>1 DEF ProgressOf
    <3>5. t \in {"get_succeeded", "put_succeeded"} => LastEvent(r) = "run_succeeded"
      BY <2>1, <3>1, ProgressTables DEF ProgressOf
    <3>6. t \in TaskStep \cup MarkStep \cup EndStep => record[r] # "none"
      <4>1. CASE s = "creating"
        BY <2>1, <3>1, <4>1, ProgressTables, StepNames DEF ProgressOf, EndStep
      <4>2. CASE s # "creating"
        BY <2>1, <3>1, <4>2, StepNames DEF ProgressOf, Admitted, Live
      <4>. QED
        BY <4>1, <4>2
    <3>. HIDE DEF t
    <3>. QED
      BY <2>1, <2>3, <3>2, <3>3, <3>4, <3>5, <3>6, ProgressGoto
  <2>. QED
    BY <2>2, <2>3
<1>6. ASSUME NEW r \in Runs, TaskNext(r) PROVE ProgressOf(q)'
  <2>1. PICK t \in {"get_running", "emit_stream", "emit_succeeded", "emit_failed", "cancelled"} :
          /\ Goto(r, t)
          /\ t = "get_running" => step[r] = "scheduled"
          /\ t \in {"emit_stream", "emit_succeeded"} => step[r] = "agent"
    BY <1>6 DEF TaskNext, StartTask, AgentStreams, AgentEnds, ObserveCancel
  <2>2. UNCHANGED store /\ q \notin expired /\ Live(r)
    BY <1>6, StepNames DEF TaskNext, StartTask, AgentStreams, AgentEnds, ObserveCancel, faults, Live
  <2>3. CASE q # r
    BY <1>0, <2>1, <2>2, <2>3
  <2>4. CASE q = r
    <3>1. ProgressOf(r) /\ record[r] # "none"
      BY <2>2, <2>4 DEF ProgressInv, ProgressOf, Admitted
    <3>2. t = "get_running" => record[r] = "running" /\ log[r] = <<>>
      BY <2>1, <3>1 DEF ProgressOf
    <3>3. t \in {"emit_stream", "emit_succeeded"} => Streaming(r)
      BY <2>1, <3>1 DEF ProgressOf
    <3>4. /\ t \notin {"absent", "creating", "get_succeeded", "put_succeeded"}
          /\ t \in {"scheduled", "get_running", "put_running", "emit_started"} => t = "get_running"
          /\ t \in {"agent", "emit_stream", "emit_succeeded"} => t \in {"emit_stream", "emit_succeeded"}
      OBVIOUS
    <3>. QED
      BY <2>1, <2>2, <2>4, <3>1, <3>2, <3>3, <3>4, ProgressGoto
  <2>. QED
    BY <2>3, <2>4
<1>7. ASSUME MarkNext PROVE ProgressOf(q)'
  <2>1. UNCHANGED store /\ q \notin expired
    BY <1>7 DEF MarkNext, faults
  <2>2. ASSUME NEW r \in pending, Goto(r, "mark_emit") PROVE ProgressOf(q)'
    <3>1. r \in Runs
      BY DEF TypeOK
    <3>2. CASE q # r
      BY <1>0, <2>1, <2>2, <3>1, <3>2
    <3>3. CASE q = r
      <4>1. record[r] # "none"
        BY <2>1, <2>2, <3>1, <3>3 DEF ProgressInv, ProgressOf, PendingInv
      <4>. QED
        BY <2>1, <2>2, <3>1, <3>3, <4>1, ProgressGoto
    <3>. QED
      BY <3>2, <3>3
  <2>3. CASE UNCHANGED <<step, io>>
    BY <2>1, <2>3, ProgressKept DEF store
  <2>. QED
    BY <1>7, <2>2, <2>3 DEF MarkNext
<1>8. ASSUME UNCHANGED <<store, step, io, faults>> PROVE ProgressOf(q)'
  BY <1>8, ProgressKept DEF store, faults
<1>9. ASSUME \/ \E r \in Runs : Unregister(r)
             \/ CallShutdown \/ StopAdmitting \/ EndWait \/ EndGather \/ Crash \/ UNCHANGED vars
      PROVE  UNCHANGED <<store, step, io, faults>>
  BY <1>9 DEF Unregister, CallShutdown, StopAdmitting, EndWait, EndGather, Crash, vars
<1>. QED
  BY <1>1, <1>2, <1>3, <1>4, <1>5, <1>6, <1>7, <1>8, <1>9 DEF Next, ProcessNext, ShutdownNext

-----------------------------------------------------------------------------
LEMMA ContractInit == Init => Contract!Init
BY DEF Init, Contract!Init

(* One event of the stream is one report of the contract.                    *)
LEMMA ReportStep ==
  ASSUME TypeOK, OutcomeInv, ProgressInv, NEW r \in Runs, r \notin expired, Execute(r), step[r] \in EmitStep
  PROVE  Contract!Next
<1>1. /\ step[r] \in CallStep /\ io[r] = "sent" /\ record' = record /\ expired' = expired
      /\ log' = [log EXCEPT ![r] = Append(@, EventOf(step[r]))]
  BY DEF Execute, EmitStep, PutStep, faults
<1>2. ProgressOf(r)
  BY DEF ProgressInv
<1>. DEFINE e == EventOf(step[r])
<1>3. e \in {"run_started", "pydantic_ai_event"} \cup Contract!Outcome
  BY <1>1, StepTables DEF Contract!Outcome, Event, TerminalEvent
<1>4. e = "run_started" => log[r] = <<>>
  <2>1. e = "run_started" => step[r] = "emit_started"
    BY DEF EventOf
  <2>. QED
    BY <2>1, <1>1, <1>2 DEF ProgressOf
<1>5. e \in {"pydantic_ai_event", "run_succeeded"} => log[r] # <<>> /\ ~Contract!Ended(r)
  <2>1. e \in {"pydantic_ai_event", "run_succeeded"} => step[r] \in {"emit_stream", "emit_succeeded"}
    BY DEF EventOf
  <2>2. step[r] \in {"emit_stream", "emit_succeeded"} => Streaming(r)
    BY <1>1, <1>2 DEF ProgressOf
  <2>. QED
    BY <2>1, <2>2 DEF Streaming, Ended, Contract!Ended, Contract!Outcome, TerminalEvent
<1>. HIDE DEF e
<1>6. log' = [log EXCEPT ![r] = Append(@, e)]
  BY <1>1 DEF e
<1>7. Contract!Report(r, e)
  BY <1>1, <1>4, <1>5, <1>6 DEF Contract!Report
<1>. QED
  BY <1>1, <1>3, <1>7 DEF Contract!Next

(* The SET of update_status settles the status to the stream's last outcome. *)
LEMMA SettleStep ==
  ASSUME TypeOK, OutcomeInv, ProgressInv, NEW r \in Runs, r \notin expired, Execute(r), step[r] \in PutStep
  PROVE  [Contract!Next]_(Contract!vars)
<1>1. /\ step[r] \in CallStep /\ log' = log /\ expired' = expired
      /\ record' = [record EXCEPT ![r] = StatusOf(step[r])]
  BY DEF Execute, EmitStep, PutStep, faults
<1>2. ProgressOf(r) /\ OutcomeOf(r)
  BY DEF ProgressInv, OutcomeInv
<1>3. record \in [Runs -> Status \cup {"none"}] /\ log \in [Runs -> Seq(Event)]
  BY DEF TypeOK
<1>4. CASE step[r] = "put_running"
  <2>1. record[r] = "running" /\ StatusOf(step[r]) = "running"
    BY <1>2, <1>4 DEF ProgressOf, StatusOf
  <2>. QED
    BY <1>1, <1>3, <2>1 DEF Contract!vars
<1>5. CASE step[r] # "put_running"
  <2>1. /\ step[r] \in TaskStep \cup MarkStep
        /\ step[r] \in {"put_succeeded", "put_failed", "mark_put"}
    BY <1>1, <1>5 DEF PutStep, TaskStep, CallStep, MarkStep
  <2>2. record[r] # "none"
    BY <1>2, <2>1 DEF ProgressOf, Admitted, Live
  <2>3. IF step[r] = "put_succeeded" THEN LastEvent(r) = "run_succeeded" /\ StatusOf(step[r]) = "succeeded"
                                     ELSE LastEvent(r) = "run_failed" /\ StatusOf(step[r]) = "failed"
    <3>1. CASE step[r] = "put_succeeded"
      BY <1>2, <3>1 DEF ProgressOf, StatusOf
    <3>2. CASE step[r] \in {"put_failed", "mark_put"}
      BY <1>2, <3>2 DEF OutcomeOf, FailurePublished, StatusOf
    <3>. QED
      BY <2>1, <3>1, <3>2
  <2>4. log[r] # <<>> /\ LastEvent(r) = log[r][Len(log[r])]
    BY <2>3 DEF LastEvent
  <2>5. Contract!Settle(r)
    BY <1>1, <2>2, <2>3, <2>4 DEF Contract!Settle
  <2>. QED
    BY <1>1, <2>5 DEF Contract!Next
<1>. QED
  BY <1>4, <1>5

LEMMA ContractStep ==
  TypeOK /\ OutcomeInv /\ ProgressInv /\ [Next]_vars => [Contract!Next]_(Contract!vars)
<1>. SUFFICES ASSUME TypeOK, OutcomeInv, ProgressInv, [Next]_vars PROVE [Contract!Next]_(Contract!vars)
  OBVIOUS
<1>t. record \in [Runs -> Status \cup {"none"}] /\ log \in [Runs -> Seq(Event)]
  BY DEF TypeOK
<1>1. ASSUME NEW r \in Runs, Execute(r) PROVE [Contract!Next]_(Contract!vars)
  <2>1. expired' = expired /\ step[r] \in CallStep
    BY <1>1 DEF Execute, faults
  <2>2. CASE r \in expired
    <3>1. record' \in {record, [record EXCEPT ![r] = "running"], [record EXCEPT ![r] = StatusOf(step[r])]}
      BY <1>1 DEF Execute
    <3>2. log' \in {log, [log EXCEPT ![r] = Append(@, EventOf(step[r]))]}
      BY <1>1 DEF Execute
    <3>3. \A q \in Runs \ {r} : record'[q] = record[q] /\ log'[q] = log[q]
      BY <3>1, <3>2, <1>t
    <3>4. Contract!Forget(r)
      BY <2>1, <2>2, <3>3 DEF Contract!Forget
    <3>. QED
      BY <3>4 DEF Contract!Next
  <2>3. CASE r \notin expired /\ step[r] = "creating"
    <3>1. io[r] = "sent" /\ record' = [record EXCEPT ![r] = "running"] /\ log' = log
      BY <1>1, <2>3 DEF Execute, EmitStep, PutStep
    <3>2. record[r] = "none" /\ log[r] = <<>>
      BY <2>3, <3>1 DEF ProgressInv, ProgressOf
    <3>3. Contract!Accept(r)
      BY <3>1, <3>2 DEF Contract!Accept
    <3>. QED
      BY <2>1, <3>3 DEF Contract!Next
  <2>4. CASE r \notin expired /\ step[r] \in EmitStep
    BY <1>1, <2>4, ReportStep
  <2>5. CASE r \notin expired /\ step[r] \in PutStep
    BY <1>1, <2>5, SettleStep
  <2>6. CASE step[r] \notin {"creating"} \cup EmitStep \cup PutStep
    BY <1>1, <2>1, <2>6 DEF Execute, Contract!vars
  <2>. QED
    BY <2>2, <2>3, <2>4, <2>5, <2>6
<1>2. ASSUME NEW r \in Runs, Expire(r) PROVE [Contract!Next]_(Contract!vars)
  <2>1. \A q \in Runs \ {r} : record'[q] = record[q] /\ log'[q] = log[q]
    BY <1>2, <1>t DEF Expire
  <2>2. Contract!Forget(r)
    BY <1>2, <2>1 DEF Contract!Forget, Expire
  <2>. QED
    BY <2>2 DEF Contract!Next
<1>3. ASSUME UNCHANGED <<store, expired>> PROVE [Contract!Next]_(Contract!vars)
  BY <1>3 DEF store, Contract!vars
<1>4. ASSUME \/ \E r \in Runs : LoseCall(r) \/ CreateRun(r) \/ Resume(r) \/ TaskNext(r) \/ Unregister(r)
             \/ CallShutdown \/ ShutdownNext \/ Crash \/ UNCHANGED vars
      PROVE  UNCHANGED <<store, expired>>
  BY <1>4 DEF LoseCall, CreateRun, Resume, TaskNext, StartTask, AgentStreams, AgentEnds, ObserveCancel, Unregister,
              CallShutdown, ShutdownNext, StopAdmitting, EndWait, EndGather, MarkNext, Crash, vars, store, faults
<1>. QED
  BY <1>1, <1>2, <1>3, <1>4 DEF Next, ProcessNext

(* What Redis shows of a run is a behaviour of RunContract, whatever fails   *)
(* and whenever the process stops.                                           *)
THEOREM StoreImplementsContract == Spec => ImplementsContract
BY TypeInit, TypeNext, OutcomeInit, AdmissionInit, AdmissionNext, OutcomeNext, PendingInit, PendingNext,
   ProgressInit, ProgressNext, ContractInit, ContractStep, PTL DEF Spec, ImplementsContract, Contract!Spec

-----------------------------------------------------------------------------
(* A run whose task was cancelled stays on shutdown's list until it has been *)
(* failed, and shutdown keeps the list only while it works on it.            *)
CancelledInv ==
  /\ \A r \in Runs : r \in cancelled \/ step[r] = "cancelled" => r \in pending
  /\ shutdown \notin {"gathering", "marking"} => pending = {}

LEMMA CancelledInit == Init => CancelledInv
BY DEF Init, CancelledInv

LEMMA CancelledNext == TypeOK /\ CancelledInv /\ [Next]_vars => CancelledInv'
<1>. SUFFICES ASSUME TypeOK, CancelledInv, [Next]_vars PROVE CancelledInv'
  OBVIOUS
<1>. USE DEF CancelledInv
<1>t. /\ step \in [Runs -> Step] /\ pending \subseteq Runs /\ cancelled \subseteq Runs
      /\ shutdown \in {"serving", "called", "waiting", "gathering", "marking", "stopped"}
  BY DEF TypeOK
<1>1. ASSUME NEW r \in Runs, CreateRun(r) PROVE CancelledInv'
  BY <1>1, <1>t DEF CreateRun, Goto
<1>2. ASSUME NEW r \in Runs, Resume(r) PROVE CancelledInv'
  <2>. DEFINE t == IF io[r] = "applied" THEN AfterCall(step[r]) ELSE AfterError(step[r])
  <2>1. step' = [step EXCEPT ![r] = t] /\ r \notin cancelled /\ UNCHANGED <<shutdown, cancelled>>
        /\ pending' = IF t = "marked" THEN pending \ {r} ELSE pending
    BY <1>2, <1>t DEF Resume, Goto
  <2>2. t # "cancelled"
    BY DEF AfterCall, AfterError
  <2>. HIDE DEF t
  <2>. QED
    BY <2>1, <2>2, <1>t
<1>3. ASSUME NEW r \in Runs, StartTask(r) \/ AgentStreams(r) \/ AgentEnds(r) PROVE CancelledInv'
  BY <1>3, <1>t DEF StartTask, AgentStreams, AgentEnds, Goto, control
<1>4. ASSUME NEW r \in Runs, ObserveCancel(r) PROVE CancelledInv'
  BY <1>4, <1>t DEF ObserveCancel, Goto
<1>5. ASSUME EndWait PROVE CancelledInv'
  BY <1>5, <1>t DEF EndWait
<1>6. ASSUME MarkNext PROVE CancelledInv'
  BY <1>6, <1>t DEF MarkNext, Goto
<1>7. ASSUME CallShutdown \/ StopAdmitting \/ EndGather PROVE CancelledInv'
  BY <1>7, <1>t DEF CallShutdown, StopAdmitting, EndGather
<1>8. ASSUME (\E r \in Runs : Execute(r) \/ LoseCall(r) \/ Expire(r) \/ Unregister(r)) \/ Crash \/ UNCHANGED vars
      PROVE  CancelledInv'
  BY <1>8 DEF Execute, LoseCall, Expire, Unregister, Crash, vars, control
<1>. QED
  BY <1>1, <1>2, <1>3, <1>4, <1>5, <1>6, <1>7, <1>8 DEF Next, ProcessNext, TaskNext, ShutdownNext

(* A run that met no fault: its calls do not raise, and the coroutine that   *)
(* works for it ends with the status it set in the record.                   *)
SettledOf(r) ==
  /\ io[r] # "raised"
  /\ step[r] = "put_succeeded" /\ io[r] = "applied" => record[r] = "succeeded"
  /\ step[r] \in {"put_failed", "mark_put"} /\ io[r] = "applied" => record[r] = "failed"
  /\ step[r] = "done" => record[r] \in TerminalStatus /\ LastEvent(r) \in TerminalEvent
  /\ step[r] = "marked" => record[r] = "failed"
SettledInv == \A r \in Runs \ (faulty \cup expired) : SettledOf(r)

LEMMA SettledInit == Init => SettledInv
BY DEF Init, SettledInv, SettledOf

LEMMA SettledTables ==
  ASSUME NEW s \in CallStep
  PROVE  /\ AfterCall(s) = "done" => s \in {"put_succeeded", "put_failed"}
         /\ AfterCall(s) = "marked" => s = "mark_put"
         /\ AfterCall(s) \notin {"absent"}
BY DEF CallStep, EmitStep, GetStep, PutStep, MarkStep, AfterCall

LEMMA SettledNext ==
  TypeOK /\ OutcomeInv /\ ProgressInv /\ SettledInv /\ [Next]_vars => SettledInv'
<1>. SUFFICES ASSUME TypeOK, OutcomeInv, ProgressInv, SettledInv, [Next]_vars,
                     NEW q \in Runs, q \notin faulty', q \notin expired'
              PROVE  SettledOf(q)'
  BY DEF SettledInv
<1>t. /\ step \in [Runs -> Step] /\ io \in [Runs -> CallState] /\ log \in [Runs -> Seq(Event)]
      /\ record \in [Runs -> Status \cup {"none"}]
  BY DEF TypeOK
<1>0. ASSUME q \notin faulty, q \notin expired, record'[q] = record[q], log'[q] = log[q], step'[q] = step[q],
             io'[q] = io[q]
      PROVE  SettledOf(q)'
  BY <1>0 DEF SettledInv, SettledOf, LastEvent
<1>1. ASSUME NEW r \in Runs, Execute(r) PROVE SettledOf(q)'
  <2>1. /\ step' = step /\ UNCHANGED faults /\ step[r] \in CallStep /\ io[r] = "sent"
        /\ q \notin faulty /\ q \notin expired
    BY <1>1 DEF Execute, faults
  <2>2. CASE q # r
    <3>1. record'[q] = record[q] /\ log'[q] = log[q] /\ io'[q] = io[q]
      <4>1. record' \in {record, [record EXCEPT ![r] = "running"], [record EXCEPT ![r] = StatusOf(step[r])]}
        BY <1>1 DEF Execute
      <4>. QED
        BY <4>1, <1>1, <1>t, <2>2 DEF Execute
    <3>. QED
      BY <3>1, <2>1, <1>0
  <2>3. CASE q = r
    <3>1. io'[r] = "applied"
      <4>1. step[r] \in GetStep => record[r] # "none"
        <5>1. step[r] \in GetStep => step[r] \in TaskStep \cup MarkStep
          BY DEF GetStep, TaskStep, MarkStep, CallStep
        <5>. QED
          BY <5>1, <2>1, <2>3 DEF ProgressInv, ProgressOf, Admitted, Live
      <4>. QED
        BY <1>1, <1>t, <4>1 DEF Execute
    <3>2. step[r] \notin {"done", "marked"}
      BY <2>1 DEF CallStep, EmitStep, GetStep, PutStep
    <3>3. step[r] \in {"put_succeeded", "put_failed", "mark_put"} => record'[r] = StatusOf(step[r])
      BY <1>1, <1>t DEF Execute, PutStep
    <3>. QED
      BY <2>1, <2>3, <3>1, <3>2, <3>3 DEF SettledOf, StatusOf
  <2>. QED
    BY <2>2, <2>3
<1>2. ASSUME NEW r \in Runs, LoseCall(r) \/ Expire(r) PROVE SettledOf(q)'
  <2>1. q # r /\ q \notin faulty /\ q \notin expired
    BY <1>2 DEF LoseCall, Expire
  <2>. QED
    BY <1>2, <2>1, <1>t, <1>0 DEF LoseCall, Expire, store
<1>3. ASSUME NEW r \in Runs, NEW t, Goto(r, t), UNCHANGED <<store, faults>>,
             q = r /\ t = "done" => record[r] \in TerminalStatus /\ LastEvent(r) \in TerminalEvent,
             q = r /\ t = "marked" => record[r] = "failed"
      PROVE  SettledOf(q)'
  <2>1. CASE q # r
    BY <1>3, <2>1, <1>t, <1>0 DEF Goto, store, faults
  <2>2. CASE q = r
    BY <1>3, <2>2, <1>t DEF Goto, store, SettledOf, LastEvent
  <2>. QED
    BY <2>1, <2>2
<1>4. ASSUME NEW r \in Runs, Resume(r) PROVE SettledOf(q)'
  <2>. DEFINE s == step[r]
              t == IF io[r] = "applied" THEN AfterCall(s) ELSE AfterError(s)
  <2>1. s \in CallStep /\ io[r] # "sent" /\ Goto(r, t) /\ UNCHANGED <<store, faults>>
    BY <1>4 DEF Resume
  <2>2. ASSUME q = r PROVE io[r] = "applied" /\ SettledOf(r) /\ ProgressOf(r) /\ OutcomeOf(r) /\ r \notin expired
    BY <2>1, <2>2, <1>t DEF SettledInv, SettledOf, ProgressInv, OutcomeInv, faults, CallState
  <2>3. ASSUME q = r, t = "done" PROVE record[r] \in TerminalStatus /\ LastEvent(r) \in TerminalEvent
    <3>1. s \in {"put_succeeded", "put_failed"}
      BY <2>1, <2>2, <2>3, SettledTables
    <3>2. CASE s = "put_succeeded"
      BY <2>2, <2>3, <3>2 DEF SettledOf, ProgressOf, TerminalStatus, TerminalEvent
    <3>3. CASE s = "put_failed"
      BY <2>2, <2>3, <3>3 DEF SettledOf, OutcomeOf, FailurePublished, TerminalStatus, TerminalEvent
    <3>. QED
      BY <3>1, <3>2, <3>3
  <2>4. ASSUME q = r, t = "marked" PROVE record[r] = "failed"
    BY <2>1, <2>2, <2>4, SettledTables DEF SettledOf
  <2>. HIDE DEF t
  <2>. QED
    BY <2>1, <2>3, <2>4, <1>3
<1>5. ASSUME NEW r \in Runs, CreateRun(r) \/ TaskNext(r) PROVE SettledOf(q)'
  <2>1. PICK t \in {"refused", "creating", "get_running", "emit_stream", "emit_succeeded", "emit_failed", "cancelled"} :
          Goto(r, t)
    BY <1>5 DEF CreateRun, TaskNext, StartTask, AgentStreams, AgentEnds, ObserveCancel
  <2>2. UNCHANGED <<store, faults>>
    BY <1>5 DEF CreateRun, TaskNext, StartTask, AgentStreams, AgentEnds, ObserveCancel
  <2>. QED
    BY <2>1, <2>2, <1>3
<1>6. ASSUME MarkNext PROVE SettledOf(q)'
  <2>1. UNCHANGED <<store, faults>>
    BY <1>6 DEF MarkNext
  <2>2. ASSUME NEW r \in pending, Goto(r, "mark_emit") PROVE SettledOf(q)'
    BY <2>1, <2>2, <1>3 DEF TypeOK
  <2>3. CASE UNCHANGED <<step, io>>
    BY <2>1, <2>3, <1>0 DEF store, faults
  <2>. QED
    BY <1>6, <2>2, <2>3 DEF MarkNext
<1>7. ASSUME (\E r \in Runs : Unregister(r)) \/ CallShutdown \/ StopAdmitting \/ EndWait \/ EndGather \/ Crash
             \/ UNCHANGED vars
      PROVE  SettledOf(q)'
  <2>1. UNCHANGED <<store, step, io, faults>>
    BY <1>7 DEF Unregister, CallShutdown, StopAdmitting, EndWait, EndGather, Crash, vars
  <2>. QED
    BY <2>1, <1>0 DEF store, faults
<1>. QED
  BY <1>1, <1>2, <1>4, <1>5, <1>6, <1>7 DEF Next, ProcessNext, ShutdownNext

LEMMA SettledImplies ==
  ASSUME TypeOK, AdmissionInv, OutcomeInv, CancelledInv, SettledInv
  PROVE  GracefulShutdownSettlesRuns
<1>. SUFFICES ASSUME shutdown = "stopped", NEW r \in Runs, r \notin faulty, r \notin expired, Admitted(r)
              PROVE  record[r] \in TerminalStatus /\ LastEvent(r) \in TerminalEvent
  BY DEF GracefulShutdownSettlesRuns
<1>1. step[r] \in {"done", "marked"}
  BY DEF Admitted, AdmissionInv, CancelledInv, EndStep
<1>2. SettledOf(r) /\ OutcomeOf(r)
  BY DEF SettledInv, OutcomeInv
<1>. QED
  BY <1>1, <1>2 DEF SettledOf, OutcomeOf, FailurePublished, TerminalStatus, TerminalEvent

(* A shutdown that ran to its end leaves no admitted run open, for any       *)
(* number of runs, unless Redis failed for that run.                         *)
THEOREM ShutdownSettlesRuns == Spec => []GracefulShutdownSettlesRuns
BY TypeInit, TypeNext, AdmissionInit, AdmissionNext, OutcomeInit, OutcomeNext, PendingInit, PendingNext,
   ProgressInit, ProgressNext, CancelledInit, CancelledNext, SettledInit, SettledNext, SettledImplies, PTL DEF Spec
=============================================================================
