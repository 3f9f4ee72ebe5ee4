----------------------------- MODULE AgentRuns -----------------------------
(***************************************************************************)
(* The agent-run server (dify-agent): RunScheduler admits runs and shuts   *)
(* them down, AgentRunRunner executes one run, RedisRunStore keeps the run *)
(* record and the event stream.  Everything runs on one event loop, so a   *)
(* coroutine only loses control at an await.  Each awaited store call is   *)
(* therefore three steps: it is sent, Redis executes it, the coroutine     *)
(* resumes; a cancellation or a lost reply can fall between any of them.   *)
(***************************************************************************)
EXTENDS Naturals, Sequences, FiniteSets

CONSTANTS Runs,       \* run ids that clients may request
          MaxStream,  \* bound: pydantic_ai_event events each run emits
          MaxFaulty   \* bound: runs that meet a lost store call or an expired key

ASSUME RunsAssumption == IsFiniteSet(Runs)
ASSUME BoundsAssumption == MaxStream \in [Runs -> Nat] /\ MaxFaulty \in Nat

VARIABLES
  record,    \* Redis: status in the run record, "none" without a record
  log,       \* Redis: types of the events in the run's stream
  step,      \* what the coroutine working for the run is doing
  io,        \* progress of the store call that coroutine awaits
  active,    \* RunScheduler.active_tasks
  lock,      \* _lifecycle_lock is held by a create_run that awaits the store
  shutdown,  \* progress of RunScheduler.shutdown
  waitSet,   \* shutdown's tasks_by_run_id
  pending,   \* shutdown's pending_run_ids, not yet marked failed
  cancelled, \* tasks whose cancel() was called and not delivered yet
  faulty,    \* history: runs that lost a store call
  expired,   \* history: runs whose keys expired
  up         \* FALSE once the process has crashed

store   == <<record, log>>
control == <<active, lock, shutdown, waitSet, pending, cancelled>>
faults  == <<faulty, expired>>
vars    == <<store, step, io, control, faults, up>>

-----------------------------------------------------------------------------
TerminalStatus == {"succeeded", "failed"}
Status         == {"running"} \cup TerminalStatus
TerminalEvent  == {"run_succeeded", "run_failed"}
Event          == {"run_started", "pydantic_ai_event"} \cup TerminalEvent

(* Store calls: XADD of an event, and the GET and SET of update_status. *)
EmitStep == {"emit_started", "emit_stream", "emit_succeeded", "emit_failed", "mark_emit"}
GetStep  == {"get_running", "get_succeeded", "get_failed", "mark_get"}
PutStep  == {"put_running", "put_succeeded", "put_failed", "mark_put"}
MarkStep == {"mark_emit", "mark_get", "mark_put"}  \* run by shutdown, not by the task
CallStep == {"creating"} \cup EmitStep \cup GetStep \cup PutStep

TaskStep == {"scheduled", "agent"} \cup (CallStep \ (MarkStep \cup {"creating"}))
EndStep  == {"done", "cancelled", "marked"}
Step     == {"absent", "refused"} \cup CallStep \cup TaskStep \cup EndStep

(* asyncio.Task.done() of the run's task is false. *)
Live(r) == step[r] \in TaskStep
Admitted(r) == Live(r) \/ step[r] \in MarkStep \cup EndStep

Stopping == shutdown \notin {"serving", "called"}

EventOf(s) == CASE s = "emit_started"   -> "run_started"
                [] s = "emit_stream"    -> "pydantic_ai_event"
                [] s = "emit_succeeded" -> "run_succeeded"
                [] OTHER                -> "run_failed"

StatusOf(s) == CASE s = "put_running"   -> "running"
                 [] s = "put_succeeded" -> "succeeded"
                 [] OTHER               -> "failed"

(* The step that follows a store call that returned. *)
AfterCall(s) == CASE s = "creating"       -> "scheduled"
                  [] s = "get_running"    -> "put_running"
                  [] s = "put_running"    -> "emit_started"
                  [] s = "emit_started"   -> "agent"
                  [] s = "emit_stream"    -> "agent"
                  [] s = "emit_succeeded" -> "get_succeeded"
                  [] s = "get_succeeded"  -> "put_succeeded"
                  [] s = "emit_failed"    -> "get_failed"
                  [] s = "get_failed"     -> "put_failed"
                  [] s = "mark_emit"      -> "mark_get"
                  [] s = "mark_get"       -> "mark_put"
                  [] s = "mark_put"       -> "marked"
                  [] OTHER                -> "done"

(* Mutants of AfterError: the handler also covers the calls after _run_agent; *)
(* run_started is sent again after an error; every call is tried again.       *)
HandlerCoversSuccess(s) ==
  CASE s = "creating" -> "refused"
    [] s \in {"emit_stream", "emit_succeeded", "get_succeeded", "put_succeeded"} -> "emit_failed"
    [] s \in MarkStep -> "marked"
    [] OTHER -> "done"
ResendsStarted(s) == CASE s = "creating"     -> "refused"
                       [] s = "emit_started" -> "emit_started"
                       [] s = "emit_stream"  -> "emit_failed"
                       [] s \in MarkStep     -> "marked"
                       [] OTHER              -> "done"
RetriesForever(s) == CASE s = "creating"   -> "refused"
                       [] s \in MarkStep   -> "marked"
                       [] OTHER            -> s

(* The step that follows a store call that raised: only an exception inside *)
(* _run_agent reaches the handler that reports the failure.                 *)
AfterError(s) == CASE s = "creating"    -> "refused"
                   [] s = "emit_stream" -> "emit_failed"
                   [] s \in MarkStep    -> "marked"
                   [] OTHER             -> "done"

CallState == {"sent", "applied", "raised"}

-----------------------------------------------------------------------------
Init ==
  /\ record = [r \in Runs |-> "none"] /\ log = [r \in Runs |-> <<>>]
  /\ step = [r \in Runs |-> "absent"] /\ io = [r \in Runs |-> "sent"]
  /\ active = {} /\ lock = FALSE
  /\ shutdown = "serving" /\ waitSet = {} /\ pending = {} /\ cancelled = {}
  /\ faulty = {} /\ expired = {} /\ up = TRUE

Goto(r, s) == step' = [step EXCEPT ![r] = s] /\ io' = [io EXCEPT ![r] = "sent"]

-----------------------------------------------------------------------------
(* Redis *)

(* Redis executes the call the coroutine of run r awaits.  SET and XADD     *)
(* always succeed there; the GET of update_status raises RunNotFoundError   *)
(* when the record is gone.                                                 *)
Execute(r) ==
  /\ step[r] \in CallStep /\ io[r] = "sent"
  /\ io' = [io EXCEPT ![r] = IF step[r] \in GetStep /\ record[r] = "none"
                             THEN "raised" ELSE "applied"]
  /\ record' = CASE step[r] = "creating" -> [record EXCEPT ![r] = "running"]
                 [] step[r] \in PutStep  -> [record EXCEPT ![r] = StatusOf(step[r])]
                 [] OTHER                -> record
  /\ log' = IF step[r] \in EmitStep
            THEN [log EXCEPT ![r] = Append(@, EventOf(step[r]))]
            ELSE log
  /\ UNCHANGED <<step, control, faults, up>>

MayFail(r) == r \in faulty \cup expired \/ Cardinality(faulty \cup expired) < MaxFaulty

(* The connection breaks before the call reaches Redis or before its reply *)
(* reaches the coroutine.                                                   *)
LoseCall(r) ==
  /\ step[r] \in CallStep /\ io[r] \in {"sent", "applied"} /\ MayFail(r)
  /\ io' = [io EXCEPT ![r] = "raised"]
  /\ faulty' = faulty \cup {r}
  /\ UNCHANGED <<store, step, control, expired, up>>

(* run_retention_seconds pass without a write.  Every write that refreshes *)
(* the stream refreshes the record too, so the stream expires first.       *)
Expire(r) ==
  /\ MayFail(r)
  /\ \/ log[r] # <<>> /\ UNCHANGED record
     \/ record[r] # "none" /\ record' = [record EXCEPT ![r] = "none"]
  /\ log' = [log EXCEPT ![r] = <<>>]
  /\ expired' = expired \cup {r}
  /\ UNCHANGED <<step, io, control, faulty, up>>

-----------------------------------------------------------------------------
(* RunScheduler.create_run *)

(* Mutant of CreateRun: the lock is not kept while the store is awaited. *)
CreateWithoutLock(r) ==
  /\ step[r] = "absent" /\ ~lock
  /\ Goto(r, IF Stopping THEN "refused" ELSE "creating")
  /\ UNCHANGED <<store, control, faults>>

(* Under the lifecycle lock: refused while stopping, else the record is     *)
(* written while the lock is held.                                          *)
CreateRun(r) ==
  /\ step[r] = "absent" /\ ~lock
  /\ IF Stopping THEN Goto(r, "refused") /\ UNCHANGED lock
                 ELSE Goto(r, "creating") /\ lock' = TRUE
  /\ UNCHANGED <<store, active, shutdown, waitSet, pending, cancelled, faults>>

(* Mutant of Resume: a create_run that raises keeps the lock. *)
ResumeLeaksLock(r) ==
  /\ step[r] \in CallStep /\ io[r] # "sent" /\ r \notin cancelled
  /\ Goto(r, IF io[r] = "applied" THEN AfterCall(step[r]) ELSE AfterError(step[r]))
  /\ active' = IF step[r] = "creating" /\ io[r] = "applied" THEN active \cup {r} ELSE active
  /\ lock' = (lock /\ ~(step[r] = "creating" /\ io[r] = "applied"))
  /\ pending' = IF step'[r] = "marked" THEN pending \ {r} ELSE pending
  /\ UNCHANGED <<store, shutdown, waitSet, cancelled, faults>>

(* The awaited store call of run r has returned or raised and its coroutine *)
(* continues; create_run registers the task before it releases the lock.    *)
Resume(r) ==
  /\ step[r] \in CallStep /\ io[r] # "sent" /\ r \notin cancelled
  /\ Goto(r, IF io[r] = "applied" THEN AfterCall(step[r]) ELSE AfterError(step[r]))
  /\ active' = IF step[r] = "creating" /\ io[r] = "applied" THEN active \cup {r} ELSE active
  /\ lock' = (lock /\ step[r] # "creating")
  /\ pending' = IF step'[r] = "marked" THEN pending \ {r} ELSE pending
  /\ UNCHANGED <<store, shutdown, waitSet, cancelled, faults>>

-----------------------------------------------------------------------------
(* AgentRunRunner.run *)

StartTask(r) ==
  /\ step[r] = "scheduled" /\ r \notin cancelled
  /\ Goto(r, "get_running")
  /\ UNCHANGED <<store, control, faults>>

Streamed(r) == Cardinality({i \in DOMAIN log[r] : log[r][i] = "pydantic_ai_event"})

(* An event of the agent is streamed (bound: MaxStream, and none after the  *)
(* stream expired, which would set the count back).                         *)
AgentStreams(r) ==
  /\ step[r] = "agent" /\ r \notin cancelled
  /\ r \notin expired /\ Streamed(r) < MaxStream[r]
  /\ Goto(r, "emit_stream")
  /\ UNCHANGED <<store, control, faults>>

(* Mutant of AgentEnds: a failure sets the status before it is published. *)
StatusBeforeEvent(r) ==
  /\ step[r] = "agent" /\ r \notin cancelled
  /\ \/ Goto(r, "emit_succeeded")
     \/ Goto(r, "get_failed")
  /\ UNCHANGED <<store, control, faults>>

(* _run_agent returns an outcome, or raises anything but CancelledError. *)
AgentEnds(r) ==
  /\ step[r] = "agent" /\ r \notin cancelled
  /\ \/ Goto(r, "emit_succeeded")
     \/ Goto(r, "emit_failed")
  /\ UNCHANGED <<store, control, faults>>

(* CancelledError is thrown at the await the task is suspended in.  run()   *)
(* does not catch it, but inside _run_agent the layers' exit hooks run, and *)
(* a hook that raises puts its own exception in the place of the            *)
(* cancellation: the run then reports that failure like any other.          *)
ObserveCancel(r) ==
  /\ Live(r) /\ r \in cancelled
  /\ \/ Goto(r, "cancelled")
     \/ step[r] \in {"agent", "emit_stream"} /\ Goto(r, "emit_failed")
  /\ cancelled' = cancelled \ {r}
  /\ UNCHANGED <<store, active, lock, shutdown, waitSet, pending, faults>>

(* The done callback removes the task from the registry. *)
Unregister(r) ==
  /\ r \in active /\ ~Live(r)
  /\ active' = active \ {r}
  /\ UNCHANGED <<store, step, io, lock, shutdown, waitSet, pending, cancelled, faults>>

-----------------------------------------------------------------------------
(* RunScheduler.shutdown *)

CallShutdown ==
  /\ shutdown = "serving" /\ shutdown' = "called"
  /\ UNCHANGED <<store, step, io, active, lock, waitSet, pending, cancelled, faults>>

(* Under the lifecycle lock: stop admitting, and copy the task registry. *)
StopAdmitting ==
  /\ shutdown = "called" /\ ~lock
  /\ shutdown' = IF active = {} THEN "stopped" ELSE "waiting"
  /\ waitSet' = active
  /\ UNCHANGED <<store, step, io, active, lock, pending, cancelled, faults>>

(* asyncio.wait returns: all tasks are done, or the grace period is over    *)
(* and the unfinished tasks are cancelled.                                  *)
EndWait ==
  /\ shutdown = "waiting"
  /\ pending' = {r \in waitSet : Live(r)} /\ cancelled' = pending'
  /\ shutdown' = IF pending' = {} THEN "stopped" ELSE "gathering"
  /\ UNCHANGED <<store, step, io, active, lock, waitSet, faults>>

(* Mutant of EndGather: shutdown returns once the cancelled tasks ended. *)
GatherAndReturn ==
  /\ shutdown = "gathering" /\ \A r \in pending : ~Live(r)
  /\ shutdown' = "stopped"
  /\ UNCHANGED <<store, step, io, active, lock, waitSet, pending, cancelled, faults>>

(* Every cancelled task has ended. *)
EndGather ==
  /\ shutdown = "gathering" /\ \A r \in pending : ~Live(r)
  /\ shutdown' = "marking"
  /\ UNCHANGED <<store, step, io, active, lock, waitSet, pending, cancelled, faults>>

(* _mark_cancelled_run_failed, for one run after the other. *)
MarkNext ==
  /\ shutdown = "marking" /\ \A r \in Runs : step[r] \notin MarkStep
  /\ \/ \E r \in pending : Goto(r, "mark_emit") /\ UNCHANGED shutdown
     \/ pending = {} /\ shutdown' = "stopped" /\ UNCHANGED <<step, io>>
  /\ UNCHANGED <<store, active, lock, waitSet, pending, cancelled, faults>>

Crash == up /\ up' = FALSE /\ UNCHANGED <<store, step, io, control, faults>>

-----------------------------------------------------------------------------
TaskNext(r) == StartTask(r) \/ AgentStreams(r) \/ AgentEnds(r) \/ ObserveCancel(r)
ShutdownNext == StopAdmitting \/ EndWait \/ EndGather \/ MarkNext

ProcessNext ==
  /\ up /\ UNCHANGED up
  /\ \/ \E r \in Runs : CreateRun(r) \/ Resume(r) \/ TaskNext(r) \/ Unregister(r)
     \/ CallShutdown \/ ShutdownNext

Next ==
  \/ ProcessNext
  \/ \E r \in Runs : (up /\ (Execute(r) \/ LoseCall(r))) \/ Expire(r)
  \/ Crash

(* The event loop and Redis keep running while the process is up, and an    *)
(* agent ends: its HTTP calls have timeouts and its request count a limit.  *)
Fairness ==
  /\ WF_vars(up /\ UNCHANGED up /\ ShutdownNext)
  /\ \A r \in Runs :
       /\ WF_vars(up /\ Execute(r))
       /\ WF_vars(up /\ UNCHANGED up /\ Resume(r))
       /\ WF_vars(up /\ UNCHANGED up /\ (StartTask(r) \/ ObserveCancel(r)))
       /\ WF_vars(up /\ UNCHANGED up /\ AgentEnds(r))

Spec == Init /\ [][Next]_vars /\ Fairness

-----------------------------------------------------------------------------
(* Properties *)

(* The variables keep the types given with their declarations. *)
TypeOK ==
  /\ record \in [Runs -> Status \cup {"none"}] /\ log \in [Runs -> Seq(Event)]
  /\ step \in [Runs -> Step] /\ io \in [Runs -> CallState]
  /\ active \subseteq Runs /\ lock \in BOOLEAN
  /\ shutdown \in {"serving", "called", "waiting", "gathering", "marking", "stopped"}
  /\ waitSet \subseteq Runs /\ pending \subseteq Runs /\ cancelled \subseteq Runs
  /\ faulty \subseteq Runs /\ expired \subseteq Runs /\ up \in BOOLEAN

(* "Shutdown cannot begin after a request is admitted": once the scheduler  *)
(* stops, every unfinished task is one shutdown waits for and no create_run *)
(* is half way; when shutdown returns, and the lifespan hook closes Redis,  *)
(* no task is left and no store call is under way.                          *)
ShutdownCoversEveryTask ==
  /\ Stopping => \A r \in Runs : step[r] # "creating" /\ (Live(r) => r \in waitSet)
  /\ shutdown = "stopped" => \A r \in Runs : ~Live(r) /\ step[r] \notin CallStep

(* The inductive strengthening: who holds the lock, which tasks are in the  *)
(* registry, and which are left in each phase of shutdown.                  *)
AdmissionInv ==
  /\ \A r \in Runs : step[r] = "creating" => lock
  /\ \A q, r \in Runs : step[q] = "creating" /\ step[r] = "creating" => q = r
  /\ \A r \in Runs : Live(r) => r \in active
  /\ Stopping => \A r \in Runs : step[r] # "creating" /\ (Live(r) => r \in waitSet)
  /\ shutdown = "gathering" => \A r \in Runs : Live(r) => r \in pending
  /\ shutdown \in {"marking", "stopped"} => \A r \in Runs : ~Live(r)
  /\ \A r \in Runs : step[r] \in MarkStep => shutdown = "marking"

LastEvent(r) == IF log[r] = <<>> THEN "none" ELSE log[r][Len(log[r])]

(* A client that polls the status finds the matching event in the stream:   *)
(* the runner and shutdown append the terminal event before the status.     *)
TerminalStatusHasEvent ==
  \A r \in Runs \ expired :
    /\ record[r] = "failed" => LastEvent(r) = "run_failed"
    /\ record[r] = "succeeded" => \E i \in DOMAIN log[r] : log[r][i] = "run_succeeded"

(* Its inductive strengthening: the event is in the stream from the moment  *)
(* the coroutine can have seen it appended.                                 *)
FailurePublished(r) ==
  \/ record[r] = "failed"
  \/ step[r] \in {"get_failed", "put_failed", "mark_get", "mark_put"}
  \/ step[r] \in {"emit_failed", "mark_emit"} /\ io[r] = "applied"
SuccessPublished(r) ==
  \/ record[r] = "succeeded"
  \/ step[r] \in {"get_succeeded", "put_succeeded"}
  \/ step[r] = "emit_succeeded" /\ io[r] = "applied"
OutcomeOf(r) ==
  /\ record[r] = "failed" => step[r] \in {"put_failed"} \cup MarkStep \cup EndStep
  /\ record[r] = "succeeded" => step[r] \in {"put_succeeded"} \cup MarkStep \cup EndStep
  /\ r \notin expired =>
       /\ FailurePublished(r) => LastEvent(r) = "run_failed"
       /\ SuccessPublished(r) => \E i \in DOMAIN log[r] : log[r][i] = "run_succeeded"
OutcomeInv == \A r \in Runs : OutcomeOf(r)

(* After a shutdown that ran to its end no admitted run is left "running"   *)
(* and no stream is left open, unless Redis failed for that run.            *)
GracefulShutdownSettlesRuns ==
  shutdown = "stopped" =>
    \A r \in Runs \ (faulty \cup expired) :
      Admitted(r) => record[r] \in TerminalStatus /\ LastEvent(r) \in TerminalEvent

(* The store obeys the contract the clients of a run are written against.   *)
Contract == INSTANCE RunContract WITH status <- record, events <- log, forgotten <- expired
ImplementsContract == Contract!Spec

(* A status that is final changes only when shutdown fails the run.         *)
OnlyShutdownOverrules ==
  [][\A r \in Runs : record[r] \in TerminalStatus /\ record'[r] # record[r]
                     => record'[r] = "none" \/ (record'[r] = "failed" /\ shutdown = "marking")]_vars

(* A shutdown that is called returns, whatever the tasks do and whichever   *)
(* store calls fail, unless the process crashes.                            *)
ShutdownCompletes == shutdown = "called" ~> shutdown = "stopped" \/ ~up

(* Every task that is scheduled ends. *)
EveryTaskEnds == \A r \in Runs : Live(r) ~> ~Live(r) \/ ~up
=============================================================================
