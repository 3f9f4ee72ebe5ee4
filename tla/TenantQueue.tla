---------------------------- MODULE TenantQueue ----------------------------
(* The tenant-isolated task queue: indexing and pipeline jobs of one tenant  *)
(* go to Celery one after another instead of all at once.                    *)
(*                                                                           *)
(* A flag key in redis says that a task of the tenant is under way.  A proxy *)
(* that finds it set pushes its job on a redis list, one that does not sets  *)
(* it and sends the job; a task that ends pulls the next jobs from the list, *)
(* or deletes the flag.  Each redis command is atomic, no two of them are.   *)
(* Queues of different tenants, and of indexing and pipelines, share nothing.*)
EXTENDS Naturals, Sequences, FiniteSets

CONSTANTS Job,         \* submissions of one tenant
          Concurrency  \* TENANT_ISOLATED_TASK_CONCURRENCY

ASSUME QueueAssumption == Concurrency \in Nat \ {0}

VARIABLES flag,  \* tenant_..._task:<tenant>
          queue, \* tenant_self_..._task_queue:<tenant>, oldest first
          pc,    \* where each job, and then the task running it, is
          hold,  \* jobs a task that ended has pulled and not yet sent
          hurt   \* history: a worker died or the broker refused a job

vars == <<flag, queue, pc, hold, hurt>>

Elements(s) == {s[i] : i \in 1 .. Len(s)}

Init ==
    /\ flag = FALSE
    /\ queue = <<>>
    /\ pc = [j \in Job |-> "new"]
    /\ hold = [j \in Job |-> <<>>]
    /\ hurt = FALSE

-----------------------------------------------------------------------------
(* _send_to_tenant_queue: reads the flag.                                    *)
ReadFlag(j) ==
    /\ pc[j] = "new"
    /\ pc' = [pc EXCEPT ![j] = IF flag THEN "pushing" ELSE "starting"]
    /\ UNCHANGED <<flag, queue, hold, hurt>>

(* push_tasks.                                                               *)
Push(j) ==
    /\ pc[j] = "pushing"
    /\ queue' = Append(queue, j)
    /\ pc' = [pc EXCEPT ![j] = "queued"]
    /\ UNCHANGED <<flag, hold, hurt>>

(* set_task_waiting_time, then delay: the message reaches the broker, or the *)
(* broker refuses it after the flag was set.                                 *)
Start(j) ==
    /\ pc[j] = "starting"
    /\ flag' = TRUE
    /\ \/ pc' = [pc EXCEPT ![j] = "sent"] /\ UNCHANGED hurt
       \/ pc' = [pc EXCEPT ![j] = "lost"] /\ hurt' = TRUE
    /\ UNCHANGED <<queue, hold>>

(* Celery delivers the task to a worker.                                     *)
Run(j) ==
    /\ pc[j] = "sent"
    /\ pc' = [pc EXCEPT ![j] = "running"]
    /\ UNCHANGED <<flag, queue, hold, hurt>>

(* MUTANT of EndBody: a body that raises ends the task (no finally).         *)
RaisingEndsTask(j) ==
    /\ pc[j] = "running"
    /\ \E next \in {"pulling", "done"} : pc' = [pc EXCEPT ![j] = next]
    /\ UNCHANGED <<flag, queue, hold, hurt>>

(* The task body returns or raises; either way finally pulls the next jobs.  *)
EndBody(j) ==
    /\ pc[j] = "running"
    /\ pc' = [pc EXCEPT ![j] = "pulling"]
    /\ UNCHANGED <<flag, queue, hold, hurt>>

(* MUTANT of Pull: pushed and popped at the same end of the list.            *)
PullNewest(j) ==
    /\ pc[j] = "pulling" /\ Len(hold[j]) < Concurrency
    /\ queue # <<>>
    /\ hold' = [hold EXCEPT ![j] = Append(@, queue[Len(queue)])]
    /\ queue' = SubSeq(queue, 1, Len(queue) - 1)
    /\ UNCHANGED <<flag, pc, hurt>>

(* MUTANT of Pull: the job is read and left in the list.                     *)
PullWithoutRemoving(j) ==
    /\ pc[j] = "pulling" /\ Len(hold[j]) < Concurrency
    /\ queue # <<>>
    /\ hold' = [hold EXCEPT ![j] = Append(@, Head(queue))]
    /\ UNCHANGED <<flag, pc, queue, hurt>>

(* One RPOP of pull_tasks.                                                   *)
Pull(j) ==
    /\ pc[j] = "pulling" /\ Len(hold[j]) < Concurrency
    /\ queue # <<>>
    /\ hold' = [hold EXCEPT ![j] = Append(@, Head(queue))]
    /\ queue' = Tail(queue)
    /\ UNCHANGED <<flag, pc, hurt>>

(* pull_tasks has its count, or the list was empty.                          *)
EndPull(j) ==
    /\ pc[j] = "pulling"
    /\ Len(hold[j]) = Concurrency \/ queue = <<>>
    /\ pc' = [pc EXCEPT ![j] = IF hold[j] = <<>> THEN "clearing" ELSE "passing"]
    /\ UNCHANGED <<flag, queue, hold, hurt>>

(* One turn of the loop over the pulled jobs: refresh the flag and send.     *)
PassOn(j) ==
    /\ pc[j] = "passing"
    /\ flag' = TRUE
    /\ pc' = [pc EXCEPT ![Head(hold[j])] = "sent",
                        ![j] = IF Len(hold[j]) = 1 THEN "done" ELSE "passing"]
    /\ hold' = [hold EXCEPT ![j] = Tail(@)]
    /\ UNCHANGED <<queue, hurt>>

(* The proxy or the worker dies, or the broker refuses a pulled job, after   *)
(* the flag was refreshed for it: the jobs it holds are gone.                *)
Die(j) ==
    /\ pc[j] \in {"pushing", "starting", "running", "pulling", "passing", "clearing"}
    /\ flag' \in {flag, flag \/ pc[j] = "passing"}
    /\ pc' = [k \in Job |-> IF k = j \/ k \in Elements(hold[j]) THEN "lost" ELSE pc[k]]
    /\ hold' = [hold EXCEPT ![j] = <<>>]
    /\ hurt' = TRUE
    /\ UNCHANGED queue

(* MUTANT of ClearFlag: the flag is left to its time to live.                *)
LeaveFlag(j) ==
    /\ pc[j] = "clearing"
    /\ pc' = [pc EXCEPT ![j] = "done"]
    /\ UNCHANGED <<flag, queue, hold, hurt>>

(* delete_task_key.                                                          *)
ClearFlag(j) ==
    /\ pc[j] = "clearing"
    /\ flag' = FALSE
    /\ pc' = [pc EXCEPT ![j] = "done"]
    /\ UNCHANGED <<queue, hold, hurt>>

(* The flag's time to live, one hour from the last set_task_waiting_time.    *)
ExpireFlag ==
    /\ flag
    /\ flag' = FALSE
    /\ UNCHANGED <<queue, pc, hold, hurt>>

TaskStep(j) ==
    \/ Push(j) \/ Start(j) \/ Run(j) \/ EndBody(j)
    \/ Pull(j) \/ EndPull(j) \/ PassOn(j) \/ ClearFlag(j)

Next ==
    \/ ExpireFlag
    \/ \E j \in Job : ReadFlag(j) \/ TaskStep(j) \/ Die(j)

(* Proxies, workers and the broker keep going and every task body ends; no   *)
(* submission is owed, and none is needed for the flag to expire.            *)
Fairness == \A j \in Job : WF_vars(TaskStep(j))

Spec == Init /\ [][Next]_vars /\ Fairness

-----------------------------------------------------------------------------
(* Types; and no task pulls more jobs than configured.                       *)
TypeOK ==
    /\ flag \in BOOLEAN
    /\ queue \in Seq(Job)
    /\ pc \in [Job -> {"new", "pushing", "starting", "queued", "sent", "running",
                       "pulling", "passing", "clearing", "done", "lost"}]
    /\ hold \in [Job -> Seq(Job)]
    /\ \A j \in Job : Len(hold[j]) <= Concurrency
    /\ hurt \in BOOLEAN

Places(j) ==
    {<<i>> : i \in {i \in 1 .. Len(queue) : queue[i] = j}}
      \cup UNION {{<<k, i>> : i \in {i \in 1 .. Len(hold[k]) : hold[k][i] = j}} : k \in Job}

(* A job that waits is in exactly one place, the list or the hands of one    *)
(* task that ended; a job that does not wait is in none.  So no job is sent  *)
(* twice, and none is dropped unless the worker that pulled it died.         *)
OnePlaceEach ==
    \A j \in Job : Cardinality(Places(j)) = IF pc[j] = "queued" THEN 1 ELSE 0

(* Unless a worker died or the broker refused a job, a set flag means that   *)
(* some task of the tenant has yet to end: the flag is never left set with   *)
(* nobody to clear it, to have submissions wait for the end of its hour.     *)
FlagHasTask ==
    flag /\ ~hurt =>
      \E j \in Job : pc[j] \in {"sent", "running", "pulling", "passing", "clearing"}

(* Where the tenant sees a job: in the line, in the hands of a task that     *)
(* ended, on its way to Celery or past it.                                   *)
Stage(j) ==
    CASE pc[j] \in {"new", "pushing", "starting"} -> "submitted"
      [] pc[j] = "queued" -> IF j \in Elements(queue) THEN "waiting" ELSE "taken"
      [] pc[j] = "lost" -> "lost"
      [] OTHER -> "sent"

stage == [j \in Job |-> Stage(j)]

(* To the tenant the flag, the list and the hand-over between tasks are one  *)
(* line: first come, first taken; every job is sent once or lost with the    *)
(* process that had it; and what waits in the line outlives every process.   *)
Contract == INSTANCE JobContract WITH line <- queue
ImplementsContract == Contract!Spec

UnderWay == \E j \in Job : pc[j] \in {"sent", "running"}

(* As long as one task of the tenant is under way, every waiting job's turn  *)
(* comes: tasks that end hand the list on, whichever of them clears the      *)
(* flag, even if it expires, and whatever submissions arrive meanwhile.      *)
WaitingJobSent ==
    \A j \in Job : pc[j] = "queued" /\ UnderWay ~> pc[j] # "queued" \/ hurt
=============================================================================
