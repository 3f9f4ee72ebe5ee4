---------------------------- MODULE JobContract ----------------------------
(***************************************************************************)
(* What a tenant that submits jobs can rely on, with no mention of flags,  *)
(* workers or Celery: the jobs made to wait leave the line in the order    *)
(* they joined it, nothing that stands in the line is lost, no job is sent *)
(* twice, and none that was lost comes back.                               *)
(***************************************************************************)
EXTENDS Sequences

CONSTANT Job   \* submissions of one tenant

VARIABLES line,  \* jobs that wait, oldest first
          stage  \* "submitted", "waiting", "taken", "sent" or "lost"

vars == <<line, stage>>

Init ==
  /\ line = <<>>
  /\ stage = [j \in Job |-> "submitted"]

(* A submission that may not start yet joins the end of the line. *)
Wait(j) ==
  /\ stage[j] = "submitted"
  /\ line' = Append(line, j) /\ stage' = [stage EXCEPT ![j] = "waiting"]

(* A worker takes the job that has waited longest. *)
Take ==
  /\ line # <<>>
  /\ line' = Tail(line) /\ stage' = [stage EXCEPT ![Head(line)] = "taken"]

(* Nobody jumps the line: only a submission that never waited, or a job a  *)
(* worker took, is sent.                                                   *)
Send(j) ==
  /\ stage[j] \in {"submitted", "taken"}
  /\ stage' = [stage EXCEPT ![j] = "sent"] /\ UNCHANGED line

(* One failure may lose several jobs, but none that stands in the line. *)
Lose(S) ==
  /\ \A j \in S : stage[j] # "waiting"
  /\ stage' = [j \in Job |-> IF j \in S THEN "lost" ELSE stage[j]] /\ UNCHANGED line

Next ==
  \/ Take
  \/ \E j \in Job : Wait(j) \/ Send(j)
  \/ \E S \in SUBSET Job : Lose(S)

Spec == Init /\ [][Next]_vars
=============================================================================
