---------------------------- MODULE RunContract ----------------------------
(***************************************************************************)
(* What a client that polls the status of an agent run and reads its event *)
(* stream can rely on, with no mention of tasks, locks or shutdown.        *)
(***************************************************************************)
EXTENDS Sequences

CONSTANT Runs   \* run ids

VARIABLES status,    \* what GET /runs/{id} answers, "none" for 404
          events,    \* the stream's event types, oldest first
          forgotten  \* runs whose keys outlived their retention

vars == <<status, events, forgotten>>

Outcome == {"run_succeeded", "run_failed"}
Ended(r) == \E i \in DOMAIN events[r] : events[r][i] \in Outcome

Init ==
  /\ status = [r \in Runs |-> "none"] /\ events = [r \in Runs |-> <<>>]
  /\ forgotten = {}

(* POST /runs answers with a running run. *)
Accept(r) ==
  /\ status[r] = "none" /\ events[r] = <<>>
  /\ status' = [status EXCEPT ![r] = "running"] /\ UNCHANGED events

(* run_started opens the stream, an outcome closes it; only run_failed may  *)
(* follow an outcome.                                                       *)
Report(r, e) ==
  /\ e = "run_started" => events[r] = <<>>
  /\ e \in {"pydantic_ai_event", "run_succeeded"} => events[r] # <<>> /\ ~Ended(r)
  /\ events' = [events EXCEPT ![r] = Append(@, e)] /\ UNCHANGED status

(* The status follows the last outcome of the stream. *)
Settle(r) ==
  /\ events[r] # <<>> /\ status[r] # "none"
  /\ status' = [status EXCEPT ![r] = CASE events[r][Len(events[r])] = "run_succeeded" -> "succeeded"
                                       [] events[r][Len(events[r])] = "run_failed" -> "failed"
                                       [] OTHER -> @]
  /\ UNCHANGED events

(* Nothing is promised about a run once Redis has dropped one of its keys. *)
Forget(r) ==
  /\ forgotten' = forgotten \cup {r}
  /\ \A q \in Runs \ {r} : status'[q] = status[q] /\ events'[q] = events[q]

Next == \E r \in Runs :
  \/ UNCHANGED forgotten /\ (Accept(r) \/ Settle(r))
  \/ UNCHANGED forgotten /\ \E e \in {"run_started", "pydantic_ai_event"} \cup Outcome : Report(r, e)
  \/ Forget(r)

Spec == Init /\ [][Next]_vars
=============================================================================
