---------------------------- MODULE RunSnapshots ----------------------------
(* Responses that ask for the run's state first (include_state_snapshot)     *)
(* join the run of RunEvents.  build_workflow_event_stream reads the run     *)
(* from the database, then subscribes; a thread moves what the subscription  *)
(* receives to a buffer while the snapshot is put together and sent, and     *)
(* the live events follow from the buffer.  Of what the snapshot holds only  *)
(* the pause matters here, which ends a response: the database has no text   *)
(* chunks, iterations or logs, and a message's answer only at its end.       *)
EXTENDS RunEvents

CONSTANT BufferMax   \* the buffer's bound, 2048 in the code

ASSUME BufferAssumption == BufferMax \in Nat \ {0}

VARIABLES since,   \* history: how many events were published when it subscribed
          stage,   \* "none"; "read", or "paused" if the run is found paused; "sent"
          worker,  \* the buffering thread: "none", "on", "off"
          buffer   \* what it has moved to the buffer

snapVars == <<since, stage, worker, buffer>>
allVars == <<vars, snapVars>>

Snapshots(w) == mode[w] \in {"snapshot", "snapshot_on"}

SnapInit ==
    /\ Init
    /\ since = [w \in Watcher |-> 0]
    /\ stage = [w \in Watcher |-> "none"]
    /\ worker = [w \in Watcher |-> "none"]
    /\ buffer = [w \in Watcher |-> <<>>]

-----------------------------------------------------------------------------
(* The status that the run may be read with is "paused": it is written       *)
(* before the pause is published, and again when a task resumes the run.     *)
MayBePaused ==
    MayPause /\ (pause = 0 \/ task \in {"paused", "queued", "lost", "dead"})

(* The run is read; its pause with it, unless loading that fails.            *)
(* continue_on_pause is the same as its absence if the run has none.         *)
ReadRun(w) ==
    /\ FindAs(w, IF MayPause THEN {"snapshot", "snapshot_on"} ELSE {"snapshot"})
    /\ \E s \in IF MayBePaused THEN {"read", "paused"} ELSE {"read"} :
          stage' = [stage EXCEPT ![w] = s]
    /\ UNCHANGED <<since, worker, buffer>>

(* The subscription is opened, and _start_buffering starts the thread.  What *)
(* was published since the run was read is lost.                             *)
Subscribe(w) ==
    /\ Snapshots(w) /\ Open(w)
    /\ worker' = [worker EXCEPT ![w] = "on"]
    /\ since' = [since EXCEPT ![w] = published]
    /\ UNCHANGED <<stage, buffer>>

(* MUTANT of Moved: events are kept only once the snapshot was sent.         *)
MovedWhenSent(w, e) ==
    IF e = Close \/ stage[w] # "sent" THEN buffer[w]
    ELSE Append(IF Len(buffer[w]) < BufferMax THEN buffer[w] ELSE Tail(buffer[w]), e)

(* The buffer after an event: SIG_CLOSE is no JSON and is skipped, a full    *)
(* buffer drops its oldest event.                                            *)
Moved(w, e) ==
    IF e = Close THEN buffer[w]
    ELSE Append(IF Len(buffer[w]) < BufferMax THEN buffer[w] ELSE Tail(buffer[w]), e)

(* The buffering thread receives a message.                                  *)
Move(w) ==
    /\ worker[w] = "on" /\ pc[w] = "open" /\ queue[w] # <<>>
    /\ transport = "streams" => listener[w] = "on"
    /\ queue' = [queue EXCEPT ![w] = Tail(@)]
    /\ buffer' = [buffer EXCEPT ![w] = Moved(w, Head(queue[w]))]
    /\ dropped' = [dropped EXCEPT ![w] =
         @ \/ (Head(queue[w]) # Close /\ Len(buffer[w]) = BufferMax)]
    /\ UNCHANGED <<setting, run, pc, listener, link, got>>
    /\ UNCHANGED <<since, stage, worker>>

(* It is told to stop, or receive raises as the subscription is closed.      *)
StopMoving(w) ==
    /\ worker[w] = "on"
    /\ \/ pc[w] \in Closing \cup {"left"}
       \/ transport = "streams" /\ listener[w] = "off"
    /\ worker' = [worker EXCEPT ![w] = "off"]
    /\ UNCHANGED <<vars, since, stage, buffer>>

-----------------------------------------------------------------------------
(* The buffer is dropped with the response.                                  *)
Forget(w) ==
    /\ buffer' = [buffer EXCEPT ![w] = <<>>]
    /\ stage' = [stage EXCEPT ![w] = "none"]

(* The snapshot is sent; a pause in it ends the response.                    *)
SendSnapshot(w) ==
    /\ pc[w] = "open" /\ stage[w] \in {"read", "paused"}
    /\ IF stage[w] = "paused" /\ mode[w] = "snapshot"
       THEN Leave(w, "finished") /\ Forget(w)
       ELSE /\ stage' = [stage EXCEPT ![w] = "sent"]
            /\ UNCHANGED <<pc, queue, link, buffer>>
    /\ UNCHANGED <<setting, run, listener, dropped, got, since, worker>>

(* The events that end the response now.                                     *)
Ending(w) == IF mode[w] = "snapshot" THEN {pause, ended} ELSE {ended}

(* A buffered event is sent.                                                 *)
SendLive(w) ==
    /\ pc[w] = "open" /\ stage[w] = "sent" /\ buffer[w] # <<>>
    /\ got' = [got EXCEPT ![w] = Append(@, Head(buffer[w]))]
    /\ IF Head(buffer[w]) \in Ending(w)
       THEN Leave(w, "finished") /\ Forget(w)
       ELSE /\ buffer' = [buffer EXCEPT ![w] = Tail(@)]
            /\ UNCHANGED <<pc, queue, link, stage>>
    /\ UNCHANGED <<setting, run, listener, dropped, since, worker>>

(* MUTANT of GiveUp: a thread that has ended is not noticed.                 *)
GiveUpWhenIdle(w) ==
    /\ pc[w] = "open" /\ stage[w] = "sent" /\ buffer[w] = <<>>
    /\ worker[w] = "on" /\ queue[w] = <<>> /\ Silent(w)
    /\ Stop(w, "cut") /\ Forget(w)
    /\ UNCHANGED <<setting, run, listener, since, worker>>

(* Nothing is buffered: the thread has ended, or nothing comes for 300 s.    *)
GiveUp(w) ==
    /\ pc[w] = "open" /\ stage[w] = "sent" /\ buffer[w] = <<>>
    /\ worker[w] = "off" \/ (queue[w] = <<>> /\ Silent(w))
    /\ Stop(w, "cut") /\ Forget(w)
    /\ UNCHANGED <<setting, run, listener, since, worker>>

Moving(w) == Move(w) \/ StopMoving(w)
Sending(w) == SendSnapshot(w) \/ SendLive(w) \/ GiveUp(w)

(* Steps of RunEvents that every response takes, and those of one that asked *)
(* for the live events only; a snapshot's events pass through the buffer.    *)
Common(w) == Find(w) \/ ListenerDies(w) \/ Listening(w)
Starting(w) == w = Requester /\ OnSubscribe
LiveOnly(w) == ~Snapshots(w) /\ (Receive(w) \/ FindClosed(w) \/ Idle(w))
Responding(w) ==
    \/ Sending(w)
    \/ (Starting(w) \/ LiveOnly(w)) /\ UNCHANGED snapVars
    \/ PublishClose(w) /\ since' = [since EXCEPT ![w] = 0] /\ UNCHANGED <<stage, worker, buffer>>

SnapNext ==
    \/ /\ \/ Submit \/ StartByTimer \/ Working
          \/ \E w \in Watcher : Common(w) \/ (~Snapshots(w) /\ Open(w))
       /\ UNCHANGED snapVars
    \/ \E w \in Watcher :
          \/ ReadRun(w) \/ Subscribe(w) \/ Moving(w) \/ Responding(w)
          \/ (Disconnect(w) /\ Forget(w) /\ UNCHANGED <<since, worker>>)

(* What goes on of itself: a task that has its stream, the threads, the idle *)
(* timeout.  Nobody has to ask, join or leave.  One fairness condition  *)
(* is as strong as one for each, as there are finitely many of these steps.  *)
Progress ==
    \/ (Publish \/ PublishFailure) /\ UNCHANGED snapVars
    \/ \E w \in Watcher :
          \/ (ListenPubSub(w) \/ ReadStream(w) \/ StopListener(w)) /\ UNCHANGED snapVars
          \/ Moving(w) \/ Responding(w)

SnapSpec == SnapInit /\ [][SnapNext]_allVars /\ WF_allVars(Progress)

-----------------------------------------------------------------------------
(* Every variable keeps its type and the buffer its bound.                   *)
AllTypesOK ==
    /\ TypeOK
    /\ since \in [Watcher -> 0 .. MaxEvents + 2]
    /\ stage \in [Watcher -> {"none", "read", "paused", "sent"}]
    /\ worker \in [Watcher -> {"none", "on", "off"}]
    /\ \A w \in Watcher : buffer[w] \in Seq(1 .. MaxEvents + 2) /\ Len(buffer[w]) <= BufferMax

(* The live events join on to the subscription, whose place in the run the   *)
(* snapshot comes before: a late client has been sent every event that was   *)
(* published after it subscribed, up to the last it was sent, although it    *)
(* was made to wait for the snapshot, unless a queue overflowed.             *)
LateWatcherSeesAll ==
    \A w \in Watcher :
       Snapshots(w) /\ transport = "pubsub" /\ ~dropped[w] /\ got[w] # <<>> =>
         Range(got[w]) = since[w] + 1 .. Last(got[w])

(* What is sent, and what is ahead of it.                                    *)
Held(w) == Range(got[w]) \cup Range(buffer[w]) \cup Range(queue[w]) \cup Range(wire[w])

(* The end of the run is not lost to a full queue or buffer: a client that   *)
(* was there before has seen it or has it ahead, until the events after it   *)
(* alone would fill the queue or the buffer.                                 *)
EndKept ==
    \A w \in Watcher :
       /\ transport = "pubsub" /\ pc[w] = "open" /\ listener[w] = "on"
       /\ ended # 0 /\ got[w] # <<>> /\ got[w][1] <= ended
       /\ published - ended < QueueMax
       /\ Snapshots(w) => published - ended < BufferMax
       => ended \in Held(w)

(* No response, thread or connection is left behind for good, whoever dies   *)
(* or leaves.                                                                *)
AllThreadsEnd ==
    <>[](\A w \in Watcher :
           /\ "on" \notin {listener[w], worker[w]}
           /\ pc[w] \in {"request", "ready", "left"})
=============================================================================
