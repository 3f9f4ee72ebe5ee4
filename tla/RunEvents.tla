----------------------------- MODULE RunEvents -----------------------------
(* The events of one workflow run on their way from the Celery task that     *)
(* runs it to the SSE responses that watch it, over a topic of the redis     *)
(* broadcast channel.                                                        *)
(*                                                                           *)
(* The response that asked for the run (Requester) also starts the task; the *)
(* others find the run in the database and join later.  The run may pause    *)
(* once, which ends its task, until another task resumes it.  A subscription *)
(* is a listener thread that fills a queue and a consumer that empties it.   *)
(* Redis pub/sub (plain or sharded) delivers from the SUBSCRIBE on; a redis  *)
(* stream is read with XREAD from the last id seen, or from "$".  For either *)
(* transport, wire holds the entries a listener is going to read next.       *)
EXTENDS Naturals, Sequences, SequencesExt

CONSTANTS Watcher, Requester,
          MaxEvents,  \* of a run before its end, or before a task that fails says so
          MayPause,   \* the run has a node that waits for an answer
          QueueMax    \* of a pub/sub subscription; the stream's queue is unbounded

ASSUME EventsAssumption ==
    /\ Requester \in Watcher
    /\ {MaxEvents, QueueMax} \subseteq Nat \ {0}
    /\ MayPause \in BOOLEAN

Close == 0      \* SIG_CLOSE, published on the topic itself

VARIABLES transport, \* PUBSUB_REDIS_CHANNEL_TYPE: "pubsub" (or "sharded"), "streams"
          mode,     \* "live", or "live_on": asked with continue_on_pause
          task,     \* of the run: "none", "queued" to be looked up and set up,
                    \* "started" with its stream, "running" once it has sent
                    \* workflow_started, "failing" to send that and "closing" to
                    \* send a failed workflow_finished, "paused", "over", "failed",
                    \* "lost" before it had a stream, "dead"
          pause,    \* the event that was workflow_paused, 0 before
          ended,    \* the event that was workflow_finished, 0 before
          published, \* how many events were published on the topic
          pc,       \* where each response is; it closes its subscription in
                    \* "finished" after a terminal event, in "broken" after an
                    \* exception, and in "cut" after anything else
          listener, \* its listener thread: "none", "on", "off"
          reading,  \* its listener misses nothing: subscribed, an XREAD is sent, or fixed
          fixed,    \* streams: last_id is the id of an entry, no longer "$"
          wire,     \* entries of the topic that are ahead of its listener
          queue,    \* what the listener has queued for the consumer
          got,      \* the events the response has sent to its client
          dropped,  \* its _dropped_count is not 0
          early     \* history: the task started before Requester was subscribed

setting == <<transport, early, mode>>
Closing == {"finished", "broken", "cut"}
marks == <<pause, ended, published>>
run == <<task, marks>>
link == <<reading, fixed, wire>>
reader == <<listener, link, dropped>>
vars == <<setting, run, pc, reader, queue, got>>

Init ==
    /\ transport \in {"pubsub", "streams"} /\ early = FALSE
    /\ mode = [w \in Watcher |-> "live"]
    /\ task = "none" /\ pause = 0 /\ ended = 0 /\ published = 0
    /\ pc = [w \in Watcher |-> "request"]
    /\ listener = [w \in Watcher |-> "none"]
    /\ reading = [w \in Watcher |-> FALSE] /\ fixed = reading
    /\ wire = [w \in Watcher |-> <<>>] /\ queue = wire /\ got = wire
    /\ dropped = [w \in Watcher |-> FALSE]

Goto(w, from, to) == pc[w] = from /\ pc' = [pc EXCEPT ![w] = to]

-----------------------------------------------------------------------------
(* MUTANT of Submit: the task starts at once on pub/sub too.                 *)
SubmitAndStart ==
    /\ Goto(Requester, "request", "ready")
    /\ task' = "queued"
    /\ UNCHANGED <<setting, marks, reader, queue, got>>

(* _build_streaming_task_on_subscribe: streams start the task at once.       *)
Submit ==
    /\ Goto(Requester, "request", "ready")
    /\ task' = IF transport = "streams" THEN "queued" ELSE task
    /\ UNCHANGED <<setting, marks, reader, queue, got>>

(* The timer of 200 ms, armed by Submit on pub/sub.                          *)
StartByTimer ==
    /\ transport = "pubsub"
    /\ pc[Requester] # "request" /\ task = "none"
    /\ task' = "queued" /\ early' = (pc[Requester] = "ready")
    /\ UNCHANGED <<transport, mode, marks, pc, reader, queue, got>>

(* Another response finds the run in the database, where it is not finished  *)
(* if its task has failed.                                                   *)
FindAs(w, modes) ==
    /\ w # Requester /\ Goto(w, "request", "ready")
    /\ published > 0 \/ task \in {"started", "failing", "dead"}
    /\ ended = 0 \/ task = "failed"
    /\ \E m \in modes : mode' = [mode EXCEPT ![w] = m]
    /\ UNCHANGED <<transport, early, run, reader, queue, got>>

Find(w) == FindAs(w, {"live", "live_on"})

(* The subscription's __enter__: SUBSCRIBE and a listener thread, or only    *)
(* the thread.                                                               *)
Open(w) ==
    /\ Goto(w, "ready", IF w = Requester THEN "opened" ELSE "open")
    /\ listener' = [listener EXCEPT ![w] = "on"]
    /\ reading' = [reading EXCEPT ![w] = transport = "pubsub"]
    /\ UNCHANGED <<setting, run, fixed, wire, dropped, queue, got>>

(* on_subscribe: starts the task unless that was done.                       *)
OnSubscribe ==
    /\ Goto(Requester, "opened", "open")
    /\ task' = IF task = "none" THEN "queued" ELSE task
    /\ UNCHANGED <<setting, marks, reader, queue, got>>

Broadcast(e) == wire' = [w \in Watcher |-> IF reading[w] THEN Append(wire[w], e) ELSE wire[w]]

PublishNext ==
    /\ published' = published + 1
    /\ Broadcast(published + 1)

(* All but the topic, the wires and the task are as before.                  *)
TaskOnly ==
    /\ UNCHANGED <<transport, early, mode, pc, listener, reading, fixed>>
    /\ UNCHANGED <<dropped, queue, got>>

(* The task finds the workflow, the app and the user and gets the stream of  *)
(* events, for a resumed run after its pause was resumed; or it finds them   *)
(* not, cannot resume, or is lost itself, and ends without a word.           *)
LookUp ==
    /\ task = "queued" /\ task' \in {"started", "lost"}
    /\ UNCHANGED <<marks, wire>> /\ TaskOnly

(* The task publishes the next event of its stream: workflow_started or one  *)
(* before it, another one, workflow_paused, or workflow_finished.            *)
Publish ==
    /\ task \in {"started", "running"} /\ PublishNext
    /\ \/ /\ task = "started" /\ published + 1 < MaxEvents
          /\ UNCHANGED <<task, pause, ended>>
       \/ /\ published < MaxEvents /\ task' = "running"
          /\ UNCHANGED <<pause, ended>>
       \/ /\ published < MaxEvents /\ task = "running" /\ MayPause /\ pause = 0
          /\ pause' = published + 1 /\ task' = "paused" /\ UNCHANGED ended
       \/ /\ published > 0
          /\ ended' = published + 1 /\ task' = "over" /\ UNCHANGED pause
    /\ TaskOnly

(* A stream may go on after a pause or the end, with error, message_end or   *)
(* audio events, even while another task has resumed the run.                *)
PublishTail ==
    /\ pause # 0 \/ task = "over"
    /\ published < MaxEvents + (IF ended # 0 THEN 1 ELSE 0) /\ PublishNext
    /\ UNCHANGED <<task, pause, ended>> /\ TaskOnly

(* MUTANT of TaskFails: the exception just ends the task.                    *)
TaskFailsSilently ==
    /\ task \in {"started", "running"} /\ task' = "over"
    /\ UNCHANGED <<marks, wire>> /\ TaskOnly

(* The run raises, or its stream ends, before a terminal event was sent.     *)
TaskFails ==
    /\ task \in {"started", "running"}
    /\ task' = IF task = "started" THEN "failing" ELSE "closing"
    /\ UNCHANGED <<marks, wire>> /\ TaskOnly

(* A failed workflow_finished is published in its place, after a             *)
(* workflow_started unless this task has sent its own.                       *)
PublishFailure ==
    /\ task \in {"failing", "closing"} /\ PublishNext
    /\ IF task = "failing"
       THEN task' = "closing" /\ UNCHANGED ended
       ELSE task' = "failed" /\ ended' = published + 1
    /\ UNCHANGED pause /\ TaskOnly

(* The form was answered: another task is to go on with the run, on its      *)
(* topic.                                                                    *)
Resume ==
    /\ task = "paused" /\ task' = "queued"
    /\ UNCHANGED <<marks, wire>> /\ TaskOnly

-----------------------------------------------------------------------------
(* No entry reaches the listener any more.                                   *)
Unlink(w) ==
    /\ reading' = [reading EXCEPT ![w] = FALSE] /\ fixed' = [fixed EXCEPT ![w] = FALSE]
    /\ wire' = [wire EXCEPT ![w] = <<>>]

(* MUTANT of Enqueue: the queue has no bound.                                *)
EnqueueAlways(q, e) == Append(q, e)

(* MUTANT of Enqueue: a full queue drops what comes, not what is oldest.     *)
EnqueueUnlessFull(q, e) == IF Len(q) < QueueMax THEN Append(q, e) ELSE q

(* _enqueue_message: drops the oldest when the queue is full.                *)
Enqueue(q, e) == Append(IF Len(q) < QueueMax THEN q ELSE Tail(q), e)

(* Pub/sub _listen: one message; SIG_CLOSE is queued too, and ends it.       *)
ListenPubSub(w) ==
    /\ transport = "pubsub" /\ listener[w] = "on" /\ pc[w] \in {"opened", "open"}
    /\ wire[w] # <<>>
    /\ queue' = [queue EXCEPT ![w] = Enqueue(@, Head(wire[w]))]
    /\ dropped' = [dropped EXCEPT ![w] = @ \/ Len(queue[w]) >= QueueMax]
    /\ IF Head(wire[w]) = Close
       THEN Unlink(w) /\ listener' = [listener EXCEPT ![w] = "off"]
       ELSE wire' = [wire EXCEPT ![w] = Tail(@)] /\ UNCHANGED <<listener, reading, fixed>>
    /\ UNCHANGED <<setting, run, pc, got>>

(* Streams _listen: an XREAD from "$" is sent, and may time out.             *)
SendRead(w) ==
    /\ transport = "streams" /\ listener[w] = "on" /\ pc[w] \in {"opened", "open"}
    /\ ~fixed[w] /\ wire[w] = <<>>
    /\ reading' = [reading EXCEPT ![w] = ~@]
    /\ UNCHANGED <<setting, run, pc, listener, fixed, dropped, wire, queue, got>>

(* The loop over the n entries that an XREAD returns before a SIG_CLOSE.     *)
Batch(w, n) ==
    /\ n < Len(wire[w]) => wire[w][n + 1] = Close
    /\ \A i \in 1 .. n : wire[w][i] # Close

(* MUTANT of ReadStream: last_id is moved past the whole result.             *)
ReadStreamToEnd(w) ==
    /\ transport = "streams" /\ listener[w] = "on" /\ pc[w] \in {"opened", "open"}
    /\ wire[w] # <<>>
    /\ queue' = [queue EXCEPT ![w] = @ \o SubSeq(wire[w], 1, 1)]
    /\ wire' = [wire EXCEPT ![w] = <<>>] /\ fixed' = [fixed EXCEPT ![w] = TRUE]
    /\ UNCHANGED <<setting, run, pc, listener, reading, dropped, got>>

(* Streams _listen: an XREAD returns.  SIG_CLOSE ends the loop over its      *)
(* entries, not the thread; last_id stays before it, and "$" if it was the   *)
(* first.                                                                    *)
ReadStream(w) ==
    /\ transport = "streams" /\ listener[w] = "on" /\ pc[w] \in {"opened", "open"}
    /\ wire[w] # <<>>
    /\ \E n \in 0 .. Len(wire[w]) :
          /\ Batch(w, n)
          /\ queue' = [queue EXCEPT ![w] = @ \o SubSeq(wire[w], 1, n)]
          /\ fixed' = [fixed EXCEPT ![w] = @ \/ n > 0]
          /\ reading' = [reading EXCEPT ![w] = fixed'[w]]
          /\ wire' = [wire EXCEPT ![w] =
               IF fixed'[w] THEN SubSeq(@, n + 1, Len(@)) ELSE <<>>]
    /\ UNCHANGED <<setting, run, pc, listener, dropped, got>>

(* The listener sees that the subscription is closed.                        *)
StopListener(w) ==
    /\ listener[w] = "on" /\ pc[w] \in Closing \cup {"left"}
    /\ listener' = [listener EXCEPT ![w] = "off"]
    /\ UNCHANGED <<setting, run, pc, link, dropped, queue, got>>

Listening(w) == ListenPubSub(w) \/ SendRead(w) \/ ReadStream(w) \/ StopListener(w)

-----------------------------------------------------------------------------
(* The response is over; nobody reads what its subscription still holds.     *)
Leave(w, next) ==
    /\ pc' = [pc EXCEPT ![w] = next]
    /\ queue' = [queue EXCEPT ![w] = <<>>] /\ Unlink(w)

(* What it has sent matters no more.                                         *)
Forgotten(w) == got' = [got EXCEPT ![w] = <<>>] /\ dropped' = [dropped EXCEPT ![w] = FALSE]

(* It is over without a terminal event.                                      *)
Stop(w, next) == Leave(w, next) /\ Forgotten(w)

(* The events that end a response.  With continue_on_pause the controllers   *)
(* pass an empty list, so not even workflow_finished does.                   *)
Terminal(w) == IF mode[w] = "live" THEN {pause, ended} ELSE {}

(* stream_topic_events: a message is sent to the client; a terminal one ends *)
(* the response, and SIG_CLOSE, which is no JSON, breaks it.                 *)
Receive(w) ==
    /\ pc[w] = "open" /\ queue[w] # <<>>
    /\ transport = "streams" => listener[w] = "on"
    /\ IF Head(queue[w]) = Close
       THEN Stop(w, "broken")
       ELSE /\ UNCHANGED dropped
            /\ got' = [got EXCEPT ![w] = Append(@, Head(queue[w]))]
            /\ IF Head(queue[w]) \in Terminal(w) THEN Leave(w, "finished")
               ELSE /\ queue' = [queue EXCEPT ![w] = Tail(@)]
                    /\ UNCHANGED <<pc, link>>
    /\ UNCHANGED <<setting, run, listener>>

(* receive raises SubscriptionClosedError once a stream's listener has died, *)
(* before it looks at the queue; the with block finds nothing left to close. *)
FindClosed(w) ==
    /\ transport = "streams" /\ pc[w] = "open" /\ listener[w] = "off"
    /\ Stop(w, "left")
    /\ UNCHANGED <<setting, run, listener>>

(* No message can reach the consumer, or not for long if a task is queued.   *)
Silent(w) ==
    \/ listener[w] = "off"
    \/ /\ task \in {"queued", "paused", "over", "failed", "lost", "dead"}
       /\ wire[w] = <<>>
    \/ fixed[w] /\ wire[w] # <<>> /\ Head(wire[w]) = Close

(* The idle timeout of 300 s.                                                *)
Idle(w) ==
    /\ pc[w] = "open" /\ queue[w] = <<>> /\ Silent(w)
    /\ transport = "streams" => listener[w] = "on"
    /\ Stop(w, "cut")
    /\ UNCHANGED <<setting, run, listener>>

(* The client goes away, before or after the subscription is opened.         *)
Disconnect(w) ==
    /\ \/ pc[w] = "ready" /\ Stop(w, "left")
       \/ pc[w] = "open" /\ Stop(w, "cut")
    /\ UNCHANGED <<setting, run, listener>>

(* close, after it has marked the subscription closed: the control event.    *)
PublishClose(w) ==
    /\ \E how \in Closing : Goto(w, how, "left")
    /\ IF transport = "streams" /\ listener[w] = "off" THEN UNCHANGED wire ELSE Broadcast(Close)
    /\ Forgotten(w) /\ UNCHANGED <<setting, run, listener, reading, fixed, queue>>

-----------------------------------------------------------------------------
(* The task's worker dies, or Redis takes nothing more from it.              *)
TaskDies ==
    /\ task \in {"started", "running", "failing", "closing"} /\ task' = "dead"
    /\ UNCHANGED <<marks, wire>> /\ TaskOnly

(* The listener's redis connection breaks.                                   *)
ListenerDies(w) ==
    /\ listener[w] = "on" /\ pc[w] \in {"opened", "open"}
    /\ listener' = [listener EXCEPT ![w] = "off"] /\ Unlink(w)
    /\ UNCHANGED <<setting, run, pc, dropped, queue, got>>

Consuming(w) == Receive(w) \/ FindClosed(w) \/ Idle(w) \/ PublishClose(w)

Working ==
    \/ LookUp \/ Publish \/ PublishTail \/ Resume
    \/ TaskFails \/ PublishFailure \/ TaskDies

Next ==
    \/ Submit \/ StartByTimer \/ OnSubscribe \/ Working
    \/ \E w \in Watcher :
          \/ Find(w) \/ Open(w) \/ Disconnect(w) \/ ListenerDies(w)
          \/ Listening(w) \/ Consuming(w)

Spec == Init /\ [][Next]_vars

-----------------------------------------------------------------------------
(* Every variable keeps its type, and a pub/sub queue its bound of           *)
(* _buffer_size messages.                                                    *)
TypeOK ==
    /\ transport \in {"pubsub", "streams"}
    /\ task \in {"none", "queued", "started", "running", "failing", "closing",
                "paused", "over", "failed", "lost", "dead"}
    /\ {published, ended, pause} \subseteq 0 .. MaxEvents + 2
    /\ pc \in [Watcher -> {"request", "ready", "opened", "open", "left"} \cup Closing]
    /\ listener \in [Watcher -> {"none", "on", "off"}]
    /\ {reading, fixed, dropped} \subseteq [Watcher -> BOOLEAN] /\ early \in BOOLEAN
    /\ \A w \in Watcher : {wire[w], queue[w]} \subseteq Seq(0 .. MaxEvents + 2)
    /\ got \in [Watcher -> Seq(1 .. MaxEvents + 2)]
    /\ transport = "pubsub" => \A w \in Watcher : Len(queue[w]) <= QueueMax

(* A client sees the run's events in order, none twice, and, if its queue    *)
(* never overflowed, none left out between two it sees: not even when XREAD  *)
(* starts over from "$", or when it returns the same entries again.          *)
NoGap ==
    \A w \in Watcher : \A i \in 1 .. Len(got[w]) - 1 :
       /\ got[w][i] < got[w][i + 1]
       /\ ~dropped[w] => got[w][i + 1] = got[w][i] + 1

(* On pub/sub, a client that has subscribed before the fallback timer starts *)
(* the task sees the whole run, if it gets to the run's pause or end without *)
(* an overflow.                                                              *)
RequesterSeesAll ==
    transport = "pubsub" /\ ~early /\ ~dropped[Requester] /\ pc[Requester] = "finished" =>
      got[Requester] = [i \in 1 .. Len(got[Requester]) |-> i]

(* No response is broken off by what another one does.                       *)
NotCutOff == \A w \in Watcher : pc[w] # "broken"

(* Whatever goes wrong once a task has its stream, its watchers are told, in *)
(* the task that resumes a run as in the first: no task that is past its     *)
(* lookups is over for good without having published a pause or a            *)
(* workflow_finished, unless its worker dies or Redis takes nothing from it. *)
EndAnnounced == <>[](ended # 0 \/ task \in {"none", "queued", "paused", "lost", "dead"})
=============================================================================
