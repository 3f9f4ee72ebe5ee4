----------------------------- MODULE RunStream -----------------------------
(***************************************************************************)
(* One client of dify-agent that follows the events of one run over SSE    *)
(* (Client.stream_events), the server side of its connection               *)
(* (RedisRunStore.iter_events behind the /events/sse route), and the run,  *)
(* whose status and stream behave as RunContract says.  The id of an event *)
(* is its position in the stream, 0 stands for the cursor "0-0".           *)
(***************************************************************************)
EXTENDS Naturals, Sequences

CONSTANTS Run,           \* the run that is followed
          PageLimit,     \* entries one XRANGE or XREAD returns at most
          MaxReconnects, \* max_reconnects of stream_events
          MaxEvents,     \* bound: events the run emits
          MaxDrops       \* bound: connections that break

ASSUME BoundsAssumption ==
  /\ PageLimit \in Nat \ {0} /\ MaxReconnects \in Nat
  /\ MaxEvents \in Nat /\ MaxDrops \in Nat

VARIABLES
  status, events, forgotten, \* the run, as in RunContract
  conn,      \* the server side of the connection
  readPos,   \* cursor of iter_events: last event fetched from Redis
  wire,      \* events fetched but not yet decoded by the client, oldest first
  client,    \* what stream_events is doing
  cursor,    \* its cursor: last event it yielded
  attempts,  \* reconnect_attempts
  received,  \* history: ids of the events it yielded
  drops      \* history: connections that broke

run    == <<status, events, forgotten>>
server == <<conn, readPos, wire>>
reader == <<client, cursor, attempts, received>>
vars   == <<run, server, reader, drops>>

Contract == INSTANCE RunContract WITH Runs <- {Run}

Conn   == {"closed", "requested", "replay", "live"}
Client == {"connecting", "reading", "sleeping", "returned", "not_found", "exhausted"}
Entry(i) == [id |-> i, type |-> events[Run][i]]
Stored == Len(events[Run])

Init ==
  /\ Contract!Init
  /\ conn = "closed" /\ readPos = 0 /\ wire = <<>>
  /\ client = "connecting" /\ cursor = 0 /\ attempts = 0 /\ received = <<>>
  /\ drops = 0

-----------------------------------------------------------------------------
(* The run *)

RunNext ==
  /\ Run \notin forgotten
  /\ \/ Contract!Accept(Run) \/ Contract!Settle(Run)
     \/ Stored < MaxEvents /\ status[Run] # "none"
          /\ \E e \in {"run_started", "pydantic_ai_event"} \cup Contract!Outcome : Contract!Report(Run, e)
  /\ UNCHANGED <<forgotten, server, reader, drops>>

(* The retention ends: the stream is dropped no later than the record, and  *)
(* a run silent for that long writes nothing any more.                      *)
Expire ==
  /\ status[Run] # "none"
  /\ events' = [events EXCEPT ![Run] = <<>>] /\ forgotten' = {Run}
  /\ \/ Run \notin forgotten /\ UNCHANGED status
     \/ status' = [status EXCEPT ![Run] = "none"]
  /\ UNCHANGED <<server, reader, drops>>

-----------------------------------------------------------------------------
(* The server *)

(* The route answers 404 without a record; else the response starts and     *)
(* iter_events begins to replay after the client's cursor.                  *)
Open ==
  /\ conn = "requested"
  /\ IF status[Run] = "none"
     THEN conn' = "closed" /\ client' = "not_found" /\ UNCHANGED readPos
     ELSE conn' = "replay" /\ client' = "reading" /\ readPos' = cursor
  /\ UNCHANGED <<run, wire, cursor, attempts, received, drops>>

(* A page of XRANGE, or an XREAD that found entries, after the cursor. *)
Fetch ==
  /\ conn \in {"replay", "live"} /\ readPos < Stored
  /\ conn = "replay" => status[Run] # "none"
  /\ LET last == IF readPos + PageLimit < Stored THEN readPos + PageLimit ELSE Stored
     IN /\ wire' = wire \o [i \in 1..(last - readPos) |-> Entry(readPos + i)]
        /\ readPos' = last
  /\ UNCHANGED <<run, conn, reader, drops>>

(* Mutant of GoLive: after the replay, XREAD starts at the newest entry. *)
LiveFromNewest ==
  /\ conn = "replay" /\ status[Run] # "none"
  /\ conn' = "live" /\ readPos' = Stored
  /\ UNCHANGED <<run, wire, reader, drops>>

(* An empty page ends the replay; XREAD goes on from the same cursor. *)
GoLive ==
  /\ conn = "replay" /\ status[Run] # "none" /\ readPos >= Stored
  /\ conn' = "live"
  /\ UNCHANGED <<run, readPos, wire, reader, drops>>

-----------------------------------------------------------------------------
(* The client *)

(* A client knows the id of a run that was accepted. *)
Connect ==
  /\ client = "connecting" /\ conn = "closed"
  /\ status[Run] # "none" \/ Run \in forgotten
  /\ conn' = "requested"
  /\ UNCHANGED <<run, readPos, wire, reader, drops>>

(* The stream ended or failed: try again after a delay, or give up. *)
Reconnect ==
  /\ conn' = "closed" /\ wire' = <<>>
  /\ IF attempts >= MaxReconnects
     THEN client' = "exhausted" /\ UNCHANGED attempts
     ELSE client' = "sleeping" /\ attempts' = attempts + 1

(* Mutant of Yield: only a successful outcome ends the iteration. *)
YieldPastFailure ==
  /\ client = "reading" /\ wire # <<>>
  /\ cursor' = Head(wire).id
  /\ received' = Append(received, cursor')
  /\ IF Head(wire).type = "run_succeeded"
     THEN client' = "returned" /\ conn' = "closed" /\ wire' = <<>>
     ELSE wire' = Tail(wire) /\ UNCHANGED <<client, conn>>
  /\ UNCHANGED <<run, readPos, attempts, drops>>

(* Mutant of Yield: any run_ event ends the iteration, run_started too. *)
YieldToRunEvent ==
  /\ client = "reading" /\ wire # <<>>
  /\ cursor' = Head(wire).id
  /\ received' = Append(received, cursor')
  /\ IF Head(wire).type # "pydantic_ai_event"
     THEN client' = "returned" /\ conn' = "closed" /\ wire' = <<>>
     ELSE wire' = Tail(wire) /\ UNCHANGED <<client, conn>>
  /\ UNCHANGED <<run, readPos, attempts, drops>>

(* A frame is complete: the cursor moves, the event is yielded, and an      *)
(* outcome ends the iteration and closes the connection.                    *)
Yield ==
  /\ client = "reading" /\ wire # <<>>
  /\ cursor' = Head(wire).id
  /\ received' = Append(received, cursor')
  /\ IF Head(wire).type \in Contract!Outcome
     THEN client' = "returned" /\ conn' = "closed" /\ wire' = <<>>
     ELSE wire' = Tail(wire) /\ UNCHANGED <<client, conn>>
  /\ UNCHANGED <<run, readPos, attempts, drops>>

Wake ==
  /\ client = "sleeping" /\ client' = "connecting"
  /\ UNCHANGED <<run, server, cursor, attempts, received, drops>>

(* The connection is refused, times out, breaks, answers 5xx or is closed   *)
(* by a server that stops; frames on the wire are lost.                     *)
Drop ==
  /\ conn # "closed" /\ drops < MaxDrops /\ drops' = drops + 1
  /\ Reconnect
  /\ UNCHANGED <<run, readPos, cursor, received>>

(* get_events raises RunNotFoundError in the middle of the response. *)
Vanish ==
  /\ conn = "replay" /\ status[Run] = "none"
  /\ Reconnect
  /\ UNCHANGED <<run, readPos, cursor, received, drops>>

ServerNext == Open \/ Fetch \/ GoLive \/ Vanish
ClientNext == Connect \/ Yield \/ Wake
Next == RunNext \/ Expire \/ ServerNext \/ ClientNext \/ Drop

(* Both event loops run on; nothing makes the run emit or the keys expire. *)
Fairness == WF_vars(Open) /\ WF_vars(Fetch) /\ WF_vars(GoLive) /\ WF_vars(Vanish)
            /\ WF_vars(Connect) /\ WF_vars(Yield) /\ WF_vars(Wake)
Spec == Init /\ [][Next]_vars /\ Fairness

-----------------------------------------------------------------------------
(* Properties *)

(* The variables keep the types given with their declarations. *)
TypeOK ==
  /\ conn \in Conn /\ client \in Client
  /\ readPos \in 0..MaxEvents /\ cursor \in 0..MaxEvents
  /\ wire \in Seq([id : 1..MaxEvents, type : {"run_started", "pydantic_ai_event"} \cup Contract!Outcome])
  /\ attempts \in 0..MaxReconnects /\ received \in Seq(1..MaxEvents) /\ drops \in 0..MaxDrops

(* Across replay, live reads and any number of broken connections the       *)
(* client yields every event once, in the order of the stream, and what is  *)
(* on the wire continues where it stands.                                   *)
ExactlyOnceInOrder ==
  /\ received = [i \in 1..Len(received) |-> i]
  /\ cursor = Len(received)
  /\ \A i \in DOMAIN wire : wire[i].id = cursor + i

(* The client returns with the run's first outcome and with nothing else,   *)
(* although pages are fetched while the run goes on, frames are lost with a *)
(* connection, and shutdown may append a second outcome to a stream.        *)
StopsAtOutcome ==
  Run \notin forgotten =>
    /\ cursor <= Stored
    /\ \A i \in 1..cursor : events[Run][i] \in Contract!Outcome <=> i = cursor /\ client = "returned"
    /\ client = "returned" => cursor > 0

(* Once the run has an outcome the client returns it, unless its connection *)
(* breaks more often than the budget allows or Redis drops the run: then    *)
(* the server waits for entries of a stream that does not exist.            *)
OutcomeIsDelivered ==
  Contract!Ended(Run) ~> client = "returned" \/ Run \in forgotten \/ drops > MaxReconnects

=============================================================================
