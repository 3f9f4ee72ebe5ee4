--------------------------- MODULE RunStreamProofs ---------------------------
(* Proofs about the event stream of one run, for any page size, reconnect    *)
(* budget and length of the stream: types; the client yields every event     *)
(* once, in order, and stops at the first outcome; the run keeps RunContract;*)
(* and what RunContract says of a status and its event.                      *)
EXTENDS RunStream, TLAPS

EventType == {"run_started", "pydantic_ai_event"} \cup Contract!Outcome
Frame == [id : 1..MaxEvents, type : EventType]

(* The stream never outgrows the bound.                                      *)
StreamInv ==
  /\ events \in [{Run} -> Seq(EventType)]
  /\ Stored <= MaxEvents

(* A response is open exactly while the client reads it; then what is on the *)
(* wire leads from the client's cursor to the server's.                      *)
ResponseInv ==
  /\ client = "reading" <=> conn \in {"replay", "live"}
  /\ conn \in {"closed", "requested"} => wire = <<>>
  /\ conn \in {"replay", "live"} => readPos = cursor + Len(wire)

StreamAndReader == TypeOK /\ StreamInv /\ ResponseInv /\ ExactlyOnceInOrder

LEMMA Types ==
    ASSUME StreamAndReader
    PROVE  /\ Stored \in Nat /\ events[Run] \in Seq(EventType)
           /\ \A i \in 1..Stored : events[Run][i] \in EventType
           /\ wire \in Seq(Frame) /\ Len(wire) \in Nat /\ DOMAIN wire = 1..Len(wire)
           /\ readPos \in Nat /\ cursor \in Nat /\ Len(received) \in Nat /\ received \in Seq(1..MaxEvents)
           /\ conn \in Conn /\ client \in Client
BY BoundsAssumption DEF StreamAndReader, TypeOK, StreamInv, Stored, Frame, EventType

LEMMA StreamInit == Init => StreamAndReader
<1>. SUFFICES ASSUME Init PROVE StreamAndReader
  OBVIOUS
<1>1. wire = <<>> /\ received = <<>> /\ events[Run] = <<>> /\ cursor = 0 /\ readPos = 0
  BY DEF Init, Contract!Init
<1>2. TypeOK
  BY <1>1, BoundsAssumption DEF Init, TypeOK, Conn, Client
<1>3. StreamInv
  <2>1. events = [q \in {Run} |-> <<>>] /\ <<>> \in Seq(EventType)
    BY DEF Init, Contract!Init
  <2>2. events \in [{Run} -> Seq(EventType)]
    BY <2>1
  <2>3. Stored = 0
    BY <1>1 DEF Stored
  <2>. QED  BY <2>2, <2>3, BoundsAssumption DEF StreamInv
<1>4. ResponseInv /\ ExactlyOnceInOrder
  BY <1>1 DEF Init, ResponseInv, ExactlyOnceInOrder
<1>. QED
  BY <1>2, <1>3, <1>4 DEF StreamAndReader

(* The run's own steps leave the connection and the reader alone.            *)
LEMMA RunSteps == ASSUME StreamAndReader, RunNext \/ Expire PROVE StreamAndReader'
<1>. USE DEF StreamAndReader
<1>1. UNCHANGED <<server, reader, drops>>
  BY DEF RunNext, Expire
<1>2. TypeOK' /\ ResponseInv' /\ ExactlyOnceInOrder'
  BY <1>1 DEF TypeOK, ResponseInv, ExactlyOnceInOrder, server, reader
<1>3. ASSUME RunNext PROVE StreamInv'
  <2>1. CASE Contract!Accept(Run)
    BY <1>3, <2>1 DEF RunNext, Contract!Accept, StreamInv, Stored
  <2>2. CASE Contract!Settle(Run)
    BY <1>3, <2>2 DEF RunNext, Contract!Settle, StreamInv, Stored
  <2>3. ASSUME NEW e \in EventType, Contract!Report(Run, e), Stored < MaxEvents PROVE StreamInv'
    <3>1. events' = [events EXCEPT ![Run] = Append(@, e)] /\ UNCHANGED <<status, forgotten>>
      BY <1>3, <2>3 DEF RunNext, Contract!Report
    <3>2. events'[Run] = Append(events[Run], e) /\ events[Run] \in Seq(EventType)
      BY <3>1 DEF StreamInv
    <3>3. Len(events'[Run]) = Stored + 1 /\ events'[Run] \in Seq(EventType) /\ Stored \in Nat
      BY <3>2 DEF Stored
    <3>4. events' \in [{Run} -> Seq(EventType)]
      BY <3>1, <3>3 DEF StreamInv
    <3>. QED  BY <2>3, <3>1, <3>3, <3>4, BoundsAssumption DEF StreamInv, Stored
  <2>. QED  BY <1>3, <2>1, <2>2, <2>3 DEF RunNext, EventType
<1>4. ASSUME Expire PROVE StreamInv'
  <2>1. events' \in [{Run} -> Seq(EventType)] /\ Len(events'[Run]) = 0
    BY <1>4 DEF Expire, StreamInv
  <2>. QED  BY <2>1, BoundsAssumption DEF StreamInv, Stored
<1>. QED
  BY <1>2, <1>3, <1>4

LEMMA EmptyIsSeq == ASSUME NEW S PROVE <<>> \in Seq(S)
OBVIOUS

LEMMA ConcatFacts ==
    ASSUME NEW S, NEW s \in Seq(S), NEW t \in Seq(S)
    PROVE  /\ s \o t \in Seq(S) /\ Len(s \o t) = Len(s) + Len(t)
           /\ \A i \in 1..Len(s \o t) : (s \o t)[i] = IF i <= Len(s) THEN s[i] ELSE t[i - Len(s)]
OBVIOUS

LEMMA FetchStep == ASSUME StreamAndReader, Fetch PROVE StreamAndReader'
<1>. USE DEF StreamAndReader
<1>. DEFINE last == IF readPos + PageLimit < Stored THEN readPos + PageLimit ELSE Stored
            page == [i \in 1..(last - readPos) |-> Entry(readPos + i)]
<1>1. /\ conn \in {"replay", "live"} /\ readPos < Stored
      /\ wire' = wire \o page /\ readPos' = last
      /\ UNCHANGED <<run, conn, reader, drops>>
  BY DEF Fetch
<1>2. last \in readPos + 1 .. Stored /\ last - readPos \in Nat /\ Stored <= MaxEvents
  BY SMTT(30), <1>1, Types, BoundsAssumption DEF StreamInv
<1>. HIDE DEF last
<1>3. page \in Seq(Frame) /\ Len(page) = last - readPos /\ \A i \in 1..(last - readPos) : page[i].id = readPos + i
  <2>1. ASSUME NEW i \in 1..(last - readPos) PROVE Entry(readPos + i) \in Frame /\ Entry(readPos + i).id = readPos + i
    <3>1. readPos + i \in 1..Stored /\ readPos + i \in 1..MaxEvents
      BY SMTT(30), <1>2, Types, BoundsAssumption
    <3>. QED  BY <3>1, Types DEF Entry, Frame
  <2>. QED  BY <1>2, <2>1
<1>. HIDE DEF page
<1>4. /\ wire' \in Seq(Frame) /\ Len(wire') = Len(wire) + (last - readPos)
      /\ \A i \in 1..Len(wire') : wire'[i] = IF i <= Len(wire) THEN wire[i] ELSE page[i - Len(wire)]
  <2>1. wire \in Seq(Frame)
    BY Types
  <2>2. /\ wire \o page \in Seq(Frame) /\ Len(wire \o page) = Len(wire) + Len(page)
        /\ \A i \in 1..Len(wire \o page) : (wire \o page)[i] = IF i <= Len(wire) THEN wire[i] ELSE page[i - Len(wire)]
    BY <1>3, <2>1, ConcatFacts
  <2>. QED  BY <1>1, <1>3, <2>2
<1>5. readPos = cursor + Len(wire)
  BY <1>1 DEF ResponseInv
<1>6. TypeOK'
  <2>1. readPos' \in 0..MaxEvents
    BY <1>1, <1>2, Types, BoundsAssumption
  <2>. QED  BY <1>1, <1>4, <2>1 DEF TypeOK, reader, Frame, EventType
<1>7. StreamInv'
  BY <1>1 DEF StreamInv, Stored, run
<1>8. ResponseInv'
  <2>1. readPos' = cursor' + Len(wire')
    <3>1. last \in Nat /\ readPos \in Nat /\ cursor \in Nat /\ Len(wire) \in Nat /\ cursor' = cursor
      BY <1>1, <1>2, Types DEF reader
    <3>. QED  BY <1>1, <1>4, <1>5, <3>1
  <2>. QED  BY <1>1, <2>1 DEF ResponseInv, reader
<1>9. ExactlyOnceInOrder'
  <2>1. ASSUME NEW i \in 1..Len(wire') PROVE wire'[i].id = cursor + i
    <3>1. CASE i <= Len(wire)
      <4>1. wire'[i] = wire[i] /\ i \in DOMAIN wire
        BY <1>4, <3>1, Types
      <4>. QED  BY <4>1 DEF ExactlyOnceInOrder
    <3>2. CASE i > Len(wire)
      <4>1. i - Len(wire) \in 1..(last - readPos)
        BY SMTT(30), <1>2, <1>4, <3>2, Types
      <4>. QED  BY SMTT(30), <1>3, <1>4, <1>5, <3>2, <4>1, Types
    <3>. QED  BY <3>1, <3>2, Types
  <2>. QED  BY <1>1, <1>4, <2>1 DEF ExactlyOnceInOrder, reader
<1>. QED
  BY <1>6, <1>7, <1>8, <1>9

LEMMA YieldStep == ASSUME StreamAndReader, Yield PROVE StreamAndReader'
<1>. USE DEF StreamAndReader
<1>1. /\ client = "reading" /\ wire # <<>> /\ cursor' = Head(wire).id
      /\ received' = Append(received, Head(wire).id) /\ UNCHANGED <<run, readPos, attempts, drops>>
  BY DEF Yield
<1>2. /\ Len(wire) \in Nat \ {0} /\ Head(wire) = wire[1] /\ wire[1] \in Frame
      /\ Tail(wire) \in Seq(Frame) /\ Len(Tail(wire)) = Len(wire) - 1
      /\ \A i \in 1..Len(wire) - 1 : Tail(wire)[i] = wire[i + 1]
  BY <1>1, Types
<1>3. cursor' = cursor + 1 /\ cursor' \in 1..MaxEvents
  <2>1. 1 \in DOMAIN wire
    BY <1>2, Types
  <2>2. wire[1].id = cursor + 1
    BY <2>1 DEF ExactlyOnceInOrder
  <2>. QED  BY <1>1, <1>2, <2>2 DEF Frame
<1>4. \/ client' = "returned" /\ conn' = "closed" /\ wire' = <<>>
      \/ wire' = Tail(wire) /\ UNCHANGED <<client, conn>>
  BY DEF Yield
<1>5. /\ received' \in Seq(1..MaxEvents) /\ Len(received') = Len(received) + 1
      /\ \A i \in 1..Len(received') : received'[i] = i
  <2>1. received' = Append(received, cursor + 1) /\ cursor = Len(received)
    BY <1>1, <1>3 DEF ExactlyOnceInOrder
  <2>2. \A i \in 1..Len(received) : received[i] = i
    BY DEF ExactlyOnceInOrder
  <2>. QED  BY <1>3, <2>1, <2>2, Types
<1>6. TypeOK'
  <2>1. wire' \in Seq(Frame)
    BY <1>2, <1>4, EmptyIsSeq
  <2>2. conn' \in Conn /\ client' \in Client
    BY <1>4, Types DEF Conn, Client
  <2>3. cursor' \in 0..MaxEvents
    BY <1>3, BoundsAssumption
  <2>. QED  BY <1>1, <1>5, <2>1, <2>2, <2>3 DEF TypeOK, Frame, EventType
<1>7. StreamInv'
  BY <1>1 DEF StreamInv, Stored, run
<1>8. ResponseInv'
  <2>1. readPos = cursor + Len(wire) /\ conn \in {"replay", "live"}
    BY <1>1 DEF ResponseInv
  <2>2. CASE wire' = Tail(wire) /\ UNCHANGED <<client, conn>>
    <3>1. Len(wire') = Len(wire) - 1 /\ Len(wire) \in Nat /\ cursor \in Nat
      BY <1>2, <2>2, Types
    <3>2. readPos' = cursor' + Len(wire')
      BY <1>1, <1>3, <2>1, <3>1
    <3>. QED  BY <1>1, <2>1, <2>2, <3>2 DEF ResponseInv
  <2>3. CASE client' = "returned" /\ conn' = "closed" /\ wire' = <<>>
    BY <2>3 DEF ResponseInv
  <2>. QED  BY <1>4, <2>2, <2>3
<1>9. ExactlyOnceInOrder'
  <2>1. received' = [i \in 1..Len(received') |-> i]
    BY <1>5
  <2>2. cursor' = Len(received')
    BY <1>3, <1>5 DEF ExactlyOnceInOrder
  <2>3. \A i \in DOMAIN wire' : wire'[i].id = cursor' + i
    <3>1. ASSUME wire' = Tail(wire), NEW i \in DOMAIN wire' PROVE wire'[i].id = cursor' + i
      <4>1. i \in 1..Len(wire) - 1
        BY <1>2, <3>1
      <4>2. wire'[i] = wire[i + 1] /\ i + 1 \in DOMAIN wire
        BY <1>2, <3>1, <4>1, Types
      <4>3. wire[i + 1].id = cursor + (i + 1)
        BY <4>2 DEF ExactlyOnceInOrder
      <4>. QED  BY <1>3, <4>1, <4>2, <4>3, Types
    <3>. QED  BY <1>4, <3>1
  <2>. QED  BY <2>1, <2>2, <2>3 DEF ExactlyOnceInOrder
<1>. QED
  BY <1>6, <1>7, <1>8, <1>9

(* Connections are opened, go live, break and are taken up again; nothing is *)
(* put on the wire or yielded.                                               *)
LEMMA ConnectionStep ==
    ASSUME StreamAndReader, Open \/ GoLive \/ Connect \/ Wake \/ Drop \/ Vanish
    PROVE  StreamAndReader'
<1>. USE DEF StreamAndReader
<1>1. UNCHANGED <<run, cursor, received>> /\ (wire' = wire \/ wire' = <<>>)
  BY DEF Open, GoLive, Connect, Wake, Drop, Vanish, Reconnect, reader, server
<1>2. TypeOK'
  <2>1. conn' \in Conn /\ client' \in Client
    BY Types DEF Open, GoLive, Connect, Wake, Drop, Vanish, Reconnect, reader, server, Conn, Client
  <2>2. readPos' \in 0..MaxEvents
    BY DEF TypeOK, Open, GoLive, Connect, Wake, Drop, Vanish, reader, server
  <2>3. attempts' \in 0..MaxReconnects
    BY BoundsAssumption DEF TypeOK, Open, GoLive, Connect, Wake, Drop, Vanish, Reconnect, reader
  <2>4. drops' \in 0..MaxDrops
    BY BoundsAssumption DEF TypeOK, Open, GoLive, Connect, Wake, Drop, Vanish
  <2>5. wire' \in Seq(Frame)
    BY <1>1, Types, EmptyIsSeq
  <2>. QED  BY <1>1, <2>1, <2>2, <2>3, <2>4, <2>5 DEF TypeOK, Frame, EventType
<1>3. StreamInv'
  BY <1>1 DEF StreamInv, Stored, run
<1>4. ResponseInv'
  <2>1. CASE Open
    BY <2>1, Types DEF Open, ResponseInv
  <2>2. CASE GoLive \/ Connect \/ Wake
    BY <2>2 DEF GoLive, Connect, Wake, ResponseInv, reader, server
  <2>3. CASE Drop \/ Vanish
    BY <2>3 DEF Drop, Vanish, Reconnect, ResponseInv
  <2>. QED  BY <2>1, <2>2, <2>3
<1>5. ExactlyOnceInOrder'
  BY <1>1 DEF ExactlyOnceInOrder
<1>. QED
  BY <1>2, <1>3, <1>4, <1>5

LEMMA StreamNext == StreamAndReader /\ [Next]_vars => StreamAndReader'
<1>1. ASSUME StreamAndReader, UNCHANGED vars PROVE StreamAndReader'
  BY <1>1 DEF StreamAndReader, vars, run, server, reader, TypeOK, StreamInv, ResponseInv,
              ExactlyOnceInOrder, Stored
<1>. QED
  BY <1>1, RunSteps, FetchStep, YieldStep, ConnectionStep DEF Next, ServerNext, ClientNext

(* Cursors stay within the stream, and no more reconnects are counted than   *)
(* max_reconnects allows.                                                    *)
THEOREM StreamTypeCorrect == Spec => []TypeOK
<1>1. StreamAndReader => TypeOK
  BY DEF StreamAndReader
<1>. QED
  BY <1>1, StreamInit, StreamNext, PTL DEF Spec

(* Client.stream_events yields every event once, in the order of the stream, *)
(* whatever the page size, however often the connection breaks and whether   *)
(* Redis drops the run meanwhile.                                            *)
THEOREM YieldsExactlyOnceInOrder == Spec => []ExactlyOnceInOrder
<1>1. StreamAndReader => ExactlyOnceInOrder
  BY DEF StreamAndReader
<1>. QED
  BY <1>1, StreamInit, StreamNext, PTL DEF Spec

-----------------------------------------------------------------------------
(* The client stops at the first outcome.                                    *)

(* While the stream exists the wire carries entries of it; and a client that *)
(* has returned or sleeps has no request under way.                          *)
WireInv ==
  /\ conn = "requested" => client = "connecting"
  /\ Run \notin forgotten =>
       \A i \in 1..Len(wire) : wire[i].id \in 1..Stored /\ wire[i].type = events[Run][wire[i].id]

StopInv == StreamAndReader /\ WireInv /\ StopsAtOutcome

LEMMA AppendGives ==
    ASSUME NEW S, NEW s \in Seq(S), NEW e \in S
    PROVE  /\ Append(s, e) \in Seq(S) /\ Len(Append(s, e)) = Len(s) + 1 /\ Len(s) \in Nat
           /\ \A i \in 1..Len(s) : Append(s, e)[i] = s[i]
           /\ Append(s, e)[Len(s) + 1] = e
OBVIOUS

(* A run only appends to its stream.                                         *)
LEMMA RunAppends ==
    ASSUME StreamAndReader, RunNext
    PROVE  Stored' >= Stored /\ \A i \in 1..Stored : events'[Run][i] = events[Run][i]
<1>1. CASE UNCHANGED events
  BY <1>1, Types DEF Stored
<1>2. ASSUME NEW e \in EventType, Contract!Report(Run, e)
      PROVE  Stored' >= Stored /\ \A i \in 1..Stored : events'[Run][i] = events[Run][i]
  <2>1. events' = [events EXCEPT ![Run] = Append(@, e)]
    BY <1>2 DEF Contract!Report
  <2>2. events'[Run] = Append(events[Run], e) /\ events[Run] \in Seq(EventType)
    BY <2>1 DEF StreamAndReader, StreamInv
  <2>. QED  BY <2>2, AppendGives DEF Stored
<1>. QED
  BY <1>1, <1>2 DEF RunNext, EventType, Contract!Accept, Contract!Settle

(* What was yielded and what is on the wire stays as it is while the run     *)
(* goes on.                                                                  *)
LEMMA StopRun == ASSUME StopInv, RunNext \/ Expire PROVE WireInv' /\ StopsAtOutcome'
<1>1. UNCHANGED <<conn, client, cursor, wire>>
  BY DEF RunNext, Expire, server, reader
<1>2. CASE Expire
  BY <1>1, <1>2 DEF Expire, StopInv, WireInv, StopsAtOutcome
<1>3. CASE RunNext
  <2>1. Run \notin forgotten /\ UNCHANGED forgotten
    BY <1>3 DEF RunNext
  <2>2. Stored \in Nat /\ Stored' \in Nat /\ cursor \in Nat /\ cursor <= Stored
    <3>1. StreamAndReader'
      BY RunSteps DEF StopInv
    <3>2. Stored' \in Nat
      BY <3>1 DEF StreamAndReader, StreamInv, Stored
    <3>. QED  BY <2>1, <3>2, Types DEF StopInv, StopsAtOutcome
  <2>3. Stored' >= Stored /\ \A i \in 1..Stored : events'[Run][i] = events[Run][i]
    BY <1>3, RunAppends DEF StopInv
  <2>4. ASSUME NEW i \in 1..Len(wire)
        PROVE  wire[i].id \in 1..Stored' /\ wire[i].type = events'[Run][wire[i].id]
    <3>1. wire[i].id \in 1..Stored /\ wire[i].type = events[Run][wire[i].id]
      BY <2>1 DEF StopInv, WireInv
    <3>. QED  BY <2>2, <2>3, <3>1
  <2>5. ASSUME NEW i \in 1..cursor PROVE events'[Run][i] = events[Run][i]
    BY <2>2, <2>3
  <2>6. WireInv'
    BY <1>1, <2>4 DEF StopInv, WireInv
  <2>7. StopsAtOutcome'
    BY <1>1, <2>1, <2>2, <2>3, <2>5 DEF StopInv, StopsAtOutcome
  <2>. QED  BY <2>6, <2>7
<1>. QED
  BY <1>2, <1>3

LEMMA StopFetch == ASSUME StopInv, Fetch PROVE WireInv' /\ StopsAtOutcome'
<1>. DEFINE last == IF readPos + PageLimit < Stored THEN readPos + PageLimit ELSE Stored
            page == [i \in 1..(last - readPos) |-> Entry(readPos + i)]
<1>1. /\ readPos < Stored /\ wire' = wire \o page
      /\ UNCHANGED <<conn, client, cursor, events, forgotten>>
  BY DEF Fetch, run, reader
<1>2. last \in readPos + 1 .. Stored /\ last - readPos \in Nat /\ Stored <= MaxEvents
  BY SMTT(30), <1>1, Types, BoundsAssumption DEF StopInv, StreamAndReader, StreamInv
<1>. HIDE DEF last
<1>3. ASSUME NEW i \in 1..(last - readPos)
      PROVE  /\ readPos + i \in 1..Stored /\ readPos + i \in 1..MaxEvents
             /\ page[i] = Entry(readPos + i)
  <2>1. Stored \in Nat /\ readPos \in Nat
    BY Types DEF StopInv
  <2>. QED  BY SMTT(30), <1>2, <2>1, BoundsAssumption
<1>4. page \in Seq(Frame) /\ Len(page) = last - readPos
  <2>1. ASSUME NEW i \in 1..(last - readPos) PROVE Entry(readPos + i) \in Frame
    BY <1>3, Types DEF StopInv, Entry, Frame
  <2>. QED  BY <1>2, <2>1
<1>5. ASSUME NEW i \in 1..(last - readPos)
      PROVE  page[i].id \in 1..Stored /\ page[i].type = events[Run][page[i].id]
  BY <1>3 DEF Entry
<1>. HIDE DEF page
<1>6. /\ Len(wire') = Len(wire) + (last - readPos) /\ Len(wire) \in Nat
      /\ \A i \in 1..Len(wire') : wire'[i] = IF i <= Len(wire) THEN wire[i] ELSE page[i - Len(wire)]
  <2>1. wire \in Seq(Frame) /\ Len(wire) \in Nat
    BY Types DEF StopInv
  <2>. QED  BY <1>1, <1>4, <2>1, ConcatFacts
<1>7. ASSUME Run \notin forgotten, NEW i \in 1..Len(wire')
      PROVE  wire'[i].id \in 1..Stored /\ wire'[i].type = events[Run][wire'[i].id]
  <2>1. CASE i <= Len(wire)
    <3>1. i \in 1..Len(wire) /\ wire'[i] = wire[i]
      BY <1>6, <2>1
    <3>. QED  BY <1>7, <3>1 DEF StopInv, WireInv
  <2>2. CASE i > Len(wire)
    <3>1. i - Len(wire) \in 1..(last - readPos) /\ wire'[i] = page[i - Len(wire)]
      BY SMTT(30), <1>2, <1>6, <2>2
    <3>. QED  BY <1>5, <3>1
  <2>. QED  BY <1>6, <2>1, <2>2
<1>8. WireInv'
  BY <1>1, <1>7 DEF StopInv, WireInv, Stored
<1>9. StopsAtOutcome'
  BY <1>1 DEF StopInv, StopsAtOutcome, Stored
<1>. QED
  BY <1>8, <1>9

(* The next entry to yield is the one after the cursor, and none before it   *)
(* was an outcome.                                                           *)
LEMMA StopYield == ASSUME StopInv, Yield PROVE WireInv' /\ StopsAtOutcome'
<1>1. /\ client = "reading" /\ wire # <<>> /\ cursor' = Head(wire).id
      /\ UNCHANGED <<events, forgotten>>
      /\ \/ Head(wire).type \in Contract!Outcome /\ client' = "returned" /\ conn' = "closed" /\ wire' = <<>>
         \/ Head(wire).type \notin Contract!Outcome /\ wire' = Tail(wire) /\ UNCHANGED <<client, conn>>
  BY DEF Yield, run
<1>2. /\ Len(wire) \in Nat \ {0} /\ Head(wire) = wire[1] /\ Len(Tail(wire)) = Len(wire) - 1
      /\ \A i \in 1..Len(wire) - 1 : Tail(wire)[i] = wire[i + 1]
  BY <1>1, Types DEF StopInv
<1>3. cursor \in Nat /\ cursor' = cursor + 1
  <2>1. 1 \in DOMAIN wire /\ cursor \in Nat
    BY <1>2, Types DEF StopInv
  <2>2. wire[1].id = cursor + 1
    BY <2>1 DEF StopInv, StreamAndReader, ExactlyOnceInOrder
  <2>. QED  BY <1>1, <1>2, <2>1, <2>2
<1>4. ASSUME Run \notin forgotten, NEW i \in 1..Len(wire')
      PROVE  wire'[i].id \in 1..Stored /\ wire'[i].type = events[Run][wire'[i].id]
  <2>1. wire' = Tail(wire)
    <3>1. CASE wire' = <<>>
      BY <1>4, <3>1
    <3>. QED  BY <1>1, <3>1
  <2>2. i + 1 \in 1..Len(wire) /\ wire'[i] = wire[i + 1]
    BY <1>2, <2>1
  <2>. QED  BY <1>4, <2>2 DEF StopInv, WireInv
<1>5. WireInv'
  BY <1>1, <1>4 DEF StopInv, WireInv, Stored
<1>6. ASSUME Run \notin forgotten
      PROVE  /\ cursor + 1 <= Stored
             /\ Head(wire).type = events[Run][cursor + 1]
             /\ \A i \in 1..cursor : events[Run][i] \notin Contract!Outcome
  <2>1. wire[1].id \in 1..Stored /\ wire[1].type = events[Run][wire[1].id]
    BY <1>2, <1>6 DEF StopInv, WireInv
  <2>2. \A i \in 1..cursor : events[Run][i] \notin Contract!Outcome
    BY <1>1, <1>6 DEF StopInv, StopsAtOutcome
  <2>3. Stored \in Nat
    BY Types DEF StopInv
  <2>. QED  BY <1>1, <1>2, <1>3, <2>1, <2>2, <2>3
<1>7. ASSUME Run \notin forgotten, NEW i \in 1..cursor'
      PROVE  events[Run][i] \in Contract!Outcome <=> i = cursor' /\ client' = "returned"
  <2>1. CASE i = cursor'
    BY <1>1, <1>3, <1>6, <1>7, <2>1
  <2>2. CASE i # cursor'
    <3>1. i \in 1..cursor
      BY <1>3, <2>2
    <3>. QED  BY <1>6, <1>7, <2>2, <3>1
  <2>. QED  BY <2>1, <2>2
<1>8. StopsAtOutcome'
  BY <1>1, <1>3, <1>6, <1>7 DEF StopsAtOutcome, Stored
<1>. QED
  BY <1>5, <1>8

(* A connection that opens, breaks or is taken up again ends no iteration,   *)
(* and takes none up that ended.                                             *)
LEMMA StopConnection ==
    ASSUME StopInv, Open \/ GoLive \/ Connect \/ Wake \/ Drop \/ Vanish
    PROVE  WireInv' /\ StopsAtOutcome'
<1>1. UNCHANGED <<events, forgotten, cursor>> /\ (wire' = wire \/ wire' = <<>>)
  BY DEF Open, GoLive, Connect, Wake, Drop, Vanish, Reconnect, run, reader, server
<1>2. conn = "requested" => client = "connecting"
  BY DEF StopInv, WireInv
<1>3. client = "reading" <=> conn \in {"replay", "live"}
  BY DEF StopInv, StreamAndReader, ResponseInv
<1>4. conn \in Conn
  BY Types DEF StopInv
<1>5. conn' = "requested" => client' = "connecting"
  BY <1>2 DEF Open, GoLive, Connect, Wake, Drop, Vanish, Reconnect, reader, server
<1>6. client' = "returned" <=> client = "returned"
  BY <1>2, <1>3, <1>4 DEF Open, GoLive, Connect, Wake, Drop, Vanish, Reconnect, reader, server, Conn
<1>7. WireInv'
  BY <1>1, <1>5 DEF StopInv, WireInv, Stored
<1>8. StopsAtOutcome'
  BY <1>1, <1>6 DEF StopInv, StopsAtOutcome, Stored
<1>. QED
  BY <1>7, <1>8

LEMMA StopStep == StopInv /\ [Next]_vars => StopInv'
<1>1. ASSUME StopInv, UNCHANGED vars PROVE WireInv' /\ StopsAtOutcome'
  BY <1>1 DEF StopInv, vars, run, server, reader, WireInv, StopsAtOutcome, Stored
<1>2. ASSUME StopInv, Next PROVE WireInv' /\ StopsAtOutcome'
  BY <1>2, StopRun, StopFetch, StopYield, StopConnection DEF Next, ServerNext, ClientNext
<1>3. ASSUME StopInv, [Next]_vars PROVE StreamAndReader'
  BY <1>3, StreamNext DEF StopInv
<1>. QED
  BY <1>1, <1>2, <1>3 DEF StopInv

(* Client.stream_events returns with the first outcome of the run and with   *)
(* nothing else, for any page size and any number of reconnections, although *)
(* a run that shutdown overtakes may have two outcomes in its stream.        *)
THEOREM ReturnsWithFirstOutcome == Spec => []StopsAtOutcome
<1>1. ASSUME Init PROVE StopInv
  <2>1. wire = <<>> /\ cursor = 0 /\ client = "connecting" /\ events[Run] = <<>>
    BY <1>1 DEF Init, Contract!Init
  <2>2. WireInv
    BY <2>1 DEF WireInv
  <2>3. StopsAtOutcome
    BY <2>1 DEF StopsAtOutcome, Stored
  <2>. QED  BY <1>1, <2>2, <2>3, StreamInit DEF StopInv
<1>2. StopInv => StopsAtOutcome
  BY DEF StopInv
<1>. QED
  BY <1>1, <1>2, StopStep, PTL DEF Spec

-----------------------------------------------------------------------------
(* The run that is followed keeps RunContract, and what the contract says of *)
(* its status and its stream.                                                *)

NoOtherRun == forgotten \subseteq {Run}

LEMMA OnlyThisRun == Spec => []NoOtherRun
<1>1. Init => NoOtherRun
  BY DEF Init, Contract!Init, NoOtherRun
<1>2. NoOtherRun /\ [Next]_vars => NoOtherRun'
  BY DEF NoOtherRun, Next, RunNext, Expire, ServerNext, ClientNext, Open, Fetch, GoLive, Vanish, Connect, Yield,
              Wake, Drop, run, vars
<1>. QED  BY <1>1, <1>2, PTL DEF Spec

LEMMA ContractStep == NoOtherRun /\ [Next]_vars => [Contract!Next]_(Contract!vars)
<1>. SUFFICES ASSUME forgotten \subseteq {Run}, [Next]_vars PROVE [Contract!Next]_(Contract!vars)
  BY DEF NoOtherRun
<1>1. CASE RunNext
  BY <1>1 DEF RunNext, Contract!Next
<1>2. CASE Expire
  <2>1. Contract!Forget(Run)
    BY <1>2 DEF Expire, Contract!Forget
  <2>. QED  BY <2>1 DEF Contract!Next
<1>3. CASE ServerNext \/ ClientNext \/ Drop \/ UNCHANGED vars
  BY <1>3 DEF ServerNext, ClientNext, Open, Fetch, GoLive, Vanish, Connect, Yield, Wake, Drop, run, vars,
              Contract!vars
<1>. QED  BY <1>1, <1>2, <1>3 DEF Next

(* Whatever the client and Redis's expiry do, the run whose events are       *)
(* followed is one that RunContract allows, as the runs of AgentRuns are:    *)
(* what the contract promises can be used of both.                           *)
THEOREM FollowedRunKeepsContract == Spec => Contract!Spec
<1>1. Init => Contract!Init
  BY DEF Init
<1>. QED  BY <1>1, OnlyThisRun, ContractStep, PTL DEF Spec, Contract!Spec

(* A client that polls the status and reads a final one finds its event in   *)
(* the stream, and after "failed" as the last one.                           *)
StatusHasEvent ==
    Run \notin forgotten =>
      /\ status[Run] = "succeeded" => \E i \in 1..Len(events[Run]) : events[Run][i] = "run_succeeded"
      /\ status[Run] = "failed" => Len(events[Run]) > 0 /\ events[Run][Len(events[Run])] = "run_failed"

Status == {"none", "running", "succeeded", "failed"}

RunTypes ==
    Run \notin forgotten => events \in [{Run} -> Seq(EventType)] /\ status \in [{Run} -> Status]

LEMMA ReportGives ==
    ASSUME Run \notin forgotten, RunTypes, NEW e \in EventType, Contract!Report(Run, e)
    PROVE  /\ events' \in [{Run} -> Seq(EventType)] /\ status' = status
           /\ Len(events'[Run]) = Len(events[Run]) + 1 /\ Len(events[Run]) \in Nat
           /\ \A i \in 1..Len(events[Run]) : events'[Run][i] = events[Run][i]
           /\ events'[Run][Len(events[Run]) + 1] = e
<1>1. events' = [events EXCEPT ![Run] = Append(@, e)] /\ status' = status
  BY DEF Contract!Report
<1>2. events[Run] \in Seq(EventType) /\ events'[Run] = Append(events[Run], e)
  BY <1>1 DEF RunTypes
<1>. QED  BY <1>1, <1>2, AppendGives DEF RunTypes

LEMMA StatusStep ==
    ASSUME Run \notin forgotten, RunTypes, StatusHasEvent,
           \/ Contract!Accept(Run) \/ Contract!Settle(Run)
           \/ \E e \in EventType : Contract!Report(Run, e)
    PROVE  RunTypes' /\ StatusHasEvent'
<1>. DEFINE last == events[Run][Len(events[Run])]
<1>1. events[Run] \in Seq(EventType) /\ Len(events[Run]) \in Nat /\ status \in [{Run} -> Status]
  BY DEF RunTypes
<1>2. CASE Contract!Accept(Run)
  <2>1. status' = [status EXCEPT ![Run] = "running"] /\ events' = events
    BY <1>2 DEF Contract!Accept
  <2>2. status' \in [{Run} -> Status] /\ status'[Run] = "running"
    BY <1>1, <2>1 DEF Status
  <2>3. RunTypes'
    BY <2>1, <2>2 DEF RunTypes
  <2>4. StatusHasEvent'
    BY <2>2 DEF StatusHasEvent
  <2>. QED  BY <2>3, <2>4
<1>3. CASE Contract!Settle(Run)
  <2>1. /\ events' = events /\ Len(events[Run]) > 0
        /\ status' = [status EXCEPT ![Run] = CASE last = "run_succeeded" -> "succeeded"
                                              [] last = "run_failed" -> "failed"
                                              [] OTHER -> @]
    BY <1>1, <1>3 DEF Contract!Settle
  <2>2. CASE last = "run_succeeded"
    <3>1. status' = [status EXCEPT ![Run] = "succeeded"]
      BY <2>1, <2>2
    <3>2. status' \in [{Run} -> Status] /\ status'[Run] = "succeeded"
      BY <1>1, <3>1 DEF Status
    <3>3. Len(events[Run]) \in 1..Len(events[Run])
      BY <1>1, <2>1
    <3>4. \E i \in 1..Len(events'[Run]) : events'[Run][i] = "run_succeeded"
      BY <2>1, <2>2, <3>3
    <3>5. RunTypes'
      BY <2>1, <3>2 DEF RunTypes
    <3>6. StatusHasEvent'
      BY <3>2, <3>4 DEF StatusHasEvent
    <3>. QED  BY <3>5, <3>6
  <2>3. CASE last = "run_failed"
    <3>1. status' = [status EXCEPT ![Run] = "failed"]
      BY <2>1, <2>3
    <3>2. status' \in [{Run} -> Status] /\ status'[Run] = "failed"
      BY <1>1, <3>1 DEF Status
    <3>3. Len(events'[Run]) > 0 /\ events'[Run][Len(events'[Run])] = "run_failed"
      BY <2>1, <2>3
    <3>4. RunTypes'
      BY <2>1, <3>2 DEF RunTypes
    <3>5. StatusHasEvent'
      BY <3>2, <3>3 DEF StatusHasEvent
    <3>. QED  BY <3>4, <3>5
  <2>4. CASE last \notin {"run_succeeded", "run_failed"}
    <3>1. status'[Run] = status[Run] /\ status' \in [{Run} -> Status]
      BY <1>1, <2>1, <2>4
    <3>. QED  BY <2>1, <3>1 DEF RunTypes, StatusHasEvent
  <2>. QED  BY <2>2, <2>3, <2>4
<1>4. ASSUME NEW e \in EventType, Contract!Report(Run, e) PROVE RunTypes' /\ StatusHasEvent'
  <2>1. /\ events' \in [{Run} -> Seq(EventType)] /\ status' = status
        /\ Len(events'[Run]) = Len(events[Run]) + 1
        /\ \A i \in 1..Len(events[Run]) : events'[Run][i] = events[Run][i]
        /\ events'[Run][Len(events[Run]) + 1] = e
    BY <1>4, ReportGives
  <2>2. RunTypes'
    BY <1>1, <2>1 DEF RunTypes
  <2>3. status[Run] = "succeeded" => \E i \in 1..Len(events'[Run]) : events'[Run][i] = "run_succeeded"
    <3>1. 1..Len(events[Run]) \subseteq 1..Len(events'[Run])
      BY <1>1, <2>1
    <3>. QED  BY <2>1, <3>1 DEF StatusHasEvent
  <2>4. status[Run] = "failed" => e = "run_failed"
    <3>. SUFFICES ASSUME status[Run] = "failed" PROVE e = "run_failed"
      OBVIOUS
    <3>1. Len(events[Run]) \in 1..Len(events[Run]) /\ last = "run_failed" /\ events[Run] # <<>>
      BY <1>1 DEF StatusHasEvent
    <3>2. Contract!Ended(Run)
      BY <1>1, <3>1 DEF Contract!Ended, Contract!Outcome
    <3>. QED  BY <1>4, <3>1, <3>2 DEF Contract!Report, EventType, Contract!Outcome
  <2>5. Len(events'[Run]) > 0
    BY <1>1, <2>1
  <2>. QED  BY <2>1, <2>2, <2>3, <2>4, <2>5 DEF StatusHasEvent
<1>. QED  BY <1>2, <1>3, <1>4

(* A final status has its event in every behaviour of the contract: what     *)
(* RunContract promises, with no look at the scheduler.                      *)
THEOREM ContractStatusHasEvent == Contract!Spec => []StatusHasEvent
<1>1. ASSUME Contract!Init PROVE RunTypes /\ StatusHasEvent
  <2>1. events = [r \in {Run} |-> <<>>] /\ <<>> \in Seq(EventType)
    BY <1>1, EmptyIsSeq DEF Contract!Init
  <2>2. status = [r \in {Run} |-> "none"]
    BY <1>1 DEF Contract!Init
  <2>3. events \in [{Run} -> Seq(EventType)]
    BY <2>1
  <2>4. status \in [{Run} -> Status] /\ status[Run] = "none"
    BY <2>2 DEF Status
  <2>. QED  BY <2>3, <2>4 DEF RunTypes, StatusHasEvent
<1>2. ASSUME RunTypes, StatusHasEvent, [Contract!Next]_(Contract!vars) PROVE RunTypes' /\ StatusHasEvent'
  <2>1. CASE UNCHANGED Contract!vars
    BY <1>2, <2>1 DEF Contract!vars, RunTypes, StatusHasEvent
  <2>2. CASE Contract!Forget(Run)
    BY <2>2 DEF Contract!Forget, RunTypes, StatusHasEvent
  <2>3. CASE /\ UNCHANGED forgotten
             /\ \/ Contract!Accept(Run) \/ Contract!Settle(Run)
                \/ \E e \in EventType : Contract!Report(Run, e)
    <3>1. CASE Run \in forgotten
      BY <2>3, <3>1 DEF RunTypes, StatusHasEvent
    <3>2. CASE Run \notin forgotten
      BY <1>2, <2>3, <3>2, StatusStep
    <3>. QED  BY <3>1, <3>2
  <2>. QED  BY <1>2, <2>1, <2>2, <2>3 DEF Contract!Next, EventType
<1>. QED  BY <1>1, <1>2, PTL DEF Contract!Spec
=============================================================================
