-------------------------- MODULE CollabRoomProofs --------------------------
(* The collaboration room, for every number of sockets and handlers: type    *)
(* correctness, that server and editors agree on the leader, and that an     *)
(* active leader is never replaced, unless handlers overlapped.              *)
EXTENDS CollabRoom, TLAPS

ServerTypes == /\ hash \subseteq Sid /\ map \subseteq Sid /\ key \in Sid \cup {None}
               /\ late \subseteq Sid /\ keyOld \in BOOLEAN
ClientTypes == /\ link \in [Sid -> {"new", "up", "lost", "gone"}]
               /\ leads \in [Sid -> BOOLEAN] /\ rejoin \subseteq Sid /\ orphan \subseteq Sid

(* A handler that is at its place.                                           *)
Sound(j) == /\ j \in Handler
            /\ j.pc # "idle" => j.sid # None
            /\ j.pc = "evict" => j.saw # None
            /\ j.pc = "install" => j.aim # None

LEMMA TypeParts ==
    TypeOK <=> /\ ServerTypes /\ ClientTypes
               /\ raced \in BOOLEAN /\ trouble \in 0 .. MaxTrouble
               /\ run \in [Greenlet -> Handler] /\ \A g \in Greenlet : Sound(run[g])
BY DEF TypeOK, ServerTypes, ClientTypes, Sound

LEMMA TypePartsNext ==
    ASSUME ServerTypes', ClientTypes', raced' \in BOOLEAN, trouble' \in 0 .. MaxTrouble,
           run' \in [Greenlet -> Handler], \A g \in Greenlet : Sound(run'[g])
    PROVE  TypeOK'
BY DEF TypeOK, ServerTypes, ClientTypes, Sound

LEMMA IdleIsSound == Sound(Idle)
BY DEF Sound, Idle, Handler, Step

(* One handler changes, into a sound one.                                    *)
LEMMA RunStep ==
    ASSUME TypeOK, NEW g \in Greenlet, NEW j, Sound(j), run' = [run EXCEPT ![g] = j]
    PROVE  run' \in [Greenlet -> Handler] /\ \A h \in Greenlet : Sound(run'[h])
BY DEF Sound, TypeOK

(* A handler goes on at a step that needs no leader and no choice.           *)
LEMMA GotoIsSound ==
    ASSUME TypeOK, NEW g \in Greenlet, run[g].pc # "idle",
           NEW pc \in Step \ {"evict", "install"}, Goto(g, pc)
    PROVE  run' \in [Greenlet -> Handler] /\ \A h \in Greenlet : Sound(run'[h])
<1>. DEFINE j == IF pc = "idle" THEN Idle ELSE [run[g] EXCEPT !.pc = pc]
<1>1. Sound(run[g]) /\ run[g] \in Handler
  BY TypeParts
<1>2. Sound(j)
  BY <1>1, IdleIsSound DEF Sound, Handler
<1>3. run' = [run EXCEPT ![g] = j]
  BY DEF Goto
<1>. QED
  BY <1>2, <1>3, RunStep

LEMMA TypeInit == Init => TypeOK
<1>. SUFFICES ASSUME Init PROVE TypeOK
  OBVIOUS
<1>1. Idle \in Handler
  BY IdleIsSound DEF Sound
<1>2. run \in [Greenlet -> Handler] /\ \A g \in Greenlet : Sound(run[g])
  <2>. HIDE DEF Idle
  <2>. QED  BY <1>1, IdleIsSound DEF Init
<1>3. ServerTypes /\ ClientTypes /\ raced \in BOOLEAN /\ trouble \in 0 .. MaxTrouble
  <2>1. ServerTypes /\ ClientTypes
    BY DEF Init, ServerTypes, ClientTypes
  <2>2. raced \in BOOLEAN
    BY DEF Init
  <2>3. trouble \in 0 .. MaxTrouble
    BY RoomAssumption DEF Init
  <2>. QED  BY <2>1, <2>2, <2>3
<1>. QED
  BY <1>2, <1>3, TypeParts

(* The client's steps and the starts of handlers.                            *)
LEMMA StartTypes ==
    ASSUME TypeOK, NEW g \in Greenlet, NEW pc \in {"enter", "leave", "ensure"}, NEW s \in Sid,
           NEW rest \in {"idle", "status", "route"}, Start(g, pc, s, rest)
    PROVE  /\ raced' \in BOOLEAN /\ trouble' \in 0 .. MaxTrouble
           /\ run' \in [Greenlet -> Handler] /\ \A h \in Greenlet : Sound(run'[h])
<1>. DEFINE j == [Idle EXCEPT !.pc = pc, !.sid = s, !.rest = rest]
<1>1. Sound(j)
  BY RoomAssumption DEF Sound, Idle, Handler, Step
<1>2. run' = [run EXCEPT ![g] = j]
  BY DEF Start, bounds
<1>3. raced' \in BOOLEAN /\ trouble' \in 0 .. MaxTrouble
  <2>1. CASE Busy
    BY <2>1, RoomAssumption DEF Start, Trouble, TypeOK, bounds
  <2>2. CASE ~Busy
    BY <2>2 DEF Start, TypeOK, bounds
  <2>. QED  BY <2>1, <2>2
<1>. QED
  BY <1>1, <1>2, <1>3, RunStep

LEMMA ClientStep ==
    ASSUME TypeOK, NEW s \in Sid, \/ Connect(s) \/ Drop(s)
                                  \/ \E g \in Greenlet : UserConnect(g, s) \/ Disconnect(g, s) \/ Event(g, s)
    PROVE  TypeOK'
<1>. USE TypeParts, TypePartsNext
<1>1. CASE Connect(s) \/ Drop(s)
  BY <1>1 DEF Connect, Drop, redis, TypeOK, timer, bounds
<1>2. ASSUME NEW g \in Greenlet, UserConnect(g, s) PROVE TypeOK'
  BY <1>2, StartTypes DEF UserConnect, redis, ServerTypes, ClientTypes, timer
<1>3. ASSUME NEW g \in Greenlet, Disconnect(g, s) PROVE TypeOK'
  BY <1>3, StartTypes DEF Disconnect, redis, ServerTypes, ClientTypes, timer
<1>4. ASSUME NEW g \in Greenlet, Event(g, s) PROVE TypeOK'
  <2>1. CASE s \in map
    BY <1>4, <2>1, StartTypes DEF Event, redis, ServerTypes, ClientTypes, timer, Refresh, bounds
  <2>2. CASE s \notin map
    BY <1>4, <2>2 DEF Event, redis, TypeOK, timer, Refresh, bounds
  <2>. QED  BY <2>1, <2>2
<1>. QED
  BY <1>1, <1>2, <1>3, <1>4

LEMMA LapseStep == ASSUME TypeOK, Lapse PROVE TypeOK'
<1>. USE TypeParts, TypePartsNext
<1>1. ServerTypes'
  BY DEF Lapse, ServerTypes, timer
<1>2. ClientTypes'
  BY DEF Lapse, ServerTypes, ClientTypes
<1>3. raced' \in BOOLEAN
  BY DEF Lapse, Busy
<1>4. trouble' \in 0 .. MaxTrouble /\ run' = run
  BY RoomAssumption DEF Lapse, Trouble
<1>. QED
  BY <1>1, <1>2, <1>3, <1>4

(* The steps of a handler: what each does to the server, and where it goes.  *)
LEMMA SharedStep ==
    ASSUME TypeOK, NEW g \in Greenlet, Tell(g) \/ Install(g) \/ List(g) \/ Prune(g) \/ Pick(g),
           UNCHANGED <<raced, trouble>>
    PROVE  TypeOK'
<1>. USE TypeParts, TypePartsNext
<1>1. Sound(run[g]) /\ run[g] \in Handler
  OBVIOUS
<1>2. CASE Tell(g)
  <2>. DEFINE j == IF run[g].told = "idle" THEN Idle
                   ELSE [run[g] EXCEPT !.pc = run[g].told, !.saw = None, !.aim = None]
  <2>1. Sound(j)
    <3>1. CASE run[g].told = "idle"
      BY <3>1, IdleIsSound
    <3>2. CASE run[g].told # "idle"
      BY <1>1, <1>2, <3>2 DEF Tell, At, Sound, Handler, Step
    <3>. QED  BY <3>1, <3>2
  <2>2. run' = [run EXCEPT ![g] = j]
    BY <1>2 DEF Tell
  <2>3. ServerTypes' /\ ClientTypes'
    BY <1>2 DEF Tell, ServerTypes, ClientTypes, redis, timer
  <2>. QED  BY <2>1, <2>2, <2>3, RunStep
<1>3. CASE Install(g)
  <2>1. PICK pc \in Step \ {"evict", "install"} : Goto(g, pc)
    BY <1>1, <1>3 DEF Install, Handler, Step, SetKey
  <2>2. ServerTypes' /\ ClientTypes'
    BY <1>1, <1>3 DEF Install, ServerTypes, ClientTypes, client, Sound, Handler, SetKey
  <2>. QED  BY <1>3, <2>1, <2>2, GotoIsSound DEF Install, At, SetKey
<1>4. CASE List(g)
  <2>. DEFINE j == [run[g] EXCEPT !.pc = "prune", !.saw = None, !.users = Candidates,
                                  !.stale = hash \ Candidates, !.told = run[g].rest]
  <2>1. Candidates \in SUBSET Sid /\ hash \ Candidates \in SUBSET Sid
    BY DEF Candidates, ServerTypes
  <2>2. Sound(j)
    BY <1>1, <1>4, <2>1 DEF List, At, Sound, Handler, Step
  <2>3. run' = [run EXCEPT ![g] = j]
    BY <1>4 DEF List
  <2>4. ServerTypes' /\ ClientTypes'
    BY <1>4 DEF List, ServerTypes, ClientTypes, redis, client, timer
  <2>. QED  BY <2>2, <2>3, <2>4, RunStep
<1>5. CASE Prune(g)
  <2>. DEFINE pc == IF key \in run[g].users THEN run[g].rest
                    ELSE IF run[g].users # {} THEN "pick" ELSE IF key # None THEN "tell" ELSE run[g].rest
              j == IF pc = "idle" THEN Idle
                   ELSE [run[g] EXCEPT !.pc = pc, !.saw = key, !.aim = None, !.users = {}, !.stale = {}]
  <2>1. pc \in Step \ {"evict", "install"} /\ key \in Sid \cup {None}
    BY <1>1 DEF Handler, Step, ServerTypes
  <2>2. Sound(j)
    <3>. HIDE DEF pc
    <3>1. CASE pc = "idle"
      BY <3>1, IdleIsSound
    <3>2. CASE pc # "idle"
      BY <1>1, <1>5, <2>1, <3>2 DEF Prune, At, Sound, Handler, SetKey
    <3>. QED  BY <3>1, <3>2
  <2>3. run' = [run EXCEPT ![g] = j]
    BY <1>5 DEF Prune, SetKey
  <2>4. ServerTypes' /\ ClientTypes'
    BY <1>5 DEF Prune, ServerTypes, ClientTypes, client, SetKey
  <2>. QED  BY <2>2, <2>3, <2>4, RunStep
<1>6. CASE Pick(g)
  <2>1. ServerTypes' /\ ClientTypes'
    BY <1>6 DEF Pick, ServerTypes, ClientTypes, redis, client, timer
  <2>2. ASSUME NEW s \in Candidates, run' = [run EXCEPT ![g] = [@ EXCEPT !.pc = "install", !.aim = s]]
        PROVE  TypeOK'
    <3>. DEFINE j == [run[g] EXCEPT !.pc = "install", !.aim = s]
    <3>1. s \in Sid /\ s # None
      BY RoomAssumption DEF Candidates, ServerTypes
    <3>2. Sound(j)
      BY <1>1, <1>6, <3>1 DEF Pick, At, Sound, Handler, Step
    <3>3. run' = [run EXCEPT ![g] = j]
      BY <2>2
    <3>. QED  BY <2>1, <3>2, <3>3, RunStep
  <2>3. CASE Goto(g, IF run[g].saw # None THEN "tell" ELSE run[g].rest)
    <3>1. PICK pc \in Step \ {"evict", "install"} : Goto(g, pc)
      BY <1>1, <2>3 DEF Handler, Step
    <3>. QED  BY <1>6, <2>1, <3>1, GotoIsSound DEF Pick, At
  <2>. QED  BY <1>6, <2>2, <2>3 DEF Pick
<1>. QED
  BY <1>2, <1>3, <1>4, <1>5, <1>6

LEMMA JoinStep ==
    ASSUME TypeOK, NEW g \in Greenlet, Join(g), UNCHANGED <<raced, trouble>>
    PROVE  TypeOK'
<1>. USE TypeParts, TypePartsNext
<1>1. Sound(run[g]) /\ run[g] \in Handler
  OBVIOUS
<1>2. CASE Enter(g) \/ MapSid(g) \/ Evict(g)
  <2>1. PICK pc \in Step \ {"evict", "install"} : Goto(g, pc)
    BY <1>2 DEF Enter, MapSid, Evict, Step, SetKey, Refresh
  <2>2. run[g].pc # "idle" /\ run[g].sid \in Sid
    BY <1>1, <1>2 DEF Enter, MapSid, Evict, At, Sound, Handler, SetKey, Refresh
  <2>3. ServerTypes' /\ ClientTypes'
    BY <1>2, <2>2 DEF Enter, MapSid, Evict, ServerTypes, ClientTypes, client, SetKey, Refresh
  <2>. QED  BY <2>1, <2>2, <2>3, GotoIsSound
<1>3. CASE Look(g)
  <2>1. ServerTypes' /\ ClientTypes'
    BY <1>3 DEF Look, ServerTypes, ClientTypes, redis, client, timer
  <2>2. PICK j : Sound(j) /\ run' = [run EXCEPT ![g] = j]
    <3>1. CASE run' = [run EXCEPT ![g] = [@ EXCEPT !.pc = "list", !.verdict = (key = run[g].sid)]]
      <4>. DEFINE v == key = run[g].sid
                  j == [run[g] EXCEPT !.pc = "list", !.verdict = v]
      <4>1. v \in BOOLEAN
        OBVIOUS
      <4>2. Sound(j)
        <5>. HIDE DEF v
        <5>. QED  BY <1>1, <1>3, <4>1 DEF Look, At, Sound, Handler, Step
      <4>. QED  BY <3>1, <4>2
    <3>2. CASE run' = [run EXCEPT ![g] = [@ EXCEPT !.saw = key,
                                                   !.pc = IF key = None THEN "claim" ELSE "evict"]]
      <4>. DEFINE j == [run[g] EXCEPT !.saw = key, !.pc = IF key = None THEN "claim" ELSE "evict"]
      <4>1. Sound(j)
        BY <1>1, <1>3 DEF Look, At, Sound, Handler, Step, ServerTypes
      <4>. QED  BY <3>2, <4>1
    <3>. QED  BY <1>3, <3>1, <3>2 DEF Look
  <2>. QED  BY <2>1, <2>2, RunStep
<1>4. CASE Claim(g)
  <2>0. At(g, "claim") /\ run[g].sid \in Sid
    BY <1>1, <1>4 DEF Claim, At, Sound, Handler, SetKey
  <2>1. ServerTypes' /\ ClientTypes'
    BY <1>4, <2>0 DEF Claim, ServerTypes, ClientTypes, client, SetKey
  <2>2. CASE Goto(g, "reread")
    <3>1. run[g].pc # "idle" /\ "reread" \in Step \ {"evict", "install"}
      BY <2>0 DEF At, Step
    <3>. QED  BY <1>4, <2>1, <2>2, <3>1, GotoIsSound
  <2>3. CASE run' = [run EXCEPT ![g] = [@ EXCEPT !.verdict = TRUE, !.aim = run[g].sid, !.told = "list",
                                          !.pc = IF run[g].saw = None THEN "list" ELSE "tell"]]
    <3>. DEFINE j == [run[g] EXCEPT !.verdict = TRUE, !.aim = run[g].sid, !.told = "list",
                                    !.pc = IF run[g].saw = None THEN "list" ELSE "tell"]
    <3>1. Sound(j)
      BY <1>1, <2>0 DEF At, Sound, Handler, Step
    <3>2. run' = [run EXCEPT ![g] = j]
      BY <2>3
    <3>. QED  BY <1>4, <2>1, <3>1, <3>2, RunStep
  <2>. QED  BY <1>4, <2>2, <2>3 DEF Claim, SetKey
<1>5. CASE Reread(g)
  <2>. DEFINE v == key \in {None, run[g].sid}
              j == [run[g] EXCEPT !.pc = "list", !.saw = None, !.verdict = v]
  <2>1. v \in BOOLEAN
    OBVIOUS
  <2>2. Sound(j)
    <3>. HIDE DEF v
    <3>. QED  BY <1>1, <1>5, <2>1 DEF Reread, At, Sound, Handler, Step
  <2>3. run' = [run EXCEPT ![g] = j]
    BY <1>5 DEF Reread
  <2>4. ServerTypes' /\ ClientTypes'
    BY <1>5 DEF Reread, ServerTypes, ClientTypes, redis, client, timer
  <2>. QED  BY <2>2, <2>3, <2>4, RunStep
<1>6. CASE Status(g)
  <2>1. run[g].pc # "idle" /\ Goto(g, "idle") /\ "idle" \in Step \ {"evict", "install"}
    BY <1>6 DEF Status, At, Step
  <2>2. ServerTypes' /\ ClientTypes'
    BY <1>1, <1>6 DEF Status, ServerTypes, ClientTypes, redis, Handler, timer
  <2>. QED  BY <2>1, <2>2, GotoIsSound
<1>. QED
  BY <1>2, <1>3, <1>4, <1>5, <1>6 DEF Join

LEMMA LeaderStep ==
    ASSUME TypeOK, NEW g \in Greenlet, UNCHANGED <<raced, trouble>>,
           Leave(g) \/ Succeed(g) \/ Vacate(g) \/ Ensure(g) \/ Seize(g) \/ Route(g)
    PROVE  TypeOK'
<1>. USE TypeParts, TypePartsNext
<1>1. Sound(run[g]) /\ run[g] \in Handler
  OBVIOUS
<1>2. run[g].pc # "idle" /\ run[g].sid \in Sid
  BY <1>1 DEF Leave, Succeed, Vacate, Ensure, Seize, Route, At, Sound, Handler, SetKey
<1>3. ServerTypes' /\ ClientTypes'
  BY <1>2 DEF Leave, Succeed, Vacate, Ensure, Seize, Route, ServerTypes, ClientTypes, redis, client, timer, SetKey
<1>4. ASSUME NEW pc \in Step \ {"evict", "install"}, Goto(g, pc) PROVE TypeOK'
  BY <1>2, <1>3, <1>4, GotoIsSound
<1>5. ASSUME NEW s \in Candidates, NEW saw \in Sid \cup {None}, NEW told \in {"idle", "list"},
             run' = [run EXCEPT ![g] = [@ EXCEPT !.pc = "install", !.saw = saw, !.aim = s, !.told = told]]
      PROVE  TypeOK'
  <2>. DEFINE j == [run[g] EXCEPT !.pc = "install", !.saw = saw, !.aim = s, !.told = told]
  <2>1. s \in Sid /\ s # None
    BY RoomAssumption DEF Candidates, ServerTypes
  <2>2. Sound(j)
    BY <1>1, <1>2, <2>1, RoomAssumption DEF Sound, Handler, Step
  <2>3. run' = [run EXCEPT ![g] = j]
    BY <1>5
  <2>. QED  BY <1>3, <2>2, <2>3, RunStep
<1>6. CASE Leave(g) \/ Vacate(g) \/ Ensure(g)
  <2>1. PICK pc \in Step \ {"evict", "install"} : Goto(g, pc)
    BY <1>1, <1>6 DEF Leave, Vacate, Ensure, Handler, Step, SetKey
  <2>. QED  BY <1>4, <2>1
<1>7. CASE Succeed(g)
  <2>1. CASE \E pc \in {"list", "vacate"} : Goto(g, pc)
    BY <1>4, <2>1 DEF Step
  <2>2. key \in Sid \cup {None}
    BY DEF ServerTypes
  <2>. QED  BY <1>5, <1>7, <2>1, <2>2 DEF Succeed
<1>8. CASE Route(g)
  <2>1. CASE Goto(g, "idle")
    BY <1>4, <2>1 DEF Step
  <2>. QED  BY <1>5, <1>8, <2>1 DEF Route, SetKey
<1>9. CASE Seize(g)
  <2>. DEFINE j == [run[g] EXCEPT !.pc = "tell", !.aim = run[g].sid, !.told = run[g].rest]
  <2>1. Sound(j)
    BY <1>1, <1>2, RoomAssumption DEF Sound, Handler, Step
  <2>2. run' = [run EXCEPT ![g] = j]
    BY <1>9 DEF Seize, SetKey
  <2>. QED  BY <1>3, <2>1, <2>2, RunStep
<1>. QED
  BY <1>6, <1>7, <1>8, <1>9

LEMMA TypeNext == TypeOK /\ [Next]_vars => TypeOK'
<1>1. CASE UNCHANGED vars
  BY <1>1 DEF vars, redis, client, TypeOK, timer, bounds
<1>2. ASSUME TypeOK, NEW g \in Greenlet, Handle(g) PROVE TypeOK'
  BY <1>2, SharedStep, JoinStep, LeaderStep DEF Handle, bounds
<1>. QED
  BY <1>1, <1>2, LapseStep, ClientStep DEF Next

(* Sessions, mappings and leadership keep their types however the handlers   *)
(* interleave and whatever expires, and no handler deletes the session of    *)
(* nobody or makes nobody the leader.                                        *)
THEOREM RoomTypeCorrect == Spec => []TypeOK
BY TypeInit, TypeNext, PTL DEF Spec

-----------------------------------------------------------------------------
(* Handlers that have not been overlapped are alone.                         *)
Alone(g) == \A h \in Greenlet : run[h].pc # "idle" => h = g

(* A handler of user_connect: its socket is there, and once it is entered    *)
(* its status, when it is known, is true of the leader.                      *)
Joining(j) == j.rest = "status"
Joined(j) == j.sid \in hash /\ j.sid \in map
Known(j) == j.verdict = (key = j.sid)
JoinInv(j) ==
    Joining(j) =>
      /\ j.pc \in {"enter", "map", "look", "evict", "claim", "tell", "list", "prune", "status"}
      /\ link[j.sid] \in {"up", "lost"}
      /\ j.pc = "map" => j.sid \in hash
      /\ j.pc \notin {"enter", "map"} => Joined(j)
      /\ j.pc \in {"list", "prune"} => Active(key)
      /\ j.pc \in {"tell", "list", "prune", "status"} => Known(j)
      /\ j.pc = "tell" => j.told = "list" /\ j.aim = j.sid

(* What a handler that is alone read still holds.                            *)
ReadInv(j) ==
    /\ j.pc \in {"enter", "map", "look", "evict", "claim", "reread", "status"} => Joining(j)
    /\ j.pc = "evict" => key = j.saw /\ ~Active(key)
    /\ j.pc = "claim" => key = None
    /\ j.pc = "tell" => key = j.aim
    /\ j.pc = "prune" => j.users = Candidates /\ j.stale = hash \ Candidates
    /\ j.pc = "pick" => key = None /\ j.saw \notin Candidates /\ j.aim = None
    /\ j.pc = "install" => j.aim # j.saw
    /\ j.pc \in {"install", "seize"} => ~Active(key)
    /\ j.pc \in {"succeed", "vacate"} => j.sid \notin hash
    /\ j.pc = "vacate" => key = j.sid
    /\ j.pc \in {"prune", "pick", "install", "tell"} /\ ~Joining(j) => j.told # "status"

(* An editor that is present agrees with the server on who leads, except for *)
(* one that joins, and until a change was told.                              *)
Agrees(s) == Present(s) => /\ (key = s => leads[s])
                           /\ (leads[s] => key = s \/ s \in orphan)
Excused(s) == \E g \in Greenlet : \/ run[g].pc = "tell"
                                  \/ run[g].pc # "idle" /\ Joining(run[g]) /\ run[g].sid = s

RoomInv ==
    /\ \A s \in Sid : link[s] = "new" => s \notin hash /\ s \notin map
    /\ \A s \in rejoin : link[s] = "up"
    /\ \A s \in Sid : Excused(s) \/ Agrees(s)
    /\ \A g \in Greenlet : run[g].pc # "idle" => Alone(g) /\ JoinInv(run[g]) /\ ReadInv(run[g])
AgreementInv == raced \/ RoomInv

(* The parts of RoomInv that speak of no handler.                            *)
Listed ==
    /\ \A s \in Sid : link[s] = "new" => s \notin hash /\ s \notin map
    /\ \A s \in rejoin : link[s] = "up"

(* Whom the handler g excuses.                                               *)
ExcusedBy(g, s) == run[g].pc = "tell" \/ (Joining(run[g]) /\ run[g].sid = s)

LEMMA RoomInit == Init => RoomInv
BY RoomAssumption DEF Init, RoomInv, Agrees, Present, Idle

(* What holds at a handler that runs alone.                                  *)
LEMMA AtHandler ==
    ASSUME RoomInv, NEW g \in Greenlet, run[g].pc # "idle"
    PROVE  /\ JoinInv(run[g]) /\ ReadInv(run[g]) /\ Listed
           /\ \A h \in Greenlet \ {g} : run[h].pc = "idle"
           /\ \A s \in Sid : ExcusedBy(g, s) \/ Agrees(s)
<1>1. JoinInv(run[g]) /\ ReadInv(run[g]) /\ Listed
  BY DEF RoomInv, Listed
<1>2. ASSUME NEW h \in Greenlet \ {g} PROVE run[h].pc = "idle"
  BY DEF RoomInv, Alone
<1>3. ASSUME NEW s \in Sid PROVE ExcusedBy(g, s) \/ Agrees(s)
  BY <1>2 DEF RoomInv, Excused, ExcusedBy
<1>. QED  BY <1>1, <1>2, <1>3

(* Only that handler goes on.                                                *)
LEMMA HandlerGoes ==
    ASSUME RoomInv, NEW g \in Greenlet, run[g].pc # "idle",
           \A h \in Greenlet \ {g} : run'[h] = run[h], Listed',
           run'[g].pc # "idle" => JoinInv(run[g])' /\ ReadInv(run[g])',
           \A s \in Sid : (run'[g].pc # "idle" /\ ExcusedBy(g, s)') \/ Agrees(s)'
    PROVE  RoomInv'
<1>1. \A h \in Greenlet \ {g} : run'[h].pc = "idle"
  BY AtHandler
<1>2. ASSUME NEW h \in Greenlet, run'[h].pc # "idle"
      PROVE  Alone(h)' /\ JoinInv(run[h])' /\ ReadInv(run[h])'
  <2>1. h = g
    BY <1>1, <1>2
  <2>. QED  BY <1>1, <1>2, <2>1 DEF Alone
<1>3. ASSUME NEW s \in Sid PROVE Excused(s)' \/ Agrees(s)'
  BY DEF Excused, ExcusedBy
<1>. QED  BY <1>2, <1>3 DEF RoomInv, Listed

LEMMA GotoGives ==
    ASSUME TypeOK, NEW g \in Greenlet, NEW pc \in Step, Goto(g, pc)
    PROVE  /\ \A h \in Greenlet \ {g} : run'[h] = run[h]
           /\ pc = "idle" => run'[g].pc = "idle"
           /\ pc # "idle" => /\ run'[g] = [run[g] EXCEPT !.pc = pc] /\ run'[g].pc = pc
                             /\ run'[g].sid = run[g].sid /\ run'[g].rest = run[g].rest
                             /\ run'[g].saw = run[g].saw /\ run'[g].aim = run[g].aim
                             /\ run'[g].users = run[g].users /\ run'[g].stale = run[g].stale
                             /\ run'[g].verdict = run[g].verdict /\ run'[g].told = run[g].told
<1>1. run \in [Greenlet -> Handler]
  BY DEF TypeOK
<1>2. CASE pc = "idle"
  BY <1>1, <1>2 DEF Goto, Idle
<1>3. CASE pc # "idle"
  BY <1>1, <1>3 DEF Goto, Handler
<1>. QED  BY <1>2, <1>3

LEMMA HandlerTypes ==
    ASSUME TypeOK, NEW g \in Greenlet, run[g].pc # "idle"
    PROVE  /\ run[g] \in Handler /\ run[g].sid \in Sid /\ run[g].pc \in Step
           /\ run[g].rest \in {"idle", "status", "route"} /\ run[g].verdict \in BOOLEAN
           /\ run[g].saw \in Sid \cup {None} /\ run[g].aim \in Sid \cup {None}
           /\ run[g].told \in {"idle", "list", "status", "route"}
           /\ run \in [Greenlet -> Handler] /\ None \notin Sid
           /\ hash \subseteq Sid /\ map \subseteq Sid /\ key \in Sid \cup {None}
           /\ link \in [Sid -> {"new", "up", "lost", "gone"}] /\ leads \in [Sid -> BOOLEAN]
<1>1. run[g] \in Handler /\ run[g].sid # None
  BY DEF TypeOK
<1>. QED  BY <1>1, RoomAssumption DEF TypeOK, Handler

-----------------------------------------------------------------------------
(* user_connect, up to the user list.                                        *)
LEMMA EnterAgrees ==
    ASSUME TypeOK, RoomInv, NEW g \in Greenlet, Enter(g) \/ MapSid(g)
    PROVE  RoomInv'
<1>. DEFINE j == run[g]
<1>1. j.pc \in {"enter", "map"} /\ j.pc # "idle"
  BY DEF Enter, MapSid, At, Refresh
<1>2. /\ JoinInv(j) /\ ReadInv(j) /\ Listed /\ Joining(j)
      /\ \A s \in Sid : ExcusedBy(g, s) \/ Agrees(s)
  BY <1>1, AtHandler DEF ReadInv
<1>3. /\ \A h \in Greenlet \ {g} : run'[h] = run[h]
      /\ run'[g].pc = (IF j.pc = "enter" THEN "map" ELSE "look")
      /\ run'[g].sid = j.sid /\ run'[g].rest = j.rest
  BY <1>1, GotoGives DEF Enter, MapSid, At, Step, Refresh
<1>4. /\ hash' = IF j.pc = "enter" THEN hash \cup {j.sid} ELSE hash
      /\ map' = IF j.pc = "enter" THEN map ELSE map \cup {j.sid}
      /\ key' = key /\ link' = link /\ leads' = leads /\ rejoin' = rejoin /\ orphan' = orphan
  BY <1>1 DEF Enter, MapSid, At, client, Refresh
<1>5. j.sid \in Sid /\ link[j.sid] \in {"up", "lost"} /\ (j.pc = "map" => j.sid \in hash)
  BY <1>1, <1>2, HandlerTypes DEF JoinInv
<1>6. Listed'
  BY <1>1, <1>2, <1>4, <1>5 DEF Listed
<1>7. JoinInv(run[g])' /\ ReadInv(run[g])'
  BY <1>2, <1>3, <1>4, <1>5 DEF JoinInv, ReadInv, Joining, Joined
<1>8. ASSUME NEW s \in Sid PROVE ExcusedBy(g, s)' \/ Agrees(s)'
  BY <1>1, <1>2, <1>3, <1>4 DEF ExcusedBy, Joining, Agrees, Present
<1>. QED  BY <1>1, <1>3, <1>6, <1>7, <1>8, HandlerGoes

LEMMA LookAgrees ==
    ASSUME TypeOK, RoomInv, NEW g \in Greenlet, Look(g)
    PROVE  RoomInv'
<1>. DEFINE j == run[g]
<1>1. j.pc = "look" /\ UNCHANGED <<hash, map, key, link, leads, rejoin, orphan>>
  BY DEF Look, At, redis, client, timer
<1>2. /\ JoinInv(j) /\ ReadInv(j) /\ Listed /\ Joining(j)
      /\ \A s \in Sid : ExcusedBy(g, s) \/ Agrees(s)
  BY <1>1, AtHandler DEF ReadInv
<1>3. /\ \A h \in Greenlet \ {g} : run'[h] = run[h]
      /\ run'[g].sid = j.sid /\ run'[g].rest = j.rest
      /\ \/ Active(key) /\ run'[g].pc = "list" /\ run'[g].verdict = (key = j.sid)
         \/ ~Active(key) /\ run'[g].saw = key /\ run'[g].pc = IF key = None THEN "claim" ELSE "evict"
  <2>1. run \in [Greenlet -> Handler] /\ j \in Handler
    BY <1>1, HandlerTypes
  <2>2. CASE /\ Active(key)
             /\ run' = [run EXCEPT ![g] = [@ EXCEPT !.pc = "list", !.verdict = (key = run[g].sid)]]
    <3>. DEFINE v == (key = j.sid)
                j2 == [j EXCEPT !.pc = "list", !.verdict = v]
    <3>1. run' = [run EXCEPT ![g] = j2]
      BY <2>2
    <3>. HIDE DEF v
    <3>2. j2.sid = j.sid /\ j2.rest = j.rest /\ j2.pc = "list" /\ j2.verdict = v
      BY <2>1 DEF Handler
    <3>. HIDE DEF j2
    <3>3. run'[g] = j2 /\ \A h \in Greenlet \ {g} : run'[h] = run[h]
      BY <2>1, <3>1
    <3>. QED  BY <2>2, <3>2, <3>3 DEF v
  <2>3. CASE /\ ~Active(key)
             /\ run' = [run EXCEPT ![g] = [@ EXCEPT !.saw = key,
                                                    !.pc = IF key = None THEN "claim" ELSE "evict"]]
    BY <2>1, <2>3 DEF Handler
  <2>. QED  BY <2>2, <2>3 DEF Look
<1>4. /\ link[j.sid] \in {"up", "lost"} /\ Joined(j)
  BY <1>1, <1>2 DEF JoinInv
<1>5. Listed'
  BY <1>1, <1>2 DEF Listed
<1>6. Active(key)' = Active(key)
  BY <1>1 DEF Active
<1>7. JoinInv(run[g])'
  BY <1>1, <1>2, <1>3, <1>4, <1>6 DEF JoinInv, Joining, Joined, Known
<1>8. ReadInv(run[g])'
  BY <1>1, <1>2, <1>3, <1>6 DEF ReadInv, Joining
<1>9. ASSUME NEW s \in Sid PROVE ExcusedBy(g, s)' \/ Agrees(s)'
  BY <1>1, <1>2, <1>3 DEF ExcusedBy, Joining, Agrees, Present
<1>. QED  BY <1>1, <1>3, <1>5, <1>7, <1>8, <1>9, HandlerGoes

(* An inactive leader is evicted: it was no present editor, so nobody who is *)
(* present took it for the leader.                                           *)
LEMMA EvictAgrees ==
    ASSUME TypeOK, RoomInv, NEW g \in Greenlet, Evict(g)
    PROVE  RoomInv'
<1>. DEFINE j == run[g]
<1>1. /\ j.pc = "evict" /\ UNCHANGED <<link, leads, rejoin, orphan>>
      /\ hash' = hash \ {j.saw} /\ map' = map \ {j.saw} /\ key' = None
  BY DEF Evict, At, client, SetKey
<1>2. /\ JoinInv(j) /\ ReadInv(j) /\ Listed /\ Joining(j)
      /\ \A s \in Sid : ExcusedBy(g, s) \/ Agrees(s)
  BY <1>1, AtHandler DEF ReadInv
<1>3. /\ \A h \in Greenlet \ {g} : run'[h] = run[h]
      /\ run'[g].sid = j.sid /\ run'[g].rest = j.rest /\ run'[g].pc = "claim"
  BY GotoGives DEF Evict, Step, SetKey
<1>4. /\ link[j.sid] \in {"up", "lost"} /\ Joined(j) /\ j.saw = key /\ ~Active(key)
      /\ j.sid \in Sid /\ None \notin Sid
  BY <1>1, <1>2, HandlerTypes DEF JoinInv, ReadInv
<1>5. j.sid # j.saw
  BY <1>4 DEF Active, Joined
<1>6. Listed'
  BY <1>1, <1>2 DEF Listed
<1>7. JoinInv(run[g])' /\ ReadInv(run[g])'
  BY <1>1, <1>2, <1>3, <1>4, <1>5 DEF JoinInv, ReadInv, Joining, Joined
<1>8. ASSUME NEW s \in Sid PROVE ExcusedBy(g, s)' \/ Agrees(s)'
  BY <1>1, <1>2, <1>3, <1>4 DEF ExcusedBy, Joining, Agrees, Present, Active
<1>. QED  BY <1>1, <1>3, <1>6, <1>7, <1>8, HandlerGoes

(* The handler is alone, so the key it found unset is unset.                 *)
LEMMA ClaimAgrees ==
    ASSUME TypeOK, RoomInv, NEW g \in Greenlet, Claim(g)
    PROVE  RoomInv'
<1>. DEFINE j == run[g]
<1>1. j.pc = "claim" /\ UNCHANGED <<hash, map, link, leads, rejoin, orphan>>
  BY DEF Claim, At, client, SetKey
<1>2. /\ JoinInv(j) /\ ReadInv(j) /\ Listed /\ Joining(j)
      /\ \A s \in Sid : ExcusedBy(g, s) \/ Agrees(s)
  BY <1>1, AtHandler DEF ReadInv
<1>3. /\ key = None /\ key' = j.sid /\ link[j.sid] \in {"up", "lost"} /\ Joined(j)
      /\ j.sid \in Sid /\ None \notin Sid
  BY <1>1, <1>2, HandlerTypes DEF Claim, ReadInv, JoinInv, SetKey
<1>4. /\ \A h \in Greenlet \ {g} : run'[h] = run[h]
      /\ run'[g].sid = j.sid /\ run'[g].rest = j.rest /\ run'[g].verdict = TRUE
      /\ run'[g].aim = j.sid /\ run'[g].told = "list" /\ run'[g].pc \in {"list", "tell"}
  <2>. DEFINE pc == IF j.saw = None THEN "list" ELSE "tell"
              j2 == [j EXCEPT !.verdict = TRUE, !.aim = j.sid, !.told = "list", !.pc = pc]
  <2>1. run \in [Greenlet -> Handler] /\ j \in Handler
    BY <1>1, HandlerTypes
  <2>2. run' = [run EXCEPT ![g] = j2]
    BY <1>3 DEF Claim, SetKey
  <2>3. pc \in {"list", "tell"}
    OBVIOUS
  <2>. HIDE DEF pc
  <2>4. /\ j2.sid = j.sid /\ j2.rest = j.rest /\ j2.verdict = TRUE /\ j2.aim = j.sid
        /\ j2.told = "list" /\ j2.pc = pc
    BY <2>1 DEF Handler
  <2>. HIDE DEF j2
  <2>5. run'[g] = j2 /\ \A h \in Greenlet \ {g} : run'[h] = run[h]
    BY <2>1, <2>2
  <2>. QED  BY <2>3, <2>4, <2>5
<1>5. Listed'
  BY <1>1, <1>2 DEF Listed
<1>6. Active(key)'
  BY <1>1, <1>3 DEF Active, Joined
<1>7. JoinInv(run[g])' /\ ReadInv(run[g])'
  BY <1>1, <1>2, <1>3, <1>4, <1>6 DEF JoinInv, ReadInv, Joining, Joined, Known
<1>8. ASSUME NEW s \in Sid PROVE ExcusedBy(g, s)' \/ Agrees(s)'
  BY <1>1, <1>2, <1>3, <1>4 DEF ExcusedBy, Joining, Agrees, Present
<1>. QED  BY <1>1, <1>4, <1>5, <1>7, <1>8, HandlerGoes

LEMMA RereadAgrees ==
    ASSUME TypeOK, RoomInv, NEW g \in Greenlet, Reread(g)
    PROVE  FALSE
<1>1. run[g].pc = "reread"
  BY DEF Reread, At
<1>. QED  BY <1>1, AtHandler DEF ReadInv, JoinInv

(* The status that the joining editor is sent is true.                       *)
LEMMA StatusAgrees ==
    ASSUME TypeOK, RoomInv, NEW g \in Greenlet, Status(g)
    PROVE  RoomInv'
<1>. DEFINE j == run[g]
<1>1. /\ j.pc = "status" /\ UNCHANGED <<hash, map, key, link, rejoin>>
      /\ leads' = [leads EXCEPT ![j.sid] = IF link[j.sid] = "up" THEN j.verdict ELSE @]
      /\ orphan' = orphan \ {j.sid}
  BY DEF Status, At, redis, timer
<1>2. /\ JoinInv(j) /\ ReadInv(j) /\ Listed /\ Joining(j) /\ Known(j)
      /\ \A s \in Sid : ExcusedBy(g, s) \/ Agrees(s)
  BY <1>1, AtHandler DEF ReadInv, JoinInv
<1>3. (\A h \in Greenlet \ {g} : run'[h] = run[h]) /\ run'[g].pc = "idle"
  BY GotoGives DEF Status, Step
<1>4. Listed'
  BY <1>1, <1>2 DEF Listed
<1>5. ASSUME NEW s \in Sid PROVE Agrees(s)'
  <2>1. leads \in [Sid -> BOOLEAN] /\ j.sid \in Sid
    BY <1>1, HandlerTypes
  <2>2. CASE s = j.sid
    BY <1>1, <1>2, <2>1, <2>2 DEF Agrees, Present, Known
  <2>3. CASE s # j.sid
    BY <1>1, <1>2, <2>1, <2>3 DEF ExcusedBy, Agrees, Present
  <2>. QED  BY <2>2, <2>3
<1>. QED  BY <1>1, <1>3, <1>4, <1>5, HandlerGoes

-----------------------------------------------------------------------------
(* The user list.                                                            *)
LEMMA ListAgrees ==
    ASSUME TypeOK, RoomInv, NEW g \in Greenlet, List(g)
    PROVE  RoomInv'
<1>. DEFINE j == run[g]
<1>1. j.pc = "list" /\ UNCHANGED <<hash, map, key, link, leads, rejoin, orphan>>
  BY DEF List, At, redis, client, timer
<1>2. /\ JoinInv(j) /\ ReadInv(j) /\ Listed
      /\ \A s \in Sid : ExcusedBy(g, s) \/ Agrees(s)
  BY <1>1, AtHandler
<1>3. /\ \A h \in Greenlet \ {g} : run'[h] = run[h]
      /\ run'[g].sid = j.sid /\ run'[g].rest = j.rest /\ run'[g].verdict = j.verdict
      /\ run'[g].pc = "prune" /\ run'[g].users = Candidates /\ run'[g].stale = hash \ Candidates
      /\ run'[g].told = j.rest
  <2>1. run \in [Greenlet -> Handler]
    BY <1>1, HandlerTypes
  <2>. QED  BY <2>1 DEF List, Handler
<1>4. Listed'
  BY <1>1, <1>2 DEF Listed
<1>5. Active(key)' = Active(key) /\ Candidates' = Candidates
  BY <1>1 DEF Active, Candidates
<1>6. JoinInv(run[g])'
  BY <1>1, <1>2, <1>3, <1>5 DEF JoinInv, Joining, Joined, Known
<1>7. ReadInv(run[g])'
  BY <1>1, <1>2, <1>3, <1>5 DEF ReadInv, Joining
<1>8. ASSUME NEW s \in Sid PROVE ExcusedBy(g, s)' \/ Agrees(s)'
  BY <1>1, <1>2, <1>3 DEF ExcusedBy, Joining, Agrees, Present
<1>. QED  BY <1>1, <1>3, <1>4, <1>6, <1>7, <1>8, HandlerGoes

LEMMA PruneAgrees ==
    ASSUME TypeOK, RoomInv, NEW g \in Greenlet, Prune(g)
    PROVE  RoomInv'
<1>. DEFINE j == run[g]
            pc == IF key \in j.users THEN j.rest
                  ELSE IF j.users # {} THEN "pick" ELSE IF key # None THEN "tell" ELSE j.rest
            j2 == [j EXCEPT !.pc = pc, !.saw = key, !.aim = None, !.users = {}, !.stale = {}]
<1>1. /\ j.pc = "prune" /\ UNCHANGED <<link, leads, rejoin, orphan>>
      /\ hash' = hash \ j.stale /\ map' = map \ j.stale
      /\ key' = IF key \in j.users THEN key ELSE None
      /\ run' = [run EXCEPT ![g] = IF pc = "idle" THEN Idle ELSE j2]
  BY DEF Prune, At, client, SetKey
<1>2. /\ JoinInv(j) /\ ReadInv(j) /\ Listed
      /\ \A s \in Sid : ExcusedBy(g, s) \/ Agrees(s)
  BY <1>1, AtHandler
<1>3. /\ j.users = Candidates /\ j.stale = hash \ Candidates
      /\ ~Joining(j) => j.told # "status"
      /\ Joining(j) => Active(key) /\ Known(j) /\ Joined(j) /\ link[j.sid] \in {"up", "lost"}
  BY <1>1, <1>2 DEF ReadInv, JoinInv
<1>4. key # None => Active(key) = (key \in Candidates)
  BY DEF Candidates, Active
<1>5. Joining(j) => pc = "status"
  BY <1>3 DEF Joining, Active, Candidates
<1>6. pc \in {"idle", "status", "route", "pick", "tell"} /\ (~Joining(j) => pc # "status")
  BY <1>1, HandlerTypes DEF Joining
<1>7. pc = "tell" => key \notin Candidates
  BY <1>1, <1>3, HandlerTypes
<1>8. pc = "pick" => key \notin Candidates
  BY <1>3, <1>1, HandlerTypes
<1>. HIDE DEF pc
<1>9. /\ \A h \in Greenlet \ {g} : run'[h] = run[h]
      /\ pc = "idle" => run'[g].pc = "idle"
      /\ pc # "idle" => /\ run'[g].pc = pc /\ run'[g].sid = j.sid /\ run'[g].rest = j.rest
                        /\ run'[g].saw = key /\ run'[g].aim = None
                        /\ run'[g].told = j.told /\ run'[g].verdict = j.verdict
  <2>1. run \in [Greenlet -> Handler] /\ j \in Handler
    BY <1>1, HandlerTypes
  <2>2. /\ j2.pc = pc /\ j2.sid = j.sid /\ j2.rest = j.rest /\ j2.saw = key /\ j2.aim = None
        /\ j2.told = j.told /\ j2.verdict = j.verdict
    BY <2>1 DEF Handler
  <2>. HIDE DEF j2
  <2>3. CASE pc = "idle"
    BY <1>1, <2>1, <2>3 DEF Idle
  <2>4. CASE pc # "idle"
    BY <1>1, <2>1, <2>2, <2>4
  <2>. QED  BY <2>3, <2>4
<1>10. Listed'
  BY <1>1, <1>2 DEF Listed
<1>11. Candidates \subseteq hash /\ Candidates \subseteq map /\ hash' = Candidates /\ Candidates' = Candidates
  <2>1. Candidates \subseteq hash /\ Candidates \subseteq map
    BY DEF Candidates, Active
  <2>2. hash' = Candidates /\ Candidates \subseteq map'
    BY <1>1, <1>3, <2>1
  <2>. QED  BY <1>1, <2>1, <2>2 DEF Candidates, Active
<1>12. key \in Candidates => key' = key
  BY <1>1, <1>3
<1>13. key \notin Candidates => key' = None
  BY <1>1, <1>3
<1>14. Joining(j) => key \in Candidates /\ j.sid \in Candidates
  <2>1. j.sid \in Sid /\ None \notin Sid
    BY <1>1, HandlerTypes
  <2>. QED  BY <1>3, <2>1 DEF Active, Candidates, Joined
<1>15. pc # "idle" => JoinInv(run[g])'
  BY <1>1, <1>3, <1>5, <1>9, <1>11, <1>12, <1>14 DEF JoinInv, Joining, Joined, Known, Candidates, Active
<1>16. pc # "idle" => ReadInv(run[g])'
  BY <1>3, <1>6, <1>7, <1>8, <1>9, <1>11, <1>13 DEF ReadInv, Joining
<1>17. ASSUME NEW s \in Sid PROVE (pc # "idle" /\ ExcusedBy(g, s)') \/ Agrees(s)'
  <2>1. CASE Joining(j) /\ j.sid = s
    BY <1>5, <1>9, <2>1 DEF ExcusedBy, Joining
  <2>2. CASE Agrees(s)
    <3>1. Present(s)' => Present(s) /\ s \in Candidates
      BY <1>1, <1>11 DEF Present
    <3>2. s # None
      BY RoomAssumption
    <3>. QED  BY <1>1, <1>12, <1>13, <2>2, <3>1, <3>2 DEF Agrees
  <2>. QED  BY <1>1, <1>2, <2>1, <2>2 DEF ExcusedBy
<1>. QED  BY <1>1, <1>9, <1>10, <1>15, <1>16, <1>17, HandlerGoes

LEMMA PickAgrees ==
    ASSUME TypeOK, RoomInv, NEW g \in Greenlet, Pick(g)
    PROVE  RoomInv'
<1>. DEFINE j == run[g]
<1>1. j.pc = "pick" /\ UNCHANGED <<hash, map, key, link, leads, rejoin, orphan>>
  BY DEF Pick, At, redis, client, timer
<1>2. /\ JoinInv(j) /\ ReadInv(j) /\ Listed
      /\ \A s \in Sid : ExcusedBy(g, s) \/ Agrees(s)
  BY <1>1, AtHandler
<1>3. /\ key = None /\ j.saw \notin Candidates /\ j.aim = None /\ ~Joining(j) /\ j.told # "status"
      /\ j.rest \in {"idle", "route"}
  BY <1>1, <1>2, HandlerTypes DEF ReadInv, JoinInv, Joining
<1>4. Listed'
  BY <1>1, <1>2 DEF Listed
<1>5. \A s \in Sid : Agrees(s)'
  BY <1>1, <1>2, <1>3 DEF ExcusedBy, Joining, Agrees, Present
<1>6. CASE \E s \in Candidates : run' = [run EXCEPT ![g] = [@ EXCEPT !.pc = "install", !.aim = s]]
  <2>1. PICK s \in Candidates : run' = [run EXCEPT ![g] = [@ EXCEPT !.pc = "install", !.aim = s]]
    BY <1>6
  <2>2. /\ \A h \in Greenlet \ {g} : run'[h] = run[h]
        /\ run'[g].pc = "install" /\ run'[g].aim = s /\ run'[g].saw = j.saw /\ run'[g].told = j.told
        /\ run'[g].rest = j.rest
    <3>1. run \in [Greenlet -> Handler]
      BY <1>1, HandlerTypes
    <3>. QED  BY <2>1, <3>1 DEF Handler
  <2>3. ~Active(key)'
    BY <1>1, <1>3 DEF Active
  <2>4. JoinInv(run[g])' /\ ReadInv(run[g])'
    BY <1>3, <2>2, <2>3 DEF JoinInv, ReadInv, Joining
  <2>. QED  BY <1>1, <1>4, <1>5, <2>2, <2>4, HandlerGoes
<1>7. CASE Candidates = {} /\ Goto(g, IF j.saw # None THEN "tell" ELSE j.rest)
  <2>. DEFINE pc == IF j.saw # None THEN "tell" ELSE j.rest
  <2>1. pc \in {"tell", "idle", "route"} /\ pc \in Step
    BY <1>3 DEF Step
  <2>. HIDE DEF pc
  <2>2. /\ \A h \in Greenlet \ {g} : run'[h] = run[h]
        /\ pc = "idle" => run'[g].pc = "idle"
        /\ pc # "idle" => run'[g].pc = pc /\ run'[g].aim = j.aim /\ run'[g].rest = j.rest
                        /\ run'[g].told = j.told
    BY <1>7, <2>1, GotoGives DEF pc
  <2>3. pc # "idle" => JoinInv(run[g])' /\ ReadInv(run[g])'
    BY <1>1, <1>3, <2>1, <2>2 DEF JoinInv, ReadInv, Joining
  <2>. QED  BY <1>1, <1>4, <1>5, <2>1, <2>2, <2>3, HandlerGoes
<1>. QED  BY <1>6, <1>7 DEF Pick

LEMMA InstallAgrees ==
    ASSUME TypeOK, RoomInv, NEW g \in Greenlet, Install(g)
    PROVE  RoomInv'
<1>. DEFINE j == run[g]
<1>1. j.pc = "install" /\ UNCHANGED <<hash, map, link, leads, rejoin, orphan>> /\ key' = j.aim
  BY DEF Install, At, client, SetKey
<1>2. JoinInv(j) /\ ReadInv(j) /\ Listed
  BY <1>1, AtHandler
<1>3. j.aim # j.saw /\ ~Joining(j) /\ j.told # "status"
  BY <1>1, <1>2 DEF ReadInv, JoinInv
<1>4. /\ \A h \in Greenlet \ {g} : run'[h] = run[h]
      /\ run'[g].pc = "tell" /\ run'[g].aim = j.aim /\ run'[g].rest = j.rest
      /\ run'[g].told = j.told
  BY <1>3, GotoGives DEF Install, Step, SetKey
<1>5. Listed'
  BY <1>1, <1>2 DEF Listed
<1>6. JoinInv(run[g])' /\ ReadInv(run[g])'
  BY <1>1, <1>3, <1>4 DEF JoinInv, ReadInv, Joining
<1>7. \A s \in Sid : ExcusedBy(g, s)'
  BY <1>4 DEF ExcusedBy
<1>. QED  BY <1>1, <1>4, <1>5, <1>6, <1>7, HandlerGoes

(* Everyone in the hash is told who leads.                                   *)
LEMMA TellAgrees ==
    ASSUME TypeOK, RoomInv, NEW g \in Greenlet, Tell(g)
    PROVE  RoomInv'
<1>. DEFINE j == run[g]
            j2 == [j EXCEPT !.pc = j.told, !.saw = None, !.aim = None]
<1>1. /\ j.pc = "tell" /\ UNCHANGED <<hash, map, key, link, rejoin>>
      /\ leads' = [s \in Sid |-> IF s \in hash /\ link[s] = "up" THEN s = j.aim ELSE leads[s]]
      /\ run' = [run EXCEPT ![g] = IF j.told = "idle" THEN Idle ELSE j2]
  BY DEF Tell, At, redis, timer
<1>2. JoinInv(j) /\ ReadInv(j) /\ Listed
  BY <1>1, AtHandler
<1>3. /\ key = j.aim /\ (~Joining(j) => j.told # "status")
      /\ Joining(j) => /\ j.told = "list" /\ j.aim = j.sid /\ Known(j) /\ Joined(j)
                       /\ link[j.sid] \in {"up", "lost"}
  BY <1>1, <1>2 DEF ReadInv, JoinInv
<1>4. j.told \in {"idle", "list", "route"}
  BY <1>1, <1>3, HandlerTypes
<1>5. /\ \A h \in Greenlet \ {g} : run'[h] = run[h]
      /\ j.told = "idle" => run'[g].pc = "idle"
      /\ j.told # "idle" => /\ run'[g].pc = j.told /\ run'[g].sid = j.sid /\ run'[g].rest = j.rest
                            /\ run'[g].verdict = j.verdict
  <2>1. run \in [Greenlet -> Handler] /\ j \in Handler
    BY <1>1, HandlerTypes
  <2>2. j2.pc = j.told /\ j2.sid = j.sid /\ j2.rest = j.rest /\ j2.verdict = j.verdict
    BY <2>1 DEF Handler
  <2>. HIDE DEF j2
  <2>3. CASE j.told = "idle"
    BY <1>1, <2>1, <2>3 DEF Idle
  <2>4. CASE j.told # "idle"
    BY <1>1, <2>1, <2>2, <2>4
  <2>. QED  BY <2>3, <2>4
<1>6. Listed'
  BY <1>1, <1>2 DEF Listed
<1>7. Joining(j) => Active(key)'
  <2>1. j.sid \in Sid /\ None \notin Sid
    BY <1>1, HandlerTypes
  <2>. QED  BY <1>1, <1>3, <2>1 DEF Active, Joined
<1>8. j.told # "idle" => JoinInv(run[g])' /\ ReadInv(run[g])'
  BY <1>1, <1>3, <1>4, <1>5, <1>7 DEF JoinInv, ReadInv, Joining, Joined, Known
<1>9. ASSUME NEW s \in Sid PROVE Agrees(s)'
  <2>1. Present(s)' => s \in hash /\ link[s] = "up"
    BY <1>1 DEF Present
  <2>. QED  BY <1>1, <1>3, <2>1 DEF Agrees
<1>. QED  BY <1>1, <1>4, <1>5, <1>6, <1>8, <1>9, HandlerGoes

-----------------------------------------------------------------------------
(* A handler that serves no join: it reads, deletes its own session, or      *)
(* makes a choice; who is present and agrees still does.                     *)
LEMMA QuietStep ==
    ASSUME TypeOK, RoomInv, NEW g \in Greenlet, run[g].pc # "idle", run[g].pc # "tell", ~Joining(run[g]),
           \A h \in Greenlet \ {g} : run'[h] = run[h], UNCHANGED <<link, leads, rejoin, orphan>>,
           hash' \subseteq hash, map' \subseteq map,
           key' = key \/ (key' = None /\ \A s \in Sid : Present(s)' => s # key),
           run'[g].pc # "idle" => ReadInv(run[g])' /\ ~Joining(run[g])'
    PROVE  RoomInv'
<1>1. Listed /\ \A s \in Sid : Agrees(s)
  BY AtHandler DEF ExcusedBy
<1>2. Listed'
  BY <1>1 DEF Listed
<1>3. ASSUME NEW s \in Sid PROVE Agrees(s)'
  <2>1. Present(s)' => Present(s)
    BY DEF Present
  <2>2. s # None
    BY RoomAssumption
  <2>. QED  BY <1>1, <2>1, <2>2 DEF Agrees
<1>. QED  BY <1>2, <1>3, HandlerGoes DEF JoinInv

(* disconnect_session, and the two relays up to the one that makes its       *)
(* sender the leader.                                                        *)
LEMMA LeaveAgrees ==
    ASSUME TypeOK, RoomInv, NEW g \in Greenlet, Leave(g) \/ Vacate(g) \/ Ensure(g)
    PROVE  RoomInv'
<1>. DEFINE j == run[g]
<1>1. j.pc \in {"leave", "vacate", "ensure"} /\ UNCHANGED <<link, leads, rejoin, orphan>>
  BY DEF Leave, Vacate, Ensure, At, client, redis, timer, SetKey
<1>2. JoinInv(j) /\ ReadInv(j)
  BY <1>1, AtHandler
<1>3. ~Joining(j) /\ j.rest \in {"idle", "route"}
  BY <1>1, <1>2, HandlerTypes DEF JoinInv, Joining
<1>4. CASE Leave(g)
  <2>1. PICK pc \in {"idle", "succeed"} :
           /\ Goto(g, pc)
           /\ pc = "idle" => UNCHANGED <<hash, map>>
           /\ pc = "succeed" => hash' = hash \ {j.sid} /\ map' = map \ {j.sid}
    BY <1>4 DEF Leave
  <2>2. /\ \A h \in Greenlet \ {g} : run'[h] = run[h]
        /\ run'[g].pc = pc /\ (pc # "idle" => run'[g].rest = j.rest /\ run'[g].sid = j.sid)
    <3>1. pc \in Step /\ Goto(g, pc)
      BY <2>1 DEF Step
    <3>2. CASE pc = "idle"
      BY <3>1, <3>2, GotoGives
    <3>3. CASE pc # "idle"
      BY <3>1, <3>3, GotoGives
    <3>. QED  BY <3>2, <3>3
  <2>3. key' = key
    BY <1>4 DEF Leave
  <2>4. pc # "idle" => ReadInv(run[g])' /\ ~Joining(run[g])'
    BY <1>3, <2>1, <2>2 DEF ReadInv, Joining
  <2>. QED  BY <1>1, <1>3, <2>1, <2>2, <2>3, <2>4, QuietStep
<1>5. CASE Vacate(g)
  <2>1. /\ \A h \in Greenlet \ {g} : run'[h] = run[h]
        /\ run'[g].pc = "list" /\ run'[g].rest = j.rest
    BY <1>5, GotoGives DEF Vacate, Step, SetKey
  <2>2. key' = None /\ UNCHANGED <<hash, map>> /\ key = j.sid /\ j.sid \notin hash
    BY <1>2, <1>5 DEF Vacate, At, ReadInv, SetKey
  <2>3. ReadInv(run[g])' /\ ~Joining(run[g])'
    BY <1>3, <2>1 DEF ReadInv, Joining
  <2>4. \A s \in Sid : Present(s)' => s # key
    BY <2>2 DEF Present
  <2>. QED  BY <1>1, <1>3, <2>1, <2>2, <2>3, <2>4, QuietStep
<1>6. CASE Ensure(g)
  <2>1. PICK pc \in {"idle", "route", "seize"} : Goto(g, pc) /\ (pc = "seize" => ~Active(key))
    BY <1>3, <1>6 DEF Ensure
  <2>2. /\ \A h \in Greenlet \ {g} : run'[h] = run[h]
        /\ run'[g].pc = pc /\ (pc # "idle" => run'[g].rest = j.rest)
    BY <2>1, GotoGives DEF Step
  <2>3. UNCHANGED <<hash, map, key>>
    BY <1>6 DEF Ensure, redis, timer
  <2>4. Active(key)' = Active(key)
    BY <1>1, <2>3 DEF Active
  <2>5. pc # "idle" => ReadInv(run[g])' /\ ~Joining(run[g])'
    BY <1>3, <2>1, <2>2, <2>4 DEF ReadInv, Joining
  <2>. QED  BY <1>1, <1>3, <2>2, <2>3, <2>5, QuietStep
<1>. QED  BY <1>4, <1>5, <1>6

LEMMA SucceedAgrees ==
    ASSUME TypeOK, RoomInv, NEW g \in Greenlet, Succeed(g)
    PROVE  RoomInv'
<1>. DEFINE j == run[g]
<1>1. j.pc = "succeed" /\ UNCHANGED <<hash, map, key, link, leads, rejoin, orphan>>
  BY DEF Succeed, At, client, redis, timer
<1>2. ~Joining(j) /\ j.sid \notin hash
  BY <1>1, AtHandler DEF JoinInv, ReadInv
<1>3. CASE \E s \in Candidates :
             /\ key = j.sid
             /\ run' = [run EXCEPT ![g] = [@ EXCEPT !.pc = "install", !.saw = key, !.aim = s,
                                                    !.told = "list"]]
  <2>1. PICK s \in Candidates :
           run' = [run EXCEPT ![g] = [@ EXCEPT !.pc = "install", !.saw = key, !.aim = s, !.told = "list"]]
    BY <1>3
  <2>2. /\ \A h \in Greenlet \ {g} : run'[h] = run[h]
        /\ run'[g].pc = "install" /\ run'[g].aim = s /\ run'[g].saw = key /\ run'[g].told = "list"
        /\ run'[g].rest = j.rest
    <3>1. run \in [Greenlet -> Handler]
      BY <1>1, HandlerTypes
    <3>. QED  BY <2>1, <3>1 DEF Handler
  <2>3. s # key /\ ~Active(key)'
    BY <1>1, <1>2, <1>3 DEF Candidates, Active
  <2>4. ReadInv(run[g])' /\ ~Joining(run[g])'
    BY <1>2, <2>2, <2>3 DEF ReadInv, Joining
  <2>. QED  BY <1>1, <1>2, <2>2, <2>4, QuietStep
<1>4. CASE Goto(g, "list") \/ (key = j.sid /\ Goto(g, "vacate"))
  <2>1. PICK pc \in {"list", "vacate"} : Goto(g, pc) /\ (pc = "vacate" => key = j.sid)
    BY <1>4
  <2>2. /\ \A h \in Greenlet \ {g} : run'[h] = run[h]
        /\ run'[g].pc = pc /\ run'[g].rest = j.rest /\ run'[g].sid = j.sid
    BY <2>1, GotoGives DEF Step
  <2>3. ReadInv(run[g])' /\ ~Joining(run[g])'
    BY <1>1, <1>2, <2>1, <2>2 DEF ReadInv, Joining
  <2>. QED  BY <1>1, <1>2, <2>2, <2>3, QuietStep
<1>. QED  BY <1>3, <1>4 DEF Succeed

LEMMA SeizeAgrees ==
    ASSUME TypeOK, RoomInv, NEW g \in Greenlet, Seize(g)
    PROVE  RoomInv'
<1>. DEFINE j == run[g]
<1>1. j.pc = "seize" /\ UNCHANGED <<hash, map, link, leads, rejoin, orphan>> /\ key' = j.sid
  BY DEF Seize, At, client, SetKey
<1>2. ~Joining(j) /\ Listed
  BY <1>1, AtHandler DEF JoinInv
<1>3. /\ \A h \in Greenlet \ {g} : run'[h] = run[h]
      /\ run'[g].pc = "tell" /\ run'[g].aim = j.sid /\ run'[g].told = j.rest /\ run'[g].rest = j.rest
  <2>1. run \in [Greenlet -> Handler]
    BY <1>1, HandlerTypes
  <2>. QED  BY <2>1 DEF Seize, Handler, SetKey
<1>4. Listed'
  BY <1>1, <1>2 DEF Listed
<1>5. JoinInv(run[g])' /\ ReadInv(run[g])'
  BY <1>1, <1>2, <1>3 DEF JoinInv, ReadInv, Joining
<1>6. \A s \in Sid : ExcusedBy(g, s)'
  BY <1>3 DEF ExcusedBy
<1>. QED  BY <1>1, <1>3, <1>4, <1>5, <1>6, HandlerGoes

LEMMA RouteAgrees ==
    ASSUME TypeOK, RoomInv, NEW g \in Greenlet, Route(g)
    PROVE  RoomInv'
<1>. DEFINE j == run[g]
<1>1. j.pc = "route" /\ UNCHANGED <<hash, map, link, leads, rejoin, orphan>>
  BY DEF Route, At, client, SetKey
<1>2. ~Joining(j)
  BY <1>1, AtHandler DEF JoinInv
<1>3. key' = key \/ (key' = None /\ \A s \in Sid : Present(s)' => s # key)
  <2>1. CASE ~Active(key)
    <3>1. None \notin Sid
      BY RoomAssumption
    <3>2. \A s \in Sid : Present(s)' => Active(s)
      BY <1>1, <3>1 DEF Present, Active
    <3>. QED  BY <2>1, <3>2 DEF Route, SetKey
  <2>2. CASE Active(key)
    BY <2>2 DEF Route, SetKey
  <2>. QED  BY <2>1, <2>2
<1>4. CASE Goto(g, "idle")
  <2>1. (\A h \in Greenlet \ {g} : run'[h] = run[h]) /\ run'[g].pc = "idle"
    BY <1>4, GotoGives DEF Step
  <2>. QED  BY <1>1, <1>2, <1>3, <2>1, QuietStep
<1>5. ASSUME NEW s \in Candidates, key' = None,
             run' = [run EXCEPT ![g] = [@ EXCEPT !.pc = "install", !.saw = None, !.aim = s, !.told = "idle"]]
      PROVE  RoomInv'
  <2>1. /\ \A h \in Greenlet \ {g} : run'[h] = run[h]
        /\ run'[g].pc = "install" /\ run'[g].aim = s /\ run'[g].saw = None /\ run'[g].told = "idle"
        /\ run'[g].rest = j.rest
    <3>1. run \in [Greenlet -> Handler]
      BY <1>1, HandlerTypes
    <3>. QED  BY <1>5, <3>1 DEF Handler
  <2>2. s # None /\ ~Active(key)'
    BY <1>5 DEF Candidates, Active
  <2>3. ReadInv(run[g])' /\ ~Joining(run[g])'
    BY <1>2, <2>1, <2>2 DEF ReadInv, Joining
  <2>. QED  BY <1>1, <1>2, <1>3, <2>1, <2>3, QuietStep
<1>. QED  BY <1>4, <1>5 DEF Route, SetKey

LEMMA HandleAgrees ==
    ASSUME TypeOK, RoomInv, NEW g \in Greenlet, Handle(g)
    PROVE  RoomInv'
BY EnterAgrees, LookAgrees, EvictAgrees, ClaimAgrees, RereadAgrees, StatusAgrees, ListAgrees, PruneAgrees,
   PickAgrees, InstallAgrees, TellAgrees, LeaveAgrees, SucceedAgrees,
   SeizeAgrees, RouteAgrees DEF Handle, Join

-----------------------------------------------------------------------------
(* A handler starts, or a key expires, while nothing runs.                   *)
LEMMA Begins ==
    ASSUME TypeOK, RoomInv, ~Busy, NEW g \in Greenlet, \A h \in Greenlet \ {g} : run'[h] = run[h], Listed',
           run'[g].pc # "idle" => JoinInv(run[g])' /\ ReadInv(run[g])', \A s \in Sid : Agrees(s)'
    PROVE  RoomInv'
BY DEF RoomInv, Busy, Alone, Listed

LEMMA NobodyExcused == ASSUME RoomInv, ~Busy PROVE Listed /\ \A s \in Sid : Agrees(s)
BY DEF RoomInv, Busy, Excused, Listed

LEMMA StartGives ==
    ASSUME TypeOK, NEW g \in Greenlet, NEW pc \in {"enter", "leave", "ensure"}, NEW s \in Sid,
           NEW rest \in {"idle", "status", "route"}, Start(g, pc, s, rest), ~raced'
    PROVE  /\ ~Busy /\ \A h \in Greenlet \ {g} : run'[h] = run[h]
           /\ run'[g].pc = pc /\ run'[g].sid = s /\ run'[g].rest = rest
<1>1. ~Busy
  BY DEF Start, bounds
<1>2. run \in [Greenlet -> Handler]
  BY DEF TypeOK
<1>. QED  BY <1>1, <1>2 DEF Start, Idle, bounds

LEMMA StartAgrees ==
    ASSUME TypeOK, RoomInv, ~raced', NEW g \in Greenlet, NEW s \in Sid,
           UserConnect(g, s) \/ Disconnect(g, s) \/ Event(g, s)
    PROVE  RoomInv'
<1>0. leads' = leads /\ hash' = hash /\ map' = map /\ key' = key /\ orphan' = orphan
  BY DEF UserConnect, Disconnect, Event, redis, timer, Refresh, bounds
<1>1. CASE UserConnect(g, s)
  <2>1. /\ ~Busy /\ \A h \in Greenlet \ {g} : run'[h] = run[h]
        /\ run'[g].pc = "enter" /\ run'[g].sid = s /\ run'[g].rest = "status"
    BY <1>1, StartGives DEF UserConnect
  <2>2. Listed /\ (\A u \in Sid : Agrees(u)) /\ link' = link /\ link[s] = "up" /\ rejoin' = rejoin \ {s}
    BY <1>1, <2>1, NobodyExcused DEF UserConnect, Listed
  <2>3. Listed' /\ \A u \in Sid : Agrees(u)'
    BY <1>0, <2>2 DEF Listed, Agrees, Present
  <2>4. JoinInv(run[g])' /\ ReadInv(run[g])'
    BY <2>1, <2>2 DEF JoinInv, ReadInv, Joining
  <2>. QED  BY <2>1, <2>3, <2>4, Begins
<1>2. CASE Disconnect(g, s)
  <2>1. /\ ~Busy /\ \A h \in Greenlet \ {g} : run'[h] = run[h]
        /\ run'[g].pc = "leave" /\ run'[g].sid = s /\ run'[g].rest = "idle"
    BY <1>2, StartGives DEF Disconnect
  <2>2. /\ Listed /\ (\A u \in Sid : Agrees(u)) /\ rejoin' = rejoin
        /\ link[s] = "lost" /\ link' = [link EXCEPT ![s] = "gone"]
    BY <1>2, <2>1, NobodyExcused DEF Disconnect
  <2>3. /\ link'[s] = "gone" /\ \A u \in Sid \ {s} : link'[u] = link[u]
        /\ map \subseteq Sid /\ rejoin \subseteq Sid
    BY <2>2 DEF TypeOK
  <2>4. Listed'
    BY <1>0, <2>2, <2>3 DEF Listed
  <2>5. \A u \in Sid : Agrees(u)'
    BY <1>0, <2>2, <2>3 DEF Agrees, Present
  <2>6. JoinInv(run[g])' /\ ReadInv(run[g])'
    BY <2>1 DEF JoinInv, ReadInv, Joining
  <2>. QED  BY <2>1, <2>4, <2>5, <2>6, Begins
<1>3. CASE link' = link /\ rejoin' = rejoin /\ \E rest \in {"idle", "route"} : Start(g, "ensure", s, rest)
  <2>1. PICK rest \in {"idle", "route"} : Start(g, "ensure", s, rest)
    BY <1>3
  <2>2. /\ ~Busy /\ \A h \in Greenlet \ {g} : run'[h] = run[h]
        /\ run'[g].pc = "ensure" /\ run'[g].sid = s /\ run'[g].rest = rest
    BY <2>1, StartGives
  <2>3. Listed' /\ \A u \in Sid : Agrees(u)'
    BY <1>0, <1>3, <2>2, NobodyExcused DEF Listed, Agrees, Present
  <2>4. JoinInv(run[g])' /\ ReadInv(run[g])'
    BY <2>2 DEF JoinInv, ReadInv, Joining
  <2>. QED  BY <2>2, <2>3, <2>4, Begins
<1>4. CASE link[s] = "up" /\ link' = link /\ rejoin' = rejoin \cup {s} /\ run' = run
  <2>1. \A u \in rejoin' : link'[u] = "up"
    BY <1>4 DEF RoomInv
  <2>2. \A u \in Sid : Excused(u)' \/ Agrees(u)'
    BY <1>0, <1>4 DEF RoomInv, Excused, Agrees, Present, Joining
  <2>3. ASSUME NEW h \in Greenlet, run'[h].pc # "idle" PROVE Alone(h)' /\ JoinInv(run[h])' /\ ReadInv(run[h])'
    <3>1. Candidates' = Candidates /\ Active(key)' = Active(key)
      BY <1>0, <1>4 DEF Candidates, Active
    <3>2. Alone(h) /\ JoinInv(run[h]) /\ ReadInv(run[h])
      BY <1>4, <2>3 DEF RoomInv
    <3>3. Alone(h)' /\ JoinInv(run[h])'
      BY <1>0, <1>4, <3>1, <3>2 DEF Alone, JoinInv, Joining, Joined, Known
    <3>4. ReadInv(run[h])'
      BY <1>0, <1>4, <3>1, <3>2 DEF ReadInv, Joining
    <3>. QED  BY <3>3, <3>4
  <2>. QED  BY <1>0, <1>4, <2>1, <2>2, <2>3 DEF RoomInv
<1>. QED  BY <1>1, <1>2, <1>3, <1>4 DEF Event, Refresh, bounds

(* The expiry of a mapping or of the hash hides an editor or everyone; whose *)
(* leadership expires is an orphan.                                          *)
LEMMA LapseAgrees ==
    ASSUME TypeOK, RoomInv, ~raced', Lapse
    PROVE  RoomInv'
<1>1. ~Busy /\ UNCHANGED <<link, leads, rejoin, run>>
  BY DEF Lapse
<1>2. Listed /\ \A s \in Sid : Agrees(s)
  BY <1>1, NobodyExcused
<1>3. /\ hash' \subseteq hash /\ map' \subseteq map
      /\ \/ key' = key /\ orphan' = orphan
         \/ key' = None /\ orphan' = orphan \cup {key}
  BY DEF Lapse
<1>4. Listed'
  BY <1>1, <1>2, <1>3 DEF Listed
<1>5. ASSUME NEW s \in Sid PROVE Agrees(s)'
  <2>1. Present(s)' => Present(s)
    BY <1>1, <1>3 DEF Present
  <2>2. s # None
    BY RoomAssumption
  <2>. QED  BY <1>1, <1>2, <1>3, <2>1, <2>2 DEF Agrees
<1>6. \A g \in Greenlet : run'[g].pc = "idle"
  BY <1>1 DEF Busy
<1>. QED  BY <1>4, <1>5, <1>6 DEF RoomInv, Listed

(* A socket that connects or breaks off changes no session that counts.      *)
LEMMA SocketAgrees ==
    ASSUME TypeOK, RoomInv, NEW s \in Sid, Connect(s) \/ Drop(s)
    PROVE  RoomInv'
<1>1. /\ UNCHANGED <<hash, map, key, run>> /\ link \in [Sid -> {"new", "up", "lost", "gone"}]
      /\ leads \in [Sid -> BOOLEAN] /\ \A u \in Sid \ {s} : link'[u] = link[u] /\ leads'[u] = leads[u]
      /\ \A u \in Sid \ {s} : u \in orphan => u \in orphan'
      /\ hash \subseteq Sid /\ map \subseteq Sid /\ rejoin \subseteq Sid
  BY DEF Connect, Drop, redis, TypeOK, timer, bounds
<1>2. \/ link[s] = "new" /\ link'[s] = "up" /\ rejoin' = rejoin \cup {s} /\ s \notin hash /\ s \notin map
      \/ link[s] = "up" /\ link'[s] = "lost" /\ rejoin' = rejoin \ {s}
  BY <1>1 DEF Connect, Drop, RoomInv, bounds
<1>3. Listed'
  BY <1>1, <1>2 DEF Listed, RoomInv
<1>4. /\ \A u \in Sid \cup {None} : Active(u)' = Active(u)
      /\ \A u \in Sid : u # s \/ ~Present(u)'
  BY <1>1, <1>2 DEF Active, Present
<1>5. Candidates' = Candidates /\ Active(key)' = Active(key)
  BY <1>1, <1>4 DEF Candidates, TypeOK
<1>6. ASSUME NEW u \in Sid PROVE Excused(u)' \/ Agrees(u)'
  BY <1>1, <1>4 DEF RoomInv, Excused, Agrees, Present, Joining
<1>7. ASSUME NEW h \in Greenlet, run'[h].pc # "idle" PROVE Alone(h)' /\ JoinInv(run[h])' /\ ReadInv(run[h])'
  <2>1. Alone(h) /\ JoinInv(run[h]) /\ ReadInv(run[h]) /\ run[h].sid \in Sid
    BY <1>1, <1>7, HandlerTypes DEF RoomInv
  <2>2. link[run[h].sid] \in {"up", "lost"} => link'[run[h].sid] \in {"up", "lost"}
    BY <1>1, <1>2, <2>1
  <2>3. Alone(h)' /\ JoinInv(run[h])'
    BY <1>1, <1>5, <2>1, <2>2 DEF Alone, JoinInv, Joining, Joined, Known
  <2>4. ReadInv(run[h])'
    BY <1>1, <1>5, <2>1 DEF ReadInv, Joining
  <2>. QED  BY <2>3, <2>4
<1>. QED  BY <1>3, <1>6, <1>7 DEF RoomInv, Listed

LEMMA AgreementNext == TypeOK /\ AgreementInv /\ [Next]_vars => AgreementInv'
<1>. SUFFICES ASSUME TypeOK, AgreementInv, [Next]_vars, ~raced' PROVE RoomInv'
  BY DEF AgreementInv
<1>1. ~raced
  BY DEF Next, Lapse, Connect, Drop, UserConnect, Disconnect, Event, Start, Handle, vars, Refresh, bounds
<1>2. RoomInv
  BY <1>1 DEF AgreementInv
<1>3. CASE UNCHANGED vars
  <2>1. UNCHANGED <<hash, map, key, link, leads, rejoin, orphan, run>>
    BY <1>3 DEF vars, redis, client, timer, bounds
  <2>2. Candidates' = Candidates /\ Active(key)' = Active(key)
    BY <2>1 DEF Candidates, Active
  <2>3. \A u \in Sid : Excused(u)' \/ Agrees(u)'
    BY <1>2, <2>1 DEF RoomInv, Excused, Agrees, Present, Joining
  <2>4. ASSUME NEW h \in Greenlet, run'[h].pc # "idle" PROVE Alone(h)' /\ JoinInv(run[h])' /\ ReadInv(run[h])'
    <3>1. Alone(h) /\ JoinInv(run[h]) /\ ReadInv(run[h])
      BY <1>2, <2>1, <2>4 DEF RoomInv
    <3>2. Alone(h)' /\ JoinInv(run[h])'
      BY <2>1, <2>2, <3>1 DEF Alone, JoinInv, Joining, Joined, Known
    <3>3. ReadInv(run[h])'
      BY <2>1, <2>2, <3>1 DEF ReadInv, Joining
    <3>. QED  BY <3>2, <3>3
  <2>. QED  BY <1>2, <2>1, <2>3, <2>4 DEF RoomInv
<1>. QED  BY <1>2, <1>3, HandleAgrees, StartAgrees, LapseAgrees, SocketAgrees DEF Next

(* Server and editors agree on the leader whenever nothing runs, as long as  *)
(* handlers and expiries came one at a time, for any number of editors and   *)
(* any order of joins, departures, lost connections and expiries.            *)
THEOREM EditorsAgreeOnLeader == Spec => []Agreement
<1>1. Init => AgreementInv
  BY RoomInit DEF AgreementInv
<1>2. AgreementInv => Agreement
  <2>. SUFFICES ASSUME RoomInv, ~Busy PROVE Agreement
    BY DEF AgreementInv, Agreement
  <2>1. Listed /\ \A s \in Sid : Agrees(s)
    BY NobodyExcused
  <2>. QED  BY <2>1 DEF Listed, Agrees, Agreement
<1>. QED  BY <1>1, <1>2, RoomTypeCorrect, AgreementNext, PTL DEF Spec

-----------------------------------------------------------------------------
(* A handler that changes the key found its leader gone, and it still is.    *)
LEMMA HandlerKeepsLeader ==
    ASSUME TypeOK, RoomInv, Active(key), NEW g \in Greenlet, Handle(g)
    PROVE  key' = key
<1>. DEFINE j == run[g]
<1>1. j.pc # "idle" => ReadInv(j)
  BY AtHandler
<1>2. key # None
  BY DEF Active
<1>3. ASSUME Evict(g) \/ Install(g) \/ Seize(g) PROVE FALSE
  BY <1>1, <1>3 DEF Evict, Install, Seize, At, ReadInv, SetKey
<1>4. ASSUME Vacate(g) PROVE FALSE
  BY <1>1, <1>4 DEF Vacate, At, ReadInv, Active, SetKey
<1>5. CASE Claim(g)
  BY <1>1, <1>2, <1>5 DEF Claim, At, ReadInv, SetKey
<1>6. CASE Prune(g)
  <2>1. key \in Candidates
    BY DEF Active, Candidates
  <2>2. j.users = Candidates
    BY <1>1, <1>6 DEF Prune, At, ReadInv, SetKey
  <2>. QED  BY <1>6, <2>1, <2>2 DEF Prune, SetKey
<1>7. CASE Route(g)
  BY <1>7 DEF Route, SetKey
<1>8. CASE \/ Enter(g) \/ MapSid(g) \/ Look(g) \/ Reread(g) \/ Status(g) \/ Leave(g) \/ Succeed(g)
           \/ Ensure(g) \/ Tell(g) \/ List(g) \/ Pick(g)
  BY <1>8 DEF Enter, MapSid, Look, Reread, Status, Leave, Succeed, Ensure, Tell, List, Pick, redis, timer, Refresh
<1>. QED  BY <1>3, <1>4, <1>5, <1>6, <1>7, <1>8 DEF Handle, Join

(* An active editor keeps the leadership as long as handlers and expiries    *)
(* came one at a time: for any number of editors, whoever joins or leaves,   *)
(* whatever is pruned or relayed, and whatever expires but a key that was    *)
(* not refreshed with the session of its holder.                             *)
THEOREM ActiveLeaderStays == Spec => LeaderStays
<1>. DEFINE Kept == key' = key \/ (keyOld /\ key' = None /\ UNCHANGED run)
<1>1. TypeOK /\ AgreementInv /\ [Next]_vars => [~raced /\ Active(key) => Kept]_vars
  <2>. SUFFICES ASSUME TypeOK, RoomInv, Active(key), Next PROVE Kept
    BY DEF AgreementInv
  <2>1. CASE Lapse
    BY <2>1 DEF Lapse, Active
  <2>2. ASSUME NEW s \in Sid, Connect(s) \/ Drop(s) PROVE key' = key
    BY <2>2 DEF Connect, Drop, redis, timer, bounds
  <2>3. ASSUME NEW s \in Sid, NEW g \in Greenlet, UserConnect(g, s) \/ Disconnect(g, s) \/ Event(g, s)
        PROVE  key' = key
    BY <2>3 DEF UserConnect, Disconnect, Event, redis, timer, Refresh, bounds
  <2>. QED  BY <2>1, <2>2, <2>3, HandlerKeepsLeader DEF Next
<1>2. Init => AgreementInv
  BY RoomInit DEF AgreementInv
<1>. QED  BY <1>1, <1>2, RoomTypeCorrect, AgreementNext, PTL DEF Spec, LeaderStays
=============================================================================
