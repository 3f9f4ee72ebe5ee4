----------------------------- MODULE CollabRoom -----------------------------
(* The collaboration room of one workflow: which of the connected editors is *)
(* the leader, the one that saves the draft and answers sync requests.       *)
(*                                                                           *)
(* The socket server is one process; every event of a socket is handled by a *)
(* greenlet of its own, and the handlers interleave at their Redis commands. *)
(* A step here is a decision with the reads it rests on, or the writes that  *)
(* follow it.  A socket that reconnects has a new sid.  People who may not   *)
(* open the workflow change nothing and are left out.                        *)
EXTENDS Naturals, FiniteSets

CONSTANTS Sid,        \* socket connections, each used once
          Greenlet,   \* bound: handlers that run at the same time
          MaxTrouble, \* bound: keys that expire, and twice the handlers that start beside another
          None

ASSUME RoomAssumption == MaxTrouble \in Nat /\ None \notin Sid

VARIABLES
  hash,   \* workflow_online_users: the sids with a field in it
  map,    \* ws_sid_map: the sids with a mapping
  key,    \* workflow_leader
  late,   \* the sids whose mapping may expire after the hash; the others' expire before it
  keyOld, \* the leader's key expires before its holder's mapping
  link,   \* the connection; "lost": the server has not noticed yet
  leads,  \* isLeader of the collaboration manager of each client
  rejoin, \* clients with a user_connect on its way
  run,    \* what each handler is doing
  raced,  \* history: a handler overlapped another one, or an expiry
  orphan, \* history: whose leadership expired and who was told nothing since
  trouble \* bound: expiries and overlaps so far

timer  == <<late, keyOld>>
redis  == <<hash, map, key, timer>>
client == <<link, leads, rejoin, orphan>>
bounds == <<raced, trouble>>
vars   == <<redis, client, run, bounds>>

(* A handler: the sid it serves; the leader it read; whom it makes leader;   *)
(* the sessions it found active and stale; the status it will report; where  *)
(* it goes after it told everyone, and after it refreshed the user list.     *)
Step == {"idle", "enter", "map", "look", "evict", "claim", "reread", "list", "prune",
         "pick", "install", "tell", "status", "leave", "succeed", "vacate",
         "ensure", "seize", "route"}
Handler == [pc : Step, sid : Sid \cup {None}, saw : Sid \cup {None}, aim : Sid \cup {None},
            users : SUBSET Sid, stale : SUBSET Sid, verdict : BOOLEAN,
            told : {"idle", "list", "status", "route"}, rest : {"idle", "status", "route"}]
Idle == [pc |-> "idle", sid |-> None, saw |-> None, aim |-> None, users |-> {}, stale |-> {},
         verdict |-> FALSE, told |-> "idle", rest |-> "idle"]

(* Types; and who is evicted or made leader is somebody.                     *)
TypeOK ==
    /\ hash \subseteq Sid /\ map \subseteq Sid /\ key \in Sid \cup {None}
    /\ link \in [Sid -> {"new", "up", "lost", "gone"}] /\ leads \in [Sid -> BOOLEAN]
    /\ late \subseteq Sid /\ keyOld \in BOOLEAN /\ orphan \subseteq Sid
    /\ rejoin \subseteq Sid /\ raced \in BOOLEAN /\ trouble \in 0 .. MaxTrouble
    /\ run \in [Greenlet -> Handler]
    /\ \A g \in Greenlet : /\ run[g].pc # "idle" => run[g].sid # None
                           /\ run[g].pc = "evict" => run[g].saw # None
                           /\ run[g].pc = "install" => run[g].aim # None

Init ==
    /\ hash = {} /\ map = {} /\ key = None /\ late = {} /\ keyOld = FALSE /\ orphan = {}
    /\ link = [s \in Sid |-> "new"] /\ leads = [s \in Sid |-> FALSE] /\ rejoin = {}
    /\ run = [g \in Greenlet |-> Idle] /\ raced = FALSE /\ trouble = 0

-----------------------------------------------------------------------------
(* is_session_active                                                         *)
Active(s) == s # None /\ link[s] \in {"up", "lost"} /\ s \in hash /\ s \in map

(* _select_graph_leader takes the first of these.                            *)
Candidates == {s \in hash : Active(s)}

Busy == \E g \in Greenlet : run[g].pc # "idle"
Trouble(n) == trouble + n <= MaxTrouble /\ trouble' = trouble + n

-----------------------------------------------------------------------------
(* The clients. *)

(* The socket connects and sends user_connect.                               *)
Connect(s) ==
    /\ link[s] = "new"
    /\ link' = [link EXCEPT ![s] = "up"] /\ rejoin' = rejoin \cup {s}
    /\ UNCHANGED <<redis, leads, orphan, run, bounds>>

(* The connection breaks, or the editor is closed.                           *)
Drop(s) ==
    /\ link[s] = "up"
    /\ link' = [link EXCEPT ![s] = "lost"] /\ leads' = [leads EXCEPT ![s] = FALSE]
    /\ rejoin' = rejoin \ {s} /\ orphan' = orphan \ {s}
    /\ UNCHANGED <<redis, run, bounds>>

(* A key that nobody refreshed for SESSION_STATE_TTL_SECONDS expires.  A    *)
(* session is refreshed by its own events and joins: first the hash, then    *)
(* its mapping.  So the hash outlives every mapping but that of the session  *)
(* refreshed last (when refreshes overlap, any of theirs).  The leader's key *)
(* is written or refreshed after its holder's mapping, and expires after it, *)
(* except when the holder refreshed its session alone: it joined again.      *)
Refresh(g, s) ==
    /\ late' = IF \E h \in Greenlet \ {g} : run[h].pc # "idle" THEN late \cup {s} ELSE {s}
    /\ keyOld' = (keyOld \/ key = s)

Lapse ==
    /\ Trouble(1)
    /\ \/ /\ \E s \in map : /\ hash = {} \/ late # {s}
                            /\ ~(s = key /\ keyOld)
                            /\ map' = map \ {s}
          /\ UNCHANGED <<hash, key, timer, orphan>>
       \/ /\ hash # {} /\ map \subseteq late
          /\ hash' = {} /\ UNCHANGED <<map, key, timer, orphan>>
       \/ /\ key # None /\ (key \notin map \/ keyOld)
          /\ key' = None /\ keyOld' = FALSE /\ orphan' = orphan \cup {key}
          /\ UNCHANGED <<hash, map, late>>
    /\ raced' = (raced \/ Busy)
    /\ UNCHANGED <<link, leads, rejoin, run>>

-----------------------------------------------------------------------------
(* Where handlers start: one free greenlet is as good as another. *)

Free(g) == run[g].pc = "idle" /\ g = CHOOSE h \in Greenlet : run[h].pc = "idle"

Start(g, pc, s, rest) ==
    /\ Free(g)
    /\ run' = [run EXCEPT ![g] = [Idle EXCEPT !.pc = pc, !.sid = s, !.rest = rest]]
    /\ IF Busy THEN Trouble(2) /\ raced' = TRUE ELSE UNCHANGED bounds

(* user_connect                                                              *)
UserConnect(g, s) ==
    /\ s \in rejoin /\ rejoin' = rejoin \ {s}
    /\ Start(g, "enter", s, "status")
    /\ UNCHANGED <<redis, link, leads, orphan>>

(* disconnect: from here on the server takes the socket for disconnected.    *)
Disconnect(g, s) ==
    /\ link[s] = "lost" /\ link' = [link EXCEPT ![s] = "gone"]
    /\ Start(g, "leave", s, "idle")
    /\ UNCHANGED <<redis, leads, rejoin, orphan>>

(* graph_event, or collaboration_event, whose sync_request is routed to the  *)
(* leader: the session's hash and mapping are refreshed.  Without a mapping  *)
(* the answer is 401 and the client joins again.                             *)
Event(g, s) ==
    /\ link[s] = "up"
    /\ \/ /\ s \in map /\ (\E rest \in {"idle", "route"} : Start(g, "ensure", s, rest))
          /\ Refresh(g, s) /\ UNCHANGED rejoin
       \/ /\ s \notin map /\ Free(g) /\ rejoin' = rejoin \cup {s}
          /\ UNCHANGED <<timer, run, bounds>>
    /\ UNCHANGED <<hash, map, key, link, leads, orphan>>

-----------------------------------------------------------------------------
(* Steps that several handlers share. *)

At(g, pc) == run[g].pc = pc
Goto(g, pc) == run' = [run EXCEPT ![g] = IF pc = "idle" THEN Idle ELSE [@ EXCEPT !.pc = pc]]

(* broadcast_leader_change: to every session of the hash.                    *)
Tell(g) ==
    /\ At(g, "tell")
    /\ leads' = [s \in Sid |-> IF s \in hash /\ link[s] = "up" THEN s = run[g].aim ELSE leads[s]]
    /\ orphan' = orphan \ hash
    /\ run' = [run EXCEPT ![g] = IF run[g].told = "idle" THEN Idle
                                 ELSE [@ EXCEPT !.pc = run[g].told, !.saw = None, !.aim = None]]
    /\ UNCHANGED <<redis, link, rejoin>>

(* The key is written or deleted: it is as young as can be.                  *)
SetKey(s) == key' = s /\ keyOld' = FALSE

(* MUTANT of Install: nobody is told.                                        *)
InstallQuietly(g) ==
    /\ At(g, "install") /\ SetKey(run[g].aim)
    /\ Goto(g, run[g].told)
    /\ UNCHANGED <<hash, map, late, client>>

(* set_leader; broadcast_online_users tells of it only if it is a change.    *)
Install(g) ==
    /\ At(g, "install") /\ SetKey(run[g].aim)
    /\ Goto(g, IF run[g].aim # run[g].saw THEN "tell" ELSE run[g].told)
    /\ UNCHANGED <<hash, map, late, client>>

(* _prune_inactive_sessions, what it reads.                                  *)
List(g) ==
    /\ At(g, "list")
    /\ run' = [run EXCEPT ![g] = [@ EXCEPT !.pc = "prune", !.saw = None, !.users = Candidates,
                                           !.stale = hash \ Candidates, !.told = run[g].rest]]
    /\ UNCHANGED <<redis, client>>

(* What it deletes; then a leader that is not among the users it found goes. *)
Prune(g) ==
    LET j == run[g] IN
    /\ At(g, "prune")
    /\ hash' = hash \ j.stale /\ map' = map \ j.stale
    /\ IF key \in j.users THEN UNCHANGED <<key, keyOld>> ELSE SetKey(None)
    /\ LET pc == IF key \in j.users THEN j.rest
                 ELSE IF j.users # {} THEN "pick" ELSE IF key # None THEN "tell" ELSE j.rest
       IN run' = [run EXCEPT ![g] = IF pc = "idle" THEN Idle
                     ELSE [@ EXCEPT !.pc = pc, !.saw = key, !.aim = None, !.users = {}, !.stale = {}]]
    /\ UNCHANGED <<late, client>>

Pick(g) ==
    /\ At(g, "pick")
    /\ \/ \E s \in Candidates : run' = [run EXCEPT ![g] = [@ EXCEPT !.pc = "install", !.aim = s]]
       \/ Candidates = {} /\ Goto(g, IF run[g].saw # None THEN "tell" ELSE run[g].rest)
    /\ UNCHANGED <<redis, client>>

-----------------------------------------------------------------------------
(* authorize_and_join_workflow_room *)

(* set_session_info: first the hash, then the mapping; both are refreshed.   *)
Enter(g) ==
    /\ At(g, "enter") /\ hash' = hash \cup {run[g].sid} /\ late' = late \cup {run[g].sid}
    /\ Goto(g, "map") /\ UNCHANGED <<map, key, keyOld, client>>
MapSid(g) ==
    /\ At(g, "map") /\ map' = map \cup {run[g].sid} /\ Refresh(g, run[g].sid)
    /\ Goto(g, "look") /\ UNCHANGED <<hash, key, client>>

(* get_or_set_leader                                                         *)
Look(g) ==
    /\ At(g, "look")
    /\ \/ Active(key) /\ run' = [run EXCEPT ![g] = [@ EXCEPT !.pc = "list", !.verdict = (key = run[g].sid)]]
       \/ ~Active(key) /\ run' = [run EXCEPT ![g] = [@ EXCEPT !.saw = key,
                                     !.pc = IF key = None THEN "claim" ELSE "evict"]]
    /\ UNCHANGED <<redis, client>>
Evict(g) ==
    /\ At(g, "evict")
    /\ hash' = hash \ {run[g].saw} /\ map' = map \ {run[g].saw} /\ SetKey(None)
    /\ Goto(g, "claim") /\ UNCHANGED <<late, client>>
Claim(g) ==
    /\ At(g, "claim")
    /\ \/ /\ key = None /\ SetKey(run[g].sid)
          /\ run' = [run EXCEPT ![g] = [@ EXCEPT !.verdict = TRUE, !.aim = run[g].sid, !.told = "list",
                                          !.pc = IF run[g].saw = None THEN "list" ELSE "tell"]]
       \/ key # None /\ Goto(g, "reread") /\ UNCHANGED <<key, keyOld>>
    /\ UNCHANGED <<hash, map, late, client>>
Reread(g) ==
    /\ At(g, "reread")
    /\ run' = [run EXCEPT ![g] = [@ EXCEPT !.pc = "list", !.saw = None, !.verdict = key \in {None, run[g].sid}]]
    /\ UNCHANGED <<redis, client>>

(* The status computed before the user list was refreshed.                   *)
Status(g) ==
    /\ At(g, "status")
    /\ leads' = [leads EXCEPT ![run[g].sid] = IF link[run[g].sid] = "up" THEN run[g].verdict ELSE @]
    /\ orphan' = orphan \ {run[g].sid}
    /\ Goto(g, "idle") /\ UNCHANGED <<redis, link, rejoin>>

Join(g) == Enter(g) \/ MapSid(g) \/ Look(g) \/ Evict(g) \/ Claim(g) \/ Reread(g) \/ Status(g)

-----------------------------------------------------------------------------
(* disconnect_session *)

Leave(g) ==
    /\ At(g, "leave")
    /\ \/ run[g].sid \notin map /\ Goto(g, "idle") /\ UNCHANGED <<hash, map>>
       \/ run[g].sid \in map /\ Goto(g, "succeed")
          /\ hash' = hash \ {run[g].sid} /\ map' = map \ {run[g].sid}
    /\ UNCHANGED <<key, timer, client>>

(* handle_leader_disconnect                                                  *)
Succeed(g) ==
    /\ At(g, "succeed")
    /\ \/ key # run[g].sid /\ Goto(g, "list")
       \/ /\ key = run[g].sid
          /\ \E s \in Candidates :
               run' = [run EXCEPT ![g] = [@ EXCEPT !.pc = "install", !.saw = key, !.aim = s, !.told = "list"]]
       \/ key = run[g].sid /\ Candidates = {} /\ Goto(g, "vacate")
    /\ UNCHANGED <<redis, client>>
Vacate(g) ==
    /\ At(g, "vacate") /\ SetKey(None) /\ Goto(g, "list")
    /\ UNCHANGED <<hash, map, late, client>>

-----------------------------------------------------------------------------
(* relay_graph_event and relay_collaboration_event *)

(* MUTANT of Ensure: a leader that is set is taken for active.               *)
EnsureTrusting(g) ==
    /\ At(g, "ensure") /\ Goto(g, IF key # None THEN run[g].rest ELSE "seize")
    /\ keyOld' = FALSE /\ UNCHANGED <<hash, map, key, late, client>>

(* _ensure_leader; expire_leader refreshes the key of an active leader.      *)
Ensure(g) ==
    /\ At(g, "ensure") /\ Goto(g, IF Active(key) THEN run[g].rest ELSE "seize")
    /\ keyOld' = (keyOld /\ ~Active(key))
    /\ UNCHANGED <<hash, map, key, late, client>>
Seize(g) ==
    /\ At(g, "seize") /\ SetKey(run[g].sid)
    /\ run' = [run EXCEPT ![g] = [@ EXCEPT !.pc = "tell", !.aim = run[g].sid, !.told = run[g].rest]]
    /\ UNCHANGED <<hash, map, late, client>>

(* MUTANT of Route: the leader is chosen anew for every sync_request.        *)
RouteAnew(g) ==
    /\ At(g, "route") /\ SetKey(None)
    /\ \/ \E s \in Candidates :
            /\ run[g].sid \in Candidates => s = run[g].sid
            /\ run' = [run EXCEPT ![g] = [@ EXCEPT !.pc = "install", !.saw = None, !.aim = s, !.told = "idle"]]
       \/ Candidates = {} /\ Goto(g, "idle")
    /\ UNCHANGED <<hash, map, late, client>>

(* A sync_request goes to the leader, or to the one that is now chosen: the  *)
(* sender if it can lead.  What the leader sends back is left out.           *)
Route(g) ==
    /\ At(g, "route")
    /\ \/ Active(key) /\ Goto(g, "idle") /\ UNCHANGED <<key, keyOld>>
       \/ /\ ~Active(key) /\ SetKey(None)
          /\ \/ \E s \in Candidates :
                  /\ run[g].sid \in Candidates => s = run[g].sid
                  /\ run' = [run EXCEPT ![g] = [@ EXCEPT !.pc = "install", !.saw = None, !.aim = s, !.told = "idle"]]
             \/ Candidates = {} /\ Goto(g, "idle")
    /\ UNCHANGED <<hash, map, late, client>>

-----------------------------------------------------------------------------
Handle(g) ==
    /\ \/ Join(g) \/ Leave(g) \/ Succeed(g) \/ Vacate(g) \/ Ensure(g) \/ Seize(g) \/ Route(g)
       \/ Tell(g) \/ Install(g) \/ List(g) \/ Prune(g) \/ Pick(g)
    /\ UNCHANGED bounds

Next ==
    \/ Lapse
    \/ \E s \in Sid : \/ Connect(s) \/ Drop(s)
                      \/ \E g \in Greenlet : UserConnect(g, s) \/ Disconnect(g, s) \/ Event(g, s)
    \/ \E g \in Greenlet : Handle(g)

(* A handler goes on.  Strong fairness for the starts: the code may start a  *)
(* greenlet at any time, the bounds here only now and then.  The pings       *)
(* notice a lost socket; an open editor keeps sending events.                *)
Fairness ==
    /\ \A g \in Greenlet : WF_vars(Handle(g))
    /\ SF_vars(\E s \in Sid, g \in Greenlet : Disconnect(g, s))
    /\ \A s \in Sid : SF_vars(\E g \in Greenlet : Event(g, s))

Spec == Init /\ [][Next]_vars /\ Fairness

-----------------------------------------------------------------------------
(* An editor that others can reach.                                          *)
Present(s) == link[s] = "up" /\ s \in hash /\ s \in map

(* While handlers and expiries came one at a time, whatever joined, left,    *)
(* broke off and expired: a present editor that the server takes for the     *)
(* leader takes itself for it, and no other does, except one whose           *)
(* leadership expired in Redis and whom nobody told since.                   *)
Agreement ==
    ~Busy /\ ~raced =>
        \A s \in Sid : Present(s) => /\ (key = s => leads[s])
                                    /\ (leads[s] => key = s \/ s \in orphan)

(* While handlers and expiries came one at a time, an editor whose session   *)
(* is active keeps the leadership: neither joins nor departures of others,   *)
(* nor pruned sessions, nor relayed events take it away.  Only its key may   *)
(* expire under it, when its session was refreshed without the key: it       *)
(* joined again and nobody edited since, or its edit is just being handled.  *)
LeaderStays ==
    [][~raced /\ Active(key) => key' = key \/ (keyOld /\ key' = None /\ UNCHANGED run)]_vars

(* After every departure, expiry and race somebody present is the server's   *)
(* leader again; and without a race, somebody who knows.                     *)
LeaderRecovers ==
    []<>(\/ \A s \in Sid : ~Present(s)
         \/ \E s \in Sid : Present(s) /\ key = s /\ (raced \/ leads[s]))
=============================================================================
