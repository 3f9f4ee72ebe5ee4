---------------------------- MODULE AppGenerate ----------------------------
(* AppGenerateService.generate for the requests of one app: the quota of the *)
(* billing service is reserved, a slot is taken in the app's redis hash of   *)
(* active requests, the quota is committed, the app runs, and the slot is    *)
(* given back when the response ends.                                        *)
(*                                                                           *)
(* The requests run in threads of any number of API processes; redis and the *)
(* billing service are all they share.  The limit is the app's, constant     *)
(* here; a limit of 0 turns everything below off and is not modelled.        *)
EXTENDS Naturals, FiniteSets

CONSTANTS Request,
          Modes,     \* subset of {"plain", "workflow"}
          MaxActive  \* the app's limit

ASSUME GenerateAssumption ==
    /\ Modes \subseteq {"plain", "workflow"}
    /\ MaxActive \in Nat \ {0}
    /\ IsFiniteSet(Request)

VARIABLES mode,    \* "workflow": ADVANCED_CHAT or WORKFLOW, streamed
          pc,      \* where each request is
          slots,   \* dify:rate_limit:<app>:active_requests
          old,     \* slots taken more than ten minutes ago
          charge,  \* the request's reservation in the billing service
          outcome, \* how generate ended, "-" before
          loose    \* history: two requests have entered at a time, or a slot has aged

vars == <<mode, pc, slots, old, charge, outcome, loose>>

Counting == {"count", "recount"}
Putting  == {"put", "reput"}
Admitted == {"commit", "recount", "reput", "inside", "work", "stream"}
Ending   == {"refund", "drop", "done"}

Init ==
    /\ mode \in [Request -> Modes]
    /\ pc = [r \in Request |-> "new"]
    /\ slots = {} /\ old = {}
    /\ charge = [r \in Request |-> "none"]
    /\ outcome = [r \in Request |-> "-"]
    /\ loose = FALSE

-----------------------------------------------------------------------------
Goto(r, from, to) == pc[r] = from /\ pc' = [pc EXCEPT ![r] = to]

(* MUTANT of Reserve: the charge is taken at once (consume for reserve).     *)
ReserveAndCommit(r) ==
    /\ Goto(r, "new", "count")
    /\ charge' = [charge EXCEPT ![r] = "taken"]
    /\ UNCHANGED <<mode, slots, old, outcome, loose>>

(* QuotaService.reserve: refused, frozen, or, without billing or with one    *)
(* that does not answer, no charge at all.                                   *)
Reserve(r) ==
    /\ \/ /\ Goto(r, "new", "count")
          /\ \E c \in {"none", "frozen"} : charge' = [charge EXCEPT ![r] = c]
          /\ UNCHANGED outcome
       \/ /\ Goto(r, "new", "done")
          /\ outcome' = [outcome EXCEPT ![r] = "refused"]
          /\ UNCHANGED charge
    /\ UNCHANGED <<mode, slots, old, loose>>

(* flush_cache, called by an enter that finds the last one 5 minutes ago.    *)
Flush(r) ==
    /\ pc[r] \in Counting /\ old # {}
    /\ slots' = slots \ old
    /\ old' = {}
    /\ UNCHANGED <<mode, pc, charge, outcome, loose>>

(* MUTANT of Full: the limit itself is let in.                               *)
FullAbove == Cardinality(slots) > MaxActive
Full == Cardinality(slots) >= MaxActive

(* enter: the hlen.  The second enter of a workflow app, in                  *)
(* rate_limit_context, counts the slot of the first.                         *)
Count(r) ==
    /\ IF Full
       THEN /\ \/ Goto(r, "count", "refund")
               \/ Goto(r, "recount", "refund")
            /\ outcome' = [outcome EXCEPT ![r] = "refused"]
       ELSE /\ \/ Goto(r, "count", "put")
               \/ Goto(r, "recount", "reput")
            /\ UNCHANGED outcome
    /\ loose' = (loose \/ \E q \in Request : pc[q] \in Putting)
    /\ UNCHANGED <<mode, slots, old, charge>>

(* enter: the hset, which stamps the slot anew.                              *)
Put(r) ==
    /\ \/ Goto(r, "put", "commit")
       \/ Goto(r, "reput", "inside")
    /\ slots' = slots \cup {r}
    /\ old' = old \ {r}
    /\ UNCHANGED <<mode, charge, outcome, loose>>

(* QuotaCharge.commit; an error is logged and the reservation stays frozen.  *)
Commit(r) ==
    /\ Goto(r, "commit", IF mode[r] = "workflow" THEN "recount" ELSE "work")
    /\ \E c \in {charge[r], IF charge[r] = "frozen" THEN "taken" ELSE charge[r]} :
         charge' = [charge EXCEPT ![r] = c]
    /\ UNCHANGED <<mode, slots, old, outcome, loose>>

(* The end of rate_limit_context: exit, before the events are streamed.      *)
LeaveContext(r) ==
    /\ Goto(r, "inside", "work")
    /\ slots' = slots \ {r} /\ old' = old \ {r}
    /\ UNCHANGED <<mode, charge, outcome, loose>>

(* A streaming app returns its RateLimitGenerator.                           *)
Stream(r) ==
    /\ Goto(r, "work", "stream")
    /\ UNCHANGED <<mode, slots, old, charge, outcome, loose>>

(* MUTANT of Finish: only a blocking response gives its slot back.           *)
FinishKeepsSlot(r) ==
    /\ \/ Goto(r, "stream", "done") /\ UNCHANGED <<slots, old>>
       \/ mode[r] = "plain" /\ Goto(r, "work", "done") /\ slots' = slots \ {r} /\ old' = old \ {r}
    /\ outcome' = [outcome EXCEPT ![r] = "served"]
    /\ UNCHANGED <<mode, charge, loose>>

(* The generator is exhausted, raises or is closed; a blocking app returns.  *)
Finish(r) ==
    /\ \/ Goto(r, "stream", "done")
       \/ mode[r] = "plain" /\ Goto(r, "work", "done")
    /\ slots' = slots \ {r} /\ old' = old \ {r}
    /\ outcome' = [outcome EXCEPT ![r] = "served"]
    /\ UNCHANGED <<mode, charge, loose>>

(* The app raises before it returns a response.                              *)
Fail(r) ==
    /\ \/ pc[r] \in {"work", "inside"}
       \/ pc[r] = "recount" \* _get_workflow finds no workflow
    /\ pc' = [pc EXCEPT ![r] = "refund"]
    /\ outcome' = [outcome EXCEPT ![r] = "failed"]
    /\ UNCHANGED <<mode, slots, old, charge, loose>>

(* except: QuotaCharge.refund, a release that the billing service ignores    *)
(* after a commit, and whose errors are logged.                              *)
Refund(r) ==
    /\ Goto(r, "refund", "drop")
    /\ \E c \in {charge[r], IF charge[r] = "frozen" THEN "released" ELSE charge[r]} :
         charge' = [charge EXCEPT ![r] = c]
    /\ UNCHANGED <<mode, slots, old, outcome, loose>>

(* MUTANT of Drop: the exception leaves the slot to the flush.               *)
DropNothing(r) ==
    /\ Goto(r, "drop", "done")
    /\ UNCHANGED <<mode, slots, old, charge, outcome, loose>>

(* except and finally: exit, which is idempotent.                            *)
Drop(r) ==
    /\ Goto(r, "drop", "done")
    /\ slots' = slots \ {r} /\ old' = old \ {r}
    /\ UNCHANGED <<mode, charge, outcome, loose>>

(* Ten minutes pass over a slot.                                             *)
Age(r) ==
    /\ r \in slots \ old
    /\ old' = old \cup {r}
    /\ loose' = TRUE
    /\ UNCHANGED <<mode, pc, slots, charge, outcome>>

(* The process dies with the request in it.                                  *)
Die(r) ==
    /\ pc[r] \notin {"new", "done", "dead"}
    /\ pc' = [pc EXCEPT ![r] = "dead"]
    /\ UNCHANGED <<mode, slots, old, charge, outcome, loose>>

Next ==
    \E r \in Request :
       \/ Reserve(r) \/ Flush(r) \/ Count(r) \/ Put(r) \/ Commit(r)
       \/ LeaveContext(r) \/ Stream(r) \/ Finish(r)
       \/ Fail(r) \/ Refund(r) \/ Drop(r) \/ Age(r) \/ Die(r)

Spec == Init /\ [][Next]_vars

-----------------------------------------------------------------------------
(* Every variable keeps its type; a slot that is old is a slot, and a        *)
(* request has an outcome once it has left the app, and not before.          *)
TypeOK ==
    /\ mode \in [Request -> Modes]
    /\ pc \in [Request -> {"new", "put", "dead"} \cup Counting \cup Admitted \cup Ending]
    /\ slots \subseteq Request /\ old \subseteq slots
    /\ charge \in [Request -> {"none", "frozen", "taken", "released"}]
    /\ outcome \in [Request -> {"-", "served", "refused", "failed"}]
    /\ loose \in BOOLEAN
    /\ \A r \in Request : pc[r] # "dead" => (outcome[r] # "-" <=> pc[r] \in Ending)

(* generate leaves no slot behind: neither a response that was streamed to   *)
(* its end or closed, nor any of the ways to raise, of which two follow a    *)
(* second enter that may itself have been refused.                           *)
FinishedHoldsNoSlot == \A r \in Request : pc[r] = "done" => r \notin slots

(* A request of any app but a streamed workflow is refused for the limit     *)
(* only while MaxActive others are served, or died less than ten minutes ago.*)
NoSpuriousRefusal ==
    [][\A r \in Request :
         mode[r] # "workflow" /\ pc[r] \in Counting /\ outcome'[r] = "refused" =>
           Cardinality({q \in Request \ {r} : pc[q] \in Admitted \cup Ending \cup {"dead"}
                                               /\ pc[q] # "done"}) >= MaxActive]_vars

WithinLimit == Cardinality({r \in Request : pc[r] \in Admitted}) <= MaxActive

(* If requests enter one at a time and none lasts ten minutes, no more than  *)
(* MaxActive requests of an app that streams no workflow are served at once; *)
(* a streamed workflow gives its slot back before it streams.                *)
LimitRespected == ~loose /\ (\A r \in Request : mode[r] # "workflow") => WithinLimit

(* A request turned away, by the quota or by the limit, is not charged; of   *)
(* streamed workflows this holds for those refused by the first enter only.  *)
RefusedNotCharged ==
    \A r \in Request :
      mode[r] # "workflow" /\ outcome[r] = "refused" => charge[r] # "taken"
=============================================================================
