------------------------- MODULE AppGenerateProofs -------------------------
(* Proofs about AppGenerate for any finite set of requests and any limit.    *)
EXTENDS AppGenerate, FiniteSetTheorems, TLAPS

LEMMA TypeInit == Init => TypeOK
BY DEF Init, TypeOK, Counting, Admitted, Ending

LEMMA TypeNext == TypeOK /\ [Next]_vars => TypeOK'
<1>. SUFFICES ASSUME TypeOK, [Next]_vars PROVE TypeOK'
  OBVIOUS
<1>. USE DEF TypeOK, Counting, Admitted, Ending
<1>1. ASSUME NEW r \in Request, Reserve(r) PROVE TypeOK'
  BY <1>1 DEF Reserve, Goto
<1>2. ASSUME NEW r \in Request, Flush(r) PROVE TypeOK'
  BY <1>2 DEF Flush
<1>3. ASSUME NEW r \in Request, Count(r) PROVE TypeOK'
  BY <1>3 DEF Count, Goto
<1>4. ASSUME NEW r \in Request, Put(r) PROVE TypeOK'
  BY <1>4 DEF Put, Goto
<1>5. ASSUME NEW r \in Request, Commit(r) PROVE TypeOK'
  BY <1>5 DEF Commit, Goto
<1>6. ASSUME NEW r \in Request, LeaveContext(r) PROVE TypeOK'
  BY <1>6 DEF LeaveContext, Goto
<1>7. ASSUME NEW r \in Request, Stream(r) PROVE TypeOK'
  BY <1>7 DEF Stream, Goto
<1>8. ASSUME NEW r \in Request, Finish(r) PROVE TypeOK'
  BY <1>8 DEF Finish, Goto
<1>9. ASSUME NEW r \in Request, Fail(r) PROVE TypeOK'
  BY <1>9 DEF Fail
<1>10. ASSUME NEW r \in Request, Refund(r) PROVE TypeOK'
  BY <1>10 DEF Refund, Goto
<1>11. ASSUME NEW r \in Request, Drop(r) PROVE TypeOK'
  BY <1>11 DEF Drop, Goto
<1>12. ASSUME NEW r \in Request, Age(r) PROVE TypeOK'
  BY <1>12 DEF Age
<1>13. ASSUME NEW r \in Request, Die(r) PROVE TypeOK'
  BY <1>13 DEF Die
<1>14. CASE UNCHANGED vars
  BY <1>14 DEF vars
<1>. QED
  BY <1>1, <1>2, <1>3, <1>4, <1>5, <1>6, <1>7, <1>8, <1>9, <1>10, <1>11, <1>12, <1>13, <1>14 DEF Next

(* Whatever the requests, the modes and the faults, the variables keep their *)
(* types and a request has an outcome once it has left the app.              *)
THEOREM GenerateTypeCorrect == Spec => []TypeOK
<1>. QED
  BY TypeInit, TypeNext, PTL DEF Spec

-----------------------------------------------------------------------------
(* What makes FinishedHoldsNoSlot inductive: a request has no slot before    *)
(* its first hset either, so a step to "done" from there leaves none.        *)
SlotsHeld ==
    \A r \in Request : r \in slots => pc[r] \notin {"new", "count", "put", "done"}

LEMMA SlotsHeldInit == Init => SlotsHeld
BY DEF Init, SlotsHeld

LEMMA SlotsHeldNext == TypeOK /\ SlotsHeld /\ [Next]_vars => SlotsHeld'
<1>. SUFFICES ASSUME TypeOK, SlotsHeld, [Next]_vars PROVE SlotsHeld'
  OBVIOUS
<1>. USE DEF TypeOK, SlotsHeld
<1>1. ASSUME NEW r \in Request, Reserve(r) PROVE SlotsHeld'
  BY <1>1 DEF Reserve, Goto
<1>2. ASSUME NEW r \in Request, Flush(r) PROVE SlotsHeld'
  BY <1>2 DEF Flush
<1>3. ASSUME NEW r \in Request, Count(r) PROVE SlotsHeld'
  BY <1>3 DEF Count, Goto
<1>4. ASSUME NEW r \in Request, Put(r) PROVE SlotsHeld'
  BY <1>4 DEF Put, Goto
<1>5. ASSUME NEW r \in Request, Commit(r) PROVE SlotsHeld'
  BY <1>5 DEF Commit, Goto
<1>6. ASSUME NEW r \in Request, LeaveContext(r) PROVE SlotsHeld'
  BY <1>6 DEF LeaveContext, Goto
<1>7. ASSUME NEW r \in Request, Stream(r) PROVE SlotsHeld'
  BY <1>7 DEF Stream, Goto
<1>8. ASSUME NEW r \in Request, Finish(r) PROVE SlotsHeld'
  BY <1>8 DEF Finish, Goto
<1>9. ASSUME NEW r \in Request, Fail(r) PROVE SlotsHeld'
  BY <1>9 DEF Fail
<1>10. ASSUME NEW r \in Request, Refund(r) PROVE SlotsHeld'
  BY <1>10 DEF Refund, Goto
<1>11. ASSUME NEW r \in Request, Drop(r) PROVE SlotsHeld'
  BY <1>11 DEF Drop, Goto
<1>12. ASSUME NEW r \in Request, Age(r) PROVE SlotsHeld'
  BY <1>12 DEF Age
<1>13. ASSUME NEW r \in Request, Die(r) PROVE SlotsHeld'
  BY <1>13 DEF Die
<1>14. CASE UNCHANGED vars
  BY <1>14 DEF vars
<1>. QED
  BY <1>1, <1>2, <1>3, <1>4, <1>5, <1>6, <1>7, <1>8, <1>9, <1>10, <1>11, <1>12, <1>13, <1>14 DEF Next

LEMMA SlotsHeldInvariance == Spec => [](TypeOK /\ SlotsHeld)
<1>. QED
  BY TypeInit, TypeNext, SlotsHeldInit, SlotsHeldNext, PTL DEF Spec

(* Every way out of generate, in every mode and under every interleaving and *)
(* fault, leaves the request without a slot.                                 *)
THEOREM NoSlotLeft == Spec => []FinishedHoldsNoSlot
<1>1. SlotsHeld => FinishedHoldsNoSlot
  BY DEF SlotsHeld, FinishedHoldsNoSlot
<1>. QED
  BY <1>1, SlotsHeldInvariance, PTL

-----------------------------------------------------------------------------
(* Requests that are not streamed workflows enter once only.                 *)
OneEnter == \A r \in Request : pc[r] \in {"recount", "reput", "inside"} => mode[r] = "workflow"

LEMMA OneEnterInit == Init => OneEnter
BY DEF Init, OneEnter

LEMMA OneEnterNext ==
  ASSUME TypeOK, OneEnter, [Next]_vars PROVE OneEnter'
<1>. USE DEF TypeOK, OneEnter
<1>1. ASSUME NEW r \in Request, Reserve(r) PROVE OneEnter'
  BY <1>1 DEF Reserve, Goto
<1>2. ASSUME NEW r \in Request, Flush(r) PROVE OneEnter'
  BY <1>2 DEF Flush
<1>3. ASSUME NEW r \in Request, Count(r) PROVE OneEnter'
  BY <1>3 DEF Count, Goto
<1>4. ASSUME NEW r \in Request, Put(r) PROVE OneEnter'
  BY <1>4 DEF Put, Goto
<1>5. ASSUME NEW r \in Request, Commit(r) PROVE OneEnter'
  BY <1>5 DEF Commit, Goto
<1>6. ASSUME NEW r \in Request, LeaveContext(r) PROVE OneEnter'
  BY <1>6 DEF LeaveContext, Goto
<1>7. ASSUME NEW r \in Request, Stream(r) PROVE OneEnter'
  BY <1>7 DEF Stream, Goto
<1>8. ASSUME NEW r \in Request, Finish(r) PROVE OneEnter'
  BY <1>8 DEF Finish, Goto
<1>9. ASSUME NEW r \in Request, Fail(r) PROVE OneEnter'
  BY <1>9 DEF Fail
<1>10. ASSUME NEW r \in Request, Refund(r) PROVE OneEnter'
  BY <1>10 DEF Refund, Goto
<1>11. ASSUME NEW r \in Request, Drop(r) PROVE OneEnter'
  BY <1>11 DEF Drop, Goto
<1>12. ASSUME NEW r \in Request, Age(r) PROVE OneEnter'
  BY <1>12 DEF Age
<1>13. ASSUME NEW r \in Request, Die(r) PROVE OneEnter'
  BY <1>13 DEF Die
<1>14. CASE UNCHANGED vars
  BY <1>14 DEF vars
<1>. QED
  BY <1>1, <1>2, <1>3, <1>4, <1>5, <1>6, <1>7, <1>8, <1>9, <1>10, <1>11, <1>12, <1>13, <1>14 DEF Next

LEMMA EnoughOthers ==
  ASSUME TypeOK, SlotsHeld, NEW r \in Request, r \notin slots, Full
  PROVE  Cardinality({q \in Request \ {r} : pc[q] \in Admitted \cup Ending \cup {"dead"}
                                              /\ pc[q] # "done"}) >= MaxActive
<1>. DEFINE others == {q \in Request \ {r} : pc[q] \in Admitted \cup Ending \cup {"dead"}
                                              /\ pc[q] # "done"}
<1>1. slots \subseteq others
  BY DEF TypeOK, SlotsHeld, Counting, Admitted, Ending
<1>2. others \subseteq Request
  OBVIOUS
<1>3. IsFiniteSet(others)
  BY <1>2, FS_Subset, GenerateAssumption
<1>4. Cardinality(slots) <= Cardinality(others)
  BY <1>1, <1>3, FS_Subset
<1>5. Cardinality(slots) \in Nat /\ Cardinality(others) \in Nat
  BY <1>1, <1>3, FS_Subset, FS_CardinalityType
<1>. QED
  BY <1>4, <1>5, GenerateAssumption DEF Full

(* Whatever races, ages or dies, a request that is no streamed workflow is   *)
(* refused only for MaxActive others, of any kind.                           *)
THEOREM RefusalsHaveCause == Spec => NoSpuriousRefusal
<1>. DEFINE Inv == TypeOK /\ SlotsHeld /\ OneEnter
<1>. DEFINE Caused ==
       \A r \in Request :
         mode[r] # "workflow" /\ pc[r] \in Counting /\ outcome'[r] = "refused" =>
          Cardinality({q \in Request \ {r} : pc[q] \in Admitted \cup Ending \cup {"dead"}
                                              /\ pc[q] # "done"}) >= MaxActive
<1>1. Init => Inv
  BY TypeInit, SlotsHeldInit, OneEnterInit
<1>2. Inv /\ [Next]_vars => Inv'
  BY TypeNext, SlotsHeldNext, OneEnterNext
<1>3. Inv /\ [Next]_vars => [Caused]_vars
  <2>. SUFFICES ASSUME Inv, Next, NEW r \in Request, mode[r] # "workflow",
                       pc[r] \in Counting, outcome'[r] = "refused"
                PROVE  r \notin slots /\ Full
    <3>. HIDE DEF Inv
    <3>. QED
      BY EnoughOthers DEF Inv
  <2>1. outcome[r] = "-" /\ pc[r] = "count" /\ r \notin slots
    BY DEF TypeOK, SlotsHeld, OneEnter, Counting, Ending
  <2>2. PICK q \in Request :
          \/ Reserve(q) \/ Flush(q) \/ Count(q) \/ Put(q) \/ Commit(q)
          \/ LeaveContext(q) \/ Stream(q) \/ Finish(q)
          \/ Fail(q) \/ Refund(q) \/ Drop(q) \/ Age(q) \/ Die(q)
    BY DEF Next
  <2>. USE <2>1 DEF TypeOK, Counting
  <2>3. CASE Count(q)
    BY <2>3 DEF Count, Goto
  <2>4. CASE Reserve(q) \/ Finish(q) \/ Fail(q)
    BY <2>4 DEF Reserve, Finish, Fail, Goto
  <2>5. CASE Flush(q) \/ Put(q) \/ Commit(q) \/ LeaveContext(q) \/ Stream(q)
    BY <2>5 DEF Flush, Put, Commit, LeaveContext, Stream
  <2>6. CASE Refund(q) \/ Drop(q) \/ Age(q) \/ Die(q)
    BY <2>6 DEF Refund, Drop, Age, Die
  <2>. QED
    BY <2>2, <2>3, <2>4, <2>5, <2>6
<1>. QED
  BY <1>1, <1>2, <1>3, PTL DEF Spec, NoSpuriousRefusal

-----------------------------------------------------------------------------
(* The charge is taken only after the one enter has let the request in.      *)
ChargedLate ==
    \A r \in Request : mode[r] # "workflow" =>
       /\ pc[r] \in {"new", "count", "put"} => charge[r] # "taken"
       /\ outcome[r] = "refused" => charge[r] # "taken" /\ pc[r] \in {"refund", "drop", "done", "dead"}

LEMMA ChargedLateInit == Init => ChargedLate
BY DEF Init, ChargedLate

LEMMA ChargedLateNext ==
  ASSUME TypeOK, OneEnter, ChargedLate, [Next]_vars PROVE ChargedLate'
<1>. USE DEF TypeOK, OneEnter, ChargedLate
<1>1. ASSUME NEW r \in Request, Reserve(r) PROVE ChargedLate'
  BY <1>1 DEF Reserve, Goto
<1>2. ASSUME NEW r \in Request, Flush(r) PROVE ChargedLate'
  BY <1>2 DEF Flush
<1>3. ASSUME NEW r \in Request, Count(r) PROVE ChargedLate'
  BY <1>3 DEF Count, Goto
<1>4. ASSUME NEW r \in Request, Put(r) PROVE ChargedLate'
  BY <1>4 DEF Put, Goto
<1>5. ASSUME NEW r \in Request, Commit(r) PROVE ChargedLate'
  BY <1>5 DEF Commit, Goto
<1>6. ASSUME NEW r \in Request, LeaveContext(r) PROVE ChargedLate'
  BY <1>6 DEF LeaveContext, Goto
<1>7. ASSUME NEW r \in Request, Stream(r) PROVE ChargedLate'
  BY <1>7 DEF Stream, Goto
<1>8. ASSUME NEW r \in Request, Finish(r) PROVE ChargedLate'
  BY <1>8 DEF Finish, Goto
<1>9. ASSUME NEW r \in Request, Fail(r) PROVE ChargedLate'
  BY <1>9 DEF Fail
<1>10. ASSUME NEW r \in Request, Refund(r) PROVE ChargedLate'
  BY <1>10 DEF Refund, Goto
<1>11. ASSUME NEW r \in Request, Drop(r) PROVE ChargedLate'
  BY <1>11 DEF Drop, Goto
<1>12. ASSUME NEW r \in Request, Age(r) PROVE ChargedLate'
  BY <1>12 DEF Age
<1>13. ASSUME NEW r \in Request, Die(r) PROVE ChargedLate'
  BY <1>13 DEF Die
<1>14. CASE UNCHANGED vars
  BY <1>14 DEF vars
<1>. QED
  BY <1>1, <1>2, <1>3, <1>4, <1>5, <1>6, <1>7, <1>8, <1>9, <1>10, <1>11, <1>12, <1>13, <1>14 DEF Next

(* No request that was turned away is charged, streamed workflows apart.     *)
THEOREM RefusalsAreFree == Spec => []RefusedNotCharged
<1>1. Init => TypeOK /\ OneEnter /\ ChargedLate
  BY TypeInit, OneEnterInit, ChargedLateInit
<1>2. TypeOK /\ OneEnter /\ ChargedLate /\ [Next]_vars => (TypeOK /\ OneEnter /\ ChargedLate)'
  BY TypeNext, OneEnterNext, ChargedLateNext
<1>3. ChargedLate => RefusedNotCharged
  BY DEF ChargedLate, RefusedNotCharged
<1>. QED
  BY <1>1, <1>2, <1>3, PTL DEF Spec

-----------------------------------------------------------------------------
Plain == \A r \in Request : mode[r] # "workflow"

(* What one enter at a time and no aged slot keep true of plain requests:    *)
(* each one let in holds a slot, and the one that has counted has room.      *)
RoomForOne ==
    /\ old = {}
    /\ \A r \in Request : pc[r] \in Admitted => r \in slots
    /\ \A q, r \in Request : pc[q] = "put" /\ pc[r] = "put" => q = r
    /\ Cardinality(slots) <= MaxActive
    /\ (\E r \in Request : pc[r] = "put") => Cardinality(slots) < MaxActive

LEMMA SlotsFinite == TypeOK => IsFiniteSet(slots) /\ Cardinality(slots) \in Nat
BY FS_Subset, FS_CardinalityType, GenerateAssumption DEF TypeOK

LEMMA FewerSlots ==
  ASSUME TypeOK, NEW r
  PROVE  /\ Cardinality(slots \ {r}) \in Nat
         /\ Cardinality(slots \ {r}) <= Cardinality(slots)
BY SlotsFinite, FS_Subset, FS_CardinalityType

LEMMA RoomForOneInit == Init => RoomForOne
BY FS_EmptySet, GenerateAssumption DEF Init, RoomForOne, Admitted

LEMMA RoomForOneNext ==
  ASSUME Plain, ~loose', TypeOK, OneEnter, RoomForOne, [Next]_vars PROVE RoomForOne'
<1>. USE DEF TypeOK, OneEnter, RoomForOne, Admitted, Plain
<1>1. ASSUME NEW r \in Request, Reserve(r) PROVE RoomForOne'
  BY <1>1 DEF Reserve, Goto
<1>2. ASSUME NEW r \in Request, Flush(r) PROVE RoomForOne'
  BY <1>2 DEF Flush
<1>3. ASSUME NEW r \in Request, Count(r) PROVE RoomForOne'
  <2>1. pc[r] = "count" /\ slots' = slots /\ old' = old
    BY <1>3 DEF Count, Goto
  <2>2. CASE Full
    BY <1>3, <2>1, <2>2 DEF Count, Goto
  <2>3. CASE ~Full
    <3>1. pc' = [pc EXCEPT ![r] = "put"]
      BY <1>3, <2>1, <2>3 DEF Count, Goto
    <3>2. \A q \in Request : pc[q] # "put"
      BY <1>3 DEF Count, Putting
    <3>3. Cardinality(slots) < MaxActive
      BY <2>3, SlotsFinite, GenerateAssumption DEF Full
    <3>. QED
      BY <2>1, <3>1, <3>2, <3>3
  <2>. QED
    BY <2>2, <2>3
<1>4. ASSUME NEW r \in Request, Put(r) PROVE RoomForOne'
  <2>1. pc[r] = "put" /\ Cardinality(slots) < MaxActive
    BY <1>4 DEF Put, Goto
  <2>2. Cardinality(slots \cup {r}) <= MaxActive
    <3>1. IsFiniteSet(slots) /\ Cardinality(slots) \in Nat /\ MaxActive \in Nat
      BY SlotsFinite, GenerateAssumption
    <3>2. Cardinality(slots \cup {r}) \in {Cardinality(slots), Cardinality(slots) + 1}
      BY <3>1, FS_AddElement
    <3>. QED
      BY <2>1, <3>1, <3>2
  <2>3. slots' = slots \cup {r} /\ old' = {} /\ pc' = [pc EXCEPT ![r] = "commit"]
    BY <1>4, <2>1 DEF Put, Goto
  <2>4. \A q \in Request : pc'[q] # "put"
    BY <2>1, <2>3
  <2>. QED
    BY <2>2, <2>3, <2>4
<1>5. ASSUME NEW r \in Request, Commit(r) PROVE RoomForOne'
  BY <1>5 DEF Commit, Goto
<1>6. ASSUME NEW r \in Request, LeaveContext(r) PROVE RoomForOne'
  <2>1. slots' = slots \ {r} /\ old' = {}
    BY <1>6 DEF LeaveContext, RoomForOne
  <2>. QED
    BY <1>6, <2>1, FewerSlots, SlotsFinite, GenerateAssumption DEF LeaveContext, Goto
<1>7. ASSUME NEW r \in Request, Stream(r) PROVE RoomForOne'
  BY <1>7 DEF Stream, Goto
<1>8. ASSUME NEW r \in Request, Finish(r) PROVE RoomForOne'
  <2>1. slots' = slots \ {r} /\ old' = {}
    BY <1>8 DEF Finish, RoomForOne
  <2>2. pc' = [pc EXCEPT ![r] = "done"]
    BY <1>8 DEF Finish, Goto
  <2>3. /\ Cardinality(slots') \in Nat /\ Cardinality(slots) \in Nat /\ MaxActive \in Nat
        /\ Cardinality(slots') <= Cardinality(slots)
    <3>. HIDE DEF TypeOK
    <3>. QED
      BY <2>1, FewerSlots, SlotsFinite, GenerateAssumption
  <2>. QED
    BY <2>1, <2>2, <2>3
<1>9. ASSUME NEW r \in Request, Fail(r) PROVE RoomForOne'
  BY <1>9 DEF Fail
<1>10. ASSUME NEW r \in Request, Refund(r) PROVE RoomForOne'
  BY <1>10 DEF Refund, Goto
<1>11. ASSUME NEW r \in Request, Drop(r) PROVE RoomForOne'
  <2>1. slots' = slots \ {r} /\ old' = {}
    BY <1>11 DEF Drop, RoomForOne
  <2>2. pc' = [pc EXCEPT ![r] = "done"]
    BY <1>11 DEF Drop, Goto
  <2>3. /\ Cardinality(slots') \in Nat /\ Cardinality(slots) \in Nat /\ MaxActive \in Nat
        /\ Cardinality(slots') <= Cardinality(slots)
    <3>. HIDE DEF TypeOK
    <3>. QED
      BY <2>1, FewerSlots, SlotsFinite, GenerateAssumption
  <2>. QED
    BY <2>1, <2>2, <2>3
<1>12. ASSUME NEW r \in Request, Age(r) PROVE RoomForOne'
  BY <1>12 DEF Age
<1>13. ASSUME NEW r \in Request, Die(r) PROVE RoomForOne'
  BY <1>13 DEF Die
<1>14. CASE UNCHANGED vars
  BY <1>14 DEF vars
<1>. QED
  BY <1>1, <1>2, <1>3, <1>4, <1>5, <1>6, <1>7, <1>8, <1>9, <1>10, <1>11, <1>12, <1>13, <1>14 DEF Next

LEMMA ModesFixed == [Next]_vars => mode' = mode
BY DEF vars, Next, Reserve, Flush, Count, Put, Commit, LeaveContext, Stream, Finish, Fail,
       Refund, Drop, Age, Die

LEMMA LooseStays == TypeOK /\ [Next]_vars => (loose => loose')
BY DEF TypeOK, vars, Next, Reserve, Flush, Count, Put, Commit, LeaveContext, Stream, Finish,
       Fail, Refund, Drop, Age, Die

LEMMA RoomSuffices == TypeOK /\ RoomForOne => WithinLimit
<1>. SUFFICES ASSUME TypeOK, RoomForOne PROVE WithinLimit
  OBVIOUS
<1>. DEFINE served == {r \in Request : pc[r] \in Admitted}
<1>1. served \subseteq slots
  BY DEF RoomForOne
<1>2. Cardinality(served) <= Cardinality(slots) /\ Cardinality(served) \in Nat
  BY <1>1, SlotsFinite, FS_Subset, FS_CardinalityType
<1>. QED
  BY <1>2, SlotsFinite, GenerateAssumption DEF RoomForOne, WithinLimit

(* Requests of apps that stream no workflow, entering one at a time and each *)
(* ending within ten minutes, are never served more than MaxActive at once.  *)
THEOREM LimitHolds == Spec => []LimitRespected
<1>. DEFINE Inv == TypeOK /\ OneEnter /\ (Plain /\ ~loose => RoomForOne)
<1>1. Init => Inv
  BY TypeInit, OneEnterInit, RoomForOneInit
<1>2. Inv /\ [Next]_vars => Inv'
  <2>. SUFFICES ASSUME Inv, [Next]_vars PROVE Inv'
    OBVIOUS
  <2>1. TypeOK' /\ OneEnter'
    BY TypeNext, OneEnterNext
  <2>2. ASSUME Plain', ~loose' PROVE RoomForOne'
    <3>1. Plain
      BY <2>2, ModesFixed DEF Plain
    <3>2. ~loose
      BY <2>2, LooseStays
    <3>. QED
      BY <2>2, <3>1, <3>2, RoomForOneNext
  <2>. QED
    BY <2>1, <2>2
<1>3. Inv => LimitRespected
  BY RoomSuffices DEF LimitRespected, Plain
<1>. QED
  BY <1>1, <1>2, <1>3, PTL DEF Spec
=============================================================================
