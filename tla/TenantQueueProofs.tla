------------------------- MODULE TenantQueueProofs -------------------------
(* Proofs about the tenant-isolated queue, for any number of jobs and any    *)
(* configured concurrency: its types, that every waiting job is in exactly   *)
(* one place, that a flag is never left behind unless somebody died, and     *)
(* that the queue implements JobContract.                                    *)
EXTENDS TenantQueue, FiniteSetTheorems, TLAPS

Waiting(j) == pc[j] = "queued"

(* The list names each waiting job at most once, and no other.               *)
ListInv ==
    /\ \A i \in 1 .. Len(queue) : Waiting(queue[i])
    /\ \A i, m \in 1 .. Len(queue) : queue[i] = queue[m] => i = m

(* So do the hands of tasks; and what they hold is not in the list.          *)
HandsInv ==
    /\ \A k \in Job : \A i \in 1 .. Len(hold[k]) : Waiting(hold[k][i])
    /\ \A k, l \in Job : \A i \in 1 .. Len(hold[k]), m \in 1 .. Len(hold[l]) :
         hold[k][i] = hold[l][m] => k = l /\ i = m
    /\ \A k \in Job : \A i \in 1 .. Len(hold[k]), m \in 1 .. Len(queue) : hold[k][i] # queue[m]

Listed(j) == \E i \in 1 .. Len(queue) : queue[i] = j
Held(j)   == \E k \in Job : \E i \in 1 .. Len(hold[k]) : hold[k][i] = j

NoneDropped == \A j \in Job : Waiting(j) => Listed(j) \/ Held(j)

(* Only a task that pulls or passes on holds jobs; one that passes on does.  *)
Holders == \A k \in Job : /\ pc[k] \notin {"pulling", "passing"} => hold[k] = <<>>
                          /\ pc[k] = "passing" => hold[k] # <<>>

QueueInv == TypeOK /\ ListInv /\ HandsInv /\ NoneDropped /\ Holders /\ FlagHasTask

LEMMA InitInv == Init => QueueInv
<1>. SUFFICES ASSUME Init PROVE QueueInv
  OBVIOUS
<1>1. TypeOK
  <2>0. flag \in BOOLEAN /\ hurt \in BOOLEAN
    BY DEF Init
  <2>1. queue \in Seq(Job)
    BY DEF Init
  <2>2. pc \in [Job -> {"new", "pushing", "starting", "queued", "sent", "running",
                        "pulling", "passing", "clearing", "done", "lost"}]
    BY DEF Init
  <2>3. hold \in [Job -> Seq(Job)] /\ \A j \in Job : Len(hold[j]) = 0
    BY DEF Init
  <2>. QED  BY <2>0, <2>1, <2>2, <2>3, QueueAssumption DEF TypeOK
<1>2. ListInv /\ HandsInv
  BY DEF Init, ListInv, HandsInv
<1>3. NoneDropped /\ Holders /\ FlagHasTask
  BY DEF Init, NoneDropped, Holders, FlagHasTask, Waiting
<1>. QED
  BY <1>1, <1>2, <1>3 DEF QueueInv

LEMMA AppendFacts ==
    ASSUME NEW S, NEW s \in Seq(S), NEW e \in S
    PROVE  /\ Append(s, e) \in Seq(S) /\ Len(Append(s, e)) = Len(s) + 1 /\ Len(s) \in Nat
           /\ \A i \in 1 .. Len(s) : Append(s, e)[i] = s[i]
           /\ Append(s, e)[Len(s) + 1] = e
OBVIOUS

LEMMA EmptyIffLen == ASSUME NEW S, NEW s \in Seq(S) PROVE Len(s) = 0 <=> s = <<>>
OBVIOUS

LEMMA TailFacts ==
    ASSUME NEW S, NEW s \in Seq(S), s # <<>>
    PROVE  /\ Tail(s) \in Seq(S) /\ Len(s) \in Nat \ {0} /\ Len(Tail(s)) = Len(s) - 1
           /\ Head(s) = s[1] /\ Head(s) \in S
           /\ \A i \in 1 .. Len(s) - 1 : Tail(s)[i] = s[i + 1]
OBVIOUS

(* Steps that move one task on and leave list and hands alone.               *)
LEMMA MoveOn ==
    ASSUME QueueInv, NEW j \in Job, NEW state, UNCHANGED <<queue, hold>>,
           pc' = [pc EXCEPT ![j] = state],
           pc[j] \in {"new", "starting", "sent", "running", "pulling", "clearing"},
           state \in {"pushing", "starting", "sent", "lost", "running", "pulling", "passing", "clearing", "done"},
           state = "passing" <=> hold[j] # <<>>
    PROVE  ListInv' /\ HandsInv' /\ NoneDropped' /\ Holders'
<1>. USE DEF QueueInv
<1>1. /\ \A k \in Job : pc'[k] = IF k = j THEN state ELSE pc[k]
      /\ \A k \in Job : Waiting(k)' <=> Waiting(k)
  BY DEF TypeOK, Waiting
<1>2. /\ \A i \in 1 .. Len(queue) : queue[i] \in Job
      /\ \A k \in Job : \A i \in 1 .. Len(hold[k]) : hold[k][i] \in Job
  BY DEF TypeOK
<1>3. ListInv'
  BY <1>1, <1>2 DEF ListInv, Waiting
<1>4. HandsInv'
  BY <1>1, <1>2 DEF HandsInv, Waiting
<1>5. NoneDropped'
  BY <1>1 DEF NoneDropped, Listed, Held
<1>6. Holders'
  BY <1>1 DEF Holders, TypeOK
<1>. QED
  BY <1>3, <1>4, <1>5, <1>6

LEMMA MoveStep ==
    ASSUME QueueInv, NEW j \in Job,
           ReadFlag(j) \/ Start(j) \/ Run(j) \/ EndBody(j) \/ EndPull(j) \/ ClearFlag(j)
    PROVE  QueueInv'
<1>. USE DEF QueueInv
<1>1. TypeOK'
  BY DEF TypeOK, ReadFlag, Start, Run, EndBody, EndPull, ClearFlag
<1>2. FlagHasTask'
  <2>1. CASE ReadFlag(j) \/ ClearFlag(j)
    BY <2>1 DEF FlagHasTask, TypeOK, ReadFlag, ClearFlag
  <2>2. CASE Start(j) \/ Run(j) \/ EndBody(j) \/ EndPull(j)
    BY <2>2 DEF FlagHasTask, TypeOK, Start, Run, EndBody, EndPull
  <2>. QED  BY <2>1, <2>2
<1>3. hold[j] = <<>> \/ pc[j] = "pulling"
  BY DEF Holders, ReadFlag, Start, Run, EndBody, EndPull, ClearFlag
<1>4. PICK state : /\ pc' = [pc EXCEPT ![j] = state] /\ UNCHANGED <<queue, hold>>
                   /\ pc[j] \in {"new", "starting", "sent", "running", "pulling", "clearing"}
                   /\ state \in {"pushing", "starting", "sent", "lost", "running", "pulling", "passing", "clearing", "done"}
                   /\ state = "passing" <=> hold[j] # <<>>
  <2>1. CASE ReadFlag(j)
    <3>1. pc' = [pc EXCEPT ![j] = "pushing"] \/ pc' = [pc EXCEPT ![j] = "starting"]
      BY <2>1 DEF ReadFlag
    <3>2. pc[j] = "new" /\ hold[j] = <<>> /\ UNCHANGED <<queue, hold>>
      BY <1>3, <2>1 DEF ReadFlag
    <3>. QED  BY <3>1, <3>2
  <2>2. CASE Start(j)
    BY <1>3, <2>2 DEF Start
  <2>3. CASE Run(j) \/ EndBody(j) \/ ClearFlag(j)
    BY <1>3, <2>3 DEF Run, EndBody, ClearFlag
  <2>4. CASE EndPull(j)
    <3>1. CASE hold[j] = <<>>
      <4>1. pc' = [pc EXCEPT ![j] = "clearing"]
        BY <2>4, <3>1 DEF EndPull
      <4>. QED  BY <2>4, <3>1, <4>1 DEF EndPull
    <3>2. CASE hold[j] # <<>>
      <4>1. pc' = [pc EXCEPT ![j] = "passing"]
        BY <2>4, <3>2 DEF EndPull
      <4>. QED  BY <2>4, <3>2, <4>1 DEF EndPull
    <3>. QED  BY <3>1, <3>2
  <2>. QED  BY <2>1, <2>2, <2>3, <2>4
<1>. QED
  BY <1>1, <1>2, <1>4, MoveOn

LEMMA PushStep == ASSUME QueueInv, NEW j \in Job, Push(j) PROVE QueueInv'
<1>. USE DEF QueueInv, Push
<1>1. TypeOK'
  BY AppendFacts DEF TypeOK
<1>2. FlagHasTask'
  BY DEF FlagHasTask, TypeOK
<1>3. /\ queue' = Append(queue, j) /\ Len(queue') = Len(queue) + 1 /\ Len(queue) \in Nat
      /\ \A i \in 1 .. Len(queue) : queue'[i] = queue[i] /\ queue[i] \in Job
      /\ queue'[Len(queue) + 1] = j
      /\ \A k \in Job : \A i \in 1 .. Len(hold[k]) : hold[k][i] \in Job
  BY AppendFacts DEF TypeOK
<1>4. /\ \A k \in Job : pc'[k] = IF k = j THEN "queued" ELSE pc[k]
      /\ \A k \in Job : Waiting(k)' <=> Waiting(k) \/ k = j
      /\ ~Waiting(j)
  BY DEF TypeOK, Waiting
<1>5. \A i \in 1 .. Len(queue') : i \in 1 .. Len(queue) \/ i = Len(queue) + 1
  BY <1>3
<1>6. ListInv'
  BY <1>3, <1>4, <1>5 DEF ListInv, Waiting
<1>7. HandsInv'
  BY <1>3, <1>4, <1>5 DEF HandsInv, Waiting
<1>8. NoneDropped'
  <2>1. ASSUME NEW k \in Job, Listed(k) PROVE Listed(k)'
    BY <1>3, <2>1 DEF Listed
  <2>2. Listed(j)'
    BY <1>3 DEF Listed
  <2>. QED  BY <1>4, <2>1, <2>2 DEF NoneDropped, Held
<1>9. Holders'
  BY <1>4 DEF Holders
<1>. QED
  BY <1>1, <1>2, <1>6, <1>7, <1>8, <1>9

LEMMA PullStep == ASSUME QueueInv, NEW j \in Job, Pull(j) PROVE QueueInv'
<1>. USE DEF QueueInv, Pull
<1>1. /\ queue' = Tail(queue) /\ queue' \in Seq(Job) /\ Len(queue) \in Nat \ {0} /\ Len(queue') = Len(queue) - 1
      /\ \A i \in 1 .. Len(queue') : queue'[i] = queue[i + 1] /\ i + 1 \in 1 .. Len(queue)
      /\ Head(queue) = queue[1] /\ queue[1] \in Job
      /\ \A i \in 1 .. Len(queue) : queue[i] \in Job
  BY TailFacts DEF TypeOK
<1>2. /\ hold'[j] \in Seq(Job) /\ Len(hold'[j]) = Len(hold[j]) + 1 /\ Len(hold[j]) \in Nat
      /\ \A i \in 1 .. Len(hold[j]) : hold'[j][i] = hold[j][i]
      /\ hold'[j][Len(hold[j]) + 1] = queue[1]
  <2>1. hold[j] \in Seq(Job) /\ hold'[j] = Append(hold[j], queue[1])
    BY <1>1 DEF TypeOK
  <2>. QED  BY <1>1, <2>1, AppendFacts
<1>3. /\ \A k \in Job \ {j} : hold'[k] = hold[k]
      /\ \A k \in Job : \A i \in 1 .. Len(hold[k]) : hold[k][i] \in Job
      /\ pc' = pc
  BY DEF TypeOK
<1>4. TypeOK'
  <2>1. hold' \in [Job -> Seq(Job)]
    BY <1>1, AppendFacts DEF TypeOK
  <2>2. \A k \in Job : Len(hold'[k]) <= Concurrency
    BY <1>2, <1>3, QueueAssumption DEF TypeOK
  <2>. QED  BY <1>1, <2>1, <2>2 DEF TypeOK
<1>5. FlagHasTask'
  BY DEF FlagHasTask
<1>6. ListInv'
  BY <1>1, <1>3 DEF ListInv, Waiting
<1>7. \A i \in 1 .. Len(hold'[j]) : i \in 1 .. Len(hold[j]) \/ i = Len(hold[j]) + 1
  BY <1>2
<1>8. HandsInv'
  <2>1. ASSUME NEW k \in Job, NEW i \in 1 .. Len(hold'[k]) PROVE pc'[hold'[k][i]] = "queued"
    BY <1>1, <1>2, <1>3, <1>7, <2>1 DEF ListInv, HandsInv, Waiting
  <2>2. ASSUME NEW k \in Job, NEW l \in Job, NEW i \in 1 .. Len(hold'[k]), NEW m \in 1 .. Len(hold'[l]),
               hold'[k][i] = hold'[l][m]
        PROVE  k = l /\ i = m
    <3>1. CASE k # j /\ l # j
      BY SMTT(30), <1>3, <2>2, <3>1 DEF HandsInv
    <3>2. CASE k = j /\ l # j
      BY <1>1, <1>2, <1>3, <1>7, <2>2, <3>2 DEF HandsInv
    <3>3. CASE k # j /\ l = j
      BY <1>1, <1>2, <1>3, <1>7, <2>2, <3>3 DEF HandsInv
    <3>4. CASE k = j /\ l = j
      BY <1>1, <1>2, <1>7, <2>2, <3>4 DEF HandsInv
    <3>. QED  BY <3>1, <3>2, <3>3, <3>4
  <2>3. ASSUME NEW k \in Job, NEW i \in 1 .. Len(hold'[k]), NEW m \in 1 .. Len(queue')
        PROVE  hold'[k][i] # queue'[m]
    <3>1. queue'[m] = queue[m + 1] /\ m + 1 \in 1 .. Len(queue) /\ m + 1 # 1 /\ 1 \in 1 .. Len(queue)
      BY <1>1
    <3>2. queue'[m] # queue[1]
      BY <3>1 DEF ListInv
    <3>. QED  BY <1>2, <1>3, <1>7, <3>1, <3>2 DEF HandsInv
  <2>. QED  BY <2>1, <2>2, <2>3 DEF HandsInv, Waiting
<1>9. NoneDropped'
  <2>1. ASSUME NEW k \in Job, Held(k) PROVE Held(k)'
    BY <1>2, <1>3, <2>1 DEF Held
  <2>2. ASSUME NEW k \in Job, k = queue[1] PROVE Held(k)'
    <3>1. Len(hold[j]) + 1 \in 1 .. Len(hold'[j])
      BY <1>2
    <3>. QED  BY <1>2, <2>2, <3>1 DEF Held
  <2>3. ASSUME NEW k \in Job, Listed(k), k # queue[1] PROVE Listed(k)'
    <3>1. PICK i \in 1 .. Len(queue) : queue[i] = k
      BY <2>3 DEF Listed
    <3>2. i - 1 \in 1 .. Len(queue') /\ queue'[i - 1] = k
      BY <1>1, <2>3, <3>1
    <3>. QED  BY <3>2 DEF Listed
  <2>. QED  BY <1>3, <2>1, <2>2, <2>3 DEF NoneDropped, Waiting
<1>10. Holders'
  BY <1>3 DEF Holders
<1>. QED
  BY <1>4, <1>5, <1>6, <1>8, <1>9, <1>10

LEMMA PassOnStep == ASSUME QueueInv, NEW j \in Job, PassOn(j) PROVE QueueInv'
<1>. USE DEF QueueInv
<1>. DEFINE h == hold[j][1]
<1>1. /\ hold'[j] = Tail(hold[j]) /\ hold'[j] \in Seq(Job)
      /\ Len(hold[j]) \in Nat \ {0} /\ Len(hold'[j]) = Len(hold[j]) - 1
      /\ \A i \in 1 .. Len(hold'[j]) : hold'[j][i] = hold[j][i + 1] /\ i + 1 \in 1 .. Len(hold[j])
      /\ Head(hold[j]) = h /\ h \in Job /\ 1 \in 1 .. Len(hold[j])
  <2>1. hold[j] \in Seq(Job) /\ hold[j] # <<>> /\ hold'[j] = Tail(hold[j])
    BY DEF TypeOK, Holders, PassOn
  <2>2. /\ Tail(hold[j]) \in Seq(Job) /\ Len(hold[j]) \in Nat \ {0} /\ Len(Tail(hold[j])) = Len(hold[j]) - 1
        /\ Head(hold[j]) = h /\ h \in Job
        /\ \A i \in 1 .. Len(hold[j]) - 1 : Tail(hold[j])[i] = hold[j][i + 1]
    BY <2>1, TailFacts
  <2>. HIDE DEF h
  <2>. QED  BY <2>1, <2>2
<1>2. Waiting(h) /\ h # j /\ pc[j] = "passing"
  BY <1>1 DEF HandsInv, Waiting, PassOn
<1>3. /\ \A k \in Job \ {j} : hold'[k] = hold[k]
      /\ \A k \in Job : \A i \in 1 .. Len(hold[k]) : hold[k][i] \in Job
      /\ \A i \in 1 .. Len(queue) : queue[i] \in Job
      /\ UNCHANGED queue
  BY DEF TypeOK, PassOn
<1>4. /\ pc'[h] = "sent" /\ pc'[j] = (IF Len(hold[j]) = 1 THEN "done" ELSE "passing")
      /\ \A k \in Job \ {j, h} : pc'[k] = pc[k]
  BY <1>1, <1>2 DEF TypeOK, PassOn
<1>5. \A k \in Job : Waiting(k)' <=> Waiting(k) /\ k # h
  <2>. HIDE DEF h
  <2>. QED  BY <1>1, <1>2, <1>4 DEF Waiting
<1>6. ASSUME NEW k \in Job, NEW i \in 1 .. Len(hold'[k])
      PROVE  /\ hold'[k][i] \in Job /\ hold'[k][i] # h
             /\ \E m \in 1 .. Len(hold[k]) : m = (IF k = j THEN i + 1 ELSE i) /\ hold'[k][i] = hold[k][m]
  <2>. DEFINE m == IF k = j THEN i + 1 ELSE i
  <2>1. m \in 1 .. Len(hold[k]) /\ hold'[k][i] = hold[k][m] /\ (k = j => m # 1)
    <3>1. CASE k = j
      <4>1. m = i + 1 /\ i \in 1 .. Len(hold'[j])
        BY <1>6, <3>1
      <4>2. m # 1
        BY <1>1, <4>1
      <4>. HIDE DEF m
      <4>. QED  BY <1>1, <3>1, <4>1, <4>2
    <3>2. CASE k # j
      <4>1. m = i /\ hold'[k] = hold[k] /\ i \in 1 .. Len(hold[k])
        BY <1>3, <1>6, <3>2
      <4>. HIDE DEF m
      <4>. QED  BY <3>2, <4>1
    <3>. QED  BY <3>1, <3>2
  <2>2. hold[k][m] # h
    <3>. HIDE DEF m
    <3>. QED  BY <1>1, <2>1 DEF HandsInv
  <2>. QED  BY <1>3, <2>1, <2>2
<1>7. \A i \in 1 .. Len(queue) : queue[i] # h
  BY <1>1 DEF HandsInv
<1>8. TypeOK'
  <2>1. hold' \in [Job -> Seq(Job)]
    BY <1>1 DEF TypeOK, PassOn
  <2>2. \A k \in Job : Len(hold'[k]) <= Concurrency
    <3>1. \A k \in Job : Len(hold[k]) <= Concurrency /\ Len(hold[k]) \in Nat
      BY DEF TypeOK
    <3>2. Len(hold'[j]) <= Concurrency
      BY <1>1, <3>1, QueueAssumption
    <3>. QED  BY <1>3, <3>1, <3>2
  <2>3. pc' \in [Job -> {"new", "pushing", "starting", "queued", "sent", "running",
                         "pulling", "passing", "clearing", "done", "lost"}]
    BY DEF TypeOK, PassOn
  <2>. QED  BY <1>3, <2>1, <2>2, <2>3 DEF TypeOK, PassOn
<1>9. FlagHasTask'
  BY <1>1, <1>4 DEF FlagHasTask
<1>10. ListInv'
  <2>. HIDE DEF h
  <2>. QED  BY <1>3, <1>5, <1>7 DEF ListInv, Waiting
<1>11. HandsInv'
  <2>1. ASSUME NEW k \in Job, NEW i \in 1 .. Len(hold'[k]) PROVE pc'[hold'[k][i]] = "queued"
    <3>1. PICK m \in 1 .. Len(hold[k]) : hold'[k][i] = hold[k][m]
      BY <1>6
    <3>2. Waiting(hold[k][m])
      BY DEF HandsInv
    <3>3. hold[k][m] # h /\ hold[k][m] \in Job
      BY <1>6, <3>1
    <3>. QED  BY <1>5, <3>1, <3>2, <3>3 DEF Waiting
  <2>2. ASSUME NEW k \in Job, NEW l \in Job, NEW i \in 1 .. Len(hold'[k]), NEW m \in 1 .. Len(hold'[l]),
               hold'[k][i] = hold'[l][m]
        PROVE  k = l /\ i = m
    <3>1. PICK a \in 1 .. Len(hold[k]) : a = (IF k = j THEN i + 1 ELSE i) /\ hold'[k][i] = hold[k][a]
      BY <1>6
    <3>2. PICK b \in 1 .. Len(hold[l]) : b = (IF l = j THEN m + 1 ELSE m) /\ hold'[l][m] = hold[l][b]
      BY <1>6
    <3>3. k = l /\ a = b
      <4>1. hold[k][a] = hold[l][b]
        BY <2>2, <3>1, <3>2
      <4>. QED  BY <4>1 DEF HandsInv
    <3>. QED  BY <3>1, <3>2, <3>3
  <2>3. ASSUME NEW k \in Job, NEW i \in 1 .. Len(hold'[k]), NEW m \in 1 .. Len(queue')
        PROVE  hold'[k][i] # queue'[m]
    BY <1>3, <1>6 DEF HandsInv
  <2>. QED  BY <2>1, <2>2, <2>3 DEF HandsInv, Waiting
<1>12. NoneDropped'
  <2>1. ASSUME NEW k \in Job, Held(k), k # h PROVE Held(k)'
    <3>0. PICK l \in Job : \E i \in 1 .. Len(hold[l]) : hold[l][i] = k
      BY <2>1 DEF Held
    <3>1. PICK i \in 1 .. Len(hold[l]) : hold[l][i] = k
      BY <3>0
    <3>2. CASE l # j
      BY <1>3, <3>1, <3>2 DEF Held
    <3>3. CASE l = j
      <4>1. i - 1 \in 1 .. Len(hold'[j]) /\ hold'[j][i - 1] = k
        BY <1>1, <2>1, <3>1, <3>3
      <4>. QED  BY <4>1 DEF Held
    <3>. QED  BY <3>2, <3>3
  <2>. QED  BY <1>3, <1>5, <2>1 DEF NoneDropped, Listed
<1>13. Holders'
  <2>1. ASSUME NEW k \in Job \ {j, h}
        PROVE  /\ pc'[k] \notin {"pulling", "passing"} => hold'[k] = <<>>
               /\ pc'[k] = "passing" => hold'[k] # <<>>
    BY <1>3, <1>4 DEF Holders
  <2>2. hold'[h] = <<>>
    BY <1>1, <1>2, <1>3 DEF Holders, Waiting
  <2>3. Len(hold[j]) = 1 <=> hold'[j] = <<>>
    <3>1. Len(hold'[j]) = 0 <=> hold'[j] = <<>>
      BY <1>1, EmptyIffLen
    <3>. QED  BY <1>1, <3>1
  <2>. QED  BY <1>2, <1>4, <2>1, <2>2, <2>3 DEF Holders
<1>. QED
  BY <1>8, <1>9, <1>10, <1>11, <1>12, <1>13

LEMMA DieStep == ASSUME QueueInv, NEW j \in Job, Die(j) PROVE QueueInv'
<1>. USE DEF QueueInv, Die
<1>1. /\ \A k \in Job : pc'[k] = IF k = j \/ k \in Elements(hold[j]) THEN "lost" ELSE pc[k]
      /\ \A k \in Job : hold'[k] = IF k = j THEN <<>> ELSE hold[k]
      /\ UNCHANGED queue
  BY DEF TypeOK
<1>2. \A k \in Job : Waiting(k)' <=> Waiting(k) /\ k \notin Elements(hold[j])
  BY <1>1 DEF Waiting
<1>3. /\ \A i \in 1 .. Len(queue) : queue[i] \in Job
      /\ \A k \in Job : \A i \in 1 .. Len(hold[k]) : hold[k][i] \in Job
  BY DEF TypeOK
<1>4. TypeOK'
  <2>1. flag' \in BOOLEAN
    BY DEF TypeOK
  <2>2. pc' \in [Job -> {"new", "pushing", "starting", "queued", "sent", "running",
                         "pulling", "passing", "clearing", "done", "lost"}]
    BY DEF TypeOK
  <2>3. hold' \in [Job -> Seq(Job)] /\ \A k \in Job : Len(hold'[k]) <= Concurrency
    BY QueueAssumption DEF TypeOK
  <2>. QED  BY <2>1, <2>2, <2>3 DEF TypeOK
<1>5. FlagHasTask'
  BY DEF FlagHasTask
<1>6. \A i \in 1 .. Len(queue) : queue[i] \notin Elements(hold[j])
  BY DEF HandsInv, Elements
<1>7. ListInv'
  BY <1>1, <1>2, <1>3, <1>6 DEF ListInv, Waiting
<1>8. \A k \in Job \ {j} : \A i \in 1 .. Len(hold[k]) : hold[k][i] \notin Elements(hold[j])
  BY DEF HandsInv, Elements
<1>9. HandsInv'
  <2>1. ASSUME NEW k \in Job, NEW i \in 1 .. Len(hold'[k]) PROVE k # j /\ hold'[k] = hold[k]
    BY <1>1, <2>1
  <2>2. ASSUME NEW k \in Job, NEW i \in 1 .. Len(hold'[k]) PROVE pc'[hold'[k][i]] = "queued"
    <3>1. k # j /\ hold'[k][i] = hold[k][i] /\ i \in 1 .. Len(hold[k]) /\ hold[k][i] \in Job
      BY <1>3, <2>1, <2>2
    <3>2. Waiting(hold[k][i]) /\ hold[k][i] \notin Elements(hold[j])
      BY <1>8, <3>1 DEF HandsInv
    <3>. QED  BY <1>2, <3>1, <3>2 DEF Waiting
  <2>3. ASSUME NEW k \in Job, NEW l \in Job, NEW i \in 1 .. Len(hold'[k]), NEW m \in 1 .. Len(hold'[l]),
               hold'[k][i] = hold'[l][m]
        PROVE  k = l /\ i = m
    BY <2>1, <2>3 DEF HandsInv
  <2>4. ASSUME NEW k \in Job, NEW i \in 1 .. Len(hold'[k]), NEW m \in 1 .. Len(queue')
        PROVE  hold'[k][i] # queue'[m]
    BY <1>1, <2>1 DEF HandsInv
  <2>. QED  BY <2>2, <2>3, <2>4 DEF HandsInv, Waiting
<1>10. NoneDropped'
  <2>1. ASSUME NEW k \in Job, Held(k), k \notin Elements(hold[j]) PROVE Held(k)'
    <3>0. PICK l \in Job : \E i \in 1 .. Len(hold[l]) : hold[l][i] = k
      BY <2>1 DEF Held
    <3>1. PICK i \in 1 .. Len(hold[l]) : hold[l][i] = k
      BY <3>0
    <3>2. l # j
      BY <2>1, <3>1 DEF Elements
    <3>. QED  BY <1>1, <3>1, <3>2 DEF Held
  <2>. QED  BY <1>1, <1>2, <2>1 DEF NoneDropped, Listed
<1>11. Holders'
  <2>1. ASSUME NEW k \in Job, k \in Elements(hold[j]) PROVE hold[k] = <<>>
    BY <2>1 DEF Elements, HandsInv, Holders, Waiting
  <2>. QED  BY <1>1, <2>1 DEF Holders
<1>. QED
  BY <1>4, <1>5, <1>7, <1>9, <1>10, <1>11

LEMMA QueueNext == QueueInv /\ [Next]_vars => QueueInv'
<1>1. ASSUME QueueInv, ExpireFlag \/ UNCHANGED vars PROVE QueueInv'
  <2>. USE <1>1 DEF QueueInv
  <2>1. UNCHANGED <<queue, pc, hold, hurt>> /\ flag' \in {flag, FALSE}
    BY DEF ExpireFlag, vars
  <2>2. TypeOK'
    BY <2>1 DEF TypeOK
  <2>3. FlagHasTask'
    BY <2>1 DEF FlagHasTask
  <2>4. ListInv' /\ HandsInv' /\ NoneDropped' /\ Holders'
    BY <2>1 DEF ListInv, HandsInv, NoneDropped, Holders, Waiting, Listed, Held
  <2>. QED  BY <2>2, <2>3, <2>4
<1>2. ASSUME QueueInv, NEW j \in Job, ReadFlag(j) \/ TaskStep(j) \/ Die(j) PROVE QueueInv'
  BY <1>2, MoveStep, PushStep, PullStep, PassOnStep, DieStep DEF TaskStep
<1>. QED
  BY <1>1, <1>2 DEF Next

(* The list, the flag and the hands of tasks keep their types, and no task   *)
(* pulls more jobs than TENANT_ISOLATED_TASK_CONCURRENCY.                    *)
THEOREM QueueTypeCorrect == Spec => []TypeOK
<1>1. QueueInv => TypeOK
  BY DEF QueueInv
<1>. QED
  BY <1>1, InitInv, QueueNext, PTL DEF Spec

(* A flag that is set has a task that will clear or refresh it, unless a     *)
(* worker died or the broker refused a job: for any number of submissions.   *)
THEOREM FlagIsNeverLeftBehind == Spec => []FlagHasTask
<1>1. QueueInv => FlagHasTask
  BY DEF QueueInv
<1>. QED
  BY <1>1, InitInv, QueueNext, PTL DEF Spec

LEMMA PlacesOf ==
    ASSUME NEW j \in Job, NEW p
    PROVE  p \in Places(j) <=>
             \/ \E i \in 1 .. Len(queue) : queue[i] = j /\ p = <<i>>
             \/ \E k \in Job : \E i \in 1 .. Len(hold[k]) : hold[k][i] = j /\ p = <<k, i>>
BY DEF Places

(* Push and pull move a waiting job between list and hands without losing or *)
(* doubling it, however proxies and tasks interleave and whoever dies.       *)
THEOREM EveryWaitingJobHasOnePlace == Spec => []OnePlaceEach
<1>1. ASSUME QueueInv, NEW j \in Job
      PROVE  Cardinality(Places(j)) = IF pc[j] = "queued" THEN 1 ELSE 0
  <2>. USE <1>1 DEF QueueInv
  <2>1. ASSUME NEW p \in Places(j), NEW q \in Places(j) PROVE p = q
    BY <2>1, PlacesOf DEF ListInv, HandsInv
  <2>2. Places(j) # {} <=> Listed(j) \/ Held(j)
    <3>1. ASSUME NEW p \in Places(j) PROVE Listed(j) \/ Held(j)
      BY <3>1, PlacesOf DEF Listed, Held
    <3>2. ASSUME Listed(j) PROVE Places(j) # {}
      <4>1. PICK i \in 1 .. Len(queue) : queue[i] = j
        BY <3>2 DEF Listed
      <4>2. <<i>> \in Places(j)
        BY <4>1, PlacesOf
      <4>. QED  BY <4>2
    <3>3. ASSUME Held(j) PROVE Places(j) # {}
      <4>1. PICK k \in Job : \E i \in 1 .. Len(hold[k]) : hold[k][i] = j
        BY <3>3 DEF Held
      <4>2. PICK i \in 1 .. Len(hold[k]) : hold[k][i] = j
        BY <4>1
      <4>3. <<k, i>> \in Places(j)
        BY <4>2, PlacesOf
      <4>. QED  BY <4>3
    <3>. QED  BY <3>1, <3>2, <3>3
  <2>5. Listed(j) \/ Held(j) <=> Waiting(j)
    BY DEF ListInv, HandsInv, NoneDropped, Listed, Held
  <2>3. CASE Waiting(j)
    <3>1. PICK p : Places(j) = {p}
      BY <2>1, <2>2, <2>5, <2>3
    <3>. QED  BY <2>3, <3>1, FS_Singleton DEF Waiting
  <2>4. CASE ~Waiting(j)
    BY <2>2, <2>5, <2>4, FS_EmptySet DEF Waiting
  <2>. QED  BY <2>3, <2>4
<1>2. QueueInv => OnePlaceEach
  BY <1>1 DEF OnePlaceEach
<1>. QED
  BY <1>2, InitInv, QueueNext, PTL DEF Spec

-----------------------------------------------------------------------------
(* What the tenant sees is a behaviour of JobContract.                       *)

(* A job's stage depends on its own counter and on whether it is listed.     *)
LEMMA StageKept ==
    ASSUME NEW k \in Job, UNCHANGED queue,
           \/ pc'[k] = pc[k]
           \/ pc[k] \in {"new", "pushing", "starting"} /\ pc'[k] \in {"new", "pushing", "starting"}
           \/ /\ pc[k] \in {"sent", "running", "pulling", "passing", "clearing", "done"}
              /\ pc'[k] \in {"sent", "running", "pulling", "passing", "clearing", "done"}
    PROVE  Stage(k)' = Stage(k)
BY DEF Stage, Elements

(* A step that only moves its own task on, within one stage, is a stutter.   *)
LEMMA QuietStep ==
    ASSUME TypeOK, NEW j \in Job,
           ReadFlag(j) \/ Run(j) \/ EndBody(j) \/ EndPull(j) \/ ClearFlag(j)
    PROVE  UNCHANGED Contract!vars
<1>1. UNCHANGED queue /\ \A k \in Job \ {j} : pc'[k] = pc[k]
  BY DEF TypeOK, ReadFlag, Run, EndBody, EndPull, ClearFlag
<1>2. \/ pc[j] \in {"new", "pushing", "starting"} /\ pc'[j] \in {"new", "pushing", "starting"}
      \/ /\ pc[j] \in {"sent", "running", "pulling", "passing", "clearing", "done"}
         /\ pc'[j] \in {"sent", "running", "pulling", "passing", "clearing", "done"}
  BY DEF TypeOK, ReadFlag, Run, EndBody, EndPull, ClearFlag
<1>3. \A k \in Job : Stage(k)' = Stage(k)
  BY <1>1, <1>2, StageKept
<1>4. stage' = stage
  BY <1>3 DEF stage
<1>. QED
  BY <1>1, <1>4 DEF Contract!vars

(* The stages after a step, from those of the jobs it touches.               *)
LEMMA StagesAre ==
    ASSUME NEW S \in SUBSET Job, NEW name,
           \A k \in S : Stage(k)' = name, \A k \in Job \ S : Stage(k)' = Stage(k)
    PROVE  /\ stage' = [k \in Job |-> IF k \in S THEN name ELSE stage[k]]
           /\ \A k \in Job : S = {k} => stage' = [stage EXCEPT ![k] = name]
BY DEF stage

LEMMA StartSends ==
    ASSUME TypeOK, NEW j \in Job, Start(j) PROVE Contract!Send(j) \/ Contract!Lose({j})
<1>1. /\ pc[j] = "starting" /\ UNCHANGED queue /\ pc'[j] \in {"sent", "lost"}
      /\ \A k \in Job \ {j} : pc'[k] = pc[k]
  BY DEF TypeOK, Start
<1>2. stage[j] = "submitted" /\ Stage(j)' = pc'[j]
  BY <1>1 DEF stage, Stage
<1>3. \A k \in Job \ {j} : Stage(k)' = Stage(k)
  BY <1>1, StageKept
<1>4. /\ stage' = [k \in Job |-> IF k \in {j} THEN pc'[j] ELSE stage[k]]
      /\ stage' = [stage EXCEPT ![j] = pc'[j]]
  BY <1>2, <1>3, StagesAre, {j} \in SUBSET Job
<1>5. CASE pc'[j] = "sent"
  BY <1>1, <1>2, <1>4, <1>5 DEF Contract!Send
<1>6. CASE pc'[j] = "lost"
  BY <1>1, <1>2, <1>4, <1>6 DEF Contract!Lose
<1>. QED
  BY <1>1, <1>5, <1>6

LEMMA PushJoinsLine ==
    ASSUME TypeOK, NEW j \in Job, Push(j) PROVE Contract!Wait(j)
<1>1. /\ pc[j] = "pushing" /\ pc'[j] = "queued" /\ \A k \in Job \ {j} : pc'[k] = pc[k]
      /\ queue \in Seq(Job) /\ queue' = Append(queue, j)
  BY DEF TypeOK, Push
<1>2. \A k \in Job : k \in Elements(queue)' <=> k \in Elements(queue) \/ k = j
  <2>1. /\ Len(queue') = Len(queue) + 1 /\ Len(queue) \in Nat /\ queue'[Len(queue) + 1] = j
        /\ \A i \in 1 .. Len(queue) : queue'[i] = queue[i]
    BY <1>1, AppendFacts
  <2>2. \A i \in 1 .. Len(queue') : i \in 1 .. Len(queue) \/ i = Len(queue) + 1
    BY <2>1
  <2>3. 1 .. Len(queue) \subseteq 1 .. Len(queue') /\ Len(queue) + 1 \in 1 .. Len(queue')
    BY <2>1
  <2>. QED  BY <2>1, <2>2, <2>3 DEF Elements
<1>3. stage[j] = "submitted" /\ Stage(j)' = "waiting"
  BY <1>1, <1>2 DEF stage, Stage
<1>4. \A k \in Job \ {j} : Stage(k)' = Stage(k)
  BY <1>1, <1>2 DEF Stage
<1>5. stage' = [stage EXCEPT ![j] = "waiting"]
  BY <1>3, <1>4, StagesAre, {j} \in SUBSET Job
<1>. QED
  BY <1>1, <1>3, <1>5 DEF Contract!Wait

LEMMA PullTakesOldest ==
    ASSUME QueueInv, NEW j \in Job, Pull(j) PROVE Contract!Take
<1>1. queue \in Seq(Job) /\ queue # <<>> /\ queue' = Tail(queue) /\ pc' = pc
  BY DEF QueueInv, TypeOK, Pull
<1>h. PICK h \in Job : h = Head(queue)
  BY <1>1, TailFacts
<1>2. /\ Len(queue) \in Nat \ {0} /\ Len(queue') = Len(queue) - 1 /\ h = queue[1]
      /\ \A i \in 1 .. Len(queue) - 1 : queue'[i] = queue[i + 1]
  BY <1>1, <1>h, TailFacts
<1>3. \A i, m \in 1 .. Len(queue) : queue[i] = queue[m] => i = m
  BY DEF QueueInv, ListInv
<1>4. pc[h] = "queued"
  BY <1>2, 1 \in 1 .. Len(queue) DEF QueueInv, ListInv, Waiting
<1>5. h \notin Elements(queue)'
  <2>1. \A i \in 1 .. Len(queue') : i + 1 \in 1 .. Len(queue) /\ i + 1 # 1 /\ 1 \in 1 .. Len(queue) /\ queue'[i] = queue[i + 1]
    BY <1>2
  <2>. QED  BY <1>2, <1>3, <2>1 DEF Elements
<1>6. \A k \in Job \ {h} : k \in Elements(queue)' <=> k \in Elements(queue)
  <2>1. ASSUME NEW k \in Job \ {h}, k \in Elements(queue) PROVE k \in Elements(queue)'
    <3>1. PICK i \in 1 .. Len(queue) : queue[i] = k
      BY <2>1 DEF Elements
    <3>2. i - 1 \in 1 .. Len(queue') /\ queue'[i - 1] = k
      BY <1>2, <3>1
    <3>. QED  BY <3>2 DEF Elements
  <2>2. \A i \in 1 .. Len(queue') : i + 1 \in 1 .. Len(queue) /\ queue'[i] = queue[i + 1]
    BY <1>2
  <2>. QED  BY <2>1, <2>2 DEF Elements
<1>7. Stage(h)' = "taken"
  BY <1>1, <1>4, <1>5 DEF Stage
<1>8. \A k \in Job \ {h} : Stage(k)' = Stage(k)
  BY <1>1, <1>6 DEF Stage
<1>9. stage' = [stage EXCEPT ![h] = "taken"]
  BY <1>2, <1>7, <1>8, StagesAre, {h} \in SUBSET Job
<1>. QED
  BY <1>1, <1>h, <1>9 DEF Contract!Take

(* What a task holds has left the line and nobody else has it.               *)
LEMMA HeldIsTaken ==
    ASSUME QueueInv, NEW j \in Job, NEW k \in Elements(hold[j])
    PROVE  k \in Job /\ pc[k] = "queued" /\ k \notin Elements(queue) /\ stage[k] = "taken"
<1>1. k \in Job
  BY DEF QueueInv, TypeOK, Elements
<1>2. pc[k] = "queued" /\ k \notin Elements(queue)
  BY DEF QueueInv, HandsInv, Waiting, Elements
<1>. QED
  BY <1>1, <1>2 DEF stage, Stage

LEMMA PassOnSends ==
    ASSUME QueueInv, NEW j \in Job, PassOn(j) PROVE \E h \in Job : Contract!Send(h)
<1>1. hold[j] \in Seq(Job) /\ hold[j] # <<>> /\ pc[j] = "passing" /\ UNCHANGED queue
  BY DEF QueueInv, TypeOK, Holders, PassOn
<1>2. PICK h \in Elements(hold[j]) : h = Head(hold[j])
  <2>1. Head(hold[j]) = hold[j][1] /\ Len(hold[j]) \in Nat \ {0}
    BY <1>1, TailFacts
  <2>2. 1 \in 1 .. Len(hold[j])
    BY <2>1
  <2>. QED  BY <2>1, <2>2 DEF Elements
<1>3. h \in Job /\ pc[h] = "queued" /\ stage[h] = "taken"
  BY HeldIsTaken
<1>4. pc' = [pc EXCEPT ![h] = "sent", ![j] = IF Len(hold[j]) = 1 THEN "done" ELSE "passing"]
  BY <1>2 DEF PassOn
<1>5. /\ pc'[h] = "sent" /\ pc'[j] \in {"done", "passing"} /\ h # j
      /\ \A k \in Job \ {j, h} : pc'[k] = pc[k]
  BY <1>1, <1>3, <1>4 DEF QueueInv, TypeOK
<1>6. Stage(h)' = "sent"
  BY <1>5 DEF Stage
<1>7. \A k \in Job \ {h} : Stage(k)' = Stage(k)
  BY <1>1, <1>5, StageKept
<1>8. stage' = [stage EXCEPT ![h] = "sent"]
  BY <1>3, <1>6, <1>7, StagesAre, {h} \in SUBSET Job
<1>9. Contract!Send(h)
  BY <1>1, <1>3, <1>8 DEF Contract!Send
<1>. QED
  BY <1>3, <1>9

LEMMA DeathSparesLine ==
    ASSUME QueueInv, NEW j \in Job, Die(j) PROVE \E S \in SUBSET Job : Contract!Lose(S)
<1>s. PICK S \in SUBSET Job : S = {j} \cup Elements(hold[j])
  <2>1. Elements(hold[j]) \subseteq Job
    BY HeldIsTaken
  <2>. QED  BY <2>1
<1>1. /\ UNCHANGED queue
      /\ \A k \in Job : pc'[k] = IF k \in S THEN "lost" ELSE pc[k]
      /\ pc[j] \in {"pushing", "starting", "running", "pulling", "passing", "clearing"}
  BY <1>s DEF Die
<1>2. \A k \in S : stage[k] # "waiting"
  <2>1. stage[j] # "waiting"
    BY <1>1 DEF stage, Stage
  <2>. QED  BY <1>s, <2>1, HeldIsTaken
<1>3. \A k \in S : Stage(k)' = "lost"
  BY <1>1, <1>2 DEF Stage
<1>4. \A k \in Job \ S : Stage(k)' = Stage(k)
  BY <1>1, StageKept
<1>5. stage' = [k \in Job |-> IF k \in S THEN "lost" ELSE stage[k]]
  BY <1>2, <1>3, <1>4, StagesAre
<1>6. Contract!Lose(S)
  BY <1>1, <1>2, <1>5 DEF Contract!Lose
<1>. QED
  BY <1>2, <1>6

LEMMA ContractInit == Init => Contract!Init
BY DEF Init, Contract!Init, stage, Stage

LEMMA ContractStep == QueueInv /\ [Next]_vars => [Contract!Next]_(Contract!vars)
<1>. SUFFICES ASSUME QueueInv, [Next]_vars PROVE [Contract!Next]_(Contract!vars)
  OBVIOUS
<1>1. ASSUME ExpireFlag \/ UNCHANGED vars PROVE UNCHANGED Contract!vars
  <2>1. UNCHANGED <<queue, pc>>
    BY <1>1 DEF ExpireFlag, vars
  <2>2. stage' = stage
    BY <2>1 DEF stage, Stage, Elements
  <2>. QED  BY <2>1, <2>2 DEF Contract!vars
<1>2. ASSUME NEW j \in Job, ReadFlag(j) \/ TaskStep(j) \/ Die(j) PROVE [Contract!Next]_(Contract!vars)
  <2>1. TypeOK
    BY DEF QueueInv
  <2>2. CASE ReadFlag(j) \/ Run(j) \/ EndBody(j) \/ EndPull(j) \/ ClearFlag(j)
    BY <2>1, <2>2, QuietStep
  <2>3. CASE Start(j)
    BY <2>1, <2>3, StartSends DEF Contract!Next
  <2>4. CASE Push(j)
    BY <2>1, <2>4, PushJoinsLine DEF Contract!Next
  <2>5. CASE Pull(j)
    BY <2>5, PullTakesOldest DEF Contract!Next
  <2>6. CASE PassOn(j)
    BY <2>6, PassOnSends DEF Contract!Next
  <2>7. CASE Die(j)
    BY <2>7, DeathSparesLine DEF Contract!Next
  <2>. QED  BY <1>2, <2>2, <2>3, <2>4, <2>5, <2>6, <2>7 DEF TaskStep
<1>. QED
  BY <1>1, <1>2 DEF Next

(* For any number of submissions and any concurrency the flag, the list and  *)
(* the hand-over are one line to the tenant: jobs leave it in the order they *)
(* joined, none is sent twice, and no death loses one that stands in it.     *)
THEOREM QueueImplementsContract == Spec => ImplementsContract
BY InitInv, QueueNext, ContractInit, ContractStep, PTL DEF Spec, ImplementsContract, Contract!Spec
=============================================================================
