------------------------- MODULE RunSnapshotsProofs -------------------------
(* Proofs about RunSnapshots for any watchers, bounds and lengths of a run.  *)
EXTENDS RunSnapshots, FiniteSetTheorems, TLAPS

(* The entries of s that are events.                                         *)
Vals(s) == Range(s) \ {Close}
Under(S, T) == \A a \in S, b \in T : a < b
Rising(s) ==
    \A i, j \in DOMAIN s : i < j /\ s[i] # Close /\ s[j] # Close => s[i] < s[j]

Event == 1 .. MaxEvents + 2
Entry == 0 .. MaxEvents + 2

LEMMA Constants ==
    /\ Requester \in Watcher /\ MaxEvents \in Nat \ {0} /\ QueueMax \in Nat \ {0} /\ BufferMax \in Nat \ {0}
    /\ 0 \in Entry
BY EventsAssumption, BufferAssumption DEF Entry

(* What a sequence of entries has lost or gained.                            *)
LEMMA EmptyVals == Vals(<<>>) = {} /\ Rising(<<>>)
BY DEF Vals, Range, Rising

LEMMA AppendVals ==
    ASSUME NEW s \in Seq(Entry), NEW e \in Entry
    PROVE  /\ Append(s, e) \in Seq(Entry) /\ Len(Append(s, e)) = Len(s) + 1
           /\ Range(Append(s, e)) = Range(s) \cup {e}
           /\ Vals(Append(s, e)) = Vals(s) \cup ({e} \ {Close})
           /\ Rising(s) /\ (e # Close => \A a \in Vals(s) : a < e) => Rising(Append(s, e))
<1>. DEFINE t == Append(s, e)
<1>1. /\ t \in Seq(Entry) /\ Len(t) = Len(s) + 1 /\ DOMAIN t = 1 .. Len(s) + 1 /\ DOMAIN s = 1 .. Len(s)
      /\ \A i \in DOMAIN s : t[i] = s[i]
      /\ t[Len(s) + 1] = e /\ Len(s) \in Nat
  OBVIOUS
<1>. HIDE DEF t
<1>2. Range(t) = Range(s) \cup {e}
  BY <1>1 DEF Range
<1>3. ASSUME Rising(s), e # Close => \A a \in Vals(s) : a < e PROVE Rising(t)
  <2>. SUFFICES ASSUME NEW i \in DOMAIN t, NEW j \in DOMAIN t, i < j, t[i] # Close, t[j] # Close
                PROVE  t[i] < t[j]
    BY DEF Rising
  <2>1. i \in DOMAIN s /\ t[i] = s[i] /\ (j \in DOMAIN s \/ j = Len(s) + 1)
    BY <1>1
  <2>2. s[i] \in Vals(s)
    BY <2>1 DEF Vals, Range
  <2>. QED  BY <1>1, <1>3, <2>1, <2>2 DEF Rising
<1>. QED  BY <1>1, <1>2, <1>3 DEF Vals, t

LEMMA HeadVals ==
    ASSUME NEW s \in Seq(Entry), s # <<>>
    PROVE  /\ Head(s) \in Entry /\ Tail(s) \in Seq(Entry) /\ Len(Tail(s)) = Len(s) - 1 /\ Len(s) \in Nat \ {0}
           /\ Range(s) = Range(Tail(s)) \cup {Head(s)}
           /\ Vals(s) = Vals(Tail(s)) \cup ({Head(s)} \ {Close})
           /\ Rising(s) => /\ Rising(Tail(s))
                           /\ Head(s) # Close => \A a \in Vals(Tail(s)) : Head(s) < a
<1>. DEFINE t == Tail(s)
<1>1. /\ t \in Seq(Entry) /\ Len(t) = Len(s) - 1 /\ DOMAIN t = 1 .. Len(s) - 1 /\ DOMAIN s = 1 .. Len(s)
      /\ \A i \in DOMAIN t : t[i] = s[i + 1] /\ i + 1 \in DOMAIN s
      /\ Head(s) = s[1] /\ Len(s) \in Nat \ {0} /\ 1 \in DOMAIN s /\ Head(s) \in Entry
      /\ \A j \in DOMAIN s : j # 1 => j - 1 \in DOMAIN t /\ s[j] = t[j - 1]
  OBVIOUS
<1>. HIDE DEF t
<1>2. Range(s) = Range(t) \cup {Head(s)}
  BY <1>1 DEF Range
<1>3. ASSUME Rising(s) PROVE Rising(t)
  BY <1>1, <1>3 DEF Rising
<1>4. ASSUME Rising(s), Head(s) # Close, NEW a \in Vals(t) PROVE Head(s) < a
  <2>1. PICK i \in DOMAIN t : t[i] = a /\ a # Close
    BY DEF Vals, Range
  <2>. QED  BY <1>1, <1>4, <2>1 DEF Rising
<1>. QED  BY <1>1, <1>2, <1>3, <1>4 DEF Vals, t

(* Between the head of a rising sequence and what comes after it there is    *)
(* room for the sequence.                                                    *)
LEMMA RisingLong ==
    ASSUME NEW s \in Seq(Entry), s # <<>>, Close \notin Range(s), Rising(s),
           NEW e \in Nat, \A a \in Vals(s) : a < e
    PROVE  Len(s) <= e - Head(s)
<1>. DEFINE I == 1 .. Len(s)
            R == Head(s) .. e - 1
<1>1. /\ Len(s) \in Nat \ {0} /\ DOMAIN s = I /\ 1 \in I /\ Head(s) = s[1]
      /\ s \in [I -> Entry] /\ \A i \in I : s[i] \in Nat
  BY Constants DEF Entry
<1>2. \A i \in I : s[i] \in Vals(s) /\ s[i] # Close
  BY <1>1 DEF Vals, Range
<1>3. \A i, j \in I : i < j => s[i] < s[j]
  BY <1>1, <1>2 DEF Rising
<1>4. \A i \in I : s[i] \in R
  BY <1>1, <1>2, <1>3
<1>5. s \in Injection(I, R)
  <2>1. s \in [I -> R]
    BY <1>1, <1>4
  <2>2. \A i, j \in I : s[i] = s[j] => i = j
    BY <1>1, <1>3
  <2>. QED  BY <1>1, <2>1, <2>2 DEF Injection, IsInjective
<1>6. IsFiniteSet(R) /\ Cardinality(R) = e - Head(s) /\ Cardinality(I) = Len(s)
  <2>1. Head(s) < e
    BY <1>1, <1>2
  <2>2. Head(s) \in Int /\ e - 1 \in Int /\ 1 \in Int /\ Len(s) \in Int
    BY <1>1
  <2>3. IsFiniteSet(R) /\ Cardinality(R) = IF Head(s) > e - 1 THEN 0 ELSE (e - 1) - Head(s) + 1
    BY <2>2, FS_Interval
  <2>4. Cardinality(I) = IF 1 > Len(s) THEN 0 ELSE Len(s) - 1 + 1
    BY <2>2, FS_Interval
  <2>. QED  BY <1>1, <2>1, <2>3, <2>4
<1>. QED  BY <1>5, <1>6, FS_Injection

LEMMA ConcatFacts ==
    ASSUME NEW S, NEW s \in Seq(S), NEW t \in Seq(S)
    PROVE  /\ s \o t \in Seq(S) /\ DOMAIN (s \o t) = 1 .. Len(s) + Len(t)
           /\ \A i \in 1 .. Len(s) + Len(t) : (s \o t)[i] = IF i <= Len(s) THEN s[i] ELSE t[i - Len(s)]
           /\ t = <<>> => s \o t = s
OBVIOUS

LEMMA SplitVals ==
    ASSUME NEW s \in Seq(Entry), NEW t \in Seq(Entry), NEW n \in 0 .. Len(t)
    PROVE  LET u == s \o SubSeq(t, 1, n)
               v == SubSeq(t, n + 1, Len(t))
           IN  /\ u \in Seq(Entry) /\ v \in Seq(Entry)
               /\ Vals(s) \cup Vals(t) = Vals(u) \cup Vals(v) /\ Vals(s) \subseteq Vals(u)
               /\ Vals(u) \subseteq Vals(s) \cup Vals(t) /\ Vals(v) \subseteq Vals(t)
               /\ n = 0 => u = s /\ v = t
               /\ Rising(s) /\ Rising(t) /\ Under(Vals(s), Vals(t)) =>
                     Rising(u) /\ Rising(v) /\ Under(Vals(u), Vals(v))
<1>. DEFINE h == SubSeq(t, 1, n)
            u == s \o h
            v == SubSeq(t, n + 1, Len(t))
<1>1. /\ h \in Seq(Entry) /\ Len(h) = n /\ DOMAIN h = 1 .. n
      /\ \A i \in 1 .. n : h[i] = t[i]
      /\ v \in Seq(Entry) /\ Len(v) = Len(t) - n /\ DOMAIN v = 1 .. Len(t) - n
      /\ \A i \in 1 .. Len(t) - n : v[i] = t[n + i]
      /\ Len(t) \in Nat /\ DOMAIN t = 1 .. Len(t) /\ n \in Nat
      /\ \A i \in DOMAIN t : t[i] \in Entry
  OBVIOUS
<1>. HIDE DEF h, v
<1>2. /\ u \in Seq(Entry) /\ DOMAIN u = 1 .. Len(s) + n
      /\ \A i \in 1 .. Len(s) + n : u[i] = IF i <= Len(s) THEN s[i] ELSE h[i - Len(s)]
      /\ h = <<>> => u = s
  <2>1. h \in Seq(Entry) /\ Len(h) = n
    BY <1>1
  <2>. QED  BY ONLY <2>1, ConcatFacts, s \in Seq(Entry)
<1>. HIDE DEF u
<1>3. /\ Len(s) \in Nat /\ DOMAIN s = 1 .. Len(s)
      /\ \A i \in DOMAIN s : s[i] \in Entry
  OBVIOUS
<1>7. n = 0 => u = s /\ v = t
  <2>. SUFFICES ASSUME n = 0 PROVE u = s /\ v = t
    OBVIOUS
  <2>1. h = <<>> /\ v = t
    BY <1>1
  <2>. QED  BY <1>2, <2>1
<1>4. Range(u) = Range(s) \cup Range(h)
  <2>1. ASSUME NEW i \in DOMAIN u
        PROVE  \/ i \in DOMAIN s /\ u[i] = s[i]
               \/ i - Len(s) \in DOMAIN h /\ u[i] = h[i - Len(s)]
    BY <1>1, <1>2, <1>3
  <2>2. ASSUME NEW i \in DOMAIN s PROVE i \in DOMAIN u /\ u[i] = s[i]
    BY <1>1, <1>2, <1>3
  <2>3. ASSUME NEW i \in DOMAIN h PROVE Len(s) + i \in DOMAIN u /\ u[Len(s) + i] = h[i]
    BY <1>1, <1>2, <1>3
  <2>. QED  BY <2>1, <2>2, <2>3 DEF Range
<1>5. Range(t) = Range(h) \cup Range(v)
  <2>1. ASSUME NEW i \in DOMAIN t
        PROVE  \/ i \in DOMAIN h /\ t[i] = h[i]
               \/ i - n \in DOMAIN v /\ t[i] = v[i - n]
    <3>1. CASE i <= n
      BY <1>1, <3>1
    <3>2. CASE i > n
      <4>1. i - n \in DOMAIN v /\ n + (i - n) = i
        BY <1>1, <3>2
      <4>. QED  BY <1>1, <4>1
    <3>. QED  BY <1>1, <3>1, <3>2
  <2>2. ASSUME NEW i \in DOMAIN h PROVE i \in DOMAIN t /\ t[i] = h[i]
    BY <1>1
  <2>3. ASSUME NEW i \in DOMAIN v PROVE n + i \in DOMAIN t /\ t[n + i] = v[i]
    BY <1>1
  <2>. QED  BY <2>1, <2>2, <2>3 DEF Range
<1>6. ASSUME Rising(s), Rising(t), Under(Vals(s), Vals(t))
      PROVE  Rising(u) /\ Rising(v) /\ Under(Vals(u), Vals(v))
  <2>1. Rising(v)
    <3>. SUFFICES ASSUME NEW i \in DOMAIN v, NEW j \in DOMAIN v, i < j, v[i] # Close, v[j] # Close
                  PROVE  v[i] < v[j]
      BY DEF Rising
    <3>1. n + i \in DOMAIN t /\ n + j \in DOMAIN t /\ n + i < n + j /\ v[i] = t[n + i] /\ v[j] = t[n + j]
      BY <1>1
    <3>. QED  BY <1>6, <3>1 DEF Rising
  <2>2. Rising(h)
    BY <1>1, <1>6 DEF Rising
  <2>3. Vals(h) \subseteq Vals(t)
    BY <1>5 DEF Vals
  <2>4. Rising(u)
    <3>. SUFFICES ASSUME NEW i \in DOMAIN u, NEW j \in DOMAIN u, i < j, u[i] # Close, u[j] # Close
                  PROVE  u[i] < u[j]
      BY DEF Rising
    <3>1. CASE j <= Len(s)
      BY <1>2, <1>3, <1>6, <3>1 DEF Rising
    <3>2. CASE i > Len(s)
      <4>1. i - Len(s) \in DOMAIN h /\ j - Len(s) \in DOMAIN h /\ i - Len(s) < j - Len(s)
        BY <1>1, <1>2, <1>3, <3>2
      <4>. QED  BY <1>2, <1>3, <2>2, <3>2, <4>1 DEF Rising
    <3>3. CASE i <= Len(s) /\ j > Len(s)
      <4>1. u[i] \in Vals(s)
        BY <1>2, <1>3, <3>3 DEF Vals, Range
      <4>2. u[j] \in Vals(h)
        <5>1. j - Len(s) \in DOMAIN h /\ u[j] = h[j - Len(s)]
          BY <1>1, <1>2, <1>3, <3>3
        <5>. QED  BY <5>1 DEF Vals, Range
      <4>. QED  BY <1>6, <2>3, <4>1, <4>2 DEF Under
    <3>. QED  BY <1>2, <1>3, <3>1, <3>2, <3>3
  <2>5. ASSUME NEW a \in Vals(u), NEW b \in Vals(v) PROVE a < b
    <3>1. PICK j \in DOMAIN v : b = v[j] /\ b # Close
      BY DEF Vals, Range
    <3>2. CASE a \in Vals(s)
      BY <1>5, <1>6, <3>2 DEF Under, Vals
    <3>3. CASE a \in Vals(h)
      <4>1. PICK i \in DOMAIN h : a = h[i] /\ a # Close
        BY <3>3 DEF Vals, Range
      <4>2. i \in DOMAIN t /\ n + j \in DOMAIN t /\ i < n + j /\ a = t[i] /\ b = t[n + j]
        BY <1>1, <3>1, <4>1
      <4>. QED  BY <1>6, <3>1, <4>1, <4>2 DEF Rising
    <3>. QED  BY <1>4, <3>2, <3>3 DEF Vals
  <2>. QED  BY <2>1, <2>4, <2>5 DEF Under
<1>. QED  BY <1>1, <1>2, <1>4, <1>5, <1>6, <1>7 DEF Vals, u, v, h

-----------------------------------------------------------------------------
(* What a response has sent, its buffer, its queue and its wire are in the   *)
(* order of publication, each and one after another.                         *)
Ordered(g, b, q, v) ==
    /\ Rising(g) /\ Rising(b) /\ Rising(q) /\ Rising(v)
    /\ Under(Vals(g), Vals(b)) /\ Under(Vals(g), Vals(q)) /\ Under(Vals(g), Vals(v))
    /\ Under(Vals(b), Vals(q)) /\ Under(Vals(b), Vals(v)) /\ Under(Vals(q), Vals(v))

LEMMA OrderedCut ==
    ASSUME NEW g, NEW b, NEW q, NEW v, Ordered(g, b, q, v)
    PROVE  /\ Ordered(<<>>, <<>>, <<>>, <<>>) /\ Ordered(g, <<>>, <<>>, <<>>)
           /\ Ordered(g, b, q, <<>>) /\ Ordered(g, b, <<>>, <<>>)
BY EmptyVals DEF Ordered, Under

LEMMA OrderedPublish ==
    ASSUME NEW g, NEW b, NEW q, NEW v \in Seq(Entry), NEW e \in Entry, Ordered(g, b, q, v),
           e # Close => \A a \in Vals(g) \cup Vals(b) \cup Vals(q) \cup Vals(v) : a < e
    PROVE  Ordered(g, b, q, Append(v, e))
BY AppendVals DEF Ordered, Under

LEMMA OrderedDrop ==
    ASSUME NEW g \in Seq(Entry), NEW b \in Seq(Entry), NEW q \in Seq(Entry), NEW v \in Seq(Entry),
           Ordered(g, b, q, v)
    PROVE  /\ b # <<>> => Ordered(g, Tail(b), q, v)
           /\ q # <<>> => Ordered(g, b, Tail(q), v)
           /\ v # <<>> => Ordered(g, b, q, Tail(v))
BY HeadVals DEF Ordered, Under

(* An event goes from the head of one to the end of the one before.          *)
LEMMA OrderedMove ==
    ASSUME NEW g \in Seq(Entry), NEW b \in Seq(Entry), NEW q \in Seq(Entry), NEW v \in Seq(Entry),
           Ordered(g, b, q, v)
    PROVE  /\ b # <<>> => Ordered(Append(g, Head(b)), Tail(b), q, v)
           /\ b = <<>> /\ q # <<>> => Ordered(Append(g, Head(q)), b, Tail(q), v)
           /\ q # <<>> => Ordered(g, Append(b, Head(q)), Tail(q), v)
           /\ v # <<>> => Ordered(g, b, Append(q, Head(v)), Tail(v))
<1>1. ASSUME b # <<>> PROVE Ordered(Append(g, Head(b)), Tail(b), q, v)
  <2>. DEFINE e == Head(b)
  <2>1. /\ e \in Entry /\ Rising(Tail(b)) /\ Vals(Tail(b)) \subseteq Vals(b)
        /\ e # Close => e \in Vals(b) /\ \A a \in Vals(Tail(b)) : e < a
    BY <1>1, HeadVals DEF Ordered
  <2>. HIDE DEF e
  <2>2. /\ Vals(Append(g, e)) = Vals(g) \cup ({e} \ {Close})
        /\ Rising(Append(g, e))
    BY <2>1, AppendVals DEF Ordered, Under
  <2>. QED  BY <2>1, <2>2 DEF Ordered, Under, e
<1>2. ASSUME b = <<>>, q # <<>> PROVE Ordered(Append(g, Head(q)), b, Tail(q), v)
  <2>. DEFINE e == Head(q)
  <2>1. /\ e \in Entry /\ Rising(Tail(q)) /\ Vals(Tail(q)) \subseteq Vals(q)
        /\ e # Close => e \in Vals(q) /\ \A a \in Vals(Tail(q)) : e < a
        /\ Vals(b) = {}
    BY <1>2, HeadVals, EmptyVals DEF Ordered
  <2>. HIDE DEF e
  <2>2. /\ Vals(Append(g, e)) = Vals(g) \cup ({e} \ {Close})
        /\ Rising(Append(g, e))
    BY <2>1, AppendVals DEF Ordered, Under
  <2>. QED  BY <2>1, <2>2 DEF Ordered, Under, e
<1>3. ASSUME q # <<>> PROVE Ordered(g, Append(b, Head(q)), Tail(q), v)
  <2>. DEFINE e == Head(q)
  <2>1. /\ e \in Entry /\ Rising(Tail(q)) /\ Vals(Tail(q)) \subseteq Vals(q)
        /\ e # Close => e \in Vals(q) /\ \A a \in Vals(Tail(q)) : e < a
    BY <1>3, HeadVals DEF Ordered
  <2>. HIDE DEF e
  <2>2. /\ Vals(Append(b, e)) = Vals(b) \cup ({e} \ {Close})
        /\ Rising(Append(b, e))
    BY <2>1, AppendVals DEF Ordered, Under
  <2>. QED  BY <2>1, <2>2 DEF Ordered, Under, e
<1>4. ASSUME v # <<>> PROVE Ordered(g, b, Append(q, Head(v)), Tail(v))
  <2>. DEFINE e == Head(v)
  <2>1. /\ e \in Entry /\ Rising(Tail(v)) /\ Vals(Tail(v)) \subseteq Vals(v)
        /\ e # Close => e \in Vals(v) /\ \A a \in Vals(Tail(v)) : e < a
    BY <1>4, HeadVals DEF Ordered
  <2>. HIDE DEF e
  <2>2. /\ Vals(Append(q, e)) = Vals(q) \cup ({e} \ {Close})
        /\ Rising(Append(q, e))
    BY <2>1, AppendVals DEF Ordered, Under
  <2>. QED  BY <2>1, <2>2 DEF Ordered, Under, e
<1>. QED  BY <1>1, <1>2, <1>3, <1>4

LEMMA OrderedSplit ==
    ASSUME NEW g, NEW b, NEW q \in Seq(Entry), NEW v \in Seq(Entry), Ordered(g, b, q, v),
           NEW n \in 0 .. Len(v)
    PROVE  Ordered(g, b, q \o SubSeq(v, 1, n), SubSeq(v, n + 1, Len(v)))
<1>. DEFINE q2 == q \o SubSeq(v, 1, n)
            v2 == SubSeq(v, n + 1, Len(v))
<1>1. /\ Vals(q2) \subseteq Vals(q) \cup Vals(v) /\ Vals(v2) \subseteq Vals(v)
      /\ Rising(q2) /\ Rising(v2) /\ Under(Vals(q2), Vals(v2))
  BY SplitVals DEF Ordered
<1>. HIDE DEF q2, v2
<1>. QED  BY <1>1 DEF Ordered, Under, q2, v2

-----------------------------------------------------------------------------
(* Types, with the domains that TypeOK does not spell out.                   *)
Tasks == {"none", "queued", "started", "running", "failing", "closing",
          "paused", "over", "failed", "lost", "dead"}
Places == {"request", "ready", "opened", "open", "left"} \cup Closing
TaskTypes ==
    /\ transport \in {"pubsub", "streams"} /\ early \in BOOLEAN
    /\ ended \in Entry /\ published \in Entry /\ pause \in Entry
    /\ task \in Tasks
PlaceTypes ==
    /\ mode \in [Watcher -> {"live", "live_on", "snapshot", "snapshot_on"}]
    /\ pc \in [Watcher -> Places]
    /\ since \in [Watcher -> Entry]
    /\ stage \in [Watcher -> {"none", "read", "paused", "sent"}]
    /\ worker \in [Watcher -> {"none", "on", "off"}]
ReaderTypes ==
    /\ listener \in [Watcher -> {"none", "on", "off"}]
    /\ reading \in [Watcher -> BOOLEAN] /\ fixed \in [Watcher -> BOOLEAN]
    /\ dropped \in [Watcher -> BOOLEAN]
SeqTypes ==
    /\ wire \in [Watcher -> Seq(Entry)] /\ queue \in [Watcher -> Seq(Entry)]
    /\ buffer \in [Watcher -> Seq(Event)] /\ got \in [Watcher -> Seq(Event)]
Bounds ==
    \A w \in Watcher : /\ Len(buffer[w]) <= BufferMax
                       /\ transport = "pubsub" => Len(queue[w]) <= QueueMax
(* No event is published beyond the bound: what the task has left to publish.*)
TaskInv ==
    /\ task = "none" => published = 0 /\ pause = 0 /\ ~early
    /\ task \in {"none", "queued", "started", "running", "failing", "paused"} => published <= MaxEvents
    /\ task \in {"closing", "over"} => published <= MaxEvents + 1
    /\ ended <= published /\ (ended # 0 => task \in {"over", "failed"})
    /\ pc[Requester] = "request" => task = "none"
    /\ transport = "pubsub" /\ ~early /\ pc[Requester] = "ready" => task = "none"

Types == TaskTypes /\ PlaceTypes /\ ReaderTypes /\ SeqTypes /\ Bounds

LEMMA TypesGiveTypeOK == Types => AllTypesOK
BY DEF Types, TaskTypes, PlaceTypes, ReaderTypes, SeqTypes, Bounds, AllTypesOK,
   TypeOK, Entry, Event, Tasks, Places

LEMMA TypesInit == SnapInit => Types /\ TaskInv
<1>. SUFFICES ASSUME SnapInit PROVE Types /\ TaskInv
  OBVIOUS
<1>. USE Constants
<1>1. TaskTypes
  BY DEF SnapInit, Init, TaskTypes, Tasks
<1>6. TaskInv
  <2>1. task = "none" /\ published = 0 /\ pause = 0 /\ ended = 0 /\ ~early
    BY DEF SnapInit, Init
  <2>. QED  BY <2>1 DEF TaskInv
<1>2. PlaceTypes
  BY DEF SnapInit, Init, PlaceTypes, Places
<1>3. ReaderTypes
  BY DEF SnapInit, Init, ReaderTypes
<1>4. SeqTypes
  BY DEF SnapInit, Init, SeqTypes
<1>5. Bounds
  BY DEF SnapInit, Init, Bounds
<1>. QED  BY <1>1, <1>2, <1>3, <1>4, <1>5, <1>6 DEF Types

(* Steps that move nothing: they disturb the places of responses and the     *)
(* task only.                                                                *)
LEMMA BroadcastTypes ==
    ASSUME Types, NEW e \in Entry, Broadcast(e)
    PROVE  wire' \in [Watcher -> Seq(Entry)]
BY DEF Broadcast, Types, SeqTypes

LEMMA UnlinkTypes ==
    ASSUME Types, NEW w \in Watcher, Unlink(w)
    PROVE  /\ reading' \in [Watcher -> BOOLEAN] /\ fixed' \in [Watcher -> BOOLEAN]
           /\ wire' \in [Watcher -> Seq(Entry)]
BY DEF Unlink, Types, SeqTypes, ReaderTypes

LEMMA LeaveTypes ==
    ASSUME Types, NEW w \in Watcher,
           NEW next \in Closing \cup {"left"},
           Leave(w, next)
    PROVE  /\ reading' \in [Watcher -> BOOLEAN] /\ fixed' \in [Watcher -> BOOLEAN]
           /\ wire' \in [Watcher -> Seq(Entry)] /\ queue' \in [Watcher -> Seq(Entry)]
           /\ pc' \in [Watcher -> Places]
           /\ \A u \in Watcher : queue'[u] = queue[u] \/ queue'[u] = <<>>
<1>1. Unlink(w) /\ queue' = [queue EXCEPT ![w] = <<>>]
  BY DEF Leave
<1>2. queue' \in [Watcher -> Seq(Entry)] /\ \A u \in Watcher : queue'[u] = queue[u] \/ queue'[u] = <<>>
  BY <1>1 DEF Types, SeqTypes
<1>. QED  BY <1>1, <1>2, UnlinkTypes DEF Leave, Types, PlaceTypes, Places, Closing

-----------------------------------------------------------------------------
(* The events a response has sent or still has ahead of it.                  *)
Has(w) == Vals(got[w]) \cup Vals(buffer[w]) \cup Vals(queue[w]) \cup Vals(wire[w])

Attached(w) == listener[w] = "on" /\ pc[w] \in {"opened", "open"}

Blank(w) == got[w] = <<>> /\ buffer[w] = <<>> /\ queue[w] = <<>>

(* Who reads: a listener of an open subscription, on pub/sub until SIG_CLOSE *)
(* is queued, on streams once it has an id; who buffers: a snapshot's thread.*)
ControlInv(w) ==
    /\ reading[w] => Attached(w)
    /\ transport = "pubsub" /\ Attached(w) => reading[w] /\ Close \notin Range(queue[w])
    /\ transport = "streams" /\ Attached(w) /\ ~fixed[w] => Blank(w)
    /\ ~Snapshots(w) => worker[w] = "none" /\ buffer[w] = <<>>
    /\ pc[w] \in {"request", "ready"} => Blank(w) /\ worker[w] = "none"
    /\ wire[w] # <<>> => reading[w]
    /\ w = Requester => ~Snapshots(w)
    /\ pc[w] \in Closing \cup {"left"} => buffer[w] = <<>> /\ queue[w] = <<>>
    /\ since[w] <= published

(* Nothing from event k on was published before the response listened.       *)
Whole(w, k) ==
    /\ transport = "pubsub" /\ ~dropped[w]
    /\ \/ w = Requester /\ ~early /\ k = 1
       \/ Snapshots(w) /\ pc[w] # "ready" /\ k = since[w] + 1

(* What was published after event e leaves room for it.                      *)
Room(w, e) == published - e < QueueMax /\ (Snapshots(w) => published - e < BufferMax)

(* A snapshot's response has nothing from before it subscribed.  What it has *)
(* begins somewhere and goes on for as long as there is room for it; and     *)
(* without an overflow there is no hole in what a response has, nor, as long *)
(* as it listens, between that and what is published next.                   *)
KnownInv(w) ==
    /\ \A a \in Has(w) : a <= published
    /\ ~dropped[w] => \A a, b \in Has(w) : \A c \in a .. b : c \in Has(w)
    /\ reading[w] /\ Has(w) # {} => published \in Has(w)
    /\ \A k \in 1 .. MaxEvents + 3 : Whole(w, k) =>
          /\ \A a \in Has(w) : \A c \in k .. a : c \in Has(w)
          /\ reading[w] => \A c \in k .. published : c \in Has(w)
    /\ transport = "pubsub" /\ Snapshots(w) /\ pc[w] # "ready" => \A a \in Has(w) : since[w] < a
    /\ transport = "pubsub" /\ reading[w] =>
          \A a \in Has(w) : \A e \in a .. published : Room(w, e) => e \in Has(w)

(* What was sent is a run of events without a hole, which begins in time.    *)
SentInv(w) ==
    ~dropped[w] =>
      /\ \A i \in DOMAIN got[w] : got[w][i] = got[w][1] + i - 1
      /\ \A k \in 1 .. MaxEvents + 3 : Whole(w, k) /\ got[w] # <<>> => got[w][1] <= k

WatchInv(w) ==
    /\ Ordered(got[w], buffer[w], queue[w], wire[w])
    /\ ControlInv(w) /\ KnownInv(w) /\ SentInv(w)

IInv == Types /\ TaskInv /\ \A w \in Watcher : WatchInv(w)

LEMMA SeqFacts ==
    ASSUME Types, NEW w \in Watcher
    PROVE  /\ got[w] \in Seq(Event) /\ buffer[w] \in Seq(Event)
           /\ got[w] \in Seq(Entry) /\ buffer[w] \in Seq(Entry)
           /\ queue[w] \in Seq(Entry) /\ wire[w] \in Seq(Entry)
           /\ Has(w) \subseteq Event /\ published \in Nat
<1>1. /\ got[w] \in Seq(Event) /\ buffer[w] \in Seq(Event)
      /\ queue[w] \in Seq(Entry) /\ wire[w] \in Seq(Entry)
  BY DEF Types, SeqTypes
<1>2. Event \subseteq Entry /\ Entry \ {Close} = Event
  BY Constants DEF Event, Entry, Close
<1>3. got[w] \in Seq(Entry) /\ buffer[w] \in Seq(Entry)
  BY <1>1, <1>2
<1>4. ASSUME NEW s \in Seq(Entry) PROVE Vals(s) \subseteq Event
  BY <1>2 DEF Vals, Range
<1>5. published \in Nat
  BY Constants DEF Types, TaskTypes, Entry
<1>. QED  BY <1>1, <1>3, <1>4, <1>5 DEF Has

LEMMA WatchInit == SnapInit => IInv
<1>. SUFFICES ASSUME SnapInit, NEW w \in Watcher PROVE WatchInv(w)
  BY TypesInit DEF IInv
<1>1. /\ got[w] = <<>> /\ buffer[w] = <<>> /\ queue[w] = <<>> /\ wire[w] = <<>>
      /\ ~reading[w] /\ listener[w] = "none" /\ pc[w] = "request" /\ mode[w] = "live"
      /\ worker[w] = "none" /\ stage[w] = "none" /\ since[w] = 0 /\ published = 0
  BY DEF SnapInit, Init
<1>2. Has(w) = {}
  BY <1>1, EmptyVals DEF Has
<1>3. Ordered(got[w], buffer[w], queue[w], wire[w])
  BY <1>1, EmptyVals DEF Ordered, Under
<1>4. ControlInv(w)
  BY <1>1 DEF ControlInv, Attached, Blank, Snapshots, Closing
<1>5. KnownInv(w) /\ SentInv(w)
  BY <1>1, <1>2 DEF KnownInv, SentInv
<1>. QED  BY <1>3, <1>4, <1>5 DEF WatchInv

-----------------------------------------------------------------------------
(* Ways in which a step may leave KnownInv and SentInv of a response.        *)

(* All that WatchInv(u) speaks of is as before.                              *)
SameWatch(u) ==
    /\ transport' = transport /\ early' = early /\ published' = published
    /\ mode'[u] = mode[u] /\ pc'[u] = pc[u] /\ listener'[u] = listener[u]
    /\ reading'[u] = reading[u] /\ fixed'[u] = fixed[u] /\ dropped'[u] = dropped[u]
    /\ wire'[u] = wire[u] /\ queue'[u] = queue[u] /\ got'[u] = got[u] /\ buffer'[u] = buffer[u]
    /\ since'[u] = since[u] /\ worker'[u] = worker[u]

(* A step that does not change where the response begins.                    *)
SameStart(u) ==
    /\ transport' = transport /\ early' = early /\ published' = published
    /\ mode'[u] = mode[u] /\ since'[u] = since[u]
    /\ dropped[u] => dropped'[u]
    /\ pc'[u] = pc[u] \/ pc[u] # "ready"

LEMMA WholeKept == ASSUME NEW u, NEW k, SameStart(u), Whole(u, k)' PROVE Whole(u, k)
BY DEF SameStart, Whole, Snapshots

LEMMA WatchKept == ASSUME NEW u \in Watcher, WatchInv(u), SameWatch(u) PROVE WatchInv(u)'
<1>1. Has(u)' = Has(u)
  BY DEF SameWatch, Has
<1>2. \A k \in 1 .. MaxEvents + 3 : Whole(u, k)' => Whole(u, k)
  BY DEF SameWatch, Whole, Snapshots
<1>3. Ordered(got[u], buffer[u], queue[u], wire[u])'
  BY DEF WatchInv, SameWatch
<1>4. ControlInv(u)'
  BY DEF WatchInv, SameWatch, ControlInv, Attached, Blank, Snapshots
<1>5. KnownInv(u)'
  BY <1>1, <1>2 DEF WatchInv, SameWatch, KnownInv, Room, Snapshots
<1>6. SentInv(u)'
  BY <1>2 DEF WatchInv, SameWatch, SentInv
<1>. QED  BY <1>3, <1>4, <1>5, <1>6 DEF WatchInv

(* It loses the events from some point on.                                   *)
LEMMA KnownCut ==
    ASSUME NEW u \in Watcher, KnownInv(u), SameStart(u),
           ~dropped'[u] => ~dropped[u],
           Has(u)' \subseteq Has(u), \A a \in Has(u)' : \A c \in Has(u) : c <= a => c \in Has(u)',
           reading'[u] => reading[u] /\ Has(u)' = Has(u),
           Has(u) \subseteq Event
    PROVE  KnownInv(u)'
<1>1. \A k \in 1 .. MaxEvents + 3 : Whole(u, k)' => Whole(u, k)
  BY WholeKept
<1>2. published' = published
  BY DEF SameStart
<1>3. ~dropped'[u] => \A a, b \in Has(u)' : \A c \in a .. b : c \in Has(u)'
  BY DEF KnownInv, Event
<1>4. ASSUME NEW k \in 1 .. MaxEvents + 3, Whole(u, k)', NEW a \in Has(u)', NEW c \in k .. a PROVE c \in Has(u)'
  BY <1>1, <1>4 DEF KnownInv, Event
<1>5. ASSUME NEW k \in 1 .. MaxEvents + 3, Whole(u, k)', reading'[u] PROVE \A c \in k .. published' : c \in Has(u)'
  BY <1>1, <1>2, <1>5 DEF KnownInv
<1>6. transport' = transport /\ (Snapshots(u)' <=> Snapshots(u)) /\ since'[u] = since[u] /\ (pc'[u] # "ready" => pc[u] # "ready")
  BY DEF SameStart, Snapshots
<1>7. \A e : Room(u, e)' => Room(u, e)
  BY <1>2, <1>6 DEF Room
<1>. QED  BY <1>2, <1>3, <1>4, <1>5, <1>6, <1>7 DEF KnownInv

(* It loses the oldest, which leaves a hole.                                 *)
LEMMA KnownDropped ==
    ASSUME NEW u \in Watcher, KnownInv(u), SameStart(u), dropped'[u],
           Has(u)' \subseteq Has(u),
           NEW d, \A a \in Has(u) : a \in Has(u)' \/ a = d,
           reading'[u] => reading[u] /\ ~Room(u, d) /\ published \in Has(u)'
    PROVE  KnownInv(u)'
<1>1. /\ published' = published /\ transport' = transport
      /\ (Snapshots(u)' <=> Snapshots(u)) /\ since'[u] = since[u] /\ (pc'[u] # "ready" => pc[u] # "ready")
  BY DEF SameStart, Snapshots
<1>2. \A e : Room(u, e)' => Room(u, e)
  BY <1>1 DEF Room
<1>3. ~Whole(u, 1)' /\ \A k : ~Whole(u, k)'
  BY DEF Whole
<1>. QED  BY <1>1, <1>2, <1>3 DEF KnownInv

LEMMA KnownEmpty ==
    ASSUME NEW u \in Watcher, Has(u)' = {}, ~reading'[u]
    PROVE  KnownInv(u)'
BY DEF KnownInv

LEMMA SentKept ==
    ASSUME NEW u \in Watcher, SentInv(u), SameStart(u), got'[u] = got[u]
    PROVE  SentInv(u)'
BY WholeKept DEF SentInv, SameStart

LEMMA SentEmpty ==
    ASSUME NEW u \in Watcher, got'[u] = <<>>
    PROVE  SentInv(u)'
BY DEF SentInv

(* The event that is sent is the oldest of those that were not.              *)
LEMMA SentNext ==
    ASSUME Types, NEW u \in Watcher, KnownInv(u), SentInv(u), SameStart(u), dropped'[u] = dropped[u],
           NEW rest, NEW e \in rest, \A a \in rest : e <= a, Has(u) = Vals(got[u]) \cup rest,
           Under(Vals(got[u]), rest), Rising(got[u]), got'[u] = Append(got[u], e)
    PROVE  SentInv(u)'
<1>. DEFINE g == got[u]
<1>1. g \in Seq(Event) /\ Has(u) \subseteq Event /\ e \in Event
  BY SeqFacts
<1>2. /\ DOMAIN got'[u] = 1 .. Len(g) + 1 /\ Len(g) \in Nat /\ DOMAIN g = 1 .. Len(g)
      /\ \A i \in 1 .. Len(g) : got'[u][i] = g[i] /\ g[i] \in Event
      /\ got'[u][Len(g) + 1] = e /\ got'[u] # <<>>
  BY <1>1
<1>3. \A i \in 1 .. Len(g) : g[i] \in Vals(g)
  BY <1>2, Constants DEF Vals, Range, Event, Close
<1>. SUFFICES ASSUME ~dropped[u]
              PROVE  /\ \A i \in DOMAIN got'[u] : got'[u][i] = got'[u][1] + i - 1
                     /\ \A k \in 1 .. MaxEvents + 3 : Whole(u, k)' => got'[u][1] <= k
  BY DEF SentInv
<1>4. CASE g = <<>>
  <2>1. Len(g) = 0 /\ got'[u][1] = e /\ Vals(g) = {}
    BY <1>2, <1>4, EmptyVals
  <2>2. ASSUME NEW k \in 1 .. MaxEvents + 3, Whole(u, k)' PROVE e <= k
    <3>1. e > k => k \in k .. e /\ e \in Has(u)
      BY <1>1 DEF Event
    <3>2. e > k => k \in rest
      BY <2>1, <2>2, <3>1, WholeKept DEF KnownInv
    <3>. QED  BY <1>1, <3>2 DEF Event
  <2>. QED  BY <1>1, <1>2, <2>1, <2>2 DEF Event
<1>5. CASE g # <<>>
  <2>. DEFINE l == g[Len(g)]
  <2>1. Len(g) \in 1 .. Len(g) /\ l \in Vals(g) /\ l < e /\ l \in Event /\ l \in Has(u) /\ e \in Has(u)
    <3>1. Len(g) \in 1 .. Len(g)
      BY <1>1, <1>5
    <3>. QED  BY <1>2, <1>3, <3>1 DEF Under
  <2>2. e = l + 1
    <3>1. l + 1 \in l .. e
      BY <1>1, <2>1 DEF Event
    <3>2. l + 1 \in Has(u)
      BY <2>1, <3>1 DEF KnownInv
    <3>3. l + 1 \notin Vals(g)
      <4>1. ASSUME NEW a \in Vals(g) PROVE a <= l
        <5>1. PICK i \in 1 .. Len(g) : a = g[i]
          BY <1>2 DEF Vals, Range
        <5>2. i = Len(g) \/ i < Len(g)
          BY <1>2
        <5>3. g[i] # Close /\ l # Close
          BY <1>2, <2>1, Constants DEF Event, Close
        <5>4. i < Len(g) => g[i] < l
          BY <1>2, <2>1, <5>3 DEF Rising
        <5>. QED  BY <1>2, <2>1, <5>1, <5>2, <5>4 DEF Event
      <4>. QED  BY <2>1, <4>1 DEF Event
    <3>4. e <= l + 1
      BY <3>2, <3>3
    <3>. QED  BY <1>1, <2>1, <3>4 DEF Event
  <2>3. l = g[1] + Len(g) - 1 /\ g[1] \in Event /\ got'[u][1] = g[1]
    BY <1>2, <2>1 DEF SentInv
  <2>4. ASSUME NEW i \in DOMAIN got'[u] PROVE got'[u][i] = got'[u][1] + i - 1
    <3>1. CASE i \in 1 .. Len(g)
      BY <1>2, <2>3, <3>1 DEF SentInv
    <3>2. CASE i = Len(g) + 1
      BY <1>2, <2>2, <2>3, <3>2 DEF Event
    <3>. QED  BY <1>2, <3>1, <3>2
  <2>5. ASSUME NEW k \in 1 .. MaxEvents + 3, Whole(u, k)' PROVE got'[u][1] <= k
    BY <1>5, <2>3, <2>5, WholeKept DEF SentInv
  <2>. QED  BY <2>4, <2>5
<1>. QED  BY <1>4, <1>5

-----------------------------------------------------------------------------
(* Steps of the task and of the response that starts it.                     *)
LEMMA TaskStep ==
    ASSUME IInv, LookUp \/ Resume \/ TaskFails \/ TaskDies, UNCHANGED snapVars
    PROVE  IInv'
<1>1. /\ UNCHANGED <<transport, early, mode, pause, ended, published, pc, listener, reading, fixed, wire>>
      /\ UNCHANGED <<dropped, queue, got, since, stage, worker, buffer>>
  BY DEF LookUp, Resume, TaskFails, TaskDies, TaskOnly, marks, snapVars
<1>2. TaskInv' /\ task' \in Tasks
  BY <1>1, Constants DEF IInv, TaskInv, Types, TaskTypes, LookUp, Resume, TaskFails, TaskDies, Entry, Tasks
<1>3. Types'
  BY <1>1, <1>2 DEF IInv, Types, TaskTypes, PlaceTypes, ReaderTypes, SeqTypes, Bounds
<1>4. ASSUME NEW u \in Watcher PROVE WatchInv(u)'
  BY <1>1, WatchKept DEF IInv, SameWatch
<1>. QED  BY <1>2, <1>3, <1>4 DEF IInv

(* The place of the requester changes: nothing else that matters does.       *)
LEMMA RequesterStep ==
    ASSUME IInv, UNCHANGED snapVars,
           \/ Submit
           \/ OnSubscribe
           \/ StartByTimer
    PROVE  IInv'
<1>1. /\ UNCHANGED <<transport, mode, pause, ended, published, listener, reading, fixed, wire>>
      /\ UNCHANGED <<dropped, queue, got, since, stage, worker, buffer>>
  BY DEF Submit, OnSubscribe, StartByTimer, setting, run, marks, link, reader, snapVars
<1>2. /\ pc' \in [Watcher -> Places]
      /\ task' \in Tasks /\ early' \in BOOLEAN
      /\ \A u \in Watcher \ {Requester} : pc'[u] = pc[u]
      /\ \/ pc'[Requester] = pc[Requester]
         \/ pc[Requester] = "request" /\ pc'[Requester] = "ready"
         \/ pc[Requester] = "opened" /\ pc'[Requester] = "open"
      /\ ~early' => ~early
  BY Constants DEF IInv, Types, TaskTypes, PlaceTypes, Submit, OnSubscribe,
     StartByTimer, Goto, TaskInv, setting, run, marks, Tasks, Places
<1>3. Types'
  BY <1>1, <1>2 DEF IInv, Types, TaskTypes, PlaceTypes, ReaderTypes, SeqTypes, Bounds
<1>4. TaskInv'
  <2>1. CASE Submit
    BY <1>1, <2>1, Constants DEF IInv, TaskInv, Types, TaskTypes, PlaceTypes, Submit, Goto, setting, run, marks
  <2>2. CASE OnSubscribe
    BY <1>1, <2>2, Constants DEF IInv, TaskInv, Types, TaskTypes, PlaceTypes, OnSubscribe,
       Goto, setting, run, marks
  <2>3. CASE StartByTimer
    <3>1. pc' = pc /\ task = "none" /\ task' = "queued" /\ published' = 0 /\ pc[Requester] # "request"
      BY <1>1, <2>3 DEF StartByTimer, IInv, TaskInv
    <3>2. pc[Requester] = "ready" => early'
      BY <2>3 DEF StartByTimer
    <3>3. task' # "none" /\ pc'[Requester] # "request" /\ ended' = ended /\ ended = 0
      BY <1>1, <3>1, Constants DEF IInv, TaskInv, Types, TaskTypes, Entry
    <3>. QED  BY <3>1, <3>2, <3>3, Constants DEF TaskInv
  <2>. QED  BY <2>1, <2>2, <2>3
<1>5. ASSUME NEW u \in Watcher PROVE WatchInv(u)'
  <2>1. WatchInv(u)
    BY DEF IInv
  <2>2. Has(u)' = Has(u) /\ \A k \in 1 .. MaxEvents + 3 : Whole(u, k)' => Whole(u, k)
    BY <1>1, <1>2, <2>1 DEF Has, Whole, Snapshots, WatchInv, ControlInv
  <2>3. Ordered(got[u], buffer[u], queue[u], wire[u])'
    BY <1>1, <2>1 DEF WatchInv
  <2>4. ControlInv(u)'
    BY <1>1, <1>2, <2>1 DEF WatchInv, ControlInv, Attached, Blank, Snapshots, Closing
  <2>5. KnownInv(u)'
    <3>1. Snapshots(u) => pc'[u] = pc[u]
      BY <1>2, <2>1 DEF WatchInv, ControlInv
    <3>2. Snapshots(u)' = Snapshots(u) /\ \A e : Room(u, e)' = Room(u, e)
      BY <1>1 DEF Snapshots, Room
    <3>. QED  BY <1>1, <2>1, <2>2, <3>1, <3>2 DEF WatchInv, KnownInv
  <2>6. SentInv(u)'
    BY <1>1, <2>1, <2>2 DEF WatchInv, SentInv
  <2>. QED  BY <2>3, <2>4, <2>5, <2>6 DEF WatchInv
<1>. QED  BY <1>3, <1>4, <1>5 DEF IInv

(* An event is published: those that listen have it ahead of them.           *)
LEMMA PublishStep ==
    ASSUME IInv, UNCHANGED snapVars, Publish \/ PublishFailure \/ PublishTail
    PROVE  IInv'
<1>. DEFINE e == published + 1
<1>1. /\ UNCHANGED <<transport, early, mode, pc, listener, reading, fixed>>
      /\ UNCHANGED <<dropped, queue, got, since, stage, worker, buffer>>
      /\ published' = e /\ Broadcast(e)
  BY DEF Publish, PublishFailure, PublishTail, TaskOnly, PublishNext, snapVars
<1>2. published \in Nat /\ published < MaxEvents + 2
  BY Constants DEF IInv, TaskInv, Types, TaskTypes, Tasks, Publish, PublishFailure, PublishTail, Entry
<1>0. e \in Event /\ e \in Entry
  BY <1>2, Constants DEF Event, Entry
<1>3. TaskInv' /\ task' \in Tasks /\ ended' \in Entry /\ pause' \in Entry
  <2>1. CASE Publish
    BY <1>0, <1>1, <1>2, <2>1, Constants DEF IInv, TaskInv, Types, TaskTypes, Tasks, Publish, Entry
  <2>2. CASE PublishFailure
    BY <1>0, <1>1, <1>2, <2>2, Constants DEF IInv, TaskInv, Types, TaskTypes, Tasks, PublishFailure, Entry
  <2>3. CASE PublishTail
    BY <1>0, <1>1, <1>2, <2>3, Constants DEF IInv, TaskInv, Types, TaskTypes, Tasks, PublishTail, Entry
  <2>. QED  BY <2>1, <2>2, <2>3
<1>4. wire' \in [Watcher -> Seq(Entry)]
  BY <1>1, <1>0, <1>2, BroadcastTypes DEF IInv
<1>5. Types'
  BY <1>1, <1>0, <1>2, <1>3, <1>4 DEF IInv, Types, TaskTypes, PlaceTypes, ReaderTypes, SeqTypes, Bounds
<1>6. ASSUME NEW u \in Watcher PROVE WatchInv(u)'
  <2>1. WatchInv(u) /\ wire[u] \in Seq(Entry) /\ Has(u) \subseteq Event
    BY SeqFacts DEF IInv
  <2>2. \A k \in 1 .. MaxEvents + 3 : Whole(u, k)' => Whole(u, k)
    BY <1>1 DEF Whole, Snapshots
  <2>3. SentInv(u)'
    BY <1>1, <2>1, <2>2 DEF WatchInv, SentInv
  <2>7. since[u] <= published' /\ since[u] \in Nat /\ transport' = transport /\ Snapshots(u)' = Snapshots(u)
    BY <1>1, <1>0, <1>2, <2>1 DEF WatchInv, ControlInv, IInv, Types, PlaceTypes, Entry, Snapshots
  <2>8. ASSUME NEW i \in Nat, Room(u, i)' PROVE Room(u, i)
    BY <1>1, <1>2, <2>7, <2>8, Constants DEF Room
  <2>4. \A a \in Has(u) : a < e
    BY <1>0, <1>2, <2>1 DEF WatchInv, KnownInv, Event
  <2>. HIDE DEF e
  <2>5. CASE reading[u]
    <3>1. wire'[u] = Append(wire[u], e)
      BY <1>1, <2>5 DEF Broadcast
    <3>2. Vals(wire[u])' = Vals(wire[u]) \cup {e}
      BY <1>0, <1>2, <2>1, <3>1, AppendVals, Constants DEF Event, Close
    <3>3. Has(u)' = Has(u) \cup {e}
      BY <1>1, <3>2 DEF Has
    <3>4. Ordered(got[u], buffer[u], queue[u], wire[u])'
      BY <1>1, <1>0, <1>2, <2>1, <2>4, <3>1, OrderedPublish DEF WatchInv, Has
    <3>5. ControlInv(u)'
      BY <1>1, <2>1, <2>5, <2>7 DEF WatchInv, ControlInv, Attached, Blank, Snapshots, Closing
    <3>6. KnownInv(u)'
      <4>1. ~dropped[u] => \A a, b \in Has(u)' : \A c \in a .. b : c \in Has(u)'
        <5>. SUFFICES ASSUME ~dropped[u], NEW a \in Has(u)', NEW b \in Has(u)', NEW c \in a .. b
                      PROVE  c \in Has(u)'
          OBVIOUS
        <5>1. CASE b \in Has(u)
          <6>1. a \in Has(u)
            BY <1>0, <1>2, <2>1, <2>4, <3>3, <5>1 DEF Event
          <6>. QED  BY <2>1, <3>3, <5>1, <6>1 DEF WatchInv, KnownInv
        <5>2. CASE b = e /\ a \in Has(u)
          <6>1. published \in Has(u)
            BY <2>1, <2>5, <5>2 DEF WatchInv, KnownInv
          <6>2. c = e \/ c \in a .. published
            BY <1>0, <1>2, <2>1, <5>2 DEF Event, e
          <6>. QED  BY <2>1, <3>3, <5>2, <6>1, <6>2 DEF WatchInv, KnownInv
        <5>3. CASE b = e /\ a = e
          BY <1>0, <1>2, <3>3, <5>3 DEF Event
        <5>. QED  BY <3>3, <5>1, <5>2, <5>3
      <4>2. ASSUME NEW k \in 1 .. MaxEvents + 3, Whole(u, k)', NEW c \in k .. e PROVE c \in Has(u)'
        <5>1. c = e \/ c \in k .. published
          BY <1>0, <1>2 DEF Event, e
        <5>. QED  BY <2>1, <2>2, <2>5, <3>3, <4>2, <5>1 DEF WatchInv, KnownInv
      <4>3. \A a \in Has(u)' : a <= e
        BY <1>0, <1>2, <2>1, <2>4, <3>3 DEF Event
      <4>4. ASSUME NEW k \in 1 .. MaxEvents + 3, Whole(u, k)', NEW a \in Has(u)', NEW c \in k .. a PROVE c \in Has(u)'
        <5>1. c \in k .. e
          BY <1>0, <1>2, <2>1, <3>3, <4>3 DEF Event
        <5>. QED  BY <4>2, <4>4, <5>1
      <4>5. ASSUME transport = "pubsub", Snapshots(u), pc[u] # "ready", NEW a \in Has(u)' PROVE since[u] < a
        <5>1. a \in Has(u) => since[u] < a
          BY <2>1, <4>5 DEF WatchInv, KnownInv
        <5>2. since[u] < e
          BY <1>2, <2>1, <2>7 DEF WatchInv, ControlInv, e
        <5>. QED  BY <3>3, <5>1, <5>2
      <4>6. ASSUME transport = "pubsub", NEW a \in Has(u)', NEW i \in a .. e, Room(u, i)' PROVE i \in Has(u)'
        <5>1. CASE i = e
          BY <3>3, <5>1
        <5>2. CASE i # e
          <6>1. a \in Has(u) /\ i \in a .. published /\ i \in Nat
            BY <1>0, <1>2, <2>1, <3>3, <4>6, <5>2 DEF Event, e
          <6>. QED  BY <2>1, <2>5, <2>8, <3>3, <4>6, <6>1 DEF WatchInv, KnownInv
        <5>. QED  BY <5>1, <5>2
      <4>. QED  BY <1>1, <2>7, <3>3, <4>1, <4>2, <4>3, <4>4, <4>5, <4>6 DEF KnownInv
    <3>. QED  BY <2>3, <3>4, <3>5, <3>6 DEF WatchInv
  <2>6. CASE ~reading[u]
    <3>1. wire'[u] = wire[u] /\ Has(u)' = Has(u)
      BY <1>1, <2>6 DEF Broadcast, Has
    <3>2. Ordered(got[u], buffer[u], queue[u], wire[u])' /\ ControlInv(u)'
      BY <1>1, <2>1, <2>7, <3>1 DEF WatchInv, ControlInv, Attached, Blank, Snapshots, Closing
    <3>3. KnownInv(u)'
      <4>1. \A a \in Has(u)' : a <= published'
        BY <1>1, <1>0, <1>2, <2>1, <2>4, <3>1 DEF Event
      <4>. QED  BY <1>1, <2>1, <2>2, <2>6, <2>7, <3>1, <4>1 DEF WatchInv, KnownInv
    <3>. QED  BY <2>3, <3>2, <3>3 DEF WatchInv
  <2>. QED  BY <2>5, <2>6
<1>. QED  BY <1>3, <1>5, <1>6 DEF IInv

-----------------------------------------------------------------------------
(* Steps of one response: it finds the run, and subscribes.                  *)

(* No other response is disturbed by a step of w.                            *)
LEMMA OneWatcher ==
    ASSUME IInv, NEW w \in Watcher, Types', TaskInv', WatchInv(w)',
           \A u \in Watcher \ {w} : SameWatch(u)
    PROVE  IInv'
BY WatchKept DEF IInv

LEMMA FindStep ==
    ASSUME IInv, NEW w \in Watcher, (Find(w) /\ UNCHANGED snapVars) \/ ReadRun(w)
    PROVE  IInv'
<1>1. /\ w # Requester /\ pc[w] = "request" /\ pc' = [pc EXCEPT ![w] = "ready"]
      /\ \E m \in {"live", "live_on", "snapshot", "snapshot_on"} : mode' = [mode EXCEPT ![w] = m]
      /\ UNCHANGED <<transport, early, task, pause, ended, published, listener, reading, fixed, wire>>
      /\ UNCHANGED <<dropped, queue, got, since, worker, buffer>>
      /\ stage' = stage \/ \E s \in {"read", "paused"} : stage' = [stage EXCEPT ![w] = s]
  BY DEF Find, ReadRun, FindAs, Goto, snapVars, reader, link, run, marks
<1>3. PlaceTypes'
  BY <1>1 DEF IInv, Types, PlaceTypes, Places
<1>4. Types' /\ TaskInv'
  <2>1. Types'
    BY <1>1, <1>3 DEF IInv, Types, TaskTypes, ReaderTypes, SeqTypes, Bounds
  <2>2. pc'[Requester] = pc[Requester]
    BY <1>1, Constants DEF IInv, Types, PlaceTypes
  <2>3. TaskInv'
    BY <1>1, <2>2 DEF IInv, TaskInv
  <2>. QED  BY <2>1, <2>3
<1>5. /\ pc'[w] = "ready" /\ Blank(w)' /\ wire'[w] = <<>>
      /\ worker'[w] = "none" /\ ~reading'[w] /\ ~Attached(w)'
  BY <1>1 DEF IInv, WatchInv, ControlInv, Blank, Types, PlaceTypes, Attached
<1>6. Has(w)' = {} /\ Ordered(got[w], buffer[w], queue[w], wire[w])'
  BY <1>5, EmptyVals DEF Has, Blank, Ordered, Under
<1>7. ControlInv(w)'
  BY <1>1, <1>5 DEF ControlInv, Blank, IInv, WatchInv, Closing
<1>8. WatchInv(w)'
  BY <1>5, <1>6, <1>7, KnownEmpty, SentEmpty DEF WatchInv, Blank
<1>9. ASSUME NEW u \in Watcher \ {w} PROVE SameWatch(u)
  BY <1>1 DEF SameWatch, IInv, Types, PlaceTypes
<1>. QED  BY <1>4, <1>8, <1>9, OneWatcher

LEMMA SubscribeStep ==
    ASSUME IInv, NEW w \in Watcher, (~Snapshots(w) /\ Open(w) /\ UNCHANGED snapVars) \/ Subscribe(w)
    PROVE  IInv'
<1>1. /\ pc[w] = "ready" /\ pc' = [pc EXCEPT ![w] = IF w = Requester THEN "opened" ELSE "open"]
      /\ listener' = [listener EXCEPT ![w] = "on"]
      /\ reading' = [reading EXCEPT ![w] = transport = "pubsub"]
      /\ UNCHANGED <<transport, early, mode, task, pause, ended, published, fixed, wire>>
      /\ UNCHANGED <<dropped, queue, got, stage, buffer>>
      /\ \/ ~Snapshots(w) /\ UNCHANGED <<since, worker>>
         \/ /\ Snapshots(w) /\ worker' = [worker EXCEPT ![w] = "on"]
            /\ since' = [since EXCEPT ![w] = published]
  BY DEF Open, Subscribe, Goto, snapVars, setting, run, marks
<1>2. PlaceTypes' /\ ReaderTypes'
  BY <1>1, Constants DEF IInv, Types, TaskTypes, PlaceTypes, ReaderTypes, Places
<1>3. Types' /\ TaskInv'
  <2>1. Types'
    BY <1>1, <1>2 DEF IInv, Types, TaskTypes, SeqTypes, Bounds
  <2>2. pc'[Requester] = pc[Requester] \/ pc'[Requester] \in {"opened", "open"}
    BY <1>1, Constants DEF IInv, Types, PlaceTypes
  <2>3. TaskInv'
    BY <1>1, <2>2 DEF IInv, TaskInv
  <2>. QED  BY <2>1, <2>3
<1>4. /\ pc'[w] \in {"opened", "open"} /\ listener'[w] = "on" /\ (reading'[w] <=> transport = "pubsub")
      /\ \A u \in Watcher \ {w} : SameWatch(u)
  <2>1. pc'[w] \in {"opened", "open"} /\ listener'[w] = "on"
    BY <1>1 DEF IInv, Types, PlaceTypes, ReaderTypes
  <2>2. reading'[w] = (transport = "pubsub")
    BY <1>1 DEF IInv, Types, ReaderTypes
  <2>3. ASSUME NEW u \in Watcher \ {w} PROVE SameWatch(u)
    BY <1>1 DEF IInv, Types, PlaceTypes, ReaderTypes, SameWatch
  <2>. QED  BY <2>1, <2>2, <2>3
<1>5. Blank(w)' /\ wire'[w] = <<>> /\ worker[w] = "none"
  BY <1>1 DEF IInv, WatchInv, ControlInv, Blank, Attached
<1>10. since'[w] <= published' /\ (Snapshots(w) => since'[w] = published') /\ published \in Nat
  BY <1>1, SeqFacts DEF IInv, WatchInv, ControlInv, Types, PlaceTypes
<1>6. Has(w)' = {} /\ Ordered(got[w], buffer[w], queue[w], wire[w])'
  BY <1>5, EmptyVals DEF Has, Blank, Ordered, Under
<1>7. ControlInv(w)'
  <2>1. Close \notin Range(queue'[w])
    BY <1>5 DEF Blank, Range
  <2>. QED  BY <1>1, <1>4, <1>5, <1>10, <2>1 DEF ControlInv, Blank, Attached, Snapshots, IInv, WatchInv, Closing
<1>8. KnownInv(w)'
  <2>1. ASSUME NEW k \in 1 .. MaxEvents + 3, Whole(w, k)', NEW c \in k .. published' PROVE FALSE
    <3>1. CASE w = Requester /\ ~early' /\ k = 1
      <4>1. published = 0
        BY <1>1, <2>1, <3>1 DEF Whole, IInv, TaskInv
      <4>. QED  BY <1>1, <2>1, <3>1, <4>1
    <3>2. CASE Snapshots(w)' /\ k = since'[w] + 1
      <4>1. Snapshots(w)
        BY <1>1, <3>2 DEF Snapshots
      <4>. QED  BY <1>1, <1>10, <2>1, <3>2, <4>1
    <3>. QED  BY <2>1, <3>1, <3>2 DEF Whole
  <2>. QED  BY <1>6, <2>1 DEF KnownInv
<1>9. WatchInv(w)'
  BY <1>5, <1>6, <1>7, <1>8, SentEmpty DEF WatchInv, Blank
<1>. QED  BY <1>3, <1>4, <1>9, OneWatcher

-----------------------------------------------------------------------------
(* The listener's steps.                                                     *)

(* The wire is cut: what came before it on the way stays.                    *)
LEMMA CutWire ==
    ASSUME Types, NEW w \in Watcher, WatchInv(w), NEW h \in SUBSET Has(w),
           h = Vals(got[w]) \cup Vals(buffer[w]) \cup Vals(queue[w])
    PROVE  \A a \in h : \A c \in Has(w) : c <= a => c \in h
<1>. SUFFICES ASSUME NEW a \in h, NEW c \in Has(w), c <= a, c \in Vals(wire[w]) PROVE FALSE
  BY DEF Has
<1>1. a < c
  BY DEF WatchInv, Ordered, Under
<1>2. a \in Nat /\ c \in Nat
  BY SeqFacts DEF Event
<1>. QED  BY <1>1, <1>2

LEMMA StopListenerStep ==
    ASSUME IInv, NEW w \in Watcher, UNCHANGED snapVars, StopListener(w) \/ ListenerDies(w) \/ SendRead(w)
    PROVE  IInv'
<1>1. /\ UNCHANGED <<transport, early, mode, task, pause, ended, published, pc, dropped, queue, got>>
      /\ UNCHANGED <<since, stage, worker, buffer>>
  BY DEF StopListener, ListenerDies, SendRead, setting, run, marks, snapVars
<1>2. /\ listener' \in [Watcher -> {"none", "on", "off"}]
      /\ reading' \in [Watcher -> BOOLEAN] /\ fixed' \in [Watcher -> BOOLEAN]
      /\ wire' \in [Watcher -> Seq(Entry)]
      /\ \A u \in Watcher \ {w} : /\ listener'[u] = listener[u] /\ reading'[u] = reading[u]
                                /\ fixed'[u] = fixed[u] /\ wire'[u] = wire[u]
  <2>1. CASE StopListener(w)
    BY <2>1 DEF StopListener, link, IInv, Types, ReaderTypes, SeqTypes
  <2>2. CASE ListenerDies(w)
    BY <2>2, UnlinkTypes DEF ListenerDies, Unlink, IInv, Types, ReaderTypes, SeqTypes
  <2>3. CASE SendRead(w)
    BY <2>3 DEF SendRead, IInv, Types, ReaderTypes, SeqTypes
  <2>. QED  BY <2>1, <2>2, <2>3
<1>3. Types'
  BY <1>1, <1>2 DEF IInv, Types, TaskTypes, PlaceTypes, ReaderTypes, SeqTypes, Bounds
<1>4. TaskInv'
  BY <1>1 DEF IInv, TaskInv
<1>5. \A u \in Watcher \ {w} : SameWatch(u)
  BY <1>1, <1>2 DEF SameWatch
<1>6. SameStart(w) /\ WatchInv(w) /\ Has(w) \subseteq Event
  BY <1>1, SeqFacts DEF SameStart, IInv
<1>7. SentInv(w)'
  BY <1>1, <1>6, SentKept DEF WatchInv
<1>8. WatchInv(w)'
  <2>1. CASE StopListener(w)
    <3>1. wire' = wire /\ reading' = reading /\ fixed' = fixed /\ ~Attached(w) /\ ~Attached(w)'
      BY <1>1, <2>1 DEF StopListener, link, Attached, Closing
    <3>2. Has(w)' = Has(w)
      BY <1>1, <3>1 DEF Has
    <3>3. KnownInv(w)'
      BY <1>1, <1>6, <3>1, <3>2, KnownCut DEF WatchInv
    <3>4. Ordered(got[w], buffer[w], queue[w], wire[w])' /\ ControlInv(w)'
      BY <1>1, <1>6, <3>1 DEF WatchInv, ControlInv, Blank, Snapshots
    <3>. QED  BY <1>7, <3>3, <3>4 DEF WatchInv
  <2>2. CASE ListenerDies(w)
    <3>1. wire'[w] = <<>> /\ ~reading'[w] /\ listener'[w] = "off"
      BY <2>2 DEF ListenerDies, Unlink, IInv, Types, ReaderTypes, SeqTypes
    <3>2. Has(w)' = Vals(got[w]) \cup Vals(buffer[w]) \cup Vals(queue[w])
      BY <1>1, <3>1, EmptyVals DEF Has
    <3>3. Has(w)' \subseteq Has(w)
      BY <3>2 DEF Has
    <3>4. KnownInv(w)'
      BY <1>1, <1>6, <3>1, <3>2, <3>3, CutWire, KnownCut DEF WatchInv, IInv
    <3>5. Ordered(got[w], buffer[w], queue[w], wire[w])'
      BY <1>1, <1>6, <3>1, OrderedCut DEF WatchInv
    <3>6. ControlInv(w)'
      BY <1>1, <1>6, <3>1 DEF WatchInv, ControlInv, Attached, Blank, Snapshots
    <3>. QED  BY <1>7, <3>4, <3>5, <3>6 DEF WatchInv
  <2>3. CASE SendRead(w)
    <3>1. /\ transport = "streams" /\ Attached(w) /\ ~fixed[w] /\ wire[w] = <<>>
          /\ listener' = listener /\ fixed' = fixed /\ wire' = wire
      BY <2>3 DEF SendRead, Attached
    <3>2. Blank(w)' /\ wire'[w] = <<>>
      BY <1>1, <1>6, <3>1 DEF WatchInv, ControlInv, Blank
    <3>3. Has(w)' = {} /\ Ordered(got[w], buffer[w], queue[w], wire[w])'
      BY <3>2, EmptyVals DEF Has, Blank, Ordered, Under
    <3>4. KnownInv(w)'
      BY <1>1, <3>1, <3>3 DEF KnownInv, Whole
    <3>5. ControlInv(w)'
      BY <1>1, <1>6, <3>1, <3>2 DEF WatchInv, ControlInv, Attached, Blank, Snapshots
    <3>. QED  BY <1>7, <3>3, <3>4, <3>5 DEF WatchInv
  <2>. QED  BY <2>1, <2>2, <2>3
<1>. QED  BY <1>3, <1>4, <1>5, <1>8, OneWatcher

LEMMA ReadStreamStep ==
    ASSUME IInv, NEW w \in Watcher, UNCHANGED snapVars, ReadStream(w)
    PROVE  IInv'
<1>. PICK n \in 0 .. Len(wire[w]) :
           /\ queue' = [queue EXCEPT ![w] = @ \o SubSeq(wire[w], 1, n)]
           /\ fixed' = [fixed EXCEPT ![w] = @ \/ n > 0]
           /\ reading' = [reading EXCEPT ![w] = fixed'[w]]
           /\ wire' = [wire EXCEPT ![w] = IF fixed'[w] THEN SubSeq(@, n + 1, Len(@)) ELSE <<>>]
  BY DEF ReadStream
<1>. DEFINE q == queue[w] \o SubSeq(wire[w], 1, n)
            v == SubSeq(wire[w], n + 1, Len(wire[w]))
<1>1. /\ UNCHANGED <<transport, early, mode, task, pause, ended, published, pc, listener, dropped, got>>
      /\ UNCHANGED <<since, stage, worker, buffer>>
      /\ transport = "streams" /\ Attached(w) /\ wire[w] # <<>>
  BY DEF ReadStream, setting, run, marks, snapVars, Attached
<1>3. /\ queue' = [queue EXCEPT ![w] = q]
      /\ (fixed'[w] <=> fixed[w] \/ n > 0) /\ fixed' \in [Watcher -> BOOLEAN]
      /\ reading' = [reading EXCEPT ![w] = fixed'[w]]
      /\ wire' = [wire EXCEPT ![w] = IF fixed'[w] THEN v ELSE <<>>]
      /\ \A u \in Watcher \ {w} : fixed'[u] = fixed[u]
  BY DEF IInv, Types, ReaderTypes, SeqTypes
<1>4. /\ queue[w] \in Seq(Entry) /\ wire[w] \in Seq(Entry) /\ Has(w) \subseteq Event
      /\ WatchInv(w) /\ SameStart(w)
  BY <1>1, SeqFacts DEF IInv, SameStart
<1>5. /\ q \in Seq(Entry) /\ v \in Seq(Entry)
      /\ Vals(queue[w]) \cup Vals(wire[w]) = Vals(q) \cup Vals(v)
      /\ n = 0 => q = queue[w]
  BY <1>4, SplitVals
<1>6. Ordered(got[w], buffer[w], q, v)
  BY <1>4, OrderedSplit DEF WatchInv
<1>. HIDE DEF q, v
<1>7. /\ queue'[w] = q /\ queue' \in [Watcher -> Seq(Entry)]
      /\ wire'[w] = (IF fixed'[w] THEN v ELSE <<>>) /\ wire' \in [Watcher -> Seq(Entry)]
      /\ reading'[w] = fixed'[w] /\ reading' \in [Watcher -> BOOLEAN]
      /\ \A u \in Watcher \ {w} : SameWatch(u)
  <2>1. queue'[w] = q /\ queue' \in [Watcher -> Seq(Entry)]
    BY <1>3, <1>5 DEF IInv, Types, SeqTypes
  <2>2. wire'[w] = (IF fixed'[w] THEN v ELSE <<>>) /\ wire' \in [Watcher -> Seq(Entry)]
    <3>. DEFINE x == IF fixed'[w] THEN v ELSE <<>>
    <3>1. x \in Seq(Entry)
      BY <1>5
    <3>2. wire' = [wire EXCEPT ![w] = x] /\ wire \in [Watcher -> Seq(Entry)]
      BY <1>3 DEF IInv, Types, SeqTypes
    <3>. HIDE DEF x
    <3>3. wire'[w] = x /\ wire' \in [Watcher -> Seq(Entry)]
      BY <3>1, <3>2
    <3>. QED  BY <3>3 DEF x
  <2>3. reading'[w] = fixed'[w] /\ reading' \in [Watcher -> BOOLEAN]
    BY <1>3 DEF IInv, Types, ReaderTypes
  <2>4. ASSUME NEW u \in Watcher \ {w} PROVE SameWatch(u)
    BY <1>1, <1>3 DEF SameWatch
  <2>. QED  BY <2>1, <2>2, <2>3, <2>4
<1>8. Types'
  BY <1>1, <1>3, <1>7 DEF IInv, Types, TaskTypes, PlaceTypes, ReaderTypes, SeqTypes, Bounds
<1>9. TaskInv'
  BY <1>1 DEF IInv, TaskInv
<1>10. SentInv(w)'
  BY <1>1, <1>4, SentKept DEF WatchInv
<1>11. CASE fixed'[w]
  <2>1. wire'[w] = v /\ reading'[w] /\ reading[w]
    BY <1>1, <1>4, <1>7, <1>11 DEF WatchInv, ControlInv
  <2>2. Has(w)' = Has(w)
    BY <1>1, <1>5, <1>7, <2>1 DEF Has
  <2>3. KnownInv(w)'
    BY <1>1, <1>4, <2>1, <2>2, KnownCut DEF WatchInv
  <2>4. ControlInv(w)'
    BY <1>1, <1>4, <1>11, <2>1 DEF WatchInv, ControlInv, Attached, Blank, Snapshots, Closing
  <2>5. WatchInv(w)'
    BY <1>1, <1>6, <1>7, <1>10, <2>1, <2>3, <2>4 DEF WatchInv
  <2>. QED  BY <1>7, <1>8, <1>9, <2>5, OneWatcher
<1>12. CASE ~fixed'[w]
  <2>1. /\ wire'[w] = <<>> /\ ~reading'[w] /\ ~fixed[w] /\ n = 0
    BY <1>3, <1>7, <1>12
  <2>2. Blank(w)'
    BY <1>1, <1>4, <1>5, <1>7, <2>1 DEF WatchInv, ControlInv, Blank
  <2>3. Has(w)' = {} /\ Ordered(got[w], buffer[w], queue[w], wire[w])'
    BY <2>1, <2>2, EmptyVals DEF Has, Blank, Ordered, Under
  <2>4. KnownInv(w)'
    BY <2>1, <2>3, KnownEmpty
  <2>5. ControlInv(w)'
    BY <1>1, <1>4, <2>1, <2>2 DEF WatchInv, ControlInv, Attached, Blank, Snapshots
  <2>6. WatchInv(w)'
    BY <1>10, <2>3, <2>4, <2>5 DEF WatchInv
  <2>. QED  BY <1>7, <1>8, <1>9, <2>6, OneWatcher
<1>. QED  BY <1>11, <1>12

LEMMA ListenPubSubStep ==
    ASSUME IInv, NEW w \in Watcher, UNCHANGED snapVars, ListenPubSub(w)
    PROVE  IInv'
<1>. DEFINE e == Head(wire[w])
            full == Len(queue[w]) >= QueueMax
            q1 == IF full THEN Tail(queue[w]) ELSE queue[w]
            q == Append(q1, e)
            v == IF e = Close THEN <<>> ELSE Tail(wire[w])
<1>1. /\ UNCHANGED <<transport, early, mode, task, pause, ended, published, pc, got>>
      /\ UNCHANGED <<since, stage, worker, buffer>>
      /\ transport = "pubsub" /\ Attached(w) /\ wire[w] # <<>>
  BY DEF ListenPubSub, setting, run, marks, snapVars, Attached
<1>2. /\ queue[w] \in Seq(Entry) /\ wire[w] \in Seq(Entry)
      /\ got[w] \in Seq(Entry) /\ buffer[w] \in Seq(Entry)
      /\ Has(w) \subseteq Event /\ published \in Nat /\ WatchInv(w)
      /\ Len(queue[w]) <= QueueMax /\ QueueMax \in Nat \ {0} /\ Len(queue[w]) \in Nat
  BY <1>1, SeqFacts, Constants DEF IInv, Types, Bounds
<1>3. /\ e \in Entry /\ Tail(wire[w]) \in Seq(Entry)
      /\ Vals(wire[w]) = Vals(Tail(wire[w])) \cup ({e} \ {Close})
  BY <1>1, <1>2, HeadVals
<1>4. /\ q1 \in Seq(Entry) /\ Len(q1) < QueueMax /\ Range(q1) \subseteq Range(queue[w])
      /\ full => Vals(queue[w]) \subseteq Vals(q1) \cup {Head(queue[w])} /\ Head(queue[w]) \in Range(queue[w])
      /\ ~full => q1 = queue[w]
      /\ Ordered(got[w], buffer[w], q1, wire[w])
  <2>1. CASE full
    <3>1. queue[w] # <<>>
      BY <1>2, <2>1
    <3>. QED  BY <1>2, <2>1, <3>1, HeadVals, OrderedDrop DEF WatchInv
  <2>2. CASE ~full
    BY <1>2, <2>2 DEF WatchInv
  <2>. QED  BY <2>1, <2>2
<1>5. /\ queue' = [queue EXCEPT ![w] = q]
      /\ dropped' = [dropped EXCEPT ![w] = dropped[w] \/ full]
      /\ \/ /\ e = Close /\ Unlink(w) /\ listener' = [listener EXCEPT ![w] = "off"]
         \/ /\ e # Close /\ wire' = [wire EXCEPT ![w] = Tail(wire[w])]
            /\ UNCHANGED <<listener, reading, fixed>>
  <2>1. Enqueue(queue[w], e) = q
    BY <1>2 DEF Enqueue
  <2>. QED  BY <2>1 DEF ListenPubSub
<1>. HIDE DEF e, full, q1
<1>6. /\ q \in Seq(Entry) /\ Len(q) <= QueueMax
      /\ Range(q) = Range(q1) \cup {e} /\ Vals(q) = Vals(q1) \cup ({e} \ {Close})
  <2>1. Len(q) = Len(q1) + 1 /\ Len(q1) \in Nat
    BY <1>3, <1>4, AppendVals
  <2>. QED  BY <1>2, <1>3, <1>4, <2>1, AppendVals
<1>7. /\ v \in Seq(Entry) /\ Vals(v) \subseteq Vals(Tail(wire[w]))
      /\ e # Close => v = Tail(wire[w])
      /\ e = Close => v = <<>>
  BY <1>3, EmptyVals
<1>8. Ordered(got[w], buffer[w], q, v)
  <2>1. Ordered(got[w], buffer[w], q, Tail(wire[w]))
    BY <1>1, <1>2, <1>4, OrderedMove DEF e
  <2>. QED  BY <1>7, <2>1, OrderedCut
<1>. HIDE DEF q, v
<1>9. /\ queue'[w] = q /\ queue' \in [Watcher -> Seq(Entry)]
      /\ wire'[w] = v /\ wire' \in [Watcher -> Seq(Entry)]
      /\ \A u \in Watcher \ {w} : SameWatch(u)
  <2>1. queue'[w] = q /\ queue' \in [Watcher -> Seq(Entry)]
    BY <1>5, <1>6 DEF IInv, Types, SeqTypes
  <2>2. wire'[w] = v /\ wire' \in [Watcher -> Seq(Entry)]
    <3>1. wire' = [wire EXCEPT ![w] = v]
      BY <1>5, <1>7 DEF Unlink
    <3>. QED  BY <1>7, <3>1 DEF IInv, Types, SeqTypes
  <2>3. ASSUME NEW u \in Watcher \ {w} PROVE SameWatch(u)
    <3>1. queue'[u] = queue[u] /\ dropped'[u] = dropped[u]
      BY <1>5
    <3>2. /\ listener'[u] = listener[u] /\ reading'[u] = reading[u] /\ fixed'[u] = fixed[u]
          /\ wire'[u] = wire[u]
      <4>1. CASE Unlink(w) /\ listener' = [listener EXCEPT ![w] = "off"]
        BY <4>1 DEF Unlink, IInv, Types, ReaderTypes, SeqTypes
      <4>2. CASE wire' = [wire EXCEPT ![w] = Tail(wire[w])] /\ UNCHANGED <<listener, reading, fixed>>
        BY <4>2 DEF IInv, Types, SeqTypes
      <4>. QED  BY <1>5, <4>1, <4>2
    <3>. QED  BY <1>1, <3>1, <3>2 DEF SameWatch
  <2>. QED  BY <2>1, <2>2, <2>3
<1>10. ReaderTypes'
  BY <1>5 DEF Unlink, IInv, Types, ReaderTypes
<1>11. /\ dropped'[w] <=> dropped[w] \/ full
       /\ e = Close => ~reading'[w] /\ listener'[w] = "off"
       /\ e # Close => reading'[w] = reading[w] /\ listener'[w] = listener[w]
  BY <1>5 DEF Unlink, IInv, Types, ReaderTypes
<1>12. Types'
  BY <1>1, <1>2, <1>6, <1>9, <1>10 DEF IInv, Types, TaskTypes, PlaceTypes, SeqTypes, Bounds, SameWatch
<1>13. TaskInv'
  BY <1>1 DEF IInv, TaskInv
<1>14. SentInv(w)'
  BY <1>1, <1>2, <1>11, SentKept DEF WatchInv, SameStart
<1>15. ControlInv(w)'
  <2>1. e # Close => Close \notin Range(q)
    BY <1>1, <1>2, <1>4, <1>6 DEF WatchInv, ControlInv
  <2>. QED  BY <1>1, <1>2, <1>7, <1>9, <1>11, <2>1 DEF WatchInv, ControlInv, Attached, Blank, Snapshots, Closing
<1>16. KnownInv(w)'
  <2>1. Has(w)' = Vals(got[w]) \cup Vals(buffer[w]) \cup Vals(q) \cup Vals(v)
    BY <1>1, <1>9 DEF Has
  <2>2. Vals(q1) \subseteq Vals(queue[w])
    BY <1>4 DEF Vals
  <2>3. Has(w)' \subseteq Has(w)
    BY <1>3, <1>6, <1>7, <2>1, <2>2 DEF Has
  <2>4. CASE full
    <3>1. ASSUME reading'[w] PROVE reading[w] /\ ~Room(w, Head(queue[w])) /\ published \in Has(w)'
      <4>1. e # Close /\ reading[w] /\ Close \notin Range(queue[w])
        BY <1>1, <1>2, <1>11, <3>1 DEF WatchInv, ControlInv
      <4>2. e \in Vals(wire[w]) /\ published \in Has(w) /\ e <= published
        BY <1>2, <1>3, <4>1 DEF WatchInv, KnownInv, Has
      <4>3. Head(queue[w]) < e
        <5>1. Head(queue[w]) \in Vals(queue[w])
          BY <1>4, <2>4, <4>1 DEF Vals
        <5>. QED  BY <1>2, <4>2, <5>1 DEF WatchInv, Ordered, Under
      <4>4. published # Head(queue[w])
        BY <1>2, <1>3, <4>2, <4>3 DEF Entry
      <4>5. ~Room(w, Head(queue[w]))
        <5>1. e \in Nat /\ Head(queue[w]) \in Nat /\ queue[w] # <<>> /\ Rising(queue[w])
          BY <1>2, <1>3, <2>4, Constants DEF Entry, full, WatchInv, Ordered
        <5>2. \A a \in Vals(queue[w]) : a < e
          BY <1>2, <4>2 DEF WatchInv, Ordered, Under
        <5>3. Len(queue[w]) <= e - Head(queue[w])
          BY <1>2, <4>1, <5>1, <5>2, RisingLong
        <5>. QED  BY <1>2, <2>4, <4>2, <5>1, <5>3 DEF Room, full
      <4>. QED  BY <1>3, <1>4, <1>6, <1>7, <2>1, <2>4, <4>1, <4>2, <4>4, <4>5 DEF Has
    <3>2. CASE reading'[w]
      <4>1. \A a \in Has(w) : a \in Has(w)' \/ a = Head(queue[w])
        <5>1. e # Close
          BY <1>11, <3>2
        <5>. QED  BY <1>3, <1>4, <1>6, <1>7, <2>1, <2>4, <5>1 DEF Has
      <4>. QED  BY <1>1, <1>2, <1>11, <2>3, <2>4, <3>1, <3>2, <4>1, KnownDropped DEF WatchInv, SameStart
    <3>3. CASE ~reading'[w]
      <4>1. \A k : ~Whole(w, k)'
        BY <1>11, <2>4 DEF Whole
      <4>2. /\ published' = published /\ transport' = transport /\ pc' = pc
            /\ Snapshots(w)' = Snapshots(w) /\ since' = since
        BY <1>1 DEF Snapshots
      <4>. QED  BY <1>2, <1>11, <2>3, <2>4, <3>3, <4>1, <4>2 DEF WatchInv, KnownInv
    <3>. QED  BY <3>2, <3>3
  <2>5. CASE ~full /\ e = Close
    <3>1. Has(w)' = Vals(got[w]) \cup Vals(buffer[w]) \cup Vals(queue[w])
      BY <1>4, <1>6, <1>7, <2>1, <2>5, EmptyVals
    <3>2. \A a \in Has(w)' : \A c \in Has(w) : c <= a => c \in Has(w)'
      BY <1>2, <2>3, <3>1, CutWire DEF IInv
    <3>. QED  BY <1>1, <1>2, <1>11, <2>3, <2>5, <3>2, KnownCut DEF WatchInv, SameStart
  <2>6. CASE ~full /\ e # Close
    <3>1. Has(w)' = Has(w)
      BY <1>3, <1>4, <1>6, <1>7, <2>1, <2>6 DEF Has
    <3>. QED  BY <1>1, <1>2, <1>11, <2>6, <3>1, KnownCut DEF WatchInv, SameStart
  <2>. QED  BY <2>4, <2>5, <2>6
<1>17. WatchInv(w)'
  BY <1>1, <1>8, <1>9, <1>14, <1>15, <1>16 DEF WatchInv
<1>. QED  BY <1>9, <1>12, <1>13, <1>17, OneWatcher

-----------------------------------------------------------------------------
(* The buffering thread's steps.                                             *)
LEMMA StopMovingStep ==
    ASSUME IInv, NEW w \in Watcher, StopMoving(w)
    PROVE  IInv'
<1>1. /\ UNCHANGED <<transport, early, mode, task, pause, ended, published, pc, listener, reading, fixed, wire>>
      /\ UNCHANGED <<dropped, queue, got, since, stage, buffer>>
      /\ worker[w] = "on" /\ worker' = [worker EXCEPT ![w] = "off"]
  BY DEF StopMoving, vars, setting, run, marks, reader, link
<1>2. PlaceTypes'
  BY <1>1 DEF IInv, Types, PlaceTypes
<1>3. Types'
  BY <1>1, <1>2 DEF IInv, Types, TaskTypes, ReaderTypes, SeqTypes, Bounds
<1>4. TaskInv'
  BY <1>1 DEF IInv, TaskInv
<1>5. \A u \in Watcher \ {w} : SameWatch(u)
  BY <1>1 DEF SameWatch
<1>6. WatchInv(w) /\ SameStart(w) /\ Has(w)' = Has(w) /\ Has(w) \subseteq Event
  BY <1>1, SeqFacts DEF IInv, SameStart, Has
<1>7. SentInv(w)' /\ KnownInv(w)'
  BY <1>1, <1>6, SentKept, KnownCut DEF WatchInv
<1>8. Ordered(got[w], buffer[w], queue[w], wire[w])' /\ ControlInv(w)'
  BY <1>1, <1>6 DEF WatchInv, ControlInv, Attached, Blank, Snapshots
<1>. QED  BY <1>3, <1>4, <1>5, <1>7, <1>8, OneWatcher DEF WatchInv

LEMMA MoveStep ==
    ASSUME IInv, NEW w \in Watcher, Move(w)
    PROVE  IInv'
<1>. DEFINE e == Head(queue[w])
            full == Len(buffer[w]) = BufferMax
            b1 == IF Len(buffer[w]) < BufferMax THEN buffer[w] ELSE Tail(buffer[w])
            b == IF e = Close THEN buffer[w] ELSE Append(b1, e)
            q == Tail(queue[w])
<1>1. /\ UNCHANGED <<transport, early, mode, task, pause, ended, published, pc, listener, reading, fixed, wire>>
      /\ UNCHANGED <<got, since, stage, worker>>
      /\ worker[w] = "on" /\ pc[w] = "open" /\ queue[w] # <<>>
      /\ queue' = [queue EXCEPT ![w] = q] /\ buffer' = [buffer EXCEPT ![w] = b]
      /\ dropped' = [dropped EXCEPT ![w] = dropped[w] \/ (e # Close /\ full)]
  BY DEF Move, Moved, setting, run, marks, link
<1>2. /\ queue[w] \in Seq(Entry) /\ wire[w] \in Seq(Entry) /\ got[w] \in Seq(Entry)
      /\ buffer[w] \in Seq(Entry) /\ buffer[w] \in Seq(Event)
      /\ Has(w) \subseteq Event /\ published \in Nat /\ WatchInv(w)
      /\ Len(buffer[w]) <= BufferMax /\ BufferMax \in Nat \ {0} /\ Len(buffer[w]) \in Nat
  BY SeqFacts, Constants DEF IInv, Types, Bounds
<1>3. /\ e \in Entry /\ q \in Seq(Entry) /\ Len(q) = Len(queue[w]) - 1 /\ Len(queue[w]) \in Nat
      /\ Vals(queue[w]) = Vals(q) \cup ({e} \ {Close}) /\ Range(q) \subseteq Range(queue[w])
  BY <1>1, <1>2, HeadVals
<1>4. /\ b1 \in Seq(Entry) /\ b1 \in Seq(Event) /\ Len(b1) < BufferMax /\ Vals(b1) \subseteq Vals(buffer[w])
      /\ full => Vals(buffer[w]) = Vals(b1) \cup {Head(buffer[w])}
      /\ ~full => b1 = buffer[w]
      /\ Ordered(got[w], b1, queue[w], wire[w])
  <2>1. CASE full
    <3>1. buffer[w] # <<>> /\ Tail(buffer[w]) \in Seq(Event) /\ Head(buffer[w]) \in Event
      BY <1>2, <2>1
    <3>2. Head(buffer[w]) # Close
      BY <3>1, Constants DEF Event, Close
    <3>. QED  BY <1>2, <2>1, <3>1, <3>2, HeadVals, OrderedDrop DEF WatchInv
  <2>2. CASE ~full
    BY <1>2, <2>2 DEF WatchInv
  <2>. QED  BY <2>1, <2>2
<1>5. e # Close => e \in Event
  BY <1>3, Constants DEF Entry, Event, Close
<1>6. Ordered(got[w], b, q, wire[w])
  BY <1>1, <1>2, <1>4, OrderedMove, OrderedDrop DEF WatchInv
<1>. HIDE DEF e, b1, full, q
<1>7. /\ b \in Seq(Event) /\ Len(b) <= BufferMax
      /\ Vals(b) = (IF e = Close THEN Vals(buffer[w]) ELSE Vals(b1) \cup {e})
  <2>1. CASE e = Close
    BY <1>2, <2>1
  <2>2. CASE e # Close
    <3>1. Append(b1, e) \in Seq(Event)
      BY <1>4, <1>5, <2>2
    <3>2. Len(Append(b1, e)) = Len(b1) + 1 /\ Vals(Append(b1, e)) = Vals(b1) \cup {e} /\ Len(b1) \in Nat
      BY <1>3, <1>4, <2>2, AppendVals
    <3>. QED  BY <1>2, <1>4, <2>2, <3>1, <3>2
  <2>. QED  BY <2>1, <2>2
<1>. HIDE DEF b
<1>8. /\ queue'[w] = q /\ queue' \in [Watcher -> Seq(Entry)]
      /\ buffer'[w] = b /\ buffer' \in [Watcher -> Seq(Event)]
  BY <1>1, <1>3, <1>7 DEF IInv, Types, SeqTypes
<1>9. /\ dropped' \in [Watcher -> BOOLEAN]
      /\ dropped'[w] <=> dropped[w] \/ (e # Close /\ full)
  BY <1>1 DEF IInv, Types, ReaderTypes
<1>10. \A u \in Watcher \ {w} : SameWatch(u)
  BY <1>1 DEF SameWatch
<1>11. Bounds'
  <2>1. transport = "pubsub" => Len(q) <= QueueMax
    BY <1>3, Constants DEF IInv, Types, Bounds
  <2>2. ASSUME NEW u \in Watcher
        PROVE  Len(buffer'[u]) <= BufferMax /\ (transport' = "pubsub" => Len(queue'[u]) <= QueueMax)
    BY <1>1, <1>7, <1>8, <1>10, <2>1 DEF IInv, Types, Bounds, SameWatch
  <2>. QED  BY <2>2 DEF Bounds
<1>12. Types'
  BY <1>1, <1>8, <1>9, <1>11 DEF IInv, Types, TaskTypes, PlaceTypes, ReaderTypes, SeqTypes
<1>13. TaskInv'
  BY <1>1 DEF IInv, TaskInv
<1>14. SentInv(w)'
  BY <1>1, <1>2, <1>9, SentKept DEF WatchInv, SameStart
<1>15. ControlInv(w)'
  BY <1>1, <1>2, <1>3, <1>8 DEF WatchInv, ControlInv, Attached, Blank, Snapshots
<1>16. KnownInv(w)'
  <2>1. Has(w)' = Vals(got[w]) \cup Vals(b) \cup Vals(q) \cup Vals(wire[w])
    BY <1>1, <1>8 DEF Has
  <2>2. CASE e # Close /\ full
    <3>1. Has(w)' \subseteq Has(w) /\ \A a \in Has(w) : a \in Has(w)' \/ a = Head(buffer[w])
      BY <1>3, <1>4, <1>7, <2>1, <2>2 DEF Has
    <3>2. ASSUME reading'[w] PROVE reading[w] /\ ~Room(w, Head(buffer[w])) /\ published \in Has(w)'
      <4>1. e \in Vals(queue[w]) /\ Head(buffer[w]) \in Vals(buffer[w])
        BY <1>3, <1>4, <2>2
      <4>2. Head(buffer[w]) < e /\ e <= published /\ published \in Has(w) /\ Head(buffer[w]) \in Event
        BY <1>1, <1>2, <3>2, <4>1 DEF WatchInv, Ordered, Under, KnownInv, Has
      <4>3. published # Head(buffer[w])
        BY <1>2, <1>5, <2>2, <4>2 DEF Event
      <4>4. ~Room(w, Head(buffer[w]))
        <5>1. e \in Nat /\ Head(buffer[w]) \in Nat /\ buffer[w] # <<>> /\ Rising(buffer[w])
          BY <1>2, <1>5, <2>2, <4>2 DEF Event, full, WatchInv, Ordered
        <5>2. \A a \in Vals(buffer[w]) : a < e
          BY <1>2, <4>1 DEF WatchInv, Ordered, Under
        <5>3. Close \notin Range(buffer[w])
          BY <1>2, Constants DEF Event, Close, Range
        <5>4. Len(buffer[w]) <= e - Head(buffer[w])
          BY <1>2, <5>1, <5>2, <5>3, RisingLong
        <5>5. Snapshots(w)
          BY <1>1, <1>2 DEF WatchInv, ControlInv
        <5>. QED  BY <1>2, <2>2, <4>2, <5>1, <5>4, <5>5 DEF Room, full
      <4>. QED  BY <1>1, <3>1, <3>2, <4>2, <4>3, <4>4
    <3>. QED  BY <1>1, <1>2, <1>9, <2>2, <3>1, <3>2, KnownDropped DEF WatchInv, SameStart
  <2>3. CASE e = Close \/ ~full
    <3>1. Has(w)' = Has(w)
      BY <1>3, <1>4, <1>7, <2>1, <2>3 DEF Has
    <3>. QED  BY <1>1, <1>2, <1>9, <2>3, <3>1, KnownCut DEF WatchInv, SameStart
  <2>. QED  BY <2>2, <2>3
<1>17. WatchInv(w)'
  BY <1>1, <1>6, <1>8, <1>14, <1>15, <1>16 DEF WatchInv
<1>. QED  BY <1>10, <1>12, <1>13, <1>17, OneWatcher

-----------------------------------------------------------------------------
(* The response's steps.                                                     *)

(* SIG_CLOSE is published; it is no event.                                   *)
LEMMA PublishCloseStep ==
    ASSUME IInv, NEW w \in Watcher, PublishClose(w), since' = [since EXCEPT ![w] = 0],
           UNCHANGED <<stage, worker, buffer>>
    PROVE  IInv'
<1>1. /\ UNCHANGED <<transport, early, mode, task, pause, ended, published, listener, reading, fixed>>
      /\ UNCHANGED <<queue, stage, worker, buffer>>
      /\ pc[w] \in Closing /\ pc' = [pc EXCEPT ![w] = "left"]
      /\ got' = [got EXCEPT ![w] = <<>>] /\ dropped' = [dropped EXCEPT ![w] = FALSE]
      /\ Broadcast(Close) \/ UNCHANGED wire
  BY DEF PublishClose, Forgotten, Goto, setting, run, marks
<1>2. Close \in Entry
  BY Constants DEF Close
<1>3. PlaceTypes' /\ ReaderTypes' /\ SeqTypes'
  <2>1. wire' \in [Watcher -> Seq(Entry)]
    BY <1>1, <1>2, BroadcastTypes DEF IInv, Types, SeqTypes
  <2>2. <<>> \in Seq(Event)
    OBVIOUS
  <2>. QED  BY <1>1, <1>2, <2>1, <2>2, Constants DEF IInv, Types, PlaceTypes, ReaderTypes, SeqTypes, Places
<1>4. Types'
  BY <1>1, <1>3 DEF IInv, Types, TaskTypes, Bounds
<1>5. /\ pc'[w] = "left" /\ got'[w] = <<>> /\ since'[w] = 0
      /\ \A u \in Watcher \ {w} : /\ pc'[u] = pc[u] /\ got'[u] = got[u]
                                /\ dropped'[u] = dropped[u] /\ since'[u] = since[u]
  BY <1>1 DEF IInv, Types, PlaceTypes, ReaderTypes, SeqTypes
<1>6. TaskInv'
  BY <1>1, <1>5, Constants DEF IInv, TaskInv, Closing
<1>7. ASSUME NEW u \in Watcher \ {w} PROVE WatchInv(u)'
  <2>1. WatchInv(u) /\ wire[u] \in Seq(Entry) /\ Has(u) \subseteq Event /\ SameStart(u)
    BY <1>1, <1>5, SeqFacts DEF IInv, SameStart
  <2>2. \/ wire'[u] = wire[u]
        \/ reading[u] /\ wire'[u] = Append(wire[u], Close)
    BY <1>1 DEF Broadcast
  <2>3. Vals(wire[u])' = Vals(wire[u]) /\ Ordered(got[u], buffer[u], queue[u], wire'[u])
    <3>1. CASE wire'[u] = wire[u]
      BY <2>1, <3>1 DEF WatchInv, Vals
    <3>2. CASE wire'[u] = Append(wire[u], Close)
      <4>1. Vals(Append(wire[u], Close)) = Vals(wire[u]) \cup ({Close} \ {Close})
        BY <1>2, <2>1, AppendVals
      <4>2. Ordered(got[u], buffer[u], queue[u], Append(wire[u], Close))
        BY <1>2, <2>1, OrderedPublish DEF WatchInv
      <4>. QED  BY <3>2, <4>1, <4>2
    <3>. QED  BY <2>2, <3>1, <3>2
  <2>4. Has(u)' = Has(u)
    BY <1>1, <1>5, <2>3 DEF Has
  <2>5. KnownInv(u)' /\ SentInv(u)'
    BY <1>1, <1>5, <2>1, <2>4, KnownCut, SentKept DEF WatchInv
  <2>6. ControlInv(u)'
    BY <1>1, <1>5, <2>1, <2>2 DEF WatchInv, ControlInv, Attached, Blank, Snapshots
  <2>. QED  BY <1>1, <1>5, <2>3, <2>5, <2>6 DEF WatchInv
<1>8. WatchInv(w)'
  <2>1. /\ ~reading[w] /\ wire'[w] = <<>> /\ buffer[w] = <<>> /\ queue[w] = <<>> /\ ~Attached(w)'
        /\ WatchInv(w) /\ published \in Nat
    BY <1>1, <1>5, SeqFacts DEF IInv, WatchInv, ControlInv, Attached, Closing, Broadcast
  <2>2. Has(w)' = {} /\ Ordered(got[w], buffer[w], queue[w], wire[w])'
    BY <1>1, <1>5, <2>1, EmptyVals DEF Has, Ordered, Under
  <2>3. ControlInv(w)'
    BY <1>1, <1>5, <2>1 DEF WatchInv, ControlInv, Blank, Snapshots
  <2>. QED  BY <1>1, <1>5, <2>1, <2>2, <2>3, KnownEmpty, SentEmpty DEF WatchInv
<1>. QED  BY <1>4, <1>6, <1>7, <1>8 DEF IInv

(* The response ends with g sent.                                            *)
LEMMA LeaveStep ==
    ASSUME IInv, NEW w \in Watcher,
           NEW next \in Closing \cup {"left"},
           Leave(w, next), NEW g \in Seq(Event), NEW d \in BOOLEAN,
           got' = [got EXCEPT ![w] = g], dropped' = [dropped EXCEPT ![w] = d],
           UNCHANGED <<transport, early, mode, task, pause, ended, published, listener, since, worker>>,
           \/ buffer' = [buffer EXCEPT ![w] = <<>>] /\ stage' = [stage EXCEPT ![w] = "none"]
           \/ ~Snapshots(w) /\ UNCHANGED <<buffer, stage>>,
           \/ g = <<>>
           \/ /\ Rising(g) /\ d = dropped[w] /\ SentInv(w)' /\ pc[w] = "open"
              /\ Vals(g) \subseteq Has(w) /\ \A a \in Vals(g) : \A c \in Has(w) : c <= a => c \in Vals(g)
    PROVE  IInv'
<1>1. /\ reading' \in [Watcher -> BOOLEAN] /\ fixed' \in [Watcher -> BOOLEAN]
      /\ wire' \in [Watcher -> Seq(Entry)] /\ queue' \in [Watcher -> Seq(Entry)]
      /\ pc' \in [Watcher -> Places]
  BY LeaveTypes DEF IInv
<1>2. /\ pc'[w] = next /\ ~reading'[w] /\ wire'[w] = <<>> /\ queue'[w] = <<>> /\ got'[w] = g
      /\ dropped'[w] = d /\ got' \in [Watcher -> Seq(Event)] /\ dropped' \in [Watcher -> BOOLEAN]
  BY DEF Leave, Unlink, IInv, Types, PlaceTypes, ReaderTypes, SeqTypes
<1>3. WatchInv(w)
  BY DEF IInv
<1>4. buffer'[w] = <<>> /\ buffer' \in [Watcher -> Seq(Event)]
  <2>1. ~Snapshots(w) => buffer[w] = <<>>
    BY <1>3 DEF WatchInv, ControlInv
  <2>2. buffer \in [Watcher -> Seq(Event)] /\ <<>> \in Seq(Event)
    BY DEF IInv, Types, SeqTypes
  <2>. QED  BY <2>1, <2>2
<1>5. stage' \in [Watcher -> {"none", "read", "paused", "sent"}]
  BY DEF IInv, Types, PlaceTypes
<1>6. ASSUME NEW u \in Watcher \ {w} PROVE SameWatch(u)
  <2>1. buffer'[u] = buffer[u] /\ got'[u] = got[u] /\ dropped'[u] = dropped[u]
    BY DEF IInv, Types, SeqTypes, ReaderTypes
  <2>2. /\ pc'[u] = pc[u] /\ queue'[u] = queue[u] /\ reading'[u] = reading[u] /\ fixed'[u] = fixed[u]
        /\ wire'[u] = wire[u]
    BY DEF Leave, Unlink, IInv, Types, SeqTypes, ReaderTypes, PlaceTypes
  <2>. QED  BY <2>1, <2>2 DEF SameWatch
<1>7. Bounds'
  <2>1. Len(<<>>) = 0
    OBVIOUS
  <2>2. ASSUME NEW u \in Watcher
        PROVE  Len(buffer'[u]) <= BufferMax /\ (transport' = "pubsub" => Len(queue'[u]) <= QueueMax)
    <3>1. CASE u = w
      BY <1>2, <1>4, <2>1, <3>1, Constants
    <3>2. CASE u # w
      BY <1>6, <3>2 DEF SameWatch, IInv, Types, Bounds
    <3>. QED  BY <3>1, <3>2
  <2>. QED  BY <2>2 DEF Bounds
<1>8. Types'
  BY <1>1, <1>2, <1>4, <1>5, <1>7 DEF IInv, Types, TaskTypes, PlaceTypes, ReaderTypes, SeqTypes
<1>9. TaskInv'
  <2>1. pc'[Requester] = pc[Requester] \/ pc'[Requester] \in Closing \cup {"left"}
    BY <1>2, <1>6, Constants DEF SameWatch
  <2>. QED  BY <2>1 DEF IInv, TaskInv, Closing
<1>10. Has(w)' = Vals(g)
  BY <1>2, <1>4, EmptyVals DEF Has
<1>11. Ordered(got[w], buffer[w], queue[w], wire[w])'
  BY <1>2, <1>4, EmptyVals DEF Ordered, Under
<1>12. ControlInv(w)'
  BY <1>2, <1>3, <1>4 DEF WatchInv, ControlInv, Attached, Blank, Snapshots, Closing
<1>13. KnownInv(w)' /\ SentInv(w)'
  <2>1. CASE g = <<>>
    BY <1>2, <1>10, <2>1, EmptyVals, KnownEmpty, SentEmpty
  <2>2. CASE /\ Rising(g) /\ d = dropped[w] /\ SentInv(w)' /\ pc[w] = "open"
             /\ Vals(g) \subseteq Has(w) /\ \A a \in Vals(g) : \A c \in Has(w) : c <= a => c \in Vals(g)
    <3>1. SameStart(w) /\ Has(w) \subseteq Event
      BY <1>2, <2>2, SeqFacts DEF SameStart, IInv
    <3>. QED  BY <1>2, <1>3, <1>10, <2>2, <3>1, KnownCut DEF WatchInv
  <2>. QED  BY <2>1, <2>2
<1>14. WatchInv(w)'
  BY <1>11, <1>12, <1>13 DEF WatchInv
<1>. QED  BY <1>6, <1>8, <1>9, <1>14, OneWatcher

(* Whoever ends without an event has sent nothing that matters.              *)
LEMMA StopStep ==
    ASSUME IInv, NEW w \in Watcher, NEW next \in Closing \cup {"left"},
           Stop(w, next),
           UNCHANGED <<transport, early, mode, task, pause, ended, published, listener, since, worker>>,
           \/ Forget(w)
           \/ ~Snapshots(w) /\ UNCHANGED <<buffer, stage>>
    PROVE  IInv'
<1>1. /\ Leave(w, next) /\ <<>> \in Seq(Event)
      /\ got' = [got EXCEPT ![w] = <<>>] /\ dropped' = [dropped EXCEPT ![w] = FALSE]
  BY DEF Stop, Forgotten
<1>. QED  BY <1>1, LeaveStep DEF Forget

(* What the response has not sent yet.                                       *)
Rest(w) == Vals(buffer[w]) \cup Vals(queue[w]) \cup Vals(wire[w])

LEMMA NextEvent ==
    ASSUME Types, NEW w \in Watcher, WatchInv(w), NEW e,
           \/ buffer[w] # <<>> /\ e = Head(buffer[w])
           \/ buffer[w] = <<>> /\ queue[w] # <<>> /\ e = Head(queue[w]) /\ e # Close
    PROVE  /\ e \in Event /\ e \in Rest(w) /\ \A a \in Rest(w) : e <= a
           /\ Has(w) = Vals(got[w]) \cup Rest(w) /\ Under(Vals(got[w]), Rest(w))
           /\ Append(got[w], e) \in Seq(Event) /\ Rising(Append(got[w], e))
           /\ Vals(Append(got[w], e)) = Vals(got[w]) \cup {e}
           /\ \A a \in Vals(got[w]) \cup {e} : \A c \in Has(w) : c <= a => c \in Vals(got[w]) \cup {e}
<1>1. /\ buffer[w] \in Seq(Entry) /\ queue[w] \in Seq(Entry)
      /\ got[w] \in Seq(Entry) /\ Has(w) \subseteq Event
      /\ got[w] \in Seq(Event) /\ buffer[w] \in Seq(Event)
  BY SeqFacts
<1>2. Has(w) = Vals(got[w]) \cup Rest(w) /\ Under(Vals(got[w]), Rest(w))
  BY DEF Has, Rest, WatchInv, Ordered, Under
<1>3. e # Close /\ e \in Entry /\ e \in Rest(w) /\ \A a \in Rest(w) : e = a \/ e < a
  <2>1. CASE buffer[w] # <<>> /\ e = Head(buffer[w])
    <3>1. e \in Event
      BY <1>1, <2>1
    <3>2. e # Close
      BY <3>1, Constants DEF Event, Close
    <3>3. /\ e \in Entry /\ e \in Vals(buffer[w])
          /\ \A a \in Vals(buffer[w]) : a = e \/ e < a
      BY <1>1, <2>1, <3>2, HeadVals DEF WatchInv, Ordered
    <3>. QED  BY <3>2, <3>3 DEF Rest, WatchInv, Ordered, Under
  <2>2. CASE buffer[w] = <<>> /\ queue[w] # <<>> /\ e = Head(queue[w]) /\ e # Close
    <3>1. /\ e \in Entry /\ e \in Vals(queue[w]) /\ Vals(buffer[w]) = {}
          /\ \A a \in Vals(queue[w]) : a = e \/ e < a
      BY <1>1, <2>2, HeadVals, EmptyVals DEF WatchInv, Ordered
    <3>. QED  BY <2>2, <3>1 DEF Rest, WatchInv, Ordered, Under
  <2>. QED  BY <2>1, <2>2
<1>4. e \in Event
  BY <1>3, Constants DEF Entry, Event, Close
<1>5. /\ Append(got[w], e) \in Seq(Event) /\ Rising(Append(got[w], e))
      /\ Vals(Append(got[w], e)) = Vals(got[w]) \cup {e}
  <2>1. Append(got[w], e) \in Seq(Event)
    BY <1>1, <1>4
  <2>2. \A a \in Vals(got[w]) : a < e
    BY <1>2, <1>3 DEF Under
  <2>3. Rising(got[w]) /\ {e} \ {Close} = {e}
    BY <1>3 DEF WatchInv, Ordered
  <2>. QED  BY <1>1, <1>3, <2>1, <2>2, <2>3, AppendVals
<1>6. \A a \in Rest(w) : e <= a
  BY <1>1, <1>2, <1>3 DEF Event
<1>7. ASSUME NEW a \in Vals(got[w]) \cup {e}, NEW c \in Has(w), c <= a PROVE c \in Vals(got[w]) \cup {e}
  <2>. SUFFICES ASSUME c \in Rest(w), c # e PROVE FALSE
    BY <1>2
  <2>1. e < c /\ (a = e \/ a < c)
    BY <1>2, <1>3 DEF Under
  <2>2. a \in Nat /\ c \in Nat /\ e \in Nat
    BY <1>1, <1>2, <1>4 DEF Event
  <2>. QED  BY <1>7, <2>1, <2>2
<1>. QED  BY <1>2, <1>3, <1>4, <1>5, <1>6, <1>7

LEMMA SentAppended ==
    ASSUME IInv, NEW w \in Watcher, NEW e, SameStart(w), dropped'[w] = dropped[w],
           got'[w] = Append(got[w], e),
           \/ buffer[w] # <<>> /\ e = Head(buffer[w])
           \/ buffer[w] = <<>> /\ queue[w] # <<>> /\ e = Head(queue[w]) /\ e # Close
    PROVE  SentInv(w)'
<1>1. Types /\ WatchInv(w)
  BY DEF IInv
<1>2. /\ e \in Rest(w) /\ \A a \in Rest(w) : e <= a
      /\ Has(w) = Vals(got[w]) \cup Rest(w) /\ Under(Vals(got[w]), Rest(w))
  BY <1>1, NextEvent
<1>. QED  BY <1>1, <1>2, SentNext DEF WatchInv, Ordered

(* An event is sent, the response goes on.                                   *)
LEMMA SendOn ==
    ASSUME IInv, NEW w \in Watcher, NEW e, pc[w] = "open",
           UNCHANGED <<transport, early, mode, task, pause, ended, published, pc, listener, reading, fixed, wire>>,
           UNCHANGED <<dropped, since, stage, worker>>,
           got' = [got EXCEPT ![w] = Append(got[w], e)],
           \/ /\ buffer[w] # <<>> /\ e = Head(buffer[w])
              /\ buffer' = [buffer EXCEPT ![w] = Tail(buffer[w])] /\ UNCHANGED queue
           \/ /\ buffer[w] = <<>> /\ queue[w] # <<>> /\ e = Head(queue[w]) /\ e # Close
              /\ queue' = [queue EXCEPT ![w] = Tail(queue[w])] /\ UNCHANGED buffer
    PROVE  IInv'
<1>1. /\ queue[w] \in Seq(Entry) /\ wire[w] \in Seq(Entry) /\ got[w] \in Seq(Entry)
      /\ buffer[w] \in Seq(Entry) /\ buffer[w] \in Seq(Event) /\ Has(w) \subseteq Event
      /\ Types /\ WatchInv(w) /\ SameStart(w)
  BY SeqFacts DEF IInv, SameStart
<1>2. /\ e \in Event /\ Append(got[w], e) \in Seq(Event)
      /\ Vals(Append(got[w], e)) = Vals(got[w]) \cup {e} /\ e \in Rest(w)
  BY <1>1, NextEvent
<1>3. got'[w] = Append(got[w], e) /\ got' \in [Watcher -> Seq(Event)]
  BY <1>2 DEF IInv, Types, SeqTypes
<1>4. SentInv(w)'
  BY <1>1, <1>3, SentAppended
<1>5. ASSUME NEW u \in Watcher \ {w} PROVE SameWatch(u)
  <2>1. got'[u] = got[u]
    OBVIOUS
  <2>2. buffer'[u] = buffer[u] /\ queue'[u] = queue[u]
    <3>1. CASE buffer' = [buffer EXCEPT ![w] = Tail(buffer[w])] /\ UNCHANGED queue
      BY <3>1
    <3>2. CASE queue' = [queue EXCEPT ![w] = Tail(queue[w])] /\ UNCHANGED buffer
      BY <3>2
    <3>. QED  BY <3>1, <3>2
  <2>. QED  BY <2>1, <2>2 DEF SameWatch
<1>6. e # Close
  BY <1>2, Constants DEF Event, Close
<1>7. /\ buffer' \in [Watcher -> Seq(Event)] /\ queue' \in [Watcher -> Seq(Entry)]
      /\ Len(buffer'[w]) <= Len(buffer[w]) /\ Len(queue'[w]) <= Len(queue[w])
      /\ Len(buffer[w]) \in Nat /\ Len(queue[w]) \in Nat /\ Len(buffer'[w]) \in Nat /\ Len(queue'[w]) \in Nat
      /\ Vals(buffer[w])' \cup Vals(queue[w])' \cup {e} = Vals(buffer[w]) \cup Vals(queue[w])
      /\ Range(queue'[w]) \subseteq Range(queue[w])
      /\ Ordered(got'[w], buffer'[w], queue'[w], wire'[w])
  <2>1. CASE /\ buffer[w] # <<>> /\ e = Head(buffer[w])
             /\ buffer' = [buffer EXCEPT ![w] = Tail(buffer[w])] /\ UNCHANGED queue
    <3>1. Tail(buffer[w]) \in Seq(Event)
      BY <1>1, <2>1
    <3>2. buffer'[w] = Tail(buffer[w]) /\ buffer' \in [Watcher -> Seq(Event)] /\ queue' = queue
      BY <2>1, <3>1 DEF IInv, Types, SeqTypes
    <3>3. /\ Len(Tail(buffer[w])) = Len(buffer[w]) - 1 /\ Len(buffer[w]) \in Nat \ {0}
          /\ Vals(buffer[w]) = Vals(Tail(buffer[w])) \cup {e}
      BY <1>1, <1>6, <2>1, HeadVals
    <3>4. Vals(buffer[w])' = Vals(Tail(buffer[w])) /\ Vals(queue[w])' = Vals(queue[w])
      BY <3>2
    <3>5. Ordered(Append(got[w], e), Tail(buffer[w]), queue[w], wire[w])
      BY <1>1, <2>1, OrderedMove DEF WatchInv
    <3>6. Len(queue[w]) \in Nat /\ queue \in [Watcher -> Seq(Entry)]
      BY <1>1 DEF Types, SeqTypes
    <3>. QED  BY <1>3, <3>2, <3>3, <3>4, <3>5, <3>6
  <2>2. CASE /\ buffer[w] = <<>> /\ queue[w] # <<>> /\ e = Head(queue[w])
             /\ queue' = [queue EXCEPT ![w] = Tail(queue[w])] /\ UNCHANGED buffer
    <3>1. Tail(queue[w]) \in Seq(Entry)
      BY <1>1, <2>2
    <3>2. queue'[w] = Tail(queue[w]) /\ queue' \in [Watcher -> Seq(Entry)] /\ buffer' = buffer
      BY <2>2, <3>1 DEF IInv, Types, SeqTypes
    <3>3. /\ Len(Tail(queue[w])) = Len(queue[w]) - 1 /\ Len(queue[w]) \in Nat \ {0}
          /\ Vals(queue[w]) = Vals(Tail(queue[w])) \cup {e}
          /\ Range(Tail(queue[w])) \subseteq Range(queue[w])
      BY <1>1, <1>6, <2>2, HeadVals
    <3>4. Vals(queue[w])' = Vals(Tail(queue[w])) /\ Vals(buffer[w])' = Vals(buffer[w])
      BY <3>2
    <3>5. Ordered(Append(got[w], e), buffer[w], Tail(queue[w]), wire[w])
      BY <1>1, <2>2, OrderedMove DEF WatchInv
    <3>6. Len(buffer[w]) \in Nat /\ buffer \in [Watcher -> Seq(Event)]
      BY <1>1 DEF Types, SeqTypes
    <3>. QED  BY <1>3, <3>2, <3>3, <3>4, <3>5, <3>6
  <2>. QED  BY <2>1, <2>2
<1>8. Bounds'
  <2>1. ASSUME NEW u \in Watcher
        PROVE  Len(buffer'[u]) <= BufferMax /\ (transport' = "pubsub" => Len(queue'[u]) <= QueueMax)
    <3>1. CASE u = w
      <4>1. Len(buffer[w]) <= BufferMax /\ (transport' = "pubsub" => Len(queue[w]) <= QueueMax)
        BY <1>1 DEF Types, Bounds
      <4>2. BufferMax \in Nat /\ QueueMax \in Nat
        BY Constants
      <4>. QED  BY ONLY <1>7, <3>1, <4>1, <4>2
    <3>2. CASE u # w
      BY <1>1, <1>5, <3>2 DEF SameWatch, Types, Bounds
    <3>. QED  BY <3>1, <3>2
  <2>. QED  BY <2>1 DEF Bounds
<1>9. Types'
  BY <1>1, <1>3, <1>7, <1>8 DEF Types, TaskTypes, PlaceTypes, ReaderTypes, SeqTypes
<1>10. TaskInv'
  BY DEF IInv, TaskInv
<1>11. Has(w)' = Has(w)
  <2>1. Vals(got[w])' = Vals(got[w]) \cup {e} /\ Vals(wire[w])' = Vals(wire[w])
    BY <1>2, <1>3
  <2>. QED  BY <1>7, <2>1 DEF Has
<1>12. KnownInv(w)'
  BY <1>1, <1>11, KnownCut DEF WatchInv
<1>13. ControlInv(w)'
  <2>1. ~Blank(w)
    BY DEF Blank
  <2>2. ~Snapshots(w) => buffer'[w] = <<>>
    BY <1>1 DEF WatchInv, ControlInv
  <2>. QED  BY <1>1, <1>7, <2>1, <2>2 DEF WatchInv, ControlInv, Attached, Snapshots
<1>14. WatchInv(w)'
  BY <1>4, <1>7, <1>12, <1>13 DEF WatchInv
<1>. QED  BY <1>5, <1>9, <1>10, <1>14, OneWatcher

LEMMA SendSnapshotStep ==
    ASSUME IInv, NEW w \in Watcher, SendSnapshot(w)
    PROVE  IInv'
<1>1. /\ UNCHANGED <<transport, early, mode, task, pause, ended, published, listener, dropped, got, since, worker>>
      /\ pc[w] = "open" /\ Types /\ WatchInv(w)
  BY DEF SendSnapshot, setting, run, marks, IInv
<1>2. CASE Leave(w, "finished") /\ Forget(w)
  <2>. DEFINE g == got[w]
              d == dropped[w]
  <2>1. /\ g \in Seq(Event) /\ d \in BOOLEAN
        /\ got' = [got EXCEPT ![w] = g] /\ dropped' = [dropped EXCEPT ![w] = d]
    BY <1>1 DEF Types, SeqTypes, ReaderTypes
  <2>2. SameStart(w)
    BY <1>1 DEF SameStart
  <2>3. SentInv(w)'
    BY <1>1, <2>2, SentKept DEF WatchInv
  <2>4. Has(w) \subseteq Event /\ Rising(g)
    BY <1>1, SeqFacts DEF WatchInv, Ordered
  <2>5. ASSUME NEW a \in Vals(g), NEW c \in Has(w), c <= a PROVE c \in Vals(g)
    <3>. SUFFICES ASSUME c \notin Vals(g) PROVE FALSE
      OBVIOUS
    <3>1. a < c
      BY <1>1 DEF WatchInv, Ordered, Under, Has
    <3>2. a \in Nat /\ c \in Nat
      BY <2>4 DEF Event, Has
    <3>. QED  BY <2>5, <3>1, <3>2
  <2>6. Vals(g) \subseteq Has(w)
    BY DEF Has
  <2>. HIDE DEF g
  <2>. QED  BY <1>1, <1>2, <2>1, <2>3, <2>4, <2>5, <2>6, LeaveStep DEF Forget, Closing
<1>3. CASE stage' = [stage EXCEPT ![w] = "sent"] /\ UNCHANGED <<pc, queue, link, buffer>>
  <2>1. Types'
    BY <1>1, <1>3 DEF link, Types, TaskTypes, PlaceTypes, ReaderTypes, SeqTypes, Bounds
  <2>2. TaskInv'
    BY <1>1, <1>3 DEF IInv, TaskInv
  <2>3. \A u \in Watcher : WatchInv(u)'
    BY <1>1, <1>3, WatchKept DEF SameWatch, link, IInv
  <2>. QED  BY <2>1, <2>2, <2>3 DEF IInv
<1>. QED  BY <1>2, <1>3 DEF SendSnapshot

(* An event is sent, and is the last.                                        *)
LEMMA SendLast ==
    ASSUME IInv, NEW w \in Watcher, NEW e, pc[w] = "open", Leave(w, "finished"),
           UNCHANGED <<transport, early, mode, task, pause, ended, published, listener, dropped, since, worker>>,
           got' = [got EXCEPT ![w] = Append(got[w], e)],
           \/ Forget(w)
           \/ ~Snapshots(w) /\ UNCHANGED <<buffer, stage>>,
           \/ buffer[w] # <<>> /\ e = Head(buffer[w])
           \/ buffer[w] = <<>> /\ queue[w] # <<>> /\ e = Head(queue[w]) /\ e # Close
    PROVE  IInv'
<1>. DEFINE g == Append(got[w], e)
            d == dropped[w]
<1>1. Types /\ WatchInv(w) /\ SameStart(w)
  BY DEF IInv, SameStart
<1>2. /\ g \in Seq(Event) /\ Rising(g) /\ Vals(g) = Vals(got[w]) \cup {e}
      /\ Has(w) = Vals(got[w]) \cup Rest(w) /\ e \in Rest(w)
      /\ \A a \in Vals(g) : \A c \in Has(w) : c <= a => c \in Vals(g)
  <2>1. /\ g \in Seq(Event) /\ Rising(g) /\ Vals(g) = Vals(got[w]) \cup {e}
        /\ Has(w) = Vals(got[w]) \cup Rest(w) /\ e \in Rest(w)
    BY <1>1, NextEvent
  <2>2. \A a \in Vals(got[w]) \cup {e} : \A c \in Has(w) : c <= a => c \in Vals(got[w]) \cup {e}
    BY <1>1, NextEvent
  <2>. HIDE DEF g
  <2>. QED  BY <2>1, <2>2
<1>3. Vals(g) \subseteq Has(w)
  BY <1>2
<1>4. d \in BOOLEAN /\ dropped' = [dropped EXCEPT ![w] = d]
  BY <1>1 DEF Types, ReaderTypes
<1>5. got'[w] = g
  BY <1>1 DEF Types, SeqTypes
<1>6. SentInv(w)'
  BY <1>1, <1>5, SentAppended
<1>. HIDE DEF g
<1>7. got' = [got EXCEPT ![w] = g]
  BY DEF g
<1>8. \/ buffer' = [buffer EXCEPT ![w] = <<>>] /\ stage' = [stage EXCEPT ![w] = "none"]
      \/ ~Snapshots(w) /\ UNCHANGED <<buffer, stage>>
  BY DEF Forget
<1>. HIDE DEF d
<1>9. d = dropped[w]
  BY DEF d
<1>. QED  BY <1>2, <1>3, <1>4, <1>6, <1>7, <1>8, <1>9, LeaveStep DEF Closing

LEMMA SendLiveStep ==
    ASSUME IInv, NEW w \in Watcher, SendLive(w)
    PROVE  IInv'
<1>. DEFINE e == Head(buffer[w])
<1>1. /\ UNCHANGED <<transport, early, mode, task, pause, ended, published, listener, dropped, since, worker>>
      /\ pc[w] = "open" /\ buffer[w] # <<>>
      /\ got' = [got EXCEPT ![w] = Append(got[w], e)]
  BY DEF SendLive, setting, run, marks
<1>2. CASE Leave(w, "finished") /\ Forget(w)
  BY <1>1, <1>2, SendLast
<1>3. CASE /\ buffer' = [buffer EXCEPT ![w] = Tail(buffer[w])]
           /\ UNCHANGED <<pc, queue, link, stage>>
  <2>1. UNCHANGED <<pc, queue, reading, fixed, wire, stage>>
    BY <1>3 DEF link
  <2>. QED  BY <1>1, <1>3, <2>1, SendOn
<1>. QED  BY <1>2, <1>3 DEF SendLive

(* The client of a live response receives what its listener queued.          *)
LEMMA ReceiveStep ==
    ASSUME IInv, NEW w \in Watcher, UNCHANGED snapVars, ~Snapshots(w), Receive(w)
    PROVE  IInv'
<1>. DEFINE e == Head(queue[w])
<1>1. /\ UNCHANGED <<transport, early, mode, task, pause, ended, published, listener>>
      /\ UNCHANGED <<since, worker, buffer, stage>>
      /\ pc[w] = "open" /\ queue[w] # <<>> /\ buffer[w] = <<>>
  BY DEF Receive, setting, run, marks, snapVars, IInv, WatchInv, ControlInv
<1>2. CASE Stop(w, "broken")
  BY <1>1, <1>2, StopStep DEF Closing
<1>3. CASE /\ e # Close /\ UNCHANGED dropped
           /\ got' = [got EXCEPT ![w] = Append(got[w], e)]
           /\ \/ Leave(w, "finished")
              \/ queue' = [queue EXCEPT ![w] = Tail(queue[w])] /\ UNCHANGED <<pc, link>>
  <2>1. CASE Leave(w, "finished")
    BY <1>1, <1>3, <2>1, SendLast
  <2>2. CASE queue' = [queue EXCEPT ![w] = Tail(queue[w])] /\ UNCHANGED <<pc, link>>
    <3>1. UNCHANGED <<pc, reading, fixed, wire>>
      BY <2>2 DEF link
    <3>. QED  BY <1>1, <1>3, <2>2, <3>1, SendOn
  <2>. QED  BY <1>3, <2>1, <2>2
<1>. QED  BY <1>2, <1>3 DEF Receive

(* The steps that end a response without an event.                           *)
LEMMA QuitStep ==
    ASSUME IInv, NEW w \in Watcher,
           \/ GiveUp(w)
           \/ ~Snapshots(w) /\ UNCHANGED snapVars /\ (FindClosed(w) \/ Idle(w))
           \/ Disconnect(w) /\ Forget(w) /\ UNCHANGED <<since, worker>>
    PROVE  IInv'
<1>1. UNCHANGED <<transport, early, mode, task, pause, ended, published, listener, since, worker>>
  BY DEF GiveUp, FindClosed, Idle, Disconnect, setting, run, marks, snapVars
<1>2. /\ Stop(w, "cut") \/ Stop(w, "left")
      /\ Forget(w) \/ (~Snapshots(w) /\ UNCHANGED <<buffer, stage>>)
  BY DEF GiveUp, FindClosed, Idle, Disconnect, snapVars
<1>. QED  BY <1>1, <1>2, StopStep DEF Closing

-----------------------------------------------------------------------------
(* Every step keeps the invariant.                                           *)
LEMMA NextKeeps == IInv /\ [SnapNext]_allVars => IInv'
<1>. SUFFICES ASSUME IInv, [SnapNext]_allVars PROVE IInv'
  OBVIOUS
<1>1. CASE /\ UNCHANGED snapVars
           /\ Submit \/ StartByTimer \/ Working
  BY <1>1, RequesterStep, PublishStep, TaskStep DEF Working
<1>2. ASSUME NEW w \in Watcher, Common(w) \/ (~Snapshots(w) /\ Open(w)), UNCHANGED snapVars PROVE IInv'
  <2>1. CASE Find(w)
    BY <1>2, <2>1, FindStep
  <2>2. CASE ListenerDies(w) \/ SendRead(w) \/ StopListener(w)
    BY <1>2, <2>2, StopListenerStep
  <2>3. CASE ListenPubSub(w)
    BY <1>2, <2>3, ListenPubSubStep
  <2>4. CASE ReadStream(w)
    BY <1>2, <2>4, ReadStreamStep
  <2>5. CASE ~Snapshots(w) /\ Open(w)
    BY <1>2, <2>5, SubscribeStep
  <2>. QED  BY <1>2, <2>1, <2>2, <2>3, <2>4, <2>5 DEF Common, Listening
<1>3. ASSUME NEW w \in Watcher, ReadRun(w) \/ Subscribe(w) \/ Moving(w) PROVE IInv'
  BY <1>3, FindStep, SubscribeStep, MoveStep, StopMovingStep DEF Moving
<1>4. ASSUME NEW w \in Watcher, Responding(w) PROVE IInv'
  <2>1. CASE Sending(w)
    BY <2>1, SendSnapshotStep, SendLiveStep, QuitStep DEF Sending
  <2>2. CASE Starting(w) /\ UNCHANGED snapVars
    BY <2>2, RequesterStep DEF Starting
  <2>4. CASE PublishClose(w) /\ since' = [since EXCEPT ![w] = 0] /\ UNCHANGED <<stage, worker, buffer>>
    BY <2>4, PublishCloseStep
  <2>3. CASE LiveOnly(w) /\ UNCHANGED snapVars
    BY <2>3, ReceiveStep, QuitStep DEF LiveOnly
  <2>. QED  BY <1>4, <2>1, <2>2, <2>3, <2>4 DEF Responding
<1>5. ASSUME NEW w \in Watcher, Disconnect(w) /\ Forget(w) /\ UNCHANGED <<since, worker>> PROVE IInv'
  BY <1>5, QuitStep
<1>6. CASE UNCHANGED allVars
  <2>1. /\ UNCHANGED <<transport, early, mode, task, pause, ended, published, pc, listener, reading, fixed, wire>>
        /\ UNCHANGED <<dropped, queue, got, since, stage, worker, buffer>>
    BY <1>6 DEF allVars, vars, snapVars, setting, run, marks, reader, link
  <2>2. Types' /\ TaskInv'
    BY <2>1 DEF IInv, Types, TaskTypes, PlaceTypes, ReaderTypes, SeqTypes, Bounds, TaskInv
  <2>3. \A u \in Watcher : WatchInv(u)'
    BY <2>1, WatchKept DEF SameWatch, IInv
  <2>. QED  BY <2>2, <2>3 DEF IInv
<1>. QED  BY <1>1, <1>2, <1>3, <1>4, <1>5, <1>6 DEF SnapNext

LEMMA Invariant == SnapSpec => []IInv
BY WatchInit, NextKeeps, PTL DEF SnapSpec

(* Types and bounds: neither a pub/sub queue nor a buffer ever holds more    *)
(* than its bound, whatever the order of its listener, thread and client.    *)
THEOREM SnapshotTypes == SnapSpec => []AllTypesOK
<1>1. IInv => AllTypesOK
  BY TypesGiveTypeOK DEF IInv
<1>. QED  BY <1>1, Invariant, PTL

(* What a client is sent is in order, nothing twice, and without an overflow *)
(* nothing is left out between two events it sees.                           *)
THEOREM NoEventSkipped == SnapSpec => []NoGap
<1>1. IInv => NoGap
  <2>. SUFFICES ASSUME IInv, NEW w \in Watcher, NEW i \in 1 .. Len(got[w]) - 1
                PROVE  /\ got[w][i] < got[w][i + 1]
                       /\ ~dropped[w] => got[w][i + 1] = got[w][i] + 1
    BY DEF NoGap
  <2>1. /\ got[w] \in Seq(Event) /\ Rising(got[w]) /\ SentInv(w)
    BY SeqFacts DEF IInv, WatchInv, Ordered
  <2>2. /\ i \in DOMAIN got[w] /\ i + 1 \in DOMAIN got[w] /\ 1 \in DOMAIN got[w] /\ i < i + 1
        /\ got[w][i] \in Event /\ got[w][i + 1] \in Event /\ got[w][1] \in Event
    BY <2>1
  <2>3. got[w][i] < got[w][i + 1]
    <3>1. got[w][i] # Close /\ got[w][i + 1] # Close
      BY <2>2, Constants DEF Event, Close
    <3>. QED  BY <2>1, <2>2, <3>1 DEF Rising
  <2>4. ASSUME ~dropped[w] PROVE got[w][i + 1] = got[w][i] + 1
    <3>1. got[w][i] = got[w][1] + i - 1 /\ got[w][i + 1] = got[w][1] + (i + 1) - 1
      BY <2>1, <2>2, <2>4 DEF SentInv
    <3>. QED  BY <2>2, <3>1 DEF Event
  <2>. QED  BY <2>3, <2>4
<1>. QED  BY <1>1, Invariant, PTL

(* A response that subscribed before the timer started its task, and whose   *)
(* queue did not overflow, has sent the run from its first event on.         *)
THEOREM RequesterSeesTheRun == SnapSpec => []RequesterSeesAll
<1>1. IInv => RequesterSeesAll
  <2>. SUFFICES ASSUME IInv, transport = "pubsub", ~early, ~dropped[Requester]
                PROVE  got[Requester] = [i \in 1 .. Len(got[Requester]) |-> i]
    BY DEF RequesterSeesAll
  <2>. DEFINE g == got[Requester]
  <2>1. g \in Seq(Event) /\ SentInv(Requester) /\ 1 \in 1 .. MaxEvents + 3 /\ Whole(Requester, 1)
    BY SeqFacts, Constants DEF IInv, WatchInv, Whole
  <2>2. ASSUME NEW i \in DOMAIN g PROVE g[i] = i
    <3>1. g # <<>> /\ 1 \in DOMAIN g /\ i \in Nat
      BY <2>1, <2>2
    <3>2. g[i] = g[1] + i - 1 /\ g[1] <= 1
      BY <2>1, <2>2, <3>1 DEF SentInv
    <3>3. g[1] \in Event
      BY <2>1, <3>1
    <3>. QED  BY <3>1, <3>2, <3>3 DEF Event
  <2>3. g = [i \in 1 .. Len(g) |-> g[i]] /\ DOMAIN g = 1 .. Len(g)
    BY <2>1
  <2>. HIDE DEF g
  <2>4. g = [i \in 1 .. Len(g) |-> i]
    BY <2>2, <2>3
  <2>. QED  BY <2>4 DEF g
<1>. QED  BY <1>1, Invariant, PTL

(* Whoever asked for a snapshot is sent every event from its subscription    *)
(* on, none from before it, whatever the snapshot took.                      *)
THEOREM LateWatcherSeesTheRun == SnapSpec => []LateWatcherSeesAll
<1>1. IInv => LateWatcherSeesAll
  <2>. SUFFICES ASSUME IInv, NEW w \in Watcher, Snapshots(w), transport = "pubsub", ~dropped[w], got[w] # <<>>
                PROVE  Range(got[w]) = since[w] + 1 .. Last(got[w])
    BY DEF LateWatcherSeesAll
  <2>. DEFINE g == got[w]
              k == since[w] + 1
  <2>1. /\ g \in Seq(Event) /\ SentInv(w) /\ KnownInv(w) /\ since[w] \in Entry
        /\ Len(g) \in Nat \ {0} /\ DOMAIN g = 1 .. Len(g) /\ g[1] \in Event /\ Last(g) = g[Len(g)]
    BY SeqFacts DEF IInv, WatchInv, Types, PlaceTypes, Last
  <2>2. k \in 1 .. MaxEvents + 3 /\ pc[w] # "ready" /\ Whole(w, k)
    <3>1. k \in 1 .. MaxEvents + 3
      BY <2>1, Constants DEF Entry
    <3>2. pc[w] # "ready"
      BY DEF IInv, WatchInv, ControlInv, Blank
    <3>. QED  BY <3>1, <3>2 DEF Whole
  <2>3. g[1] <= k /\ \A i \in DOMAIN g : g[i] = g[1] + i - 1
    BY <2>1, <2>2 DEF SentInv
  <2>4. since[w] < g[1]
    <3>1. g[1] \in Has(w)
      BY <2>1, Constants DEF Has, Vals, Range, Event, Close
    <3>. QED  BY <2>1, <2>2, <3>1 DEF KnownInv
  <2>5. g[1] = k
    BY <2>1, <2>3, <2>4, Constants DEF Entry, Event
  <2>. HIDE DEF g
  <2>6. ASSUME NEW i \in 1 .. Len(g) PROVE g[i] = since[w] + i
    <3>1. g[i] = g[1] + i - 1
      BY <2>1, <2>3
    <3>2. since[w] \in Nat /\ i \in Nat
      BY <2>1, Constants DEF Entry
    <3>. QED  BY <2>5, <3>1, <3>2
  <2>7. Last(g) = since[w] + Len(g) /\ since[w] \in Nat
    BY <2>1, <2>6, Constants DEF Entry
  <2>8. ASSUME NEW c \in since[w] + 1 .. Last(g) PROVE c \in Range(g)
    <3>1. c - since[w] \in 1 .. Len(g) /\ since[w] + (c - since[w]) = c
      BY <2>1, <2>7
    <3>. QED  BY <2>1, <2>6, <3>1 DEF Range
  <2>9. ASSUME NEW c \in Range(g) PROVE c \in since[w] + 1 .. Last(g)
    <3>1. PICK i \in 1 .. Len(g) : c = g[i]
      BY <2>1 DEF Range
    <3>. QED  BY <2>1, <2>6, <2>7, <3>1
  <2>. QED  BY <2>8, <2>9 DEF g
<1>. QED  BY <1>1, Invariant, PTL

(* A full queue or buffer drops the oldest: not the end of the run, before   *)
(* the events that follow it fill the queue or the buffer by themselves.     *)
THEOREM EndOfRunKept == SnapSpec => []EndKept
<1>1. IInv => EndKept
  <2>. SUFFICES ASSUME IInv, NEW w \in Watcher, transport = "pubsub", pc[w] = "open", listener[w] = "on",
                       ended # 0, got[w] # <<>>, got[w][1] <= ended, Room(w, ended)
                PROVE  ended \in Held(w)
    BY DEF EndKept, Room
  <2>1. got[w] \in Seq(Event) /\ WatchInv(w) /\ ended <= published /\ ended \in Nat /\ published \in Nat
    BY SeqFacts, Constants DEF IInv, TaskInv, Types, TaskTypes, Entry
  <2>2. 1 \in DOMAIN got[w] /\ got[w][1] \in Event
    BY <2>1
  <2>3. got[w][1] \in Has(w)
    BY <2>2, Constants DEF Has, Vals, Range, Event, Close
  <2>4. reading[w]
    BY <2>1 DEF WatchInv, ControlInv, Attached
  <2>5. ended \in got[w][1] .. published
    BY <2>1, <2>2 DEF Event
  <2>6. ended \in Has(w)
    BY <2>1, <2>3, <2>4, <2>5 DEF WatchInv, KnownInv
  <2>. QED  BY <2>6 DEF Has, Held, Vals
<1>. QED  BY <1>1, Invariant, PTL
=============================================================================
