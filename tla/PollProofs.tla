----------------------------- MODULE PollProofs -----------------------------
(***************************************************************************)
(* Proofs about the poll buffers of EventDelivery: whatever limits polls   *)
(* ask for, and wherever a poll and a push cross.                          *)
(***************************************************************************)
EXTENDS EventDeliveryProofs

USE DeliveryAssumption

-----------------------------------------------------------------------------
(* Sequences of events                                                     *)

(* What polls of a target got, are getting and will get.                   *)
Handed(t) == polled[t] \o Underway(t) \o Pending(t)

InOrder(s) == \A i, j \in DOMAIN s : i < j => s[i] < s[j]

(* e waits in none of the items of queue, but before them.                 *)
Ahead(e, queue) == \A i \in DOMAIN queue : queue[i] # STOP => e < queue[i].event

(* Halves, put together again.                                             *)
LEMMA HalvesConcat ==
  ASSUME NEW x \in Seq(Event), NEW y \in Seq(Event), NEW b \in Seq(Event), Halves(x, y, b)
  PROVE  x \o y = b
<1>1. PICK k \in Nat, l \in Nat, m \in Nat : k = Len(x) /\ l = Len(y) /\ m = Len(b)
  BY LenProperties
<1> DEFINE s == x \o y
<1>2. /\ s \in Seq(Event) /\ Len(s) = k + l
      /\ \A i \in 1..k + l : s[i] = IF i <= k THEN x[i] ELSE y[i - k]
  BY <1>1, ConcatProperties
<1>3. /\ k + l = m /\ \A i \in 1..k : x[i] = b[i]
      /\ \A i \in 1..l : y[i] = b[k + i]
  BY <1>1 DEF Halves
<1> HIDE DEF s
<1>4. ASSUME NEW i \in 1..m PROVE s[i] = b[i]
  <2>1. CASE i <= k
    BY <1>2, <1>3, <2>1
  <2>2. CASE ~(i <= k)
    <3>1. PICK j \in 1..l : i = k + j
      <4>1. i - k \in 1..l /\ i = k + (i - k)
        BY <1>3, <2>2
      <4> QED
        BY <4>1
    <3>2. i \in 1..k + l /\ i - k = j
      BY <1>3, <3>1
    <3>3. s[i] = y[j] /\ y[j] = b[k + j]
      BY <1>2, <1>3, <2>2, <3>2
    <3> QED
      BY <3>1, <3>3
  <2> QED
    BY <2>1, <2>2
<1>5. s = b
  BY <1>1, <1>2, <1>3, <1>4, SeqEqual
<1> QED
  BY <1>5 DEF s

(* The elements of a concatenation, in their places.                       *)
LEMMA ConcatElements ==
  ASSUME NEW p \in Seq(Event), NEW s \in Seq(Event),
         NEW k \in Nat, NEW l \in Nat, k = Len(p), l = Len(s)
  PROVE  /\ p \o s \in Seq(Event) /\ DOMAIN (p \o s) = 1..k + l
         /\ DOMAIN p = 1..k /\ DOMAIN s = 1..l
         /\ \A i \in 1..k : (p \o s)[i] = p[i]
         /\ \A i \in 1..l : (p \o s)[k + i] = s[i]
<1> DEFINE c == p \o s
<1>1. /\ c \in Seq(Event) /\ Len(c) = k + l
      /\ \A i \in 1..k + l : c[i] = IF i <= k THEN p[i] ELSE s[i - k]
  BY ConcatProperties
<1> HIDE DEF c
<1>2. DOMAIN c = 1..k + l /\ DOMAIN p = 1..k /\ DOMAIN s = 1..l
  BY <1>1, LenProperties
<1>3. ASSUME NEW i \in 1..k PROVE c[i] = p[i]
  <2>1. i \in 1..k + l /\ i <= k
    OBVIOUS
  <2> QED
    BY <1>1, <2>1
<1>4. ASSUME NEW i \in 1..l PROVE c[k + i] = s[i]
  <2>1. k + i \in 1..k + l /\ ~(k + i <= k) /\ k + i - k = i
    OBVIOUS
  <2> QED
    BY <1>1, <2>1, SMTT(30)
<1> QED
  BY <1>1, <1>2, <1>3, <1>4 DEF c

(* g is h without the events of x: in order if h is, and nothing more lost. *)
Without(h, x, g) ==
  /\ InOrder(h) => InOrder(g)
  /\ \A i \in DOMAIN g : \E j \in DOMAIN h : h[j] = g[i]
  /\ \A j \in DOMAIN h : \/ \E i \in DOMAIN g : g[i] = h[j]
                         \/ \E i \in DOMAIN x : x[i] = h[j]

LEMMA WithoutBatch ==
  ASSUME NEW p \in Seq(Event), NEW x \in Seq(Event), NEW y \in Seq(Event)
  PROVE  Without((p \o x) \o y, x, p \o y)
<1>1. PICK k \in Nat, l \in Nat, m \in Nat : k = Len(p) /\ l = Len(x) /\ m = Len(y)
  BY LenProperties
<1> DEFINE c == p \o x
           d == c \o y
           e == p \o y
           At2(i) == IF i <= k THEN i ELSE l + i
<1>2. /\ c \in Seq(Event) /\ Len(c) = k + l /\ DOMAIN x = 1..l
      /\ \A i \in 1..k : c[i] = p[i]
      /\ \A i \in 1..l : c[k + i] = x[i]
  BY <1>1, ConcatElements, ConcatProperties
<1>3. /\ DOMAIN e = 1..k + m
      /\ \A i \in 1..k : e[i] = p[i]
      /\ \A i \in 1..m : e[k + i] = y[i]
  BY <1>1, ConcatElements
<1> HIDE DEF c, e
<1>4. /\ DOMAIN d = 1..(k + l) + m
      /\ \A i \in 1..k + l : d[i] = c[i]
      /\ \A i \in 1..m : d[(k + l) + i] = y[i]
  <2>1. PICK n \in Nat : n = k + l
    OBVIOUS
  <2>2. n = Len(c) /\ m = Len(y) /\ c \in Seq(Event)
    BY <1>1, <1>2, <2>1
  <2>3. /\ DOMAIN d = 1..n + m
        /\ \A i \in 1..n : d[i] = c[i]
        /\ \A i \in 1..m : d[n + i] = y[i]
    BY <2>2, ConcatElements
  <2> QED
    BY <2>1, <2>3
<1> HIDE DEF d
<1>5. ASSUME NEW i \in 1..k + m PROVE At2(i) \in 1..(k + l) + m /\ d[At2(i)] = e[i]
  <2>1. CASE i <= k
    <3>1. i \in 1..k /\ i \in 1..k + l /\ i \in 1..(k + l) + m
      BY <2>1
    <3> QED
      BY <1>2, <1>3, <1>4, <2>1, <3>1
  <2>2. CASE ~(i <= k)
    <3>1. PICK j \in 1..m : i = k + j
      <4>1. i - k \in 1..m /\ i = k + (i - k)
        BY <2>2
      <4> QED
        BY <4>1
    <3>2. l + i = (k + l) + j /\ l + i \in 1..(k + l) + m
      BY <3>1
    <3> QED
      BY <1>3, <1>4, <2>2, <3>1, <3>2
  <2> QED
    BY <2>1, <2>2
<1>6. \A i, j \in 1..k + m : i < j => At2(i) < At2(j)
  OBVIOUS
<1> HIDE DEF At2
<1>7. InOrder(d) => InOrder(e)
  BY <1>3, <1>4, <1>5, <1>6 DEF InOrder
<1>8. \A i \in DOMAIN e : \E j \in DOMAIN d : d[j] = e[i]
  BY <1>3, <1>4, <1>5
<1>9. ASSUME NEW j \in 1..(k + l) + m
      PROVE  (\E i \in DOMAIN e : e[i] = d[j]) \/ (\E i \in DOMAIN x : x[i] = d[j])
  <2>1. CASE j <= k
    <3>1. j \in 1..k /\ j \in 1..k + l /\ j \in 1..k + m
      BY <2>1
    <3>2. e[j] = d[j]
      BY <1>2, <1>3, <1>4, <3>1
    <3> QED
      BY <1>3, <3>1, <3>2
  <2>2. CASE j > k /\ j <= k + l
    <3>1. PICK i \in 1..l : j = k + i
      <4>1. j - k \in 1..l /\ j = k + (j - k)
        BY <2>2
      <4> QED
        BY <4>1
    <3>2. j \in 1..k + l
      BY <2>2
    <3>3. x[i] = d[j]
      BY <1>2, <1>4, <3>1, <3>2
    <3> QED
      BY <1>2, <3>3
  <2>3. CASE j > k + l
    <3>1. PICK i \in 1..m : j = (k + l) + i
      <4>1. j - (k + l) \in 1..m /\ j = (k + l) + (j - (k + l))
        BY <2>3
      <4> QED
        BY <4>1
    <3>2. k + i \in 1..k + m
      OBVIOUS
    <3>3. e[k + i] = d[j]
      BY <1>3, <1>4, <3>1
    <3> QED
      BY <1>3, <3>2, <3>3
  <2> QED
    BY <2>1, <2>2, <2>3
<1> QED
  <2>1. Without(d, x, e)
    BY <1>4, <1>7, <1>8, <1>9 DEF Without
  <2> QED
    BY <2>1 DEF c, d, e

(* An event later than all of a sequence in order is appended in order.    *)
LEMMA AppendInOrder ==
  ASSUME NEW s \in Seq(Event), NEW e \in Event, InOrder(s), \A i \in DOMAIN s : s[i] < e
  PROVE  /\ InOrder(Append(s, e))
         /\ \A i \in DOMAIN Append(s, e) :
              Append(s, e)[i] = e \/ \E j \in DOMAIN s : s[j] = Append(s, e)[i]
         /\ \E i \in DOMAIN Append(s, e) : Append(s, e)[i] = e
         /\ \A j \in DOMAIN s : \E i \in DOMAIN Append(s, e) : Append(s, e)[i] = s[j]
<1>1. PICK k \in Nat : k = Len(s)
  BY LenProperties
<1> DEFINE c == Append(s, e)
<1>2. /\ c \in Seq(Event) /\ Len(c) = k + 1 /\ c[k + 1] = e
      /\ \A i \in 1..k : c[i] = s[i]
  BY <1>1, AppendProperties
<1> HIDE DEF c
<1>3. DOMAIN c = 1..k + 1 /\ DOMAIN s = 1..k
  BY <1>1, <1>2, LenProperties
<1>4. \A i \in 1..k + 1 : i \in 1..k \/ i = k + 1
  OBVIOUS
<1>5. InOrder(c)
  <2>1. ASSUME NEW i \in 1..k + 1, NEW j \in 1..k + 1, i < j PROVE c[i] < c[j]
    <3>1. i \in 1..k
      BY <2>1
    <3>2. CASE j \in 1..k
      BY <1>2, <1>3, <2>1, <3>1, <3>2 DEF InOrder
    <3>3. CASE j = k + 1
      BY <1>2, <1>3, <3>1, <3>3
    <3> QED
      BY <3>2, <3>3
  <2> QED
    BY <1>3, <2>1 DEF InOrder
<1>6. \A i \in DOMAIN c : c[i] = e \/ \E j \in DOMAIN s : s[j] = c[i]
  BY <1>2, <1>3, <1>4
<1>7. k + 1 \in DOMAIN c /\ \A j \in 1..k : j \in DOMAIN c
  BY <1>3
<1> QED
  BY <1>2, <1>3, <1>5, <1>6, <1>7 DEF c

(* Handed(t) is made of three sequences of events.                         *)
LEMMA HandedParts ==
  ASSUME TypeOK, NEW t \in Targets
  PROVE  /\ polled[t] \in Seq(Event) /\ Underway(t) \in Seq(Event)
         /\ Pending(t) \in Seq(Event) /\ Handed(t) \in Seq(Event)
<1>1. polled[t] \in Seq(Event) /\ Underway(t) \in Seq(Event) /\ Pending(t) \in Seq(Event)
  BY EmptySeq DEF TypeOK, Underway, Pending, Request
<1> QED
  BY <1>1, ConcatProperties DEF Handed

(* The queue: its events are in the order they were pushed in.             *)
QueueOrder ==
  /\ \A i, j \in DOMAIN q : i < j /\ q[i] # STOP /\ q[j] # STOP => q[i].event < q[j].event
  /\ \A i \in DOMAIN q : q[i] # STOP => q[i].event <= pushed

(* e has left the queue before all that are in it or will be.              *)
Early(e, queue, n) == Ahead(e, queue) /\ e <= n

(* How the queue may change.                                               *)
QueueKinds ==
  \/ q' = q /\ pushed' = pushed
  \/ q' = Append(q, STOP) /\ pushed' = pushed
  \/ pushed' = pushed + 1 /\ \E t \in Targets :
       q' = Append(q, [event |-> pushed + 1, target |-> t])
  \/ q # <<>> /\ q' = Tail(q) /\ pushed' = pushed

LEMMA QueueStepKinds == [Next]_vars => QueueKinds
<1> SUFFICES ASSUME [Next]_vars PROVE QueueKinds
  OBVIOUS
<1>1. ASSUME NEW t \in Targets, Push(t) \/ LearnNode(t) \/ ForgetNode(t) PROVE QueueKinds
  BY <1>1 DEF Push, LearnNode, ForgetNode, QueueKinds
<1>2. ASSUME NEW t \in Targets, NEW l \in Limits, PollCopy(t, l) PROVE QueueKinds
  BY <1>2 DEF PollCopy, env, QueueKinds
<1>3. CASE PollRemove \/ Tick \/ Stop \/ UNCHANGED vars
  BY <1>3 DEF PollRemove, Tick, Stop, vars, env, QueueKinds
<1>4. CASE RouteEvent \/ DequeueStop
  BY <1>4 DEF RouteEvent, DequeueStop, env, QueueKinds
<1>5. CASE PushPolled \/ StartScan \/ Scan \/ FlushAll
  BY <1>5 DEF PushPolled, StartScan, Scan, FlushAll, env, QueueKinds
<1>6. CASE NoUrl \/ RequestOk \/ RequestFails
  BY <1>6 DEF NoUrl, RequestOk, RequestFails, Return, env, QueueKinds
<1> QED
  BY <1>1, <1>2, <1>3, <1>4, <1>5, <1>6 DEF Next, WorkerStep

(* The order of the queue stays, and what is early stays early.            *)
LEMMA QueueStep ==
  ASSUME TypeOK, QueueOrder, [Next]_vars
  PROVE  QueueOrder' /\ \A e \in Event : Early(e, q, pushed) => Early(e, q', pushed')
<1>1. q \in Seq(Item \union {STOP}) /\ pushed \in Nat
  BY DEF TypeOK
<1>2. PICK n \in Nat : n = Len(q)
  BY <1>1, LenProperties
<1>3. DOMAIN q = 1..n /\ \A i \in 1..n : q[i] # STOP => q[i].event \in Nat
  <2>1. DOMAIN q = 1..n /\ \A i \in 1..n : q[i] \in Item \union {STOP}
    BY <1>1, <1>2, LenProperties, ElementOfSeq
  <2> QED
    BY <2>1 DEF Item, Event
<1>4. CASE q' = q /\ pushed' = pushed
  BY <1>4 DEF QueueOrder, Early, Ahead
<1>5. ASSUME NEW x \in Item \union {STOP}, q' = Append(q, x),
             x # STOP => x.event = pushed + 1 /\ pushed' = pushed + 1,
             pushed' = pushed \/ pushed' = pushed + 1
      PROVE  QueueOrder' /\ \A e \in Event : Early(e, q, pushed) => Early(e, q', pushed')
  <2>1. /\ DOMAIN q' = 1..n + 1 /\ q'[n + 1] = x
        /\ \A i \in 1..n : q'[i] = q[i]
    <3>1. /\ q' \in Seq(Item \union {STOP}) /\ Len(q') = n + 1 /\ q'[n + 1] = x
          /\ \A i \in 1..n : q'[i] = q[i]
      BY <1>1, <1>2, <1>5, AppendProperties
    <3> QED
      BY <3>1, LenProperties
  <2>2. \A i \in 1..n + 1 : i \in 1..n \/ i = n + 1
    OBVIOUS
  <2>3. ASSUME NEW i \in 1..n + 1, NEW j \in 1..n + 1, i < j, q'[i] # STOP, q'[j] # STOP
        PROVE  q'[i].event < q'[j].event
    <3>1. i \in 1..n /\ q'[i] = q[i]
      BY <2>1, <2>3
    <3>2. CASE j \in 1..n
      BY <1>3, <2>1, <2>3, <3>1, <3>2 DEF QueueOrder
    <3>3. CASE j = n + 1
      <4>1. q[i].event <= pushed /\ q[i].event \in Nat
        BY <1>3, <2>3, <3>1 DEF QueueOrder
      <4>2. q'[j].event = pushed + 1
        BY <1>5, <2>1, <2>3, <3>3
      <4> QED
        BY <1>1, <3>1, <4>1, <4>2
    <3> QED
      BY <2>2, <3>2, <3>3
  <2>4. ASSUME NEW i \in 1..n + 1, q'[i] # STOP PROVE q'[i].event <= pushed'
    <3>1. CASE i \in 1..n
      <4>1. q[i].event <= pushed /\ q[i].event \in Nat /\ q'[i] = q[i]
        BY <1>3, <2>1, <2>4, <3>1 DEF QueueOrder
      <4> QED
        BY <1>1, <1>5, <4>1
    <3>2. CASE i = n + 1
      BY <1>1, <1>5, <2>1, <2>4, <3>2
    <3> QED
      BY <2>2, <3>1, <3>2
  <2>5. ASSUME NEW e \in Event, Early(e, q, pushed) PROVE Early(e, q', pushed')
    <3>1. e \in Nat /\ e <= pushed
      BY <2>5 DEF Early, Event
    <3>2. e <= pushed' /\ e < pushed + 1
      BY <1>1, <1>5, <3>1
    <3>3. ASSUME NEW i \in 1..n + 1, q'[i] # STOP PROVE e < q'[i].event
      <4>1. CASE i \in 1..n
        BY <1>3, <2>1, <2>5, <3>3, <4>1 DEF Early, Ahead
      <4>2. CASE i = n + 1
        BY <1>5, <2>1, <3>2, <3>3, <4>2
      <4> QED
        BY <2>2, <4>1, <4>2
    <3> QED
      BY <2>1, <3>2, <3>3 DEF Early, Ahead
  <2> QED
    BY <2>1, <2>3, <2>4, <2>5 DEF QueueOrder
<1>6. CASE q # <<>> /\ q' = Tail(q) /\ pushed' = pushed
  <2>1. PICK m \in Nat : m = n - 1 /\ DOMAIN q' = 1..m /\ \A i \in 1..m : q'[i] = q[i + 1]
    <3>1. /\ q' \in Seq(Item \union {STOP}) /\ Len(q') = Len(q) - 1
          /\ \A i \in 1..Len(q') : q'[i] = q[i + 1]
      BY <1>1, <1>6, HeadTailProperties
    <3>2. PICK m \in Nat : m = Len(q') /\ DOMAIN q' = 1..m
      BY <3>1, LenProperties
    <3> QED
      BY <1>2, <3>1, <3>2
  <2>2. \A i \in 1..m : i + 1 \in 1..n
    BY <2>1
  <2>3. \A i, j \in 1..m : i < j => i + 1 < j + 1
    OBVIOUS
  <2>4. ASSUME NEW i \in 1..m, NEW j \in 1..m, i < j, q'[i] # STOP, q'[j] # STOP
        PROVE  q'[i].event < q'[j].event
    <3>1. i + 1 \in DOMAIN q /\ j + 1 \in DOMAIN q /\ i + 1 < j + 1
      BY <1>3, <2>2, <2>3, <2>4
    <3>2. q'[i] = q[i + 1] /\ q'[j] = q[j + 1]
      BY <2>1
    <3> QED
      BY <2>4, <3>1, <3>2 DEF QueueOrder
  <2>5. \A i \in 1..m : q'[i] # STOP => q'[i].event <= pushed'
    BY <1>3, <1>6, <2>1, <2>2 DEF QueueOrder
  <2>6. ASSUME NEW e \in Event, Early(e, q, pushed) PROVE Early(e, q', pushed')
    BY <1>3, <1>6, <2>1, <2>2, <2>6 DEF Early, Ahead
  <2> QED
    BY <2>1, <2>4, <2>5, <2>6 DEF QueueOrder
<1>7. STOP \in Item \union {STOP}
  OBVIOUS
<1>8. ASSUME NEW t \in Targets, pushed' = pushed + 1,
             q' = Append(q, [event |-> pushed + 1, target |-> t])
      PROVE  QueueOrder' /\ \A e \in Event : Early(e, q, pushed) => Early(e, q', pushed')
  <2>1. pushed' \in 0..MaxEvents
    BY NextType DEF TypeOK
  <2>2. pushed + 1 \in Event
    BY <1>1, <1>8, <2>1 DEF Event
  <2>3. [event |-> pushed + 1, target |-> t] \in Item
    BY <2>2 DEF Item
  <2> QED
    BY <1>5, <1>8, <2>3
<1>9. CASE q' = Append(q, STOP) /\ pushed' = pushed
  BY <1>5, <1>7, <1>9
<1> QED
  BY <1>4, <1>6, <1>8, <1>9, QueueStepKinds DEF QueueKinds

-----------------------------------------------------------------------------
(* The invariant of polls: what was handed out is in order and before what *)
(* is being pushed, which is before what waits; and every event that was   *)
(* to be handed out is there, on its way, or was crossed by a poll.        *)
Order(t) ==
  /\ InOrder(Handed(t))
  /\ \A i \in DOMAIN Handed(t) :
       Early(Handed(t)[i], q, pushed) /\ (appending # None => Handed(t)[i] < appending.event)

HasEvent(s, e) == \E j \in DOMAIN s : s[j] = e

Pushing(a, t, e) == a # None /\ a.to = t /\ a.event = e

Cover(t) ==
  \A i \in DOMAIN posted[t] :
    \/ posted[t][i] \in crossed \/ Pushing(appending, t, posted[t][i])
    \/ HasEvent(Handed(t), posted[t][i])

PInv ==
  /\ TypeOK /\ QueueOrder
  /\ appending # None => Early(appending.event, q, pushed)
  /\ \A t \in Targets : Order(t) /\ Cover(t)

LEMMA InitPolls == Init => PInv
<1> SUFFICES ASSUME Init PROVE PInv
  OBVIOUS
<1>1. DOMAIN <<>> = {}
  OBVIOUS
<1>2. ASSUME NEW t \in Targets PROVE Handed(t) = <<>> /\ posted[t] = <<>>
  <2>1. polled[t] = <<>> /\ Underway(t) = <<>> /\ Pending(t) = <<>> /\ posted[t] = <<>>
    BY DEF Init, Underway, Pending
  <2>2. <<>> \o <<>> = <<>>
    BY EmptySeq, ConcatEmptySeq
  <2> QED
    BY <2>1, <2>2 DEF Handed
<1>3. QueueOrder
  BY <1>1 DEF Init, QueueOrder
<1>4. \A t \in Targets : Order(t) /\ Cover(t)
  BY <1>1, <1>2 DEF Order, Cover, InOrder
<1> QED
  BY <1>3, <1>4, InitType DEF PInv, Init

(* Order is kept when nothing comes to what was handed out, and no other   *)
(* event is being pushed.                                                  *)
LEMMA OrderKept ==
  ASSUME TypeOK, QueueOrder, [Next]_vars, NEW t \in Targets, Order(t), InOrder(Handed(t))',
         \A i \in DOMAIN Handed(t)' : HasEvent(Handed(t), Handed(t)'[i]),
         appending' # None => appending # None /\ appending'.event = appending.event
  PROVE  Order(t)'
<1>1. ASSUME NEW i \in DOMAIN Handed(t)'
      PROVE  /\ Early(Handed(t)'[i], q', pushed')
             /\ appending' # None => Handed(t)'[i] < appending'.event
  <2>1. PICK j \in DOMAIN Handed(t) : Handed(t)[j] = Handed(t)'[i]
    BY <1>1 DEF HasEvent
  <2>2. Handed(t)[j] \in Event
    BY HandedParts, ElementOfSeq, LenProperties
  <2>3. Early(Handed(t)[j], q', pushed')
    BY <2>2, QueueStep DEF Order
  <2>4. appending' # None => Handed(t)[j] < appending'.event
    BY DEF Order
  <2> QED
    BY <2>1, <2>3, <2>4 DEF Early, Ahead
<1> QED
  BY <1>1 DEF Order

(* The event that is next in the queue.                                    *)
LEMMA NextEvent ==
  ASSUME TypeOK, QueueOrder, q # <<>>, Head(q) # STOP, q' = Tail(q), pushed' = pushed
  PROVE  /\ Head(q).target \in Targets /\ Head(q).event \in Event
         /\ Early(Head(q).event, q', pushed')
         /\ \A e \in Event : Early(e, q, pushed) => e < Head(q).event
<1>1. q \in Seq(Item \union {STOP})
  BY DEF TypeOK
<1>2. PICK n \in Nat : n = Len(q) /\ n # 0 /\ DOMAIN q = 1..n
  BY <1>1, EmptySeq, LenProperties
<1>3. PICK x \in Item : x = Head(q) /\ x = q[1]
  BY <1>1, HeadTailProperties
<1>4. 1 \in DOMAIN q
  BY <1>2
<1>5. x.target \in Targets /\ x.event \in Event
  BY DEF Item
<1>6. x.event <= pushed /\ \A e \in Event : Early(e, q, pushed) => e < x.event
  BY <1>3, <1>4 DEF QueueOrder, Early, Ahead
<1>7. ASSUME NEW i \in DOMAIN q', q'[i] # STOP PROVE x.event < q'[i].event
  <2>1. /\ q' \in Seq(Item \union {STOP}) /\ Len(q') = n - 1
        /\ \A k \in 1..Len(q') : q'[k] = q[k + 1]
    BY <1>1, <1>2, HeadTailProperties
  <2>2. i \in 1..n - 1
    BY <1>7, <2>1, LenProperties
  <2>3. i + 1 \in DOMAIN q /\ 1 < i + 1 /\ q'[i] = q[i + 1]
    BY <1>2, <2>1, <2>2
  <2> QED
    BY <1>3, <1>4, <1>7, <2>3 DEF QueueOrder
<1> QED
  BY <1>3, <1>5, <1>6, <1>7 DEF Early, Ahead

LEMMA NextPolls == PInv /\ [Next]_vars => PInv'
<1> SUFFICES ASSUME PInv, [Next]_vars PROVE PInv'
  OBVIOUS
<1>1. TypeOK /\ TypeOK' /\ QueueOrder /\ QueueOrder'
  BY NextType, QueueStep DEF PInv
<1>2. \A e \in Event : Early(e, q, pushed) => Early(e, q', pushed')
  BY <1>1, QueueStep
<1>3. \A t \in Targets : Order(t) /\ Cover(t)
  BY DEF PInv
<1>4. appending # None => appending.event \in Event /\ Early(appending.event, q, pushed)
  BY <1>1 DEF PInv, TypeOK, Hold
<1>5. ASSUME UNCHANGED <<polls, pollbuf>> PROVE PInv'
  <2>1. ASSUME NEW t \in Targets PROVE Order(t)' /\ Cover(t)'
    <3>1. Handed(t)' = Handed(t)
      BY <1>5 DEF Handed, Underway, Pending, polls
    <3>2. Order(t)'
      BY <1>1, <1>3, <1>5, <3>1, OrderKept DEF Order, HasEvent, polls
    <3>3. Cover(t)'
      BY <1>3, <1>5, <3>1 DEF Cover, Pushing, HasEvent, polls
    <3> QED
      BY <3>2, <3>3
  <2>2. appending' # None => Early(appending'.event, q', pushed')
    BY <1>2, <1>4, <1>5 DEF polls
  <2> QED
    BY <1>1, <2>1, <2>2 DEF PInv
<1>6. CASE RouteEvent
  <2> DEFINE u == Head(q).target
             e == Head(q).event
  <2>1. /\ u \in Targets /\ e \in Event /\ Early(e, q', pushed')
        /\ \A d \in Event : Early(d, q, pushed) => d < e
    BY <1>1, <1>6, NextEvent DEF RouteEvent, env
  <2>2. CASE ToPoll(u, e)
    <3>1. /\ appending = None /\ appending' # None /\ appending'.event = e /\ appending'.to = u
          /\ posted' = [posted EXCEPT ![u] = Append(@, e)]
          /\ UNCHANGED <<pollbuf, flushing, polled, crossed>>
      <4>1. appending' = [to |-> u, event |-> e, live |-> TRUE]
        BY <2>2 DEF ToPoll
      <4>2. appending' \in Hold
        BY <2>1, <4>1 DEF Hold
      <4>3. appending = None /\ UNCHANGED <<pollbuf, flushing, polled, crossed>>
        BY <1>1, <1>6 DEF RouteEvent, TypeOK
      <4>4. posted' = [posted EXCEPT ![u] = Append(@, e)]
        BY <2>2 DEF ToPoll, Put
      <4> QED
        BY <4>1, <4>2, <4>3, <4>4
    <3>2. ASSUME NEW t \in Targets PROVE Order(t)' /\ Cover(t)'
      <4>1. Handed(t)' = Handed(t)
        BY <3>1 DEF Handed, Underway, Pending
      <4>2. \A i \in DOMAIN Handed(t) : Handed(t)[i] \in Event
        BY <1>1, HandedParts, ElementOfSeq, LenProperties
      <4>3. Order(t)'
        BY <1>2, <1>3, <2>1, <3>1, <4>1, <4>2 DEF Order
      <4>4. CASE t = u
        <5>1. PICK k \in Nat : k = Len(posted[t])
          BY <1>1, LenProperties DEF TypeOK
        <5>2. posted'[t] = Append(posted[t], e) /\ posted[t] \in Seq(Event)
          BY <1>1, <3>1, <4>4 DEF TypeOK
        <5>3. /\ Append(posted[t], e) \in Seq(Event) /\ Len(Append(posted[t], e)) = k + 1
              /\ \A i \in 1..k : Append(posted[t], e)[i] = posted[t][i]
              /\ Append(posted[t], e)[k + 1] = e
          BY <2>1, <5>1, <5>2, AppendProperties
        <5>4. DOMAIN posted'[t] = 1..k + 1 /\ DOMAIN posted[t] = 1..k
          BY <5>1, <5>2, <5>3, LenProperties
        <5>5. \A i \in 1..k + 1 : i \in 1..k \/ i = k + 1
          OBVIOUS
        <5>6. \A i \in 1..k : posted[t][i] \in crossed \/ HasEvent(Handed(t), posted[t][i])
          BY <1>3, <3>1, <5>4 DEF Cover, Pushing
        <5>7. Pushing(appending', t, e)
          BY <3>1, <4>4 DEF Pushing
        <5>8. \A i \in 1..k : posted'[t][i] \in crossed' \/ HasEvent(Handed(t)', posted'[t][i])
          BY <3>1, <4>1, <5>2, <5>3, <5>6, SMTT(30) DEF HasEvent
        <5>9. Pushing(appending', t, posted'[t][k + 1])
          BY <5>2, <5>3, <5>7 DEF Pushing
        <5> QED
          <6>1. ASSUME NEW i \in DOMAIN posted'[t]
                PROVE  \/ posted'[t][i] \in crossed' \/ Pushing(appending', t, posted'[t][i])
                       \/ HasEvent(Handed(t)', posted'[t][i])
            BY <5>4, <5>5, <5>8, <5>9
          <6> QED
            BY <4>3, <6>1 DEF Cover
      <4>5. CASE t # u
        <5>1. posted'[t] = posted[t]
          BY <1>1, <3>1, <4>5 DEF TypeOK
        <5> QED
          BY <1>3, <3>1, <4>1, <4>3, <5>1, SMTT(30) DEF Cover, Pushing, HasEvent
      <4> QED
        BY <4>3, <4>4, <4>5
    <3> QED
      BY <1>1, <2>1, <3>1, <3>2 DEF PInv
  <2>3. CASE ToBroadcast(u, e) \/ ToNobody(u)
    BY <1>5, <1>6, <2>3 DEF RouteEvent, ToBroadcast, ToNobody, polls
  <2> QED
    BY <1>6, <2>2, <2>3 DEF RouteEvent
<1>7. ASSUME NEW u \in Targets, NEW l \in Limits, PollCopy(u, l) PROVE PInv'
  <2>1. UNCHANGED <<pollbuf, appending, posted, polled, crossed>> /\ flushing = None
    BY <1>7 DEF PollCopy
  <2>2. ASSUME NEW t \in Targets PROVE Handed(t)' = Handed(t)
    <3>1. CASE t # u
      BY <1>7, <2>1, <3>1 DEF PollCopy, Handed, Underway, Pending
    <3>2. CASE t = u
      <4>1. PICK p \in Seq(Event), b \in Seq(Event) : p = polled[t] /\ b = pollbuf[t]
        BY <1>1 DEF TypeOK
      <4>2. PICK x \in Seq(Event), y \in Seq(Event) :
              x = Batch(b, l) /\ y = Rest(b, l) /\ Halves(x, y, b)
        BY BatchAndRest
      <4>3. flushing' = [to |-> u, batch |-> x, rest |-> y]
        BY <1>7, <3>2, <4>1, <4>2 DEF PollCopy, PollRest
      <4>4. flushing' # None
        BY <4>3 DEF Request
      <4>5. Handed(t)' = (p \o x) \o y
        BY <2>1, <3>2, <4>1, <4>3, <4>4 DEF Handed, Underway, Pending
      <4>6. Handed(t) = (p \o <<>>) \o b
        BY <2>1, <4>1 DEF Handed, Underway, Pending
      <4>7. p \o <<>> = p
        BY ConcatEmptySeq
      <4>8. (p \o x) \o y = p \o (x \o y)
        BY ConcatAssociative
      <4>9. x \o y = b
        BY <4>2, HalvesConcat
      <4> QED
        BY <4>5, <4>6, <4>7, <4>8, <4>9
    <3> QED
      BY <3>1, <3>2
  <2>3. ASSUME NEW t \in Targets PROVE Order(t)' /\ Cover(t)'
    <3>1. Order(t)'
      BY <1>1, <1>3, <2>1, <2>2, OrderKept DEF Order, HasEvent
    <3> QED
      BY <1>3, <2>1, <2>2, <3>1 DEF Cover, Pushing, HasEvent
  <2>4. appending' # None => Early(appending'.event, q', pushed')
    BY <1>2, <1>4, <2>1
  <2> QED
    BY <1>1, <2>3, <2>4 DEF PInv
<1>8. CASE PollRemove
  <2>1. PICK u \in Targets, x \in Seq(Event), y \in Seq(Event) :
          flushing # None /\ u = flushing.to /\ x = flushing.batch /\ y = flushing.rest
    BY <1>1, <1>8 DEF PollRemove, TypeOK, Request
  <2>2. /\ flushing' = None /\ posted' = posted
        /\ pollbuf' = [pollbuf EXCEPT ![u] = y]
        /\ \/ polled' = [polled EXCEPT ![u] = @ \o x] /\ crossed' = crossed
           \/ polled' = polled /\ crossed' = crossed \union {x[i] : i \in DOMAIN x}
    BY <1>8, <2>1 DEF PollRemove
  <2>3. /\ appending' # None => appending # None
        /\ appending # None => /\ appending' # None /\ appending'.event = appending.event
                               /\ appending'.to = appending.to
    <3>1. appending' = appending \/ (appending # None /\ appending' = [appending EXCEPT !.live = FALSE])
      BY <1>8 DEF PollRemove
    <3>2. appending # None => appending \in Hold
      BY <1>1 DEF TypeOK
    <3>3. appending \in Hold => [appending EXCEPT !.live = FALSE] \in Hold
      BY DEF Hold
    <3>4. appending \in Hold => /\ [appending EXCEPT !.live = FALSE].event = appending.event
                                /\ [appending EXCEPT !.live = FALSE].to = appending.to
      BY DEF Hold
    <3> QED
      BY <3>1, <3>2, <3>3, <3>4
  <2>4. ASSUME NEW t \in Targets
        PROVE  \/ Handed(t)' = Handed(t)
               \/ \E p \in Seq(Event) :
                    /\ Handed(t) = (p \o x) \o y /\ Handed(t)' = p \o y
                    /\ crossed' = crossed \union {x[i] : i \in DOMAIN x}
    <3>1. CASE t # u
      BY <1>1, <2>1, <2>2, <3>1 DEF TypeOK, Handed, Underway, Pending
    <3>2. CASE t = u
      <4>1. PICK p \in Seq(Event) : p = polled[t]
        BY <1>1 DEF TypeOK
      <4>2. Handed(t) = (p \o x) \o y
        BY <2>1, <3>2, <4>1 DEF Handed, Underway, Pending
      <4>3. Handed(t)' = (polled'[t] \o <<>>) \o y
        BY <1>1, <2>2, <3>2 DEF TypeOK, Handed, Underway, Pending
      <4>4. p \o <<>> = p /\ (p \o x) \o <<>> = p \o x
        BY ConcatEmptySeq, ConcatProperties
      <4>5. CASE polled' = [polled EXCEPT ![u] = @ \o x]
        <5>1. polled'[t] = p \o x
          BY <1>1, <3>2, <4>1, <4>5 DEF TypeOK
        <5> QED
          BY <4>2, <4>3, <4>4, <5>1
      <4>6. CASE polled' = polled /\ crossed' = crossed \union {x[i] : i \in DOMAIN x}
        BY <4>1, <4>2, <4>3, <4>4, <4>6
      <4> QED
        BY <2>2, <4>5, <4>6
    <3> QED
      BY <3>1, <3>2
  <2>5. ASSUME NEW t \in Targets PROVE Order(t)' /\ Cover(t)'
    <3>1. CASE Handed(t)' = Handed(t)
      <4>1. Order(t)'
        BY <1>1, <1>3, <2>3, <3>1, OrderKept DEF Order, HasEvent
      <4>2. \A d : d \in crossed => d \in crossed'
        BY <2>2
      <4>3. \A d : Pushing(appending, t, d) => Pushing(appending', t, d)
        BY <2>3 DEF Pushing
      <4>4. \A d : HasEvent(Handed(t), d) => HasEvent(Handed(t)', d)
        BY <3>1 DEF HasEvent
      <4>5. Cover(t)'
        BY <1>3, <2>2, <4>2, <4>3, <4>4 DEF Cover
      <4> QED
        BY <4>1, <4>5
    <3>2. ASSUME NEW p \in Seq(Event), Handed(t) = (p \o x) \o y, Handed(t)' = p \o y,
                 crossed' = crossed \union {x[i] : i \in DOMAIN x}
          PROVE  Order(t)' /\ Cover(t)'
      <4> DEFINE h == (p \o x) \o y
                 g == p \o y
      <4>0. Without(h, x, g)
        BY WithoutBatch
      <4> HIDE DEF h, g
      <4>1. /\ InOrder(Handed(t)) => InOrder(Handed(t)')
            /\ \A i \in DOMAIN Handed(t)' :
                 \E j \in DOMAIN Handed(t) : Handed(t)[j] = Handed(t)'[i]
            /\ \A j \in DOMAIN Handed(t) :
                 \/ \E i \in DOMAIN Handed(t)' : Handed(t)'[i] = Handed(t)[j]
                 \/ \E i \in DOMAIN x : x[i] = Handed(t)[j]
        <5>1. Handed(t) = h /\ Handed(t)' = g
          BY <3>2 DEF h, g
        <5> QED
          BY <4>0, <5>1 DEF Without
      <4>2. InOrder(Handed(t))'
        BY <1>3, <4>1 DEF Order, InOrder
      <4>3. Order(t)'
        BY <1>1, <1>3, <2>3, <4>1, <4>2, OrderKept DEF HasEvent
      <4>4. \A d : d \in crossed => d \in crossed'
        BY <3>2
      <4>5. \A d : Pushing(appending, t, d) => Pushing(appending', t, d)
        BY <2>3 DEF Pushing
      <4>6. \A d : HasEvent(Handed(t), d) => HasEvent(Handed(t)', d) \/ d \in crossed'
        <5>1. \A d : (\E i \in DOMAIN x : x[i] = d) => d \in crossed'
          BY <3>2
        <5> QED
          BY <4>1, <5>1 DEF HasEvent
      <4>7. Cover(t)'
        BY <1>3, <2>2, <4>4, <4>5, <4>6 DEF Cover
      <4> QED
        BY <4>3, <4>7
    <3> QED
      BY <2>4, <3>1, <3>2
  <2>6. appending' # None => Early(appending'.event, q', pushed')
    BY <1>2, <1>4, <2>3 DEF Early, Ahead
  <2> QED
    BY <1>1, <2>5, <2>6 DEF PInv
<1>9. CASE PushPolled
  <2>1. PICK u \in Targets, e \in Event :
          appending # None /\ u = appending.to /\ e = appending.event /\ Early(e, q, pushed)
    BY <1>1, <1>4, <1>9 DEF PushPolled, TypeOK, Hold
  <2>2. /\ appending' = None /\ posted' = posted /\ flushing' = flushing /\ polled' = polled
        /\ pollbuf' = IF appending.live THEN [pollbuf EXCEPT ![u] = Append(@, e)] ELSE pollbuf
        /\ crossed' = IF ~appending.live \/ (flushing # None /\ flushing.to = u)
                      THEN crossed \union {e} ELSE crossed
    BY <1>9, <2>1 DEF PushPolled, Put
  <2>3. \A d : d \in crossed => d \in crossed'
    BY <2>2
  <2>4. ASSUME NEW t \in Targets
        PROVE  \/ Handed(t)' = Handed(t) /\ (t = u => e \in crossed')
               \/ t = u /\ Handed(t)' = Append(Handed(t), e)
    <3>1. CASE t # u
      BY <1>1, <2>2, <3>1 DEF TypeOK, Handed, Underway, Pending
    <3>2. CASE ~appending.live \/ (flushing # None /\ flushing.to = u)
      BY <1>1, <2>2, <3>1, <3>2 DEF TypeOK, Handed, Underway, Pending
    <3>3. CASE t = u /\ appending.live /\ ~(flushing # None /\ flushing.to = u)
      <4>1. PICK p \in Seq(Event), b \in Seq(Event) : p = polled[t] /\ b = pollbuf[t]
        BY <1>1 DEF TypeOK
      <4>2. Handed(t) = (p \o <<>>) \o b /\ Handed(t)' = (p \o <<>>) \o Append(b, e)
        BY <1>1, <2>2, <3>3, <4>1 DEF TypeOK, Handed, Underway, Pending
      <4>3. p \o <<>> = p /\ <<e>> \in Seq(Event) /\ Append(b, e) = b \o <<e>>
        BY ConcatEmptySeq, AppendIsConcat
      <4>4. p \o b \in Seq(Event) /\ Append(p \o b, e) = (p \o b) \o <<e>>
        BY ConcatProperties, AppendIsConcat
      <4>5. (p \o b) \o <<e>> = p \o (b \o <<e>>)
        BY <4>3, ConcatAssociative
      <4> QED
        BY <3>3, <4>2, <4>3, <4>4, <4>5
    <3> QED
      BY <3>1, <3>2, <3>3
  <2>5. ASSUME NEW t \in Targets PROVE Order(t)' /\ Cover(t)'
    <3>1. CASE Handed(t)' = Handed(t) /\ (t = u => e \in crossed')
      <4>1. Order(t)'
        BY <1>1, <1>3, <2>2, <3>1, OrderKept DEF Order, HasEvent
      <4>2. \A d : Pushing(appending, t, d) => d \in crossed'
        BY <2>1, <3>1 DEF Pushing
      <4>3. \A d : HasEvent(Handed(t), d) => HasEvent(Handed(t)', d)
        BY <3>1 DEF HasEvent
      <4>4. Cover(t)'
        BY <1>3, <2>2, <2>3, <4>2, <4>3 DEF Cover
      <4> QED
        BY <4>1, <4>4
    <3>2. CASE t = u /\ Handed(t)' = Append(Handed(t), e)
      <4>1. PICK s \in Seq(Event) : s = Handed(t)
        BY <1>1, HandedParts
      <4>2. InOrder(s) /\ \A i \in DOMAIN s : Early(s[i], q, pushed) /\ s[i] < e
        BY <1>3, <2>1, <4>1 DEF Order
      <4>3. /\ InOrder(Append(s, e))
            /\ \A i \in DOMAIN Append(s, e) :
                 Append(s, e)[i] = e \/ \E j \in DOMAIN s : s[j] = Append(s, e)[i]
            /\ \E i \in DOMAIN Append(s, e) : Append(s, e)[i] = e
            /\ \A j \in DOMAIN s : \E i \in DOMAIN Append(s, e) : Append(s, e)[i] = s[j]
        BY <4>2, AppendInOrder
      <4>4. PICK c : c = Append(s, e) /\ c = Handed(t)'
        BY <3>2, <4>1
      <4>5. \A j \in DOMAIN s : s[j] \in Event
        BY ElementOfSeq, LenProperties
      <4>6. \A i \in DOMAIN c : Early(c[i], q', pushed')
        BY <1>2, <2>1, <4>2, <4>3, <4>4, <4>5
      <4>7. Order(t)'
        BY <2>2, <4>3, <4>4, <4>6 DEF Order, InOrder
      <4>8. \A d : Pushing(appending, t, d) \/ HasEvent(Handed(t), d) => HasEvent(Handed(t)', d)
        BY <2>1, <4>1, <4>3, <4>4 DEF Pushing, HasEvent
      <4>9. Cover(t)'
        BY <1>3, <2>2, <2>3, <4>8 DEF Cover
      <4> QED
        BY <4>7, <4>9
    <3> QED
      BY <2>4, <3>1, <3>2
  <2> QED
    BY <1>1, <2>2, <2>5 DEF PInv
<1>10. ASSUME NEW t \in Targets, Push(t) \/ LearnNode(t) \/ ForgetNode(t) PROVE PInv'
  BY <1>5, <1>10 DEF Push, LearnNode, ForgetNode
<1>11. CASE Tick \/ Stop \/ UNCHANGED vars
  BY <1>5, <1>11 DEF Tick, Stop, vars, polls
<1>12. CASE StartScan \/ Scan \/ DequeueStop \/ FlushAll
  BY <1>5, <1>12 DEF StartScan, Scan, DequeueStop, FlushAll
<1>13. CASE NoUrl \/ RequestOk \/ RequestFails
  BY <1>5, <1>13 DEF NoUrl, RequestOk, RequestFails, Return
<1> QED
  BY <1>6, <1>7, <1>8, <1>9, <1>10, <1>11, <1>12, <1>13 DEF Next, WorkerStep

(* PolledOnceInOrder: whatever limits polls ask for and wherever they      *)
(* cross a push, events are handed out once and in order, and only those   *)
(* of a lost answer or a crossed push are missing.                         *)
THEOREM PolledTheorem == Spec => []PolledOnceInOrder
<1>1. PInv => PolledOnceInOrder
  <2> SUFFICES ASSUME PInv, NEW t \in Targets
               PROVE  /\ InOrder(Handed(t))
                      /\ \A i \in DOMAIN posted[t] :
                           \/ posted[t][i] \in crossed
                           \/ mode = "append" /\ appending.event = posted[t][i]
                           \/ \E j \in DOMAIN Handed(t) : Handed(t)[j] = posted[t][i]
    BY DEF PolledOnceInOrder, InOrder, Handed
  <2>1. Order(t) /\ Cover(t) /\ (appending # None => mode = "append")
    BY DEF PInv, TypeOK
  <2> QED
    BY <2>1 DEF Order, Cover, Pushing, HasEvent
<1> QED
  BY <1>1, InitPolls, NextPolls, PTL DEF Spec

=============================================================================
