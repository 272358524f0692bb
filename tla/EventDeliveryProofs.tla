------------------------ MODULE EventDeliveryProofs ------------------------
(***************************************************************************)
(* Proofs about EventDelivery, for every set of targets, every bound and   *)
(* every way that requests and answers fail: its types, that broadcasting  *)
(* loses nothing, and that it implements the channel of FifoChannel.       *)
(***************************************************************************)
EXTENDS EventDelivery, SequenceTheorems, TLAPS

-----------------------------------------------------------------------------
(* Batches                                                                 *)

(* A batch and its rest make up the buffer they were taken from.           *)
Halves(batch, rest, buf) ==
  /\ Len(batch) + Len(rest) = Len(buf)
  /\ \A i \in 1..Len(batch) : batch[i] = buf[i]
  /\ \A i \in 1..Len(rest) : rest[i] = buf[Len(batch) + i]

(* What Batch and Rest take of a buffer are its halves, for every limit.   *)
LEMMA BatchAndRest ==
  ASSUME NEW buf \in Seq(Event), NEW limit \in Nat
  PROVE  /\ Batch(buf, limit) \in Seq(Event) /\ Rest(buf, limit) \in Seq(Event)
         /\ Halves(Batch(buf, limit), Rest(buf, limit), buf)
<1>1. Len(buf) \in Nat /\ \A i \in 1..Len(buf) : buf[i] \in Event
  BY LenProperties, ElementOfSeq
<1>2. CASE limit > 0 /\ Len(buf) > limit
  <2> DEFINE b == SubSeq(buf, 1, limit)
             r == SubSeq(buf, limit + 1, Len(buf))
  <2>1. b \in Seq(Event) /\ Len(b) = limit /\ \A i \in 1..limit : b[i] = buf[i]
    <3>1. \A i \in 1..limit : buf[i] \in Event
      BY <1>1, <1>2
    <3>2. /\ b \in Seq(Event) /\ Len(b) = IF 1 <= limit THEN limit - 1 + 1 ELSE 0
          /\ \A i \in 1..limit - 1 + 1 : b[i] = buf[1 + i - 1]
      BY <3>1, SubSeqProperties
    <3> HIDE DEF b
    <3> QED
      BY <1>2, <3>2
  <2>2. /\ r \in Seq(Event) /\ Len(r) = Len(buf) - limit
        /\ \A i \in 1..Len(buf) - limit : r[i] = buf[limit + i]
    <3>1. \A i \in limit + 1..Len(buf) : buf[i] \in Event
      BY <1>1, <1>2
    <3>2. limit + 1 \in Int /\ Len(buf) \in Int
      BY <1>1
    <3>3. /\ r \in Seq(Event)
          /\ Len(r) = IF limit + 1 <= Len(buf) THEN Len(buf) - (limit + 1) + 1 ELSE 0
          /\ \A i \in 1..Len(buf) - (limit + 1) + 1 : r[i] = buf[limit + 1 + i - 1]
      BY <3>1, <3>2, SubSeqProperties
    <3> HIDE DEF r
    <3> QED
      BY <1>1, <1>2, <3>3
  <2>3. Batch(buf, limit) = b /\ Rest(buf, limit) = r
    BY <1>2 DEF Batch, Rest
  <2> HIDE DEF b, r
  <2>4. Halves(b, r, buf)
    BY <1>1, <1>2, <2>1, <2>2 DEF Halves
  <2> QED
    BY <2>1, <2>2, <2>3, <2>4
<1>3. CASE ~(limit > 0 /\ Len(buf) > limit)
  <2>1. Batch(buf, limit) = buf /\ Rest(buf, limit) = <<>>
    BY <1>3 DEF Batch, Rest
  <2>2. <<>> \in Seq(Event) /\ Len(<<>>) = 0
    OBVIOUS
  <2>3. Halves(buf, <<>>, buf)
    BY <1>1, <2>2 DEF Halves
  <2> QED
    BY <2>1, <2>2, <2>3
<1> QED
  BY <1>2, <1>3

-----------------------------------------------------------------------------
(* Sequences of events                                                     *)

(* b is the end of r.                                                      *)
IsEnd(b, r) ==
  /\ Len(b) <= Len(r)
  /\ \A i \in 1..Len(b) : b[i] = r[Len(r) - Len(b) + i]

(* Each of the first n events of r is in rec.                              *)
HasFirst(rec, r, n) == \A i \in 1..n : \E j \in DOMAIN rec : rec[j] = r[i]

(* An event appended to both keeps the one the end of the other.           *)
LEMMA EndOfAppend ==
  ASSUME NEW b \in Seq(Event), NEW r \in Seq(Event), NEW e \in Event, IsEnd(b, r)
  PROVE  /\ IsEnd(Append(b, e), Append(r, e))
         /\ Len(Append(r, e)) - Len(Append(b, e)) = Len(r) - Len(b)
<1>1. /\ Len(b) \in Nat /\ Len(r) \in Nat
      /\ Len(Append(b, e)) = Len(b) + 1 /\ Len(Append(r, e)) = Len(r) + 1
      /\ \A i \in 1..Len(b) : Append(b, e)[i] = b[i]
      /\ \A i \in 1..Len(r) : Append(r, e)[i] = r[i]
      /\ Append(b, e)[Len(b) + 1] = e /\ Append(r, e)[Len(r) + 1] = e
  BY LenProperties, AppendProperties
<1> DEFINE bb == Append(b, e)
           rr == Append(r, e)
<1>2. /\ Len(bb) = Len(b) + 1 /\ Len(rr) = Len(r) + 1
      /\ \A i \in 1..Len(b) : bb[i] = b[i]
      /\ \A i \in 1..Len(r) : rr[i] = r[i]
      /\ bb[Len(b) + 1] = e /\ rr[Len(r) + 1] = e
  BY <1>1
<1> HIDE DEF bb, rr
<1>3. ASSUME NEW i \in 1..Len(bb) PROVE bb[i] = rr[Len(rr) - Len(bb) + i]
  <2>1. CASE i \in 1..Len(b)
    <3>1. b[i] = r[Len(r) - Len(b) + i] /\ Len(r) - Len(b) + i \in 1..Len(r)
      BY <1>1, <2>1 DEF IsEnd
    <3>2. Len(rr) - Len(bb) + i = Len(r) - Len(b) + i
      BY <1>1, <1>2
    <3> QED
      BY <1>2, <2>1, <3>1, <3>2
  <2>2. CASE i = Len(b) + 1
    <3>1. Len(rr) - Len(bb) + i = Len(r) + 1
      BY <1>1, <1>2, <2>2
    <3> QED
      BY <1>2, <2>2, <3>1
  <2> QED
    BY <1>1, <1>2, <2>1, <2>2
<1>4. IsEnd(bb, rr) /\ Len(rr) - Len(bb) = Len(r) - Len(b)
  BY <1>1, <1>2, <1>3 DEF IsEnd
<1> QED
  BY <1>4 DEF bb, rr

(* What was received of r before an append was received after it.          *)
LEMMA HasFirstAppend ==
  ASSUME NEW rec, NEW r \in Seq(Event), NEW e \in Event, NEW n \in Nat, n <= Len(r),
         HasFirst(rec, r, n)
  PROVE  HasFirst(rec, Append(r, e), n)
<1>1. \A i \in 1..n : Append(r, e)[i] = r[i]
  BY LenProperties, AppendProperties
<1> QED
  BY <1>1 DEF HasFirst

(* The rest of a buffer ends what the buffer ends.                         *)
LEMMA EndOfRest ==
  ASSUME NEW b \in Seq(Event), NEW r \in Seq(Event), NEW x \in Seq(Event),
         NEW y \in Seq(Event), IsEnd(b, r), Halves(x, y, b)
  PROVE  IsEnd(y, r) /\ Len(r) - Len(y) = Len(r) - Len(b) + Len(x)
<1>1. PICK n \in Nat, m \in Nat, k \in Nat, l \in Nat :
        n = Len(r) /\ m = Len(b) /\ k = Len(x) /\ l = Len(y)
  BY LenProperties
<1>2. k + l = m /\ m <= n
  BY <1>1 DEF Halves, IsEnd
<1>3. \A i \in 1..m : b[i] = r[n - m + i]
  BY <1>1 DEF IsEnd
<1>4. \A i \in 1..l : y[i] = b[k + i]
  BY <1>1 DEF Halves
<1>5. ASSUME NEW i \in 1..l PROVE y[i] = r[n - l + i]
  <2>1. k + i \in 1..m /\ n - m + (k + i) = n - l + i
    BY <1>2
  <2> QED
    BY <1>3, <1>4, <2>1
<1>6. l <= n /\ n - l = n - m + k
  BY <1>2
<1> QED
  BY <1>1, <1>5, <1>6 DEF IsEnd

(* A part of a sequence of events is a sequence of events.                 *)
LEMMA PartOf ==
  ASSUME NEW r, NEW f \in Int, NEW g \in Int, \A i \in f..g : r[i] \in Event
  PROVE  /\ SubSeq(r, f, g) \in Seq(Event)
         /\ Len(SubSeq(r, f, g)) = IF f <= g THEN g - f + 1 ELSE 0
         /\ \A i \in 1..g - f + 1 : SubSeq(r, f, g)[i] = r[f + i - 1]
  BY SubSeqProperties

(* x is a run of r, behind its first a events.                             *)
RunFrom(x, r, a) ==
  /\ \A i \in 1..Len(x) : x[i] = r[a + i]
  /\ x = SubSeq(r, a + 1, a + Len(x))

(* A batch of a buffer that ends r is a run of r, from the first event     *)
(* that is in the buffer.                                                  *)
LEMMA BatchIsRun ==
  ASSUME NEW b \in Seq(Event), NEW r \in Seq(Event), NEW x \in Seq(Event),
         NEW y \in Seq(Event), IsEnd(b, r), Halves(x, y, b)
  PROVE  RunFrom(x, r, Len(r) - Len(b))
<1>1. PICK n \in Nat, m \in Nat, k \in Nat, l \in Nat :
        n = Len(r) /\ m = Len(b) /\ k = Len(x) /\ l = Len(y)
  BY LenProperties
<1>2. k + l = m /\ m <= n
  BY <1>1 DEF Halves, IsEnd
<1> DEFINE a == n - m
<1>3. \A i \in 1..m : b[i] = r[n - m + i]
  BY <1>1 DEF IsEnd
<1>4. \A i \in 1..k : x[i] = b[i]
  BY <1>1 DEF Halves
<1>5. ASSUME NEW i \in 1..k PROVE x[i] = r[a + i]
  <2>1. i \in 1..m
    BY <1>2
  <2>2. x[i] = b[i] /\ b[i] = r[n - m + i]
    BY <1>3, <1>4, <2>1
  <2> QED
    BY <1>2, <2>2
<1> DEFINE f == a + 1
           g == a + k
<1>6. f \in 1..n + 1 /\ g \in 0..n /\ f \in Int /\ g \in Int
  BY <1>2
<1>7. \A i \in f..g : i \in 1..n
  BY <1>2
<1>8. g - f + 1 = k /\ \A i \in 1..k : f + i - 1 = a + i
  OBVIOUS
<1>9. g = a + Len(x)
  BY <1>1
<1> HIDE DEF g
<1>10. \A i \in f..g : r[i] \in Event
  BY <1>1, <1>7, ElementOfSeq
<1> HIDE DEF f
<1>11. /\ SubSeq(r, f, g) \in Seq(Event)
       /\ Len(SubSeq(r, f, g)) = IF f <= g THEN g - f + 1 ELSE 0
       /\ \A i \in 1..g - f + 1 : SubSeq(r, f, g)[i] = r[f + i - 1]
  BY <1>6, <1>10, PartOf, Zenon
<1>12. Len(SubSeq(r, f, g)) = k
  <2>1. f <= g \/ k = 0
    BY <1>6, <1>8
  <2> QED
    BY <1>6, <1>8, <1>11, <2>1
<1>13. \A i \in 1..k : x[i] = SubSeq(r, f, g)[i]
  BY <1>5, <1>8, <1>11
<1>14. x = SubSeq(r, f, g)
  BY <1>1, <1>11, <1>12, <1>13, SeqEqual
<1> QED
  BY <1>1, <1>5, <1>9, <1>14 DEF f, RunFrom

(* With a batch, all up to its last event has been received.               *)
LEMMA HasFirstBatch ==
  ASSUME NEW r \in Seq(Event), NEW x \in Seq(Event), NEW rec \in Seq(Event),
         NEW a \in Nat, HasFirst(rec, r, a), \A i \in 1..Len(x) : x[i] = r[a + i]
  PROVE  HasFirst(rec \o x, r, a + Len(x)) /\ HasFirst(rec \o x, r, a)
<1> DEFINE rx == rec \o x
<1>1. PICK k \in Nat, l \in Nat : k = Len(x) /\ l = Len(rec)
  BY LenProperties
<1>2. /\ rx \in Seq(Event) /\ Len(rx) = l + k
      /\ \A i \in 1..l + k : rx[i] = IF i <= l THEN rec[i] ELSE x[i - l]
  BY <1>1, ConcatProperties
<1>3. DOMAIN rec = 1..l
  BY <1>1, LenProperties
<1> HIDE DEF rx
<1>4. DOMAIN rx = 1..l + k
  BY <1>2, LenProperties
<1>5. ASSUME NEW i \in 1..a PROVE \E j \in 1..l + k : rx[j] = r[i]
  <2>1. PICK j \in 1..l : rec[j] = r[i]
    BY <1>3 DEF HasFirst
  <2>2. j \in 1..l + k /\ j <= l
    OBVIOUS
  <2>3. rx[j] = rec[j]
    BY <1>2, <2>2
  <2> QED
    BY <2>1, <2>2, <2>3
<1>6. ASSUME NEW i \in a + 1..a + k PROVE \E j \in 1..l + k : rx[j] = r[i]
  <2>1. PICK d \in 1..k : i = a + d
    <3>1. i - a \in 1..k /\ i = a + (i - a)
      OBVIOUS
    <3> QED
      BY <3>1
  <2>2. x[d] = r[i]
    BY <1>1, <2>1
  <2>3. l + d \in 1..l + k /\ ~(l + d <= l) /\ l + d - l = d
    OBVIOUS
  <2>4. rx[l + d] = x[d]
    BY <1>2, <2>3
  <2> QED
    BY <2>2, <2>3, <2>4
<1>7. \A i \in 1..a + k : i \in 1..a \/ i \in a + 1..a + k
  OBVIOUS
<1> QED
  BY <1>1, <1>4, <1>5, <1>6, <1>7 DEF HasFirst, rx

-----------------------------------------------------------------------------
USE DeliveryAssumption

(* Types                                                                   *)

LEMMA InitType == Init => TypeOK
<1> SUFFICES ASSUME Init PROVE TypeOK
  OBVIOUS
<1>1. <<>> \in Seq(Event) /\ <<>> \in Seq(Item \union {STOP})
  OBVIOUS
<1>2. 0 \in 0..MaxEvents /\ 0 \in 0..MaxFails /\ 0 \in Nat
  OBVIOUS
<1> QED
  BY <1>1, <1>2 DEF Init, TypeOK

(* What Flush sets is a request for the target.                            *)
LEMMA FlushType ==
  ASSUME NEW t \in Targets, NEW buf \in Seq(Event), NEW force \in BOOLEAN,
         NEW m \in {"run", "scan", "stop"}, Flush(t, buf, force, m)
  PROVE  /\ sending' \in Request /\ sending' # None /\ mode' = "send" /\ back' = m
         /\ sending'.to = t /\ Halves(sending'.batch, sending'.rest, buf)
<1>1. Limit(force) \in Nat
  BY DEF Limit
<1> QED
  BY <1>1, BatchAndRest DEF Flush, Request

LEMMA NextType == TypeOK /\ [Next]_vars => TypeOK'
<1> SUFFICES ASSUME TypeOK, [Next]_vars PROVE TypeOK'
  OBVIOUS
<1> USE DEF TypeOK
<1>1. ASSUME NEW t \in Targets, Push(t) PROVE TypeOK'
  <2>1. [event |-> pushed + 1, target |-> t] \in Item /\ pushed + 1 \in 0..MaxEvents
    BY <1>1 DEF Push, Item, Event
  <2>2. Append(q, [event |-> pushed + 1, target |-> t]) \in Seq(Item \union {STOP})
    BY <2>1, AppendProperties
  <2> QED
    BY <1>1, <2>1, <2>2 DEF Push, worker, broad, polls
<1>2. ASSUME NEW t \in Targets, LearnNode(t) \/ ForgetNode(t) PROVE TypeOK'
  <2>1. \E ty \in NodeType \union {None} : known' = [known EXCEPT ![t] = ty]
    BY <1>2 DEF LearnNode, ForgetNode
  <2>2. changes' \in Nat /\ dropped' \subseteq Targets
    <3>1. changes' = changes \/ changes' = changes + 1
      BY <1>2 DEF LearnNode, ForgetNode
    <3>2. dropped' \subseteq dropped
      BY <1>2 DEF LearnNode, ForgetNode
    <3> QED
      BY <3>1, <3>2
  <2>3. UNCHANGED <<q, worker, broad, pollbuf, timeouts, received, polls, pushed, fails>>
    BY <1>2 DEF LearnNode, ForgetNode
  <2> QED
    BY <2>1, <2>2, <2>3 DEF worker, broad, polls
<1>3. ASSUME NEW t \in Targets, NEW l \in Limits, PollCopy(t, l) PROVE TypeOK'
  <2>1. Batch(pollbuf[t], l) \in Seq(Event) /\ Rest(pollbuf[t], l) \in Seq(Event)
    BY BatchAndRest
  <2>2. flushing' \in Request
    BY <1>3, <2>1 DEF PollCopy, PollRest, Request
  <2> QED
    BY <1>3, <2>2 DEF PollCopy, worker, broad, env
<1>4. CASE PollRemove
  <2> DEFINE t == flushing.to
  <2>1. t \in Targets /\ flushing.batch \in Seq(Event) /\ flushing.rest \in Seq(Event)
    BY <1>4 DEF PollRemove, Request
  <2>2. pollbuf' \in [Targets -> Seq(Event)]
    BY <1>4, <2>1 DEF PollRemove
  <2>3. appending' \in Hold \union {None} /\ (appending' # None <=> appending # None)
    BY <1>4 DEF PollRemove, Hold
  <2>4. polled' \in [Targets -> Seq(Event)] /\ fails' \in 0..MaxFails
    <3>1. polled[t] \o flushing.batch \in Seq(Event)
      BY <2>1, ConcatProperties
    <3>2. polled' = polled \/ polled' = [polled EXCEPT ![t] = @ \o flushing.batch]
      BY <1>4 DEF PollRemove
    <3>3. fails' = fails \/ (fails < MaxFails /\ fails' = fails + 1)
      BY <1>4 DEF PollRemove
    <3>4. polled' \in [Targets -> Seq(Event)]
      <4> DEFINE v == polled[t] \o flushing.batch
      <4>1. v \in Seq(Event) /\ (polled' = polled \/ polled' = [polled EXCEPT ![t] = v])
        BY <3>1, <3>2
      <4>2. polled \in [Targets -> Seq(Event)] /\ t \in Targets
        BY <2>1
      <4> HIDE DEF v, t, TypeOK
      <4> QED
        BY <4>1, <4>2
    <3>5. fails' \in 0..MaxFails
      BY <3>3
    <3> QED
      BY <3>4, <3>5
  <2>5. flushing' = None
        /\ UNCHANGED <<q, known, worker, broad, timeouts, dropped, received, posted, env>>
    BY <1>4 DEF PollRemove
  <2> HIDE DEF t
  <2> QED
    BY <2>2, <2>3, <2>4, <2>5, SMTT(30) DEF worker, broad, env
<1>5. CASE Tick
  BY <1>5 DEF Tick, worker, polls, env
<1>6. CASE Stop
  <2>1. STOP \in Item \union {STOP}
    OBVIOUS
  <2> QED
    BY <1>6, <2>1, AppendProperties DEF Stop, worker, broad, polls, env
<1>7. CASE RouteEvent
  <2> DEFINE t == Head(q).target
             e == Head(q).event
  <2>1. t \in Targets /\ e \in Event /\ q' \in Seq(Item \union {STOP})
    BY <1>7, HeadTailProperties DEF RouteEvent, Item
  <2>2. UNCHANGED <<known, todo, pollbuf, timeouts, dropped, received, flushing, polled,
                    crossed, env, fails>>
    BY <1>7 DEF RouteEvent
  <2>3. Append(buffers[t], e) \in Seq(Event) /\ Append(routed[t], e) \in Seq(Event)
        /\ Append(posted[t], e) \in Seq(Event)
    BY <2>1, AppendProperties
  <2>4. CASE ToBroadcast(t, e)
    <3>1. buffers' \in [Targets -> Seq(Event)] /\ routed' \in [Targets -> Seq(Event)]
      BY <2>1, <2>3, <2>4 DEF ToBroadcast, BufferPush, Put
    <3>2. UNCHANGED <<appending, posted>>
      BY <2>4 DEF ToBroadcast
    <3>3. CASE Flush(t, buffers'[t], FALSE, "run") /\ age' = [age EXCEPT ![t] = None]
      <4>1. sending' \in Request /\ sending' # None /\ mode' = "send" /\ back' = "run"
        BY <2>1, <3>1, <3>3, FlushType
      <4> QED
        <5>1. appending' = None
          BY <1>7, <3>2 DEF RouteEvent
        <5>2. age' \in [Targets -> (0..MaxWait) \union {None}]
          BY <3>3
        <5> HIDE DEF t, e
        <5> QED
          BY <2>1, <2>2, <3>1, <3>2, <4>1, <5>1, <5>2 DEF env
    <3>4. CASE age' = Started(t) /\ UNCHANGED <<mode, back, sending>>
      BY <2>1, <2>2, <3>1, <3>2, <3>4 DEF Started, env
    <3> QED
      BY <2>4, <3>3, <3>4 DEF ToBroadcast
  <2>5. CASE ToPoll(t, e)
    <3>1. appending' \in Hold /\ appending' # None
      <4>1. [to |-> t, event |-> e, live |-> TRUE] \in Hold
        BY <2>1 DEF Hold
      <4>2. appending' = [to |-> t, event |-> e, live |-> TRUE]
        BY <2>5 DEF ToPoll
      <4> QED
        BY <4>1, <4>2
    <3> QED
      BY <1>7, <2>1, <2>2, <2>3, <2>5, <3>1 DEF RouteEvent, ToPoll, Put, broad, env
  <2>6. CASE ToNobody(t)
    BY <2>1, <2>2, <2>6 DEF ToNobody, broad, env
  <2> QED
    BY <1>7, <2>4, <2>5, <2>6 DEF RouteEvent
<1>8. CASE PushPolled
  <2>1. appending.to \in Targets /\ appending.event \in Event
    BY <1>8 DEF PushPolled, Hold
  <2>2. pollbuf' \in [Targets -> Seq(Event)]
    BY <1>8, <2>1, AppendProperties DEF PushPolled, Put
  <2> QED
    BY <1>8, <2>2 DEF PushPolled, broad, env
<1>9. CASE StartScan
  BY <1>9 DEF StartScan, NonEmpty, broad, polls, env
<1>10. CASE Scan
  <2>1. ASSUME NEW t \in todo, Flush(t, buffers[t], FALSE, "scan")
        PROVE  sending' \in Request /\ sending' # None /\ mode' = "send" /\ back' = "scan"
    BY <2>1, FlushType
  <2> QED
    BY <1>10, <2>1 DEF Scan, polls, env
<1>11. CASE DequeueStop
  BY <1>11, HeadTailProperties DEF DequeueStop, NonEmpty, broad, polls, env
<1>12. CASE FlushAll
  <2>1. ASSUME NEW t \in todo, Flush(t, buffers[t], TRUE, "stop")
        PROVE  sending' \in Request /\ sending' # None /\ mode' = "send" /\ back' = "stop"
    BY <2>1, FlushType
  <2> QED
    BY <1>12, <2>1 DEF FlushAll, polls, env
<1>13. CASE NoUrl \/ RequestOk \/ RequestFails
  <2> DEFINE t == sending.to
  <2>1. t \in Targets /\ sending.batch \in Seq(Event) /\ sending.rest \in Seq(Event)
    BY <1>13 DEF NoUrl, RequestOk, RequestFails, Request
  <2>2. Return /\ mode' = back /\ sending' = None
    BY <1>13 DEF NoUrl, RequestOk, RequestFails, Return
  <2>3. buffers' \in [Targets -> Seq(Event)]
    BY <1>13, <2>1 DEF NoUrl, RequestOk, RequestFails, Committed, RolledBack
  <2>4. received' \in [Targets -> Seq(Event)]
    <3>1. received[t] \o sending.batch \in Seq(Event)
      BY <2>1, ConcatProperties
    <3> DEFINE v == received[t] \o sending.batch
    <3>2. received' = received \/ received' = [received EXCEPT ![t] = v]
      BY <1>13 DEF NoUrl, RequestOk, RequestFails, Receive
    <3>3. received \in [Targets -> Seq(Event)] /\ t \in Targets /\ v \in Seq(Event)
      BY <2>1, <3>1
    <3> HIDE DEF v, t, TypeOK
    <3> QED
      BY <3>2, <3>3
  <2>5. timeouts' \in [Targets -> Nat] /\ dropped' \subseteq Targets /\ fails' \in 0..MaxFails
    <3>1. timeouts[t] + 1 \in Nat
      BY <2>1
    <3>2. timeouts' = timeouts \/ timeouts' = [timeouts EXCEPT ![t] = 0]
          \/ timeouts' = [timeouts EXCEPT ![t] = timeouts[t] + 1]
      BY <1>13 DEF NoUrl, RequestOk, RequestFails, ConnectionError
    <3>3. dropped' = dropped \/ dropped' = dropped \union {t}
      BY <1>13 DEF NoUrl, RequestOk, RequestFails, ConnectionError
    <3>4. fails' = fails \/ (fails < MaxFails /\ fails' = fails + 1)
      BY <1>13 DEF NoUrl, RequestOk, RequestFails
    <3>5. timeouts' \in [Targets -> Nat]
      <4> HIDE DEF t
      <4>1. [timeouts EXCEPT ![t] = 0] \in [Targets -> Nat]
        OBVIOUS
      <4>2. [timeouts EXCEPT ![t] = timeouts[t] + 1] \in [Targets -> Nat]
        BY <3>1
      <4> QED
        BY <3>2, <4>1, <4>2
    <3>6. fails' \in 0..MaxFails
      BY <3>4
    <3> HIDE DEF t
    <3> QED
      BY <2>1, <3>3, <3>5, <3>6
  <2>6. mode = "send" /\ appending = None
    BY <1>13 DEF NoUrl, RequestOk, RequestFails
  <2> QED
    BY <2>2, <2>3, <2>4, <2>5, <2>6 DEF Return, polls, env
<1>14. CASE UNCHANGED vars
  BY <1>14 DEF vars
<1> QED
  BY <1>1, <1>2, <1>3, <1>4, <1>5, <1>6, <1>7, <1>8, <1>9, <1>10, <1>11, <1>12, <1>13, <1>14
  DEF Next, WorkerStep

(* TypeOK, for every set of targets and every bound.                       *)
THEOREM TypeInvariant == Spec => []TypeOK
  BY InitType, NextType, PTL DEF Spec

-----------------------------------------------------------------------------
(* What a step does to the broadcast path                                  *)

(* It hands a buffer to a request, ends a request, or leaves all alone.    *)
Handing ==
  /\ UNCHANGED <<buffers, routed, received>>
  /\ \/ sending' = sending \/ sending' = None
     \/ \E t \in Targets, force \in BOOLEAN, m \in {"run", "scan", "stop"} :
          Flush(t, buffers[t], force, m)

(* It accepts an event for a full node, and may hand over the buffer.      *)
Accepting(t, e) ==
  /\ sending = None /\ received' = received
  /\ buffers' = [buffers EXCEPT ![t] = Append(@, e)]
  /\ routed' = [routed EXCEPT ![t] = Append(@, e)]
  /\ sending' = None \/ Flush(t, buffers'[t], FALSE, "run")

(* A batch arrives, and the buffer may be told so.                         *)
Delivering ==
  /\ sending # None /\ sending' = None /\ routed' = routed
  /\ received' = [received EXCEPT ![sending.to] = @ \o sending.batch]
  /\ buffers' = buffers \/ buffers' = [buffers EXCEPT ![sending.to] = sending.rest]

(* Every step is one of the three.                                         *)
LEMMA StepKinds ==
  ASSUME TypeOK, [Next]_vars
  PROVE  Handing \/ Delivering \/ \E t \in Targets, e \in Event : Accepting(t, e)
<1>1. ASSUME NEW t \in Targets, Push(t) \/ LearnNode(t) \/ ForgetNode(t) PROVE Handing
  BY <1>1 DEF Push, LearnNode, ForgetNode, worker, broad, Handing
<1>2. ASSUME NEW t \in Targets, NEW l \in Limits, PollCopy(t, l) PROVE Handing
  BY <1>2 DEF PollCopy, worker, broad, Handing
<1>3. CASE PollRemove \/ Tick \/ Stop \/ UNCHANGED vars
  BY <1>3 DEF PollRemove, Tick, Stop, vars, worker, broad, Handing
<1>4. CASE RouteEvent
  <2> DEFINE t == Head(q).target
             e == Head(q).event
  <2>1. t \in Targets /\ e \in Event
    BY <1>4, HeadTailProperties DEF RouteEvent, Item, TypeOK
  <2>2. sending = None /\ received' = received
    BY <1>4 DEF RouteEvent, TypeOK
  <2>3. CASE ToBroadcast(t, e)
    <3>1. Accepting(t, e)
      BY <2>2, <2>3 DEF ToBroadcast, Accepting, BufferPush, Put
    <3> QED
      BY <2>1, <3>1
  <2>4. CASE ToPoll(t, e) \/ ToNobody(t)
    BY <2>2, <2>4 DEF ToPoll, ToNobody, broad, Handing
  <2> QED
    BY <1>4, <2>3, <2>4 DEF RouteEvent
<1>5. CASE PushPolled \/ StartScan \/ DequeueStop \/ NoUrl
  BY <1>5 DEF PushPolled, StartScan, DequeueStop, NoUrl, Return, broad, Handing
<1>6. CASE Scan
  BY <1>6 DEF Scan, Handing, TypeOK
<1>7. CASE FlushAll
  BY <1>7 DEF FlushAll, Handing, TypeOK
<1>8. CASE RequestOk \/ RequestFails
  <2>1. sending # None /\ sending' = None /\ routed' = routed
    BY <1>8 DEF RequestOk, RequestFails, Return, TypeOK
  <2>2. buffers' = buffers \/ buffers' = [buffers EXCEPT ![sending.to] = sending.rest]
    BY <1>8 DEF RequestOk, RequestFails, Committed, RolledBack
  <2>3. CASE Receive(sending.to)
    BY <2>1, <2>2, <2>3 DEF Receive, Delivering
  <2>4. CASE RequestFails /\ received' = received
    BY <2>1, <2>4 DEF RequestFails, RolledBack, Handing
  <2> QED
    BY <1>8, <2>3, <2>4 DEF RequestOk, RequestFails
<1> QED
  BY <1>1, <1>2, <1>3, <1>4, <1>5, <1>6, <1>7, <1>8 DEF Next, WorkerStep

-----------------------------------------------------------------------------
(* The invariant: the buffer of a target is the end of what was routed to  *)
(* it, what is before has been received, and a request carries a batch of  *)
(* the buffer as it is, and knows its rest.                                *)
Intact(t) ==
  /\ IsEnd(buffers[t], routed[t])
  /\ HasFirst(received[t], routed[t], Acked(t))

IInv ==
  /\ TypeOK
  /\ \A t \in Targets : Intact(t)
  /\ sending # None => Halves(sending.batch, sending.rest, buffers[sending.to])

(* What the number of acknowledged events is.                              *)
LEMMA AckedType ==
  ASSUME TypeOK, NEW t \in Targets, IsEnd(buffers[t], routed[t])
  PROVE  Acked(t) \in Nat /\ Acked(t) <= Len(routed[t])
<1>1. buffers[t] \in Seq(Event) /\ routed[t] \in Seq(Event)
  BY DEF TypeOK
<1>2. PICK m \in Nat, n \in Nat : m = Len(buffers[t]) /\ n = Len(routed[t])
  BY <1>1, LenProperties
<1>3. m <= n
  BY <1>2 DEF IsEnd
<1>4. n - m \in Nat /\ n - m <= n
  BY <1>3
<1>5. Acked(t) = n - m
  BY <1>2 DEF Acked
<1> QED
  BY <1>2, <1>4, <1>5

LEMMA InitInv == Init => IInv
<1> SUFFICES ASSUME Init PROVE IInv
  OBVIOUS
<1>1. Len(<<>>) = 0
  OBVIOUS
<1>2. ASSUME NEW t \in Targets PROVE Intact(t)
  <2>1. buffers[t] = <<>> /\ routed[t] = <<>>
    BY DEF Init
  <2> QED
    BY <1>1, <2>1 DEF Intact, IsEnd, HasFirst, Acked
<1> QED
  BY <1>2, InitType DEF Init, IInv

(* What an arrival makes of its target.                                    *)
LEMMA Arrival ==
  ASSUME IInv, Delivering, NEW t \in Targets, t = sending.to
  PROVE  /\ Intact(t)'
         /\ received'[t] = received[t] \o sending.batch
         /\ Acked(t)' = Acked(t) \/ Acked(t)' = Acked(t) + Len(sending.batch)
<1> DEFINE b == buffers[t]
           r == routed[t]
           x == sending.batch
           y == sending.rest
           rec == received[t]
<1>1. b \in Seq(Event) /\ r \in Seq(Event) /\ rec \in Seq(Event)
  BY DEF IInv, TypeOK
<1>2. x \in Seq(Event) /\ y \in Seq(Event) /\ Halves(x, y, b)
  BY DEF IInv, TypeOK, Delivering, Request
<1>3. IsEnd(b, r) /\ HasFirst(rec, r, Acked(t))
  BY DEF IInv, Intact
<1>4. PICK a \in Nat : a = Acked(t)
  BY <1>3, AckedType DEF IInv
<1>5. a = Len(r) - Len(b)
  BY <1>4 DEF Acked
<1>6. routed'[t] = r /\ received'[t] = rec \o x
  BY DEF Delivering, IInv, TypeOK
<1>7. buffers'[t] = b \/ buffers'[t] = y
  BY DEF Delivering, IInv, TypeOK
<1> HIDE DEF b, r, x, y, rec
<1>8. IsEnd(y, r) /\ Len(r) - Len(y) = a + Len(x)
  BY <1>1, <1>2, <1>3, <1>5, EndOfRest
<1>9. HasFirst(rec \o x, r, a + Len(x)) /\ HasFirst(rec \o x, r, a)
  <2>1. \A i \in 1..Len(x) : x[i] = r[a + i]
    BY <1>1, <1>2, <1>3, <1>5, BatchIsRun DEF RunFrom
  <2> QED
    BY <1>1, <1>2, <1>3, <1>4, <2>1, HasFirstBatch
<1>10. Acked(t)' = Len(r) - Len(buffers'[t])
  BY <1>6 DEF Acked
<1>11. CASE buffers'[t] = b
  BY <1>3, <1>4, <1>5, <1>6, <1>9, <1>10, <1>11 DEF Intact, x, rec
<1>12. CASE buffers'[t] = y
  BY <1>4, <1>6, <1>8, <1>9, <1>10, <1>12 DEF Intact, x, rec
<1> QED
  BY <1>7, <1>11, <1>12

LEMMA NextInv == IInv /\ [Next]_vars => IInv'
<1> SUFFICES ASSUME IInv, [Next]_vars PROVE IInv'
  OBVIOUS
<1>1. TypeOK /\ TypeOK'
  BY NextType DEF IInv
<1>2. CASE Handing
  <2>1. \A t \in Targets : Intact(t)'
    BY <1>2 DEF Handing, IInv, Intact, Acked
  <2>2. ASSUME NEW t \in Targets, NEW force \in BOOLEAN, NEW m \in {"run", "scan", "stop"},
               Flush(t, buffers[t], force, m)
        PROVE  Halves(sending'.batch, sending'.rest, buffers[sending'.to])
    <3>1. buffers[t] \in Seq(Event)
      BY <1>1 DEF TypeOK
    <3> QED
      BY <2>2, <3>1, FlushType
  <2>3. sending' # None => Halves(sending'.batch, sending'.rest, buffers'[sending'.to])
    BY <1>2, <2>2 DEF Handing, IInv
  <2> QED
    BY <1>1, <2>1, <2>3 DEF IInv
<1>3. CASE Delivering
  <2>1. sending.to \in Targets
    BY <1>1, <1>3 DEF TypeOK, Delivering, Request
  <2>2. ASSUME NEW t \in Targets PROVE Intact(t)'
    <3>1. CASE t = sending.to
      BY <1>3, <3>1, Arrival
    <3>2. CASE t # sending.to
      <4>1. buffers'[t] = buffers[t] /\ routed'[t] = routed[t] /\ received'[t] = received[t]
        BY <1>1, <1>3, <2>1, <3>2 DEF Delivering, TypeOK
      <4> QED
        BY <4>1 DEF IInv, Intact, Acked
    <3> QED
      BY <3>1, <3>2
  <2> QED
    BY <1>1, <1>3, <2>2 DEF IInv, Delivering
<1>4. ASSUME NEW t \in Targets, NEW e \in Event, Accepting(t, e) PROVE IInv'
  <2>1. ASSUME NEW u \in Targets PROVE Intact(u)'
    <3>1. CASE u = t
      <4>1. /\ buffers'[u] = Append(buffers[u], e) /\ routed'[u] = Append(routed[u], e)
            /\ received' = received
        BY <1>1, <1>4, <3>1 DEF Accepting, TypeOK
      <4>2. buffers[u] \in Seq(Event) /\ routed[u] \in Seq(Event)
        BY <1>1 DEF TypeOK
      <4>3. IsEnd(buffers[u], routed[u]) /\ HasFirst(received[u], routed[u], Acked(u))
        BY DEF IInv, Intact
      <4>4. Acked(u) \in Nat /\ Acked(u) <= Len(routed[u])
        BY <1>1, <4>3, AckedType
      <4>5. IsEnd(buffers'[u], routed'[u]) /\ Acked(u)' = Acked(u)
        <5>1. /\ IsEnd(Append(buffers[u], e), Append(routed[u], e))
              /\ Len(Append(routed[u], e)) - Len(Append(buffers[u], e))
                   = Len(routed[u]) - Len(buffers[u])
          BY <4>2, <4>3, EndOfAppend
        <5> QED
          BY <4>1, <5>1 DEF Acked
      <4>6. HasFirst(received'[u], routed'[u], Acked(u))
        BY <4>1, <4>2, <4>3, <4>4, HasFirstAppend
      <4> QED
        BY <4>5, <4>6 DEF Intact
    <3>2. CASE u # t
      <4>1. buffers'[u] = buffers[u] /\ routed'[u] = routed[u] /\ received' = received
        BY <1>1, <1>4, <3>2 DEF Accepting, TypeOK
      <4> QED
        BY <4>1 DEF IInv, Intact, Acked
    <3> QED
      BY <3>1, <3>2
  <2>2. sending' # None => Halves(sending'.batch, sending'.rest, buffers'[sending'.to])
    <3>1. buffers'[t] \in Seq(Event)
      BY <1>1 DEF TypeOK
    <3>2. CASE Flush(t, buffers'[t], FALSE, "run")
      BY <3>1, <3>2, FlushType
    <3> QED
      BY <1>4, <3>2 DEF Accepting
  <2> QED
    BY <1>1, <2>1, <2>2 DEF IInv
<1> QED
  BY <1>1, <1>2, <1>3, <1>4, StepKinds

LEMMA InvHolds == Spec => []IInv
  BY InitInv, NextInv, PTL DEF Spec

(* BufferIsUnacked: whatever requests and answers fail, nothing that was   *)
(* routed to a full node is lost between the queue and the node.           *)
THEOREM UnackedTheorem == Spec => []BufferIsUnacked
<1>1. IInv => BufferIsUnacked
  <2> SUFFICES ASSUME IInv, NEW t \in Targets
               PROVE  /\ Len(buffers[t]) <= Len(routed[t])
                      /\ buffers[t] = SubSeq(routed[t], Acked(t) + 1, Len(routed[t]))
                      /\ HasFirst(received[t], routed[t], Acked(t))
    BY DEF BufferIsUnacked, HasFirst
  <2>1. buffers[t] \in Seq(Event) /\ routed[t] \in Seq(Event)
    BY DEF IInv, TypeOK
  <2>2. IsEnd(buffers[t], routed[t]) /\ HasFirst(received[t], routed[t], Acked(t))
    BY DEF IInv, Intact
  <2>3. PICK a \in Nat : a = Acked(t) /\ a = Len(routed[t]) - Len(buffers[t])
    BY <2>2, AckedType DEF IInv, Acked
  <2>4. Halves(buffers[t], <<>>, buffers[t]) /\ <<>> \in Seq(Event)
    BY <2>1, LenProperties DEF Halves
  <2>5. buffers[t] = SubSeq(routed[t], a + 1, a + Len(buffers[t]))
    <3> DEFINE b == buffers[t]
               r == routed[t]
    <3>1. b \in Seq(Event) /\ r \in Seq(Event) /\ IsEnd(b, r) /\ Halves(b, <<>>, b)
          /\ a = Len(r) - Len(b)
      BY <2>1, <2>2, <2>3, <2>4
    <3> HIDE DEF b, r
    <3>2. RunFrom(b, r, a)
      BY <2>4, <3>1, BatchIsRun
    <3> QED
      BY <3>2 DEF RunFrom, b, r
  <2>6. a + Len(buffers[t]) = Len(routed[t])
    BY <2>1, <2>3, LenProperties
  <2> QED
    BY <2>2, <2>3, <2>5, <2>6 DEF IsEnd
<1> QED
  BY <1>1, InvHolds, PTL

-----------------------------------------------------------------------------
(* The refinement                                                          *)

(* How far a target's acknowledgements are, for the channel.               *)
ackedAll == [t \in Targets |-> Acked(t)]

(* A batch that arrives is a delivery of the channel, or empty.            *)
LEMMA DeliveryStep ==
  ASSUME IInv, IInv', Delivering
  PROVE  Channel!ChanNext \/ UNCHANGED Channel!chanVars
<1>1. PICK t \in Targets : t = sending.to
  BY DEF IInv, TypeOK, Delivering, Request
<1>2. PICK x \in Seq(Event), y \in Seq(Event) :
        x = sending.batch /\ y = sending.rest /\ Halves(x, y, buffers[t])
  BY <1>1 DEF IInv, TypeOK, Delivering, Request
<1>3. received'[t] = received[t] \o x /\ (Acked(t)' = Acked(t) \/ Acked(t)' = Acked(t) + Len(x))
  BY <1>1, <1>2, Arrival
<1>4. PICK r \in Seq(Event), b \in Seq(Event) : r = routed[t] /\ b = buffers[t]
  BY DEF IInv, TypeOK
<1>5. IsEnd(b, r) /\ Halves(x, y, b)
  BY <1>2, <1>4 DEF IInv, Intact
<1>6. PICK a \in Nat : a = Acked(t) /\ a = Len(r) - Len(b)
  BY <1>4, <1>5, AckedType DEF IInv, Acked
<1>7. PICK k \in Nat : k = Len(x)
  BY LenProperties
<1>8. x = SubSeq(r, a + 1, a + k)
  <2>1. RunFrom(x, r, a)
    BY <1>5, <1>6, BatchIsRun
  <2> QED
    BY <1>7, <2>1 DEF RunFrom
<1>9. a + k <= Len(r)
  <2>1. PICK n \in Nat, m \in Nat, l \in Nat : n = Len(r) /\ m = Len(b) /\ l = Len(y)
    BY LenProperties
  <2>2. k + l = m /\ a = n - m
    BY <1>5, <1>6, <1>7, <2>1 DEF Halves
  <2>3. a + k <= n
    BY <2>2
  <2> QED
    BY <2>1, <2>3
<1>10. \A u \in Targets : u # t => Acked(u)' = Acked(u)
  BY <1>1 DEF Delivering, IInv, TypeOK, Acked
<1>11. ackedAll' = ackedAll \/ ackedAll' = [ackedAll EXCEPT ![t] = a + k]
  BY <1>3, <1>6, <1>7, <1>10 DEF ackedAll
<1>12. received' = [received EXCEPT ![t] = @ \o x] /\ routed' = routed
  BY <1>1, <1>2 DEF Delivering
<1>13. CASE k = 0
  <2>1. x = <<>>
    BY <1>7, <1>13, EmptySeq
  <2>2. received' = received
    <3>1. received[t] \o x = received[t]
      BY <2>1, ConcatEmptySeq DEF IInv, TypeOK
    <3> QED
      BY <1>12, <3>1 DEF IInv, TypeOK
  <2>3. ackedAll' = ackedAll
    <3>1. Acked(t) + Len(x) = Acked(t)
      BY <1>6, <1>7, <1>13
    <3>2. \A u \in Targets : Acked(u)' = Acked(u)
      BY <1>3, <1>10, <3>1
    <3> QED
      BY <3>2 DEF ackedAll
  <2> QED
    BY <1>12, <2>2, <2>3 DEF Channel!chanVars, ackedAll
<1>14. CASE k # 0
  <2>1. a + k > ackedAll[t] /\ a + k <= Len(routed[t]) /\ a + k \in 1..Len(routed[t])
    <3>1. PICK n \in Nat : n = Len(routed[t])
      BY <1>4, LenProperties
    <3>2. a + k > a /\ a + k <= n /\ a + k \in 1..n
      BY <1>4, <1>9, <1>14, <3>1
    <3> QED
      BY <1>6, <3>1, <3>2 DEF ackedAll
  <2>2. received' = [received EXCEPT ![t] = @ \o SubSeq(routed[t], ackedAll[t] + 1, a + k)]
    BY <1>4, <1>6, <1>8, <1>12 DEF ackedAll
  <2>3. Channel!Deliver(t, a + k)
    BY <1>11, <1>12, <2>1, <2>2 DEF Channel!Deliver, ackedAll
  <2> QED
    BY <2>1, <2>3 DEF Channel!ChanNext
<1> QED
  BY <1>13, <1>14

LEMMA ChannelInit == Init => Channel!ChanInit
<1> SUFFICES ASSUME Init PROVE Channel!ChanInit
  OBVIOUS
<1>1. \A t \in Targets : Acked(t) = 0
  <2>1. Len(<<>>) - Len(<<>>) = 0
    OBVIOUS
  <2> QED
    BY <2>1 DEF Init, Acked
<1> QED
  BY <1>1 DEF Init, Channel!ChanInit

LEMMA ChannelStep ==
  ASSUME IInv, IInv', [Next]_vars
  PROVE  Channel!ChanNext \/ UNCHANGED Channel!chanVars
<1>1. CASE Handing
  BY <1>1 DEF Handing, Channel!chanVars, Acked
<1>2. CASE Delivering
  BY <1>2, DeliveryStep
<1>3. ASSUME NEW t \in Targets, NEW e \in Event, Accepting(t, e) PROVE Channel!ChanNext
  <2>1. routed' = [routed EXCEPT ![t] = Append(@, e)] /\ received' = received
    BY <1>3 DEF Accepting
  <2>2. ASSUME NEW u \in Targets PROVE Acked(u)' = Acked(u)
    <3>1. buffers[u] \in Seq(Event) /\ routed[u] \in Seq(Event) /\ IsEnd(buffers[u], routed[u])
      BY DEF IInv, TypeOK, Intact
    <3>2. CASE u = t
      <4>1. Len(Append(routed[u], e)) - Len(Append(buffers[u], e))
              = Len(routed[u]) - Len(buffers[u])
        BY <3>1, EndOfAppend
      <4>2. buffers'[u] = Append(buffers[u], e) /\ routed'[u] = Append(routed[u], e)
        BY <1>3, <3>2 DEF Accepting, IInv, TypeOK
      <4> QED
        BY <4>1, <4>2 DEF Acked
    <3>3. CASE u # t
      BY <1>3, <3>3 DEF Accepting, IInv, TypeOK, Acked
    <3> QED
      BY <3>2, <3>3
  <2>3. UNCHANGED ackedAll
    BY <2>2 DEF ackedAll
  <2>4. Channel!Accept(t, e)
    BY <2>1, <2>3 DEF Channel!Accept, ackedAll
  <2> QED
    BY <2>4 DEF Channel!ChanNext
<1> QED
  BY <1>1, <1>2, <1>3, StepKinds DEF IInv

(* ImplementsChannel: broadcasting implements the at-least-once channel of *)
(* FifoChannel, which repeats but neither loses nor reorders.              *)
THEOREM ChannelTheorem == Spec => ImplementsChannel
<1>1. IInv /\ [Next]_vars => [Channel!ChanNext]_Channel!chanVars
  BY NextInv, ChannelStep
<1>2. Init => Channel!ChanInit
  BY ChannelInit
<1> QED
  BY InvHolds, <1>1, <1>2, PTL DEF Spec, ImplementsChannel, Channel!ChanSpec

=============================================================================
