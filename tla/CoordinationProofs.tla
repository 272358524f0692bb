-------------------------- MODULE CoordinationProofs --------------------------
(***************************************************************************)
(* Theorems about Coordination: the state of the two nodes is well formed; *)
(* whatever handshakes, retries, stops, wipes and duplicates there were, a *)
(* node with nothing to do can start again, and two that are at rest agree *)
(* on the two edges between them.                                          *)
(***************************************************************************)
EXTENDS Coordination, SequenceTheorems, FiniteSetTheorems, TLAPS

(* What the two nodes hold and send                                        *)

(* What is known of n that is not to be forgotten: its introduction.       *)
Intro(x, n) == x.rid = n /\ x.ev # "FORGET"

(* A knowledge object is about an edge, or an event from the other node.   *)
ItemOf(n) ==
  {x \in [rid : RID, ev : {"NEW", "UPDATE", "FORGET", None}, man : Man, src : Node \union {None}] :
     /\ x.ev # "FORGET" => x.man # None
     /\ x.src = None \/ x.ev = None => x.rid \in Edge}

(* An event is about an edge, or about its sender, which it introduces.    *)
EventOf(n) ==
  {x \in [rid : Edge \union {n}, ev : {"NEW", "UPDATE", "FORGET"}, man : Man] :
     /\ x.ev # "FORGET" => x.man # None
     /\ x.rid = n => x.ev = "NEW"}

Held ==
  /\ full \in BOOLEAN /\ lapsed \subseteq {"lost", "skipped", "stale"} /\ now \in Nat
  /\ up \in [Node -> {"down", "boot", "greeted", "run", "stopping"}]
  /\ cache \in [Node -> [RID -> Man]] /\ \A n \in Node : cache[n][n] = Profile

TypeInv ==
  /\ Held
  /\ DOMAIN kq = Node /\ DOMAIN evq = Node /\ DOMAIN buf = Node
  /\ \A n \in Node : /\ kq[n] \in Seq(ItemOf(n))
                     /\ evq[n] \in Seq(EventOf(n)) /\ buf[n] \in Seq(EventOf(n))
                     /\ up[n] = "down" => kq[n] = <<>>

(* Knowledge that introduces the other node is in s, or makes an edge of   *)
(* its known; and a node is forgotten only to be introduced again.         *)
Tells(s, p)    == \E i \in 1..Len(s) : Intro(s[i], p)
Names(s, e)    == \E i \in 1..Len(s) : s[i].rid = e /\ s[i].ev # "FORGET"
Paired(s, p)   ==
  \A i \in 1..Len(s) : (s[i].rid = p /\ s[i].ev = "FORGET") =>
                           i + 1 \in 1..Len(s) /\ Intro(s[i + 1], p)

(* A node with an edge from p to it knows p, or is about to.               *)
Anchored(c, s, n, p) ==
  /\ Paired(s, p)
  /\ (c[<<p, n>>] # None \/ Names(s, <<p, n>>)) => (c[p] # None \/ Tells(s, p))

StartInv ==
  /\ TypeInv
  /\ "lost" \notin lapsed => \A n \in Node : Anchored(cache[n], kq[n], n, Peer(n))

-----------------------------------------------------------------------------
(* The two nodes                                                           *)

LEMMA Two ==
  ASSUME NEW n \in Node
  PROVE  /\ Peer(n) \in Node /\ Peer(n) # n /\ Peer(Peer(n)) = n
         /\ <<Peer(n), n>> \in Edge /\ <<n, Peer(n)>> \in Edge
         /\ <<n, Peer(n)>> # <<Peer(n), n>>
         /\ \A e \in Edge : e \notin Node
         /\ Node \subseteq RID /\ Edge \subseteq RID
         /\ n = C \/ n = M
BY CoordinationAssumption DEF Node, Peer, Edge, RID

LEMMA EdgeIsNoNode ==
  ASSUME NEW e \in Edge
  PROVE  e \in RID /\ \A p \in Node : e # p
BY CoordinationAssumption DEF RID

LEMMA Bundles ==
  /\ Profile \in Bundle /\ Profile \in Man /\ None \in Man
  /\ \A x \in Bundle : x \in Man /\ x # None
  /\ \A x \in Man : x # None => x \in Bundle
  /\ \A t \in Nat : /\ EdgeBundle("APPROVED", t) \in Bundle
                    /\ EdgeBundle("PROPOSED", t) \in Bundle
BY CoordinationAssumption DEF Profile, Bundle, Man, EdgeBundle

LEMMA ItemFields ==
  ASSUME NEW n \in Node, NEW x \in ItemOf(n)
  PROVE  /\ x.rid \in RID /\ x.ev \in {"NEW", "UPDATE", "FORGET", None}
         /\ x.man \in Man /\ x.src \in Node \union {None}
         /\ x.ev # "FORGET" => x.man # None
         /\ x.src = None \/ x.ev = None => x.rid \in Edge
BY DEF ItemOf

LEMMA EventFields ==
  ASSUME NEW n \in Node, NEW x \in EventOf(n)
  PROVE  /\ x.rid \in RID /\ x.rid \in Edge \union {n}
         /\ x.ev \in {"NEW", "UPDATE", "FORGET"} /\ x.man \in Man
         /\ x.ev # "FORGET" => x.man # None
         /\ x.rid = n => x.ev = "NEW"
<1>1. x.rid \in Edge \union {n}
      /\ x.ev \in {"NEW", "UPDATE", "FORGET"} /\ x.man \in Man
      /\ (x.ev # "FORGET" => x.man # None) /\ (x.rid = n => x.ev = "NEW")
  BY DEF EventOf
<1>2. x.rid \in RID
  BY <1>1 DEF RID
<1> QED
  BY <1>1, <1>2

LEMMA IsItem ==
  ASSUME NEW n \in Node, NEW rid \in RID, NEW ev \in {"NEW", "UPDATE", "FORGET", None},
         NEW man \in Man, NEW src \in Node \union {None},
         ev # "FORGET" => man # None, src = None \/ ev = None => rid \in Edge
  PROVE  /\ Item(rid, ev, man, src) \in ItemOf(n)
         /\ Item(rid, ev, man, src).rid = rid /\ Item(rid, ev, man, src).ev = ev
BY DEF Item, ItemOf

LEMMA IsEvent ==
  ASSUME NEW n \in Node, NEW rid \in Edge \union {n}, NEW ev \in {"NEW", "UPDATE", "FORGET"},
         NEW man \in Man, ev # "FORGET" => man # None, rid = n => ev = "NEW"
  PROVE  Event(rid, ev, man) \in EventOf(n)
BY DEF Event, EventOf

LEMMA Orderings ==
  ASSUME NEW S \in SUBSET Edge, NEW o \in Orders(S)
  PROVE  /\ o \in Seq(S)
         /\ DOMAIN o = 1..Len(o) /\ Len(o) \in Nat
         /\ \A i \in 1..Len(o) : o[i] \in S
<1>1. IsFiniteSet(S)
  <2>1. IsFiniteSet(Edge)
    <3>1. IsFiniteSet({} \union {<<M, C>>})
      BY FS_EmptySet, FS_AddElement
    <3>2. IsFiniteSet(({} \union {<<M, C>>}) \union {<<C, M>>})
      BY <3>1, FS_AddElement
    <3>3. Edge = ({} \union {<<M, C>>}) \union {<<C, M>>}
      BY DEF Edge
    <3> QED
      BY <3>2, <3>3
  <2> QED
    BY <2>1, FS_Subset
<1>2. PICK k \in Nat : k = Cardinality(S)
  BY <1>1, FS_CardinalityType
<1>3. o \in [1..k -> S]
  BY <1>2 DEF Orders
<1> QED
  BY <1>3

-----------------------------------------------------------------------------
(* Queues                                                                  *)

LEMMA JoinAnchored ==
  ASSUME NEW S, NEW s \in Seq(S), NEW t \in Seq(S), NEW c, NEW n, NEW p,
         Anchored(c, s, n, p), Paired(t, p),
         Names(t, <<p, n>>) => (c[p] # None \/ Tells(s, p) \/ Tells(t, p))
  PROVE  Anchored(c, s \o t, n, p)
<1> DEFINE u == s \o t
           e == <<p, n>>
<1>1. PICK k \in Nat : k = Len(s)
  BY LenProperties
<1>2. PICK l \in Nat : l = Len(t)
  BY LenProperties
<1>3. /\ Len(u) = k + l
      /\ \A i \in 1..k : u[i] = s[i]
      /\ \A i \in 1..l : u[k + i] = t[i]
  BY <1>1, <1>2, ConcatProperties
<1>4. \A i \in 1..(k + l) : i \in 1..k \/ (i - k \in 1..l /\ k + (i - k) = i)
  OBVIOUS
<1>5. \A i \in 1..k : i \in 1..(k + l)
  OBVIOUS
<1>6. \A i \in 1..l : k + i \in 1..(k + l)
  OBVIOUS
<1> HIDE DEF u, e
<1>7. Tells(s, p) \/ Tells(t, p) => Tells(u, p)
  BY <1>1, <1>2, <1>3, <1>5, <1>6 DEF Tells
<1>8. Names(u, e) => Names(s, e) \/ Names(t, e)
  <2> SUFFICES ASSUME NEW i \in 1..(k + l), u[i].rid = e, u[i].ev # "FORGET"
               PROVE  Names(s, e) \/ Names(t, e)
    BY <1>3 DEF Names
  <2>1. CASE i \in 1..k
    BY <1>1, <1>3, <2>1 DEF Names
  <2>2. CASE i - k \in 1..l /\ k + (i - k) = i
    <3>1. t[i - k] = u[i]
      BY <1>3, <2>2
    <3> QED
      BY <1>2, <2>2, <3>1 DEF Names
  <2> QED
    BY <1>4, <2>1, <2>2
<1>9. Paired(u, p)
  <2> SUFFICES ASSUME NEW i \in 1..(k + l), u[i].rid = p, u[i].ev = "FORGET"
               PROVE  i + 1 \in 1..(k + l) /\ Intro(u[i + 1], p)
    BY <1>3 DEF Paired
  <2>1. CASE i \in 1..k
    <3>1. i + 1 \in 1..k /\ Intro(s[i + 1], p)
      BY <1>1, <1>3, <2>1 DEF Anchored, Paired
    <3> QED
      BY <1>3, <1>5, <3>1
  <2>2. CASE i - k \in 1..l /\ k + (i - k) = i
    <3>1. PICK j \in 1..l : j = i - k
      BY <2>2
    <3>2. t[j].rid = p /\ t[j].ev = "FORGET"
      BY <1>3, <2>2, <3>1
    <3>3. j + 1 \in 1..l /\ Intro(t[j + 1], p)
      BY <1>2, <3>2 DEF Paired
    <3>4. u[k + (j + 1)] = t[j + 1] /\ k + (j + 1) = i + 1
      BY <1>3, <3>1, <3>3
    <3> QED
      BY <1>6, <3>3, <3>4
  <2> QED
    BY <1>4, <2>1, <2>2
<1> QED
  BY <1>7, <1>8, <1>9 DEF Anchored, u, e

LEMMA TailAnchored ==
  ASSUME NEW S, NEW s \in Seq(S), s # <<>>, NEW p, NEW e, Paired(s, p)
  PROVE  /\ Head(s) \in S /\ Tail(s) \in Seq(S)
         /\ Paired(Tail(s), p)
         /\ Names(Tail(s), e) => Names(s, e)
         /\ (Head(s).rid = e /\ Head(s).ev # "FORGET") => Names(s, e)
         /\ Tells(s, p) => Intro(Head(s), p) \/ Tells(Tail(s), p)
         /\ (Head(s).rid = p /\ Head(s).ev = "FORGET") => Tells(Tail(s), p)
<1>1. PICK k \in Nat : k = Len(s)
  BY LenProperties
<1>2. k # 0
  BY <1>1, EmptySeq
<1> DEFINE t == Tail(s)
           h == Head(s)
<1>3. h \in S /\ t \in Seq(S)
  BY HeadTailProperties
<1>4. h = s[1] /\ Len(t) = k - 1 /\ \A i \in 1..(k - 1) : t[i] = s[i + 1]
  BY <1>1, <1>2, HeadTailProperties
<1>5. 1 \in 1..k /\ \A i \in 1..(k - 1) : i + 1 \in 1..k
  BY <1>2
<1>6. \A i \in 1..k : i = 1 \/ (i - 1 \in 1..(k - 1) /\ (i - 1) + 1 = i)
  OBVIOUS
<1> HIDE DEF t, h
<1>7. Paired(t, p)
  <2> SUFFICES ASSUME NEW i \in 1..(k - 1), t[i].rid = p, t[i].ev = "FORGET"
               PROVE  i + 1 \in 1..(k - 1) /\ Intro(t[i + 1], p)
    BY <1>4 DEF Paired
  <2>1. (i + 1) + 1 \in 1..k /\ Intro(s[(i + 1) + 1], p)
    BY <1>1, <1>4, <1>5 DEF Paired
  <2>2. i + 1 \in 1..(k - 1)
    BY <2>1
  <2> QED
    BY <1>4, <2>1, <2>2
<1>8. (Names(t, e) => Names(s, e)) /\ ((h.rid = e /\ h.ev # "FORGET") => Names(s, e))
  BY <1>1, <1>4, <1>5 DEF Names
<1>9. Tells(s, p) => Intro(h, p) \/ Tells(t, p)
  BY <1>1, <1>4, <1>6 DEF Tells
<1>10. ASSUME h.rid = p, h.ev = "FORGET" PROVE Tells(t, p)
  <2>1. 1 + 1 \in 1..k /\ Intro(s[1 + 1], p)
    BY <1>1, <1>4, <1>5, <1>10 DEF Paired
  <2>2. 1 \in 1..(k - 1)
    BY <2>1
  <2> QED
    BY <1>4, <2>1, <2>2 DEF Tells
<1> QED
  BY <1>3, <1>7, <1>8, <1>9, <1>10 DEF t, h

(* What a node queues for itself is about edges, and proposes the edge     *)
(* from the other node only if that is known or about to be.               *)
PushOf(n, known) ==
  {x \in ItemOf(n) : /\ x.rid \in Edge
                     /\ (x.rid = <<Peer(n), n>> /\ x.ev # "FORGET") => known}

LEMMA PushAnchored ==
  ASSUME NEW n \in Node, NEW c, NEW s \in Seq(ItemOf(n)), NEW known,
         Anchored(c, s, n, Peer(n)), known => c[Peer(n)] # None \/ Tells(s, Peer(n)),
         NEW t \in Seq(PushOf(n, known))
  PROVE  s \o t \in Seq(ItemOf(n)) /\ Anchored(c, s \o t, n, Peer(n))
<1>1. t \in Seq(ItemOf(n))
  BY SeqMonotonic DEF PushOf
<1>2. ASSUME NEW i \in 1..Len(t)
      PROVE  /\ t[i].rid \in Edge
             /\ (t[i].rid = <<Peer(n), n>> /\ t[i].ev # "FORGET") => known
  BY ElementOfSeq DEF PushOf
<1>3. Paired(t, Peer(n))
  <2>1. Peer(n) \notin Edge
    BY Two
  <2> QED
    BY <1>2, <2>1 DEF Paired
<1>4. Names(t, <<Peer(n), n>>) => known
  BY <1>2 DEF Names
<1> QED
  BY <1>1, <1>3, <1>4, JoinAnchored, ConcatProperties

(* What arrives of a request: knowledge for each event.                    *)
Got(n, events) ==
  [i \in DOMAIN events |-> Item(events[i].rid, events[i].ev, events[i].man, Peer(n))]

Message == {x \in [rid : RID, ev : {"NEW", "UPDATE", "FORGET"}, man : Man] :
              x.ev # "FORGET" => x.man # None}

LEMMA GotItems ==
  ASSUME NEW n \in Node, NEW events \in Seq(Message)
  PROVE  /\ Got(n, events) \in Seq(ItemOf(n)) /\ Len(Got(n, events)) = Len(events)
         /\ \A i \in 1..Len(events) : /\ Got(n, events)[i].rid = events[i].rid
                                      /\ Got(n, events)[i].ev = events[i].ev
<1>1. PICK k \in Nat : k = Len(events) /\ DOMAIN events = 1..k
  BY LenProperties
<1>2. ASSUME NEW i \in 1..k
      PROVE  /\ Item(events[i].rid, events[i].ev, events[i].man, Peer(n)) \in ItemOf(n)
             /\ Item(events[i].rid, events[i].ev, events[i].man, Peer(n)).rid = events[i].rid
             /\ Item(events[i].rid, events[i].ev, events[i].man, Peer(n)).ev = events[i].ev
  <2>1. events[i] \in Message
    BY <1>1, ElementOfSeq
  <2>2. Peer(n) \in Node \union {None} /\ Peer(n) # None
    <3>1. Peer(n) \in Node /\ Peer(n) \in RID
      BY Two
    <3> QED
      BY <3>1, CoordinationAssumption
  <2>3. events[i].ev # None
    BY <2>1, CoordinationAssumption DEF Message
  <2> QED
    BY <2>1, <2>2, <2>3, IsItem DEF Message
<1>3. Got(n, events) \in [1..k -> ItemOf(n)]
  BY <1>1, <1>2 DEF Got
<1>4. \A i \in 1..k : Got(n, events)[i] = Item(events[i].rid, events[i].ev, events[i].man, Peer(n))
  BY <1>1 DEF Got
<1> HIDE DEF Got
<1>5. Got(n, events) \in Seq(ItemOf(n)) /\ Len(Got(n, events)) = k
  BY <1>3
<1> QED
  BY <1>1, <1>2, <1>4, <1>5

LEMMA EventsAreMessages ==
  ASSUME NEW n \in Node, NEW events \in Seq(EventOf(n)) PROVE events \in Seq(Message)
<1>1. ASSUME NEW x \in EventOf(n) PROVE x \in Message
  <2>1. x \in [rid : Edge \union {n}, ev : {"NEW", "UPDATE", "FORGET"}, man : Man]
    BY DEF EventOf
  <2>2. x.rid \in RID /\ (x.ev # "FORGET" => x.man # None)
    BY EventFields
  <2>3. x \in [rid : RID, ev : {"NEW", "UPDATE", "FORGET"}, man : Man]
    BY <2>1, <2>2
  <2> QED
    BY <2>2, <2>3 DEF Message
<1> QED
  BY <1>1, SeqMonotonic

LEMMA ReceivedAnchored ==
  ASSUME TypeInv, NEW n \in Node, NEW events \in Seq(EventOf(Peer(n)))
  PROVE  /\ Received(n, events) \in Seq(ItemOf(n))
         /\ (Trusted(n, events) /\ Anchored(cache[n], kq[n], n, Peer(n))) =>
              Anchored(cache[n], Received(n, events), n, Peer(n))
<1> DEFINE p == Peer(n)
<1>1. events \in Seq(Message) /\ p \in Node
  BY Two, EventsAreMessages
<1>2. PICK t \in Seq(ItemOf(n)) :
        /\ t = Got(n, events) /\ Len(t) = Len(events)
        /\ \A i \in 1..Len(events) : t[i].rid = events[i].rid /\ t[i].ev = events[i].ev
  BY <1>1, GotItems
<1>3. Received(n, events) = kq[n] \o t /\ kq[n] \in Seq(ItemOf(n))
  BY <1>2 DEF Received, Got, TypeInv
<1>4. ASSUME NEW i \in 1..Len(events) PROVE events[i].rid = p => events[i].ev = "NEW"
  <2>1. events[i] \in EventOf(p)
    BY ElementOfSeq
  <2> QED
    BY <1>1, <2>1, EventFields
<1>5. Paired(t, p)
  BY <1>2, <1>4 DEF Paired
<1>6. ASSUME Trusted(n, events) PROVE cache[n][p] # None \/ Tells(t, p)
  <2>1. DOMAIN events = 1..Len(events)
    BY LenProperties
  <2>2. CASE Cached(n, p)
    BY <2>2 DEF Cached
  <2>3. CASE \E i \in DOMAIN events : events[i].rid = p /\ events[i].ev = "NEW"
    BY <1>2, <2>1, <2>3 DEF Tells, Intro
  <2> QED
    BY <1>6, <2>2, <2>3 DEF Trusted
<1> QED
  BY <1>2, <1>3, <1>5, <1>6, JoinAnchored, ConcatProperties

LEMMA PushItems ==
  ASSUME NEW n \in Node, NEW s \in Seq(ItemOf(n)), NEW known, NEW t \in Seq(PushOf(n, known))
  PROVE  s \o t \in Seq(ItemOf(n))
<1>1. t \in Seq(ItemOf(n))
  BY SeqMonotonic DEF PushOf
<1> QED
  BY <1>1, ConcatProperties

LEMMA IsPush ==
  ASSUME NEW n \in Node, NEW known, NEW rid \in Edge, NEW ev \in {"NEW", "UPDATE", "FORGET", None},
         NEW man \in Man, NEW src \in Node \union {None}, ev # "FORGET" => man # None,
         (rid = <<Peer(n), n>> /\ ev # "FORGET") => known
  PROVE  Item(rid, ev, man, src) \in PushOf(n, known)
<1>1. rid \in RID
  BY DEF RID
<1>2. Item(rid, ev, man, src) \in ItemOf(n) /\ Item(rid, ev, man, src).rid = rid
      /\ Item(rid, ev, man, src).ev = ev
  BY <1>1, IsItem
<1> QED
  BY <1>2 DEF PushOf

LEMMA ContactPush ==
  ASSUME now \in Nat, NEW n \in Node, NEW rid, NEW cached, NEW known, rid = Peer(n) => known
  PROVE  Contact(n, rid, cached) \in Seq(PushOf(n, known))
<1>1. CASE n = M /\ rid = C /\ cached[<<C, M>>] = None
  <2>1. rid = Peer(n) /\ <<C, M>> \in Edge
    BY <1>1, CoordinationAssumption DEF Peer, Edge
  <2>2. EdgeBundle("PROPOSED", now + 1) \in Man /\ EdgeBundle("PROPOSED", now + 1) # None
    BY Bundles
  <2>3. Item(<<C, M>>, None, EdgeBundle("PROPOSED", now + 1), None) \in PushOf(n, known)
    BY <2>1, <2>2, IsPush
  <2> QED
    BY <1>1, <2>3 DEF Contact
<1>2. CASE ~(n = M /\ rid = C /\ cached[<<C, M>>] = None)
  BY <1>2 DEF Contact
<1> QED
  BY <1>1, <1>2

LEMMA OtherPushes ==
  ASSUME now \in Nat, NEW n \in Node, NEW k \in ItemOf(n), NEW cached, NEW known,
         k.rid = Peer(n) => known
  PROVE  /\ Approval(n, k) \in Seq(PushOf(n, known))
         /\ Greeting(n, k) \in Seq(PushOf(n, known))
         /\ \A o \in Orphans(n, k, cached) : o \in Seq(PushOf(n, known))
<1>1. Approval(n, k) \in Seq(PushOf(n, known))
  <2>1. CASE IsProposal(n, k)
    <3>1. k.rid \in Edge /\ k.rid[1] = n
      BY <2>1 DEF IsProposal
    <3>2. k.rid # <<Peer(n), n>>
      BY <3>1, Two
    <3>3. EdgeBundle("APPROVED", now + 1) \in Man /\ EdgeBundle("APPROVED", now + 1) # None
      BY Bundles
    <3>4. Item(k.rid, "UPDATE", EdgeBundle("APPROVED", now + 1), None) \in PushOf(n, known)
      BY <3>1, <3>2, <3>3, IsPush
    <3> QED
      BY <2>1, <3>4 DEF Approval
  <2>2. CASE ~IsProposal(n, k)
    BY <2>2 DEF Approval
  <2> QED
    BY <2>1, <2>2
<1>2. Greeting(n, k) \in Seq(PushOf(n, known))
  <2>1. CASE Greets(n, k)
    <3>1. k.rid = Peer(n) /\ <<M, C>> \in Edge
      BY <2>1 DEF Greets, Peer, Edge
    <3>2. EdgeBundle("PROPOSED", now + 1) \in Man /\ EdgeBundle("PROPOSED", now + 1) # None /\ None \in Man
      BY Bundles
    <3>3. /\ Item(<<M, C>>, "FORGET", None, None) \in PushOf(n, known)
          /\ Item(<<M, C>>, None, EdgeBundle("PROPOSED", now + 1), None) \in PushOf(n, known)
      BY <3>1, <3>2, IsPush
    <3> QED
      BY <2>1, <3>3 DEF Greeting
  <2>2. CASE ~Greets(n, k)
    BY <2>2 DEF Greeting
  <2> QED
    BY <2>1, <2>2
<1>3. ASSUME NEW o \in Orphans(n, k, cached) PROVE o \in Seq(PushOf(n, known))
  <2>1. CASE k.rid = Peer(n) /\ k.ev = "FORGET"
    <3> DEFINE S == {e \in Edge : cached[e] # None}
    <3>1. PICK q \in Orders(S) : o = [i \in DOMAIN q |-> Item(q[i], "FORGET", None, None)]
      BY <1>3, <2>1 DEF Orphans
    <3>2. S \in SUBSET Edge
      OBVIOUS
    <3> HIDE DEF S
    <3>3. PICK l \in Nat : DOMAIN q = 1..l /\ \A i \in 1..l : q[i] \in Edge
      BY <3>1, <3>2, Orderings
    <3>4. \A i \in 1..l : Item(q[i], "FORGET", None, None) \in PushOf(n, known)
      BY <3>3, Bundles, IsPush
    <3>5. o \in [1..l -> PushOf(n, known)]
      BY <3>1, <3>3, <3>4
    <3> QED
      BY <3>5
  <2>2. CASE ~(k.rid = Peer(n) /\ k.ev = "FORGET")
    <3>1. o = <<>>
      BY <1>3, <2>2 DEF Orphans
    <3> QED
      BY <3>1, EmptySeq
  <2> QED
    BY <2>1, <2>2
<1> QED
  BY <1>1, <1>2, <1>3

LEMMA AnnouncedEvents ==
  ASSUME NEW n \in Node, NEW k \in ItemOf(n), NEW cached
  PROVE  Events(n, k, cached) \in Seq(EventOf(n))
<1>1. CASE Greets(n, k)
  <2>1. Event(C, "NEW", Profile) \in EventOf(n)
    BY <1>1, Bundles, IsEvent DEF Greets
  <2> QED
    BY <1>1, <2>1 DEF Events
<1>2. CASE ~Greets(n, k) /\ Targeted(n, k, cached)
  <2>1. k.rid \in Edge /\ Normalized(n, k) \in {"NEW", "UPDATE", "FORGET"}
        /\ (Normalized(n, k) = "FORGET" <=> k.ev = "FORGET")
    BY <1>2, ItemFields DEF Targeted, Normalized
  <2>2. k.rid \notin Node /\ k.rid # n
    BY <2>1, EdgeIsNoNode
  <2>3. k.man \in Man /\ None \in Man /\ (k.ev # "FORGET" => k.man # None)
    BY ItemFields, Bundles
  <2>4. Event(k.rid, Normalized(n, k), IF k.ev = "FORGET" THEN None ELSE k.man) \in EventOf(n)
    BY <2>1, <2>2, <2>3, IsEvent
  <2> QED
    BY <1>2, <2>4 DEF Events
<1>3. CASE ~Greets(n, k) /\ ~Targeted(n, k, cached)
  BY <1>3 DEF Events
<1> QED
  BY <1>1, <1>2, <1>3

-----------------------------------------------------------------------------
(* The steps                                                               *)

Anch(n) == Anchored(cache[n], kq[n], n, Peer(n))

(* A change of one queue.                                                  *)
LEMMA OneQueue ==
  ASSUME NEW f, NEW g, NEW n \in Node, NEW t, DOMAIN f = Node, g = [f EXCEPT ![n] = t]
  PROVE  DOMAIN g = Node /\ g[n] = t /\ \A v \in Node \ {n} : g[v] = f[v]
OBVIOUS

Queued ==
  /\ DOMAIN kq = Node /\ DOMAIN evq = Node /\ DOMAIN buf = Node
  /\ \A n \in Node : /\ kq[n] \in Seq(ItemOf(n))
                     /\ evq[n] \in Seq(EventOf(n)) /\ buf[n] \in Seq(EventOf(n))

LEMMA NextState ==
  ASSUME StartInv, Held', Queued', \A v \in Node : up'[v] = "down" => kq'[v] = <<>>,
         "lost" \notin lapsed' => "lost" \notin lapsed,
         \A v \in Node : ("lost" \notin lapsed' /\ Anch(v)) => Anch(v)'
  PROVE  StartInv'
<1>1. TypeInv'
  BY DEF TypeInv, Queued
<1>2. "lost" \notin lapsed' => \A v \in Node : Anch(v)'
  BY DEF StartInv, Anch
<1> QED
  BY <1>1, <1>2 DEF StartInv, Anch

(* What is accepted is cached.                                             *)
LEMMA AcceptedCache ==
  ASSUME TypeInv, NEW n \in Node, NEW k \in ItemOf(n), ~Blocked(n, k)
  PROVE  /\ CacheAfter(n, k) \in [RID -> Man] /\ CacheAfter(n, k)[n] = Profile
         /\ CacheAfter(n, k)[k.rid] = (IF k.ev = "FORGET" THEN None ELSE k.man)
         /\ \A r \in RID : r # k.rid => CacheAfter(n, k)[r] = cache[n][r]
<1>1. k.rid \in RID /\ k.man \in Man /\ None \in Man /\ n \in RID
  BY ItemFields, Bundles, Two
<1>2. k.rid # n
  <2>1. n \notin Edge /\ (k.src = None => k.rid \in Edge)
    BY Two, ItemFields
  <2> QED
    BY <2>1 DEF Blocked
<1>3. cache[n] \in [RID -> Man] /\ cache[n][n] = Profile
  BY DEF TypeInv, Held
<1> QED
  BY <1>1, <1>2, <1>3 DEF CacheAfter

(* The cache and the queue of n after it has processed k.                  *)
LEMMA DropAnchored ==
  ASSUME TypeInv, NEW n \in Node, kq[n] # <<>>, Anch(n),
         ~Accepts(n, Head(kq[n])) \/ Bare(Head(kq[n]))
  PROVE  Anchored(cache[n], Tail(kq[n]), n, Peer(n))
<1> DEFINE s == kq[n]
           k == Head(kq[n])
           p == Peer(n)
           e == <<Peer(n), n>>
<1>1. s \in Seq(ItemOf(n)) /\ k \in ItemOf(n)
  BY HeadTailProperties DEF TypeInv
<1>2. /\ Paired(Tail(s), p)
      /\ Names(Tail(s), e) => Names(s, e)
      /\ Tells(s, p) => Intro(k, p) \/ Tells(Tail(s), p)
  BY <1>1, TailAnchored DEF Anch, Anchored
<1>3. ASSUME Intro(k, p) PROVE cache[n][p] # None
  <2>1. k.rid = p /\ k.ev # "FORGET" /\ p # n /\ p \notin Edge
    BY <1>3, Two DEF Intro
  <2>2. ~Bare(k)
    BY <1>1, <2>1, ItemFields DEF Bare
  <2> QED
    BY <2>1, <2>2 DEF Accepts, Blocked, Relevant, IsProposal, Cached
<1> QED
  BY <1>2, <1>3 DEF Anch, Anchored

LEMMA TakeAnchored ==
  ASSUME TypeInv, NEW n \in Node, kq[n] # <<>>, Anch(n),
         NEW b \in ItemOf(n), ~Blocked(n, b), b.rid = Head(kq[n]).rid, b.ev = Head(kq[n]).ev
  PROVE  /\ Anchored(CacheAfter(n, b), Tail(kq[n]), n, Peer(n))
         /\ b.rid = Peer(n) => CacheAfter(n, b)[Peer(n)] # None \/ Tells(Tail(kq[n]), Peer(n))
<1>1. PICK s : s = kq[n]
  OBVIOUS
<1>2. PICK k : k = Head(s)
  OBVIOUS
<1>3. PICK t : t = Tail(s)
  OBVIOUS
<1>4. PICK p : p = Peer(n)
  OBVIOUS
<1>5. PICK e : e = <<p, n>>
  OBVIOUS
<1>6. PICK d : d = CacheAfter(n, b)
  OBVIOUS
<1>7. s \in Seq(ItemOf(n)) /\ s # <<>> /\ k \in ItemOf(n) /\ b.rid = k.rid /\ b.ev = k.ev
  BY <1>1, <1>2, HeadTailProperties DEF TypeInv
<1>8. /\ Paired(t, p)
      /\ Names(t, e) => Names(s, e)
      /\ (k.rid = e /\ k.ev # "FORGET") => Names(s, e)
      /\ Tells(s, p) => Intro(k, p) \/ Tells(t, p)
      /\ (k.rid = p /\ k.ev = "FORGET") => Tells(t, p)
  BY <1>1, <1>2, <1>3, <1>4, <1>5, <1>7, TailAnchored DEF Anch, Anchored
<1>9. (cache[n][e] # None \/ Names(s, e)) => (cache[n][p] # None \/ Tells(s, p))
  BY <1>1, <1>4, <1>5 DEF Anch, Anchored
<1>10. /\ d[k.rid] = (IF k.ev = "FORGET" THEN None ELSE b.man)
       /\ \A r \in RID : r # k.rid => d[r] = cache[n][r]
  BY <1>6, <1>7, AcceptedCache
<1>11. p \in RID /\ e \in RID /\ p # e
  <2>1. p \in Node /\ e \in Edge
    BY <1>4, <1>5, Two
  <2>2. p \in RID
    BY <2>1 DEF RID
  <2> QED
    BY <2>1, <2>2, EdgeIsNoNode
<1>12. k.ev # "FORGET" => b.man # None
  BY <1>7, ItemFields
<1>13. k.rid = p => d[p] # None \/ Tells(t, p)
  BY <1>8, <1>10, <1>12
<1>14. (d[e] # None \/ Names(t, e)) => (d[p] # None \/ Tells(t, p))
  <2>1. CASE k.rid = p
    BY <1>13, <2>1
  <2>2. CASE k.rid # p
    <3>1. d[p] = cache[n][p] /\ ~Intro(k, p)
      BY <1>10, <1>11, <2>2 DEF Intro
    <3>2. d[e] # None => cache[n][e] # None \/ Names(s, e)
      BY <1>8, <1>10, <1>11
    <3> QED
      BY <1>8, <1>9, <3>1, <3>2
  <2> QED
    BY <2>1, <2>2
<1> QED
  BY <1>1, <1>3, <1>4, <1>5, <1>6, <1>7, <1>8, <1>13, <1>14 DEF Anchored

(* What is taken of the head of a queue: itself, or what M then has of it. *)
Version(b, k) ==
  \/ ~Bare(k) /\ b = k
  \/ Bare(k) /\ Answers /\ Cached(M, k.rid) /\ b = [k EXCEPT !.man = cache[M][k.rid]]

LEMMA Processed ==
  ASSUME TypeInv, NEW n \in Node, Process(n)
  PROVE  /\ kq[n] # <<>> /\ up[n] # "down" /\ UNCHANGED <<full, wipes, buf, timed>>
         /\ Head(kq[n]) \in ItemOf(n) /\ Tail(kq[n]) \in Seq(ItemOf(n))
         /\ \/ Drop(n) /\ (~Accepts(n, Head(kq[n])) \/ Bare(Head(kq[n])))
            \/ Dies(n) /\ Bare(Head(kq[n]))
            \/ \E b \in ItemOf(n) : /\ Accepts(n, Head(kq[n])) /\ Version(b, Head(kq[n]))
                                    /\ Commit(n, b)
<1>1. PICK k : k = Head(kq[n])
  OBVIOUS
<1>2. kq[n] # <<>> /\ kq[n] \in Seq(ItemOf(n))
  BY DEF Process, TypeInv
<1>3. k \in ItemOf(n) /\ Tail(kq[n]) \in Seq(ItemOf(n))
  BY <1>1, <1>2, HeadTailProperties
<1>4. ASSUME Cached(M, k.rid) PROVE [k EXCEPT !.man = cache[M][k.rid]] \in ItemOf(n)
  <2>1. k.rid \in RID
    BY <1>3, ItemFields
  <2>2. cache[M] \in [RID -> Man]
    BY DEF TypeInv, Held, Node
  <2>3. PICK x \in Man : x = cache[M][k.rid] /\ x # None
    BY <1>4, <2>1, <2>2 DEF Cached
  <2>4. [k EXCEPT !.man = x] \in ItemOf(n)
    BY <1>3, <2>3 DEF ItemOf
  <2> QED
    BY <2>3, <2>4
<1>5. CASE ~Accepts(n, k) \/ (Bare(k) /\ Drop(n))
  BY <1>1, <1>2, <1>3, <1>5 DEF Process
<1>6. CASE Accepts(n, k) /\ ~Bare(k)
  <2>1. Version(k, k) /\ Commit(n, k)
    BY <1>1, <1>6 DEF Process, Version
  <2> QED
    BY <1>1, <1>2, <1>3, <1>6, <2>1 DEF Process
<1>7. CASE Accepts(n, k) /\ Bare(k) /\ ~Drop(n)
  <2>1. CASE Answers /\ Cached(M, k.rid) /\ Commit(n, [k EXCEPT !.man = cache[M][k.rid]])
    <3>1. Version([k EXCEPT !.man = cache[M][k.rid]], k)
      BY <1>7, <2>1 DEF Version
    <3> QED
      BY <1>1, <1>2, <1>3, <1>4, <1>7, <2>1, <3>1 DEF Process
  <2>2. CASE Dies(n)
    BY <1>1, <1>2, <1>3, <1>7, <2>2 DEF Process
  <2> QED
    BY <1>1, <1>7, <2>1, <2>2 DEF Process
<1> QED
  BY <1>5, <1>6, <1>7

LEMMA VersionFields ==
  ASSUME NEW n \in Node, NEW k \in ItemOf(n), NEW b \in ItemOf(n), Version(b, k)
  PROVE  b.rid = k.rid /\ b.ev = k.ev /\ b.src = k.src
BY DEF Version, ItemOf

LEMMA ProcessStep == ASSUME StartInv, NEW n \in Node, Process(n) PROVE StartInv'
<1>1. PICK s : s = kq[n]
  OBVIOUS
<1>2. PICK k : k = Head(s)
  OBVIOUS
<1>3. PICK t : t = Tail(s)
  OBVIOUS
<1>4. TypeInv
  BY DEF StartInv
<1>5. /\ Held /\ s # <<>> /\ up[n] # "down" /\ UNCHANGED <<full, buf>>
      /\ k \in ItemOf(n) /\ t \in Seq(ItemOf(n))
      /\ \/ Drop(n) /\ (~Accepts(n, k) \/ Bare(k))
         \/ Dies(n)
         \/ \E b \in ItemOf(n) : Accepts(n, k) /\ Version(b, k) /\ Commit(n, b)
  BY <1>1, <1>2, <1>3, <1>4, Processed DEF TypeInv
<1>7. /\ DOMAIN kq = Node /\ DOMAIN evq = Node /\ DOMAIN buf = Node
      /\ \A v \in Node : /\ kq[v] \in Seq(ItemOf(v))
                         /\ evq[v] \in Seq(EventOf(v)) /\ buf[v] \in Seq(EventOf(v))
                         /\ up[v] = "down" => kq[v] = <<>>
  BY <1>4 DEF TypeInv
<1>8. CASE Drop(n) /\ (~Accepts(n, k) \/ Bare(k))
  <2>1. kq' = [kq EXCEPT ![n] = t] /\ UNCHANGED <<up, cache, evq, now, lapsed>>
    BY <1>1, <1>3, <1>8 DEF Drop
  <2>2. DOMAIN kq' = Node /\ kq'[n] = t /\ \A v \in Node \ {n} : kq'[v] = kq[v]
    BY <1>7, <2>1, OneQueue
  <2>3. Held'
    BY <1>5, <2>1 DEF Held
  <2>4. Queued' /\ \A v \in Node : up'[v] = "down" => kq'[v] = <<>>
    BY <1>5, <1>7, <2>1, <2>2 DEF Queued
  <2>5. ASSUME NEW v \in Node, Anch(v) PROVE Anch(v)'
    <3>1. CASE v = n
      <4>1. Anchored(cache[n], t, n, Peer(n))
        BY <1>1, <1>2, <1>3, <1>4, <1>5, <1>8, <2>5, <3>1, DropAnchored
      <4> QED
        BY <2>1, <2>2, <3>1, <4>1 DEF Anch
    <3>2. CASE v # n
      BY <2>1, <2>2, <2>5, <3>2 DEF Anch
    <3> QED
      BY <3>1, <3>2
  <2> QED
    BY <2>1, <2>3, <2>4, <2>5, NextState
<1>9. CASE \E b \in ItemOf(n) : Accepts(n, k) /\ Version(b, k) /\ Commit(n, b)
  <2>0. PICK b \in ItemOf(n) : Accepts(n, k) /\ Version(b, k) /\ Commit(n, b)
    BY <1>9
  <2> DEFINE d == CacheAfter(n, b)
  <2>1. PICK a : a = (Approval(n, b) \o Contact(n, b.rid, d)) \o Greeting(n, b)
    OBVIOUS
  <2>2. PICK o \in Orphans(n, b, d) : kq' = [kq EXCEPT ![n] = (t \o a) \o o]
    BY <1>1, <1>3, <2>0, <2>1 DEF Commit
  <2>3. /\ cache' = [cache EXCEPT ![n] = d] /\ UNCHANGED up
        /\ evq' = [evq EXCEPT ![n] = evq[n] \o Events(n, b, d)]
        /\ now' = now \/ now' = now + 1
        /\ lapsed' = Note(Unnegotiated(n, b), "skipped")
    BY <2>0 DEF Commit
  <2>16. b.rid = k.rid /\ b.ev = k.ev /\ ~Blocked(n, b)
    BY <1>5, <2>0, VersionFields DEF Accepts, Blocked
  <2>4. d \in [RID -> Man] /\ d[n] = Profile
    BY <1>4, <2>16, AcceptedCache
  <2> HIDE DEF d
  <2>5. lapsed' \subseteq {"lost", "skipped", "stale"} /\ ("lost" \notin lapsed' => "lost" \notin lapsed)
    BY <1>5, <2>3 DEF Held, Note
  <2>6. /\ cache' \in [Node -> [RID -> Man]] /\ \A v \in Node : cache'[v][v] = Profile
        /\ cache'[n] = d /\ \A v \in Node \ {n} : cache'[v] = cache[v]
    BY <1>5, <2>3, <2>4 DEF Held
  <2>7. Held'
    BY <1>5, <2>3, <2>5, <2>6 DEF Held
  <2>8. ASSUME NEW known, b.rid = Peer(n) => known
        PROVE  a \in Seq(PushOf(n, known)) /\ o \in Seq(PushOf(n, known))
    <3>1. now \in Nat
      BY <1>5 DEF Held
    <3>2. /\ Approval(n, b) \in Seq(PushOf(n, known))
          /\ Greeting(n, b) \in Seq(PushOf(n, known))
          /\ Contact(n, b.rid, d) \in Seq(PushOf(n, known))
          /\ o \in Seq(PushOf(n, known))
      BY <2>2, <2>8, <3>1, OtherPushes, ContactPush
    <3> QED
      BY <2>1, <3>2, ConcatProperties
  <2>9. (t \o a) \o o \in Seq(ItemOf(n))
    <3>1. a \in Seq(PushOf(n, TRUE)) /\ o \in Seq(PushOf(n, TRUE))
      BY <2>8
    <3>2. t \o a \in Seq(ItemOf(n))
      BY <1>5, <3>1, PushItems
    <3> QED
      BY <3>1, <3>2, PushItems
  <2>10. DOMAIN kq' = Node /\ kq'[n] = (t \o a) \o o /\ \A v \in Node \ {n} : kq'[v] = kq[v]
    BY <1>7, <2>2, OneQueue
  <2>11. evq[n] \o Events(n, b, d) \in Seq(EventOf(n))
    BY <1>7, AnnouncedEvents, ConcatProperties
  <2>12. DOMAIN evq' = Node /\ \A v \in Node : evq'[v] \in Seq(EventOf(v))
    BY <1>7, <2>3, <2>11
  <2>13. Queued' /\ \A v \in Node : up'[v] = "down" => kq'[v] = <<>>
    BY <1>5, <1>7, <2>3, <2>9, <2>10, <2>12 DEF Queued
  <2>14. ASSUME NEW v \in Node, Anch(v) PROVE Anch(v)'
    <3>1. CASE v = n
      <4>1. PICK known : known = (d[Peer(n)] # None \/ Tells(t, Peer(n)))
        OBVIOUS
      <4>2. /\ Anchored(d, t, n, Peer(n))
            /\ b.rid = Peer(n) => known
        BY <1>1, <1>2, <1>3, <1>4, <1>5, <2>14, <2>16, <3>1, <4>1, TakeAnchored DEF d
      <4>3. a \in Seq(PushOf(n, known)) /\ o \in Seq(PushOf(n, known))
        BY <2>8, <4>2
      <4>4. t \o a \in Seq(ItemOf(n)) /\ Anchored(d, t \o a, n, Peer(n))
        BY <1>5, <4>1, <4>2, <4>3, PushAnchored
      <4>5. known => d[Peer(n)] # None \/ Tells(t \o a, Peer(n))
        <5>1. Tells(t, Peer(n)) => Tells(t \o a, Peer(n))
          <6>1. a \in Seq(ItemOf(n))
            BY <4>3, SeqMonotonic DEF PushOf
          <6>2. PICK l \in Nat : l = Len(t)
            BY <1>5, LenProperties
          <6>3. PICK m \in Nat : m = Len(a)
            BY <6>1, LenProperties
          <6>4. Len(t \o a) = l + m /\ \A i \in 1..l : (t \o a)[i] = t[i] /\ i \in 1..(l + m)
            BY <1>5, <6>1, <6>2, <6>3, ConcatProperties
          <6> QED
            BY <6>2, <6>4 DEF Tells
        <5> QED
          BY <4>1, <5>1
      <4>6. Anchored(d, (t \o a) \o o, n, Peer(n))
        BY <4>3, <4>4, <4>5, PushAnchored
      <4> QED
        BY <2>6, <2>10, <3>1, <4>6 DEF Anch
    <3>2. CASE v # n
      BY <2>6, <2>10, <2>14, <3>2 DEF Anch
    <3> QED
      BY <3>1, <3>2
  <2> QED
    BY <2>5, <2>7, <2>13, <2>14, NextState
<1>10. CASE Dies(n)
  <2>1. /\ kq' = [kq EXCEPT ![n] = <<>>] /\ up' = [up EXCEPT ![n] = "stopping"]
        /\ lapsed' = Note(TRUE, "lost") /\ UNCHANGED <<cache, evq, now>>
    BY <1>10 DEF Dies, Phase
  <2>2. "lost" \in lapsed' /\ lapsed' \subseteq {"lost", "skipped", "stale"}
    BY <1>5, <2>1 DEF Note, Held
  <2>3. Held'
    BY <1>5, <2>1, <2>2 DEF Held
  <2>4. Queued' /\ \A v \in Node : up'[v] = "down" => kq'[v] = <<>>
    BY <1>5, <1>7, <2>1, EmptySeq DEF Queued, Held
  <2> QED
    BY <2>2, <2>3, <2>4, NextState
<1> QED
  BY <1>5, <1>8, <1>9, <1>10

LEMMA Delivered ==
  ASSUME StartInv, NEW n \in Node, NEW events \in Seq(EventOf(Peer(n))), Trusted(n, events),
         kq' = [kq EXCEPT ![n] = Received(n, events)], UNCHANGED cache
  PROVE  /\ DOMAIN kq' = Node /\ \A v \in Node : kq'[v] \in Seq(ItemOf(v))
         /\ \A v \in Node \ {n} : kq'[v] = kq[v]
         /\ \A v \in Node : Anch(v) => Anch(v)'
<1>1. TypeInv /\ DOMAIN kq = Node /\ \A v \in Node : kq[v] \in Seq(ItemOf(v))
  BY DEF StartInv, TypeInv
<1>2. Received(n, events) \in Seq(ItemOf(n))
  BY <1>1, ReceivedAnchored
<1>3. DOMAIN kq' = Node /\ kq'[n] = Received(n, events) /\ \A v \in Node \ {n} : kq'[v] = kq[v]
  BY <1>1, OneQueue
<1>4. ASSUME NEW v \in Node, Anch(v) PROVE Anch(v)'
  <2>1. CASE v = n
    <3>1. Anchored(cache[n], Received(n, events), n, Peer(n))
      BY <1>1, <1>4, <2>1, ReceivedAnchored DEF Anch
    <3> QED
      BY <1>3, <2>1, <3>1 DEF Anch
  <2>2. CASE v # n
    BY <1>3, <1>4, <2>2 DEF Anch
  <2> QED
    BY <2>1, <2>2
<1> QED
  BY <1>1, <1>2, <1>3, <1>4

LEMMA SameAnch == ASSUME UNCHANGED <<cache, kq>>, NEW v \in Node, Anch(v) PROVE Anch(v)'
BY DEF Anch

LEMMA RouteStep == ASSUME StartInv, NEW n \in Node, Route(n) PROVE StartInv'
<1>1. /\ Held /\ Queued /\ \A v \in Node : up[v] = "down" => kq[v] = <<>>
      /\ UNCHANGED <<full, wipes, up, cache, kq, now, lapsed, faults>>
      /\ evq[n] # <<>> /\ evq' = [evq EXCEPT ![n] = Tail(evq[n])]
      /\ buf' = [buf EXCEPT ![n] = Append(buf[n], Head(evq[n]))] \/ UNCHANGED buf
  BY DEF StartInv, TypeInv, Queued, Route
<1>2. Held'
  BY <1>1 DEF Held
<1>3. Tail(evq[n]) \in Seq(EventOf(n)) /\ Append(buf[n], Head(evq[n])) \in Seq(EventOf(n))
  BY <1>1, HeadTailProperties, AppendProperties DEF Queued
<1>4. Queued'
  BY <1>1, <1>3 DEF Queued
<1> QED
  BY <1>1, <1>2, <1>4, SameAnch, NextState

LEMMA ListensUp == ASSUME NEW n \in Node, Listens(n) PROVE up[n] # "down"
BY DEF Listens

LEMMA FlushStep == ASSUME StartInv, NEW n \in Node, Flush(n) PROVE StartInv'
<1>1. /\ Held /\ Queued /\ \A v \in Node : up[v] = "down" => kq[v] = <<>>
      /\ UNCHANGED <<full, wipes, up, cache, evq, now, lapsed>>
      /\ buf' = [buf EXCEPT ![n] = <<>>] \/ UNCHANGED buf
      /\ \/ /\ Takes(Peer(n), buf[n])
            /\ kq' = [kq EXCEPT ![Peer(n)] = Received(Peer(n), buf[n])]
         \/ UNCHANGED kq
  BY DEF StartInv, TypeInv, Queued, Flush
<1>2. Held'
  BY <1>1 DEF Held
<1>3. DOMAIN buf' = Node /\ \A v \in Node : buf'[v] \in Seq(EventOf(v))
  BY <1>1, EmptySeq DEF Queued
<1>4. /\ DOMAIN kq' = Node /\ \A v \in Node : kq'[v] \in Seq(ItemOf(v))
      /\ \A v \in Node : up'[v] = "down" => kq'[v] = <<>>
      /\ \A v \in Node : Anch(v) => Anch(v)'
  <2>1. CASE Takes(Peer(n), buf[n]) /\ kq' = [kq EXCEPT ![Peer(n)] = Received(Peer(n), buf[n])]
    <3>1. PICK p \in Node : p = Peer(n) /\ Peer(p) = n
      BY Two
    <3>2. buf[n] \in Seq(EventOf(Peer(p))) /\ Trusted(p, buf[n]) /\ up[p] # "down"
      BY <1>1, <2>1, <3>1, ListensUp DEF Queued, Takes
    <3>3. /\ DOMAIN kq' = Node /\ \A v \in Node : kq'[v] \in Seq(ItemOf(v))
          /\ \A v \in Node \ {p} : kq'[v] = kq[v]
          /\ \A v \in Node : Anch(v) => Anch(v)'
      BY <1>1, <2>1, <3>1, <3>2, Delivered
    <3> QED
      BY <1>1, <3>2, <3>3
  <2>2. CASE UNCHANGED kq
    BY <1>1, <2>2, SameAnch DEF Queued
  <2> QED
    BY <1>1, <2>1, <2>2
<1>5. Queued'
  BY <1>1, <1>3, <1>4 DEF Queued
<1> QED
  BY <1>1, <1>2, <1>4, <1>5, NextState

LEMMA PollStep == ASSUME StartInv, Poll PROVE StartInv'
<1>1. /\ Held /\ Queued /\ \A v \in Node : up[v] = "down" => kq[v] = <<>>
      /\ UNCHANGED <<full, wipes, up, cache, evq, timed, now>>
      /\ Listens(M) /\ buf' = [buf EXCEPT ![C] = <<>>]
      /\ lapsed' = lapsed \/ lapsed' = Note(TRUE, "lost")
      /\ \/ Trusted(M, buf[C]) /\ kq' = [kq EXCEPT ![M] = Received(M, buf[C])]
         \/ UNCHANGED kq
  BY DEF StartInv, TypeInv, Queued, Poll
<1>2. lapsed' \subseteq {"lost", "skipped", "stale"} /\ ("lost" \notin lapsed' => "lost" \notin lapsed)
  BY <1>1 DEF Held, Note
<1>3. Held'
  BY <1>1, <1>2 DEF Held
<1>4. M \in Node /\ C \in Node /\ Peer(M) = C
  BY CoordinationAssumption DEF Node, Peer
<1>5. DOMAIN buf' = Node /\ \A v \in Node : buf'[v] \in Seq(EventOf(v))
  BY <1>1, EmptySeq DEF Queued
<1>6. /\ DOMAIN kq' = Node /\ \A v \in Node : kq'[v] \in Seq(ItemOf(v))
      /\ \A v \in Node : up'[v] = "down" => kq'[v] = <<>>
      /\ \A v \in Node : Anch(v) => Anch(v)'
  <2>1. CASE Trusted(M, buf[C]) /\ kq' = [kq EXCEPT ![M] = Received(M, buf[C])]
    <3>1. buf[C] \in Seq(EventOf(Peer(M))) /\ up[M] # "down"
      BY <1>1, <1>4, ListensUp DEF Queued
    <3>2. /\ DOMAIN kq' = Node /\ \A v \in Node : kq'[v] \in Seq(ItemOf(v))
          /\ \A v \in Node \ {M} : kq'[v] = kq[v]
          /\ \A v \in Node : Anch(v) => Anch(v)'
      BY <1>1, <1>4, <2>1, <3>1, Delivered
    <3> QED
      BY <1>1, <3>1, <3>2
  <2>2. CASE UNCHANGED kq
    BY <1>1, <2>2, SameAnch DEF Queued
  <2> QED
    BY <1>1, <2>1, <2>2
<1>7. Queued'
  BY <1>1, <1>5, <1>6 DEF Queued
<1> QED
  BY <1>2, <1>3, <1>6, <1>7, NextState

LEMMA PhaseStep == ASSUME StartInv, NEW n \in Node, Boot(n) \/ Stop(n) PROVE StartInv'
<1>1. /\ Held /\ Queued /\ \A v \in Node : up[v] = "down" => kq[v] = <<>>
      /\ UNCHANGED <<full, cache, kq, evq, buf, now, lapsed>>
      /\ \E ph \in {"boot", "stopping"} : up' = [up EXCEPT ![n] = ph]
  BY DEF StartInv, TypeInv, Queued, Boot, Stop, Phase
<1>2. Held' /\ \A v \in Node : up'[v] = "down" => kq'[v] = <<>>
  BY <1>1 DEF Held
<1>3. Queued'
  BY <1>1 DEF Queued
<1> QED
  BY <1>1, <1>2, <1>3, SameAnch, NextState

LEMMA CrashStep == ASSUME StartInv, NEW n \in Node, Crash(n) PROVE StartInv'
<1>1. /\ Held /\ Queued /\ \A v \in Node : up[v] = "down" => kq[v] = <<>>
      /\ UNCHANGED <<full, cache, now>>
      /\ up' = [up EXCEPT ![n] = "down"]
      /\ kq' = [kq EXCEPT ![n] = <<>>] /\ evq' = [evq EXCEPT ![n] = <<>>]
      /\ buf' = [buf EXCEPT ![n] = <<>>]
      /\ lapsed' = Note(Busy(n), "lost")
  BY DEF StartInv, TypeInv, Queued, Crash, Phase
<1>2. /\ lapsed' \subseteq {"lost", "skipped", "stale"}
      /\ "lost" \notin lapsed' => "lost" \notin lapsed /\ kq[n] = <<>>
  BY <1>1 DEF Held, Note, Busy
<1>3. Held'
  BY <1>1, <1>2 DEF Held
<1>4. Queued' /\ \A v \in Node : up'[v] = "down" => kq'[v] = <<>>
  BY <1>1, EmptySeq DEF Queued, Held
<1>5. ASSUME NEW v \in Node, "lost" \notin lapsed', Anch(v) PROVE Anch(v)'
  <2>1. kq'[v] = kq[v]
    BY <1>1, <1>2, <1>5 DEF Queued
  <2> QED
    BY <1>1, <1>5, <2>1 DEF Anch
<1> QED
  BY <1>2, <1>3, <1>4, <1>5, NextState

(* What is sent of a buffer at the shutdown.                               *)
LEMMA FirstOnly ==
  ASSUME NEW S, NEW s \in Seq(S), s # <<>>
  PROVE  SubSeq(s, 1, 1) \in Seq(S) /\ (~(Len(s) > 1) => SubSeq(s, 1, 1) = s)
<1>1. Len(s) \in Nat /\ Len(s) # 0 /\ DOMAIN s = 1..Len(s)
  BY EmptySeq, LenProperties
<1>2. \A i \in 1..1 : s[i] \in S
  BY <1>1, ElementOfSeq
<1>3. SubSeq(s, 1, 1) = [i \in 1..1 |-> s[i]]
  BY <1>1
<1>4. SubSeq(s, 1, 1) \in Seq(S)
  BY <1>2, <1>3
<1>5. ASSUME ~(Len(s) > 1) PROVE SubSeq(s, 1, 1) = s
  <2>1. Len(s) = 1 /\ s = [i \in 1..Len(s) |-> s[i]]
    BY <1>1, <1>5
  <2> QED
    BY <1>3, <2>1
<1> QED
  BY <1>4, <1>5

LEMMA HaltStep == ASSUME StartInv, NEW n \in Node, Halt(n) PROVE StartInv'
<1> DEFINE sent == SubSeq(buf[n], 1, 1)
<1>1. PICK p \in Node : p = Peer(n) /\ Peer(p) = n /\ p # n
  BY Two
<1>2. /\ Held /\ Queued /\ \A v \in Node : up[v] = "down" => kq[v] = <<>>
      /\ UNCHANGED <<full, cache, evq, now>>
      /\ kq[n] = <<>> /\ up' = [up EXCEPT ![n] = "down"]
      /\ buf' = [buf EXCEPT ![n] = <<>>]
      /\ \/ lapsed' = Note(Len(buf[n]) > 1, "lost")
         \/ lapsed' = Note(buf[n] # <<>>, "lost")
      /\ \/ buf[n] # <<>> /\ Takes(p, sent) /\ kq' = [kq EXCEPT ![p] = Received(p, sent)]
         \/ UNCHANGED kq
  BY <1>1 DEF StartInv, TypeInv, Queued, Halt, Phase
<1>3. lapsed' \subseteq {"lost", "skipped", "stale"} /\ ("lost" \notin lapsed' => "lost" \notin lapsed)
  BY <1>2 DEF Held, Note
<1>4. Held' /\ \A v \in Node \ {n} : up'[v] = up[v]
  BY <1>2, <1>3 DEF Held
<1>5. DOMAIN buf' = Node /\ \A v \in Node : buf'[v] \in Seq(EventOf(v))
  BY <1>2, EmptySeq DEF Queued
<1>6. /\ DOMAIN kq' = Node /\ \A v \in Node : kq'[v] \in Seq(ItemOf(v))
      /\ \A v \in Node : up'[v] = "down" => kq'[v] = <<>>
      /\ \A v \in Node : Anch(v) => Anch(v)'
  <2>1. CASE buf[n] # <<>> /\ Takes(p, sent) /\ kq' = [kq EXCEPT ![p] = Received(p, sent)]
    <3>1. sent \in Seq(EventOf(Peer(p))) /\ Trusted(p, sent) /\ up[p] # "down"
      <4>1. buf[n] \in Seq(EventOf(Peer(p)))
        BY <1>1, <1>2 DEF Queued
      <4>2. sent \in Seq(EventOf(Peer(p)))
        BY <2>1, <4>1, FirstOnly
      <4> QED
        BY <1>1, <1>2, <2>1, <4>2, ListensUp DEF Takes
    <3>2. /\ DOMAIN kq' = Node /\ \A v \in Node : kq'[v] \in Seq(ItemOf(v))
          /\ \A v \in Node \ {p} : kq'[v] = kq[v]
          /\ \A v \in Node : Anch(v) => Anch(v)'
      BY <1>2, <2>1, <3>1, Delivered
    <3>3. ASSUME NEW v \in Node, up'[v] = "down" PROVE kq'[v] = <<>>
      BY <1>1, <1>2, <1>4, <3>1, <3>2, <3>3
    <3> QED
      BY <3>2, <3>3
  <2>2. CASE UNCHANGED kq
    <3>1. \A v \in Node : up'[v] = "down" => kq'[v] = <<>>
      BY <1>2, <1>4, <2>2
    <3> QED
      BY <1>2, <2>2, <3>1, SameAnch DEF Queued
  <2> QED
    BY <1>2, <2>1, <2>2
<1>7. Queued'
  BY <1>2, <1>5, <1>6 DEF Queued
<1> QED
  BY <1>3, <1>4, <1>6, <1>7, NextState

LEMMA WipeStep == ASSUME StartInv, Wipe PROVE StartInv'
<1>1. /\ Held /\ Queued /\ \A v \in Node : up[v] = "down" => kq[v] = <<>>
      /\ UNCHANGED <<full, up, kq, evq, buf, now>> /\ up[M] = "down"
      /\ cache' = [cache EXCEPT ![M] = [r \in RID |-> IF r = M THEN Profile ELSE None]]
      /\ lapsed' = Note(Busy(C), "stale")
  BY DEF StartInv, TypeInv, Queued, Wipe
<1>2. M \in Node /\ Peer(M) = C /\ M \in RID /\ <<C, M>> \in RID /\ <<C, M>> # M /\ M # C
  BY CoordinationAssumption DEF Node, Peer, RID, Edge
<1>3. lapsed' \subseteq {"lost", "skipped", "stale"} /\ ("lost" \notin lapsed' => "lost" \notin lapsed)
  BY <1>1 DEF Held, Note
<1>4. /\ cache' \in [Node -> [RID -> Man]] /\ \A v \in Node : cache'[v][v] = Profile
      /\ cache'[M][<<C, M>>] = None /\ \A v \in Node \ {M} : cache'[v] = cache[v]
  <2>1. [r \in RID |-> IF r = M THEN Profile ELSE None] \in [RID -> Man]
    BY Bundles
  <2> QED
    BY <1>1, <1>2, <2>1 DEF Held
<1>5. Held'
  BY <1>1, <1>3, <1>4 DEF Held
<1>6. Queued'
  BY <1>1 DEF Queued
<1>7. ASSUME NEW v \in Node, Anch(v) PROVE Anch(v)'
  <2>1. CASE v = M
    <3>1. kq'[M] = <<>>
      BY <1>1, <1>2
    <3>2. Paired(<<>>, C) /\ ~Names(<<>>, <<C, M>>)
      BY DEF Paired, Names
    <3> QED
      BY <1>2, <1>4, <2>1, <3>1, <3>2 DEF Anch, Anchored
  <2>2. CASE v # M
    BY <1>1, <1>4, <1>7, <2>2 DEF Anch
  <2> QED
    BY <2>1, <2>2
<1> QED
  BY <1>1, <1>3, <1>5, <1>6, <1>7, NextState

LEMMA IntroductionArrives ==
  ASSUME StartInv, kq' = [kq EXCEPT ![C] = Received(C, Introduction)], UNCHANGED cache
  PROVE  /\ DOMAIN kq' = Node /\ \A v \in Node : kq'[v] \in Seq(ItemOf(v))
         /\ \A v \in Node \ {C} : kq'[v] = kq[v]
         /\ \A v \in Node : Anch(v) => Anch(v)'
<1>1. TypeInv /\ DOMAIN kq = Node /\ \A v \in Node : kq[v] \in Seq(ItemOf(v))
  BY DEF StartInv, TypeInv
<1>2. C \in Node /\ Peer(C) = M /\ M \in RID /\ M \notin Edge
  BY CoordinationAssumption DEF Node, Peer, RID
<1>3. Introduction \in Seq(Message) /\ Len(Introduction) = 2
      /\ Introduction[1].rid = M /\ Introduction[1].ev = "FORGET"
      /\ Introduction[2].rid = M /\ Introduction[2].ev = "NEW"
  <2>1. Event(M, "FORGET", None) \in Message /\ Event(M, "NEW", Profile) \in Message
    BY <1>2, Bundles DEF Event, Message
  <2> QED
    BY <2>1 DEF Introduction, Event
<1>4. PICK t \in Seq(ItemOf(C)) :
        /\ t = Got(C, Introduction) /\ Len(t) = 2
        /\ t[1].rid = M /\ t[1].ev = "FORGET" /\ t[2].rid = M /\ t[2].ev = "NEW"
  BY <1>2, <1>3, GotItems
<1>5. Received(C, Introduction) = kq[C] \o t
  BY <1>4 DEF Received, Got
<1>6. Paired(t, M) /\ Tells(t, M)
  <2>1. \A i \in 1..2 : i = 1 \/ i = 2
    OBVIOUS
  <2> QED
    BY <1>4, <2>1 DEF Paired, Tells, Intro
<1>7. Received(C, Introduction) \in Seq(ItemOf(C))
  BY <1>1, <1>2, <1>4, <1>5, ConcatProperties
<1>8. DOMAIN kq' = Node /\ kq'[C] = kq[C] \o t /\ \A v \in Node \ {C} : kq'[v] = kq[v]
  BY <1>1, <1>2, <1>5, OneQueue
<1>9. ASSUME NEW v \in Node, Anch(v) PROVE Anch(v)'
  <2>1. CASE v = C
    <3>1. Anchored(cache[C], kq[C] \o t, C, M)
      BY <1>1, <1>2, <1>4, <1>6, <1>9, <2>1, JoinAnchored DEF Anch
    <3> QED
      BY <1>2, <1>8, <2>1, <3>1 DEF Anch
  <2>2. CASE v # C
    BY <1>8, <1>9, <2>2 DEF Anch
  <2> QED
    BY <2>1, <2>2
<1> QED
  BY <1>1, <1>2, <1>5, <1>7, <1>8, <1>9

LEMMA HandshakeStep == ASSUME StartInv, NEW n \in Node, Handshake(n) PROVE StartInv'
<1>1. /\ Held /\ Queued /\ \A v \in Node : up[v] = "down" => kq[v] = <<>>
      /\ UNCHANGED <<full, cache, evq, buf, now, lapsed>> /\ up[n] = "boot"
      /\ \E ph \in {"greeted", "stopping"} : up' = [up EXCEPT ![n] = ph]
      /\ \/ UNCHANGED kq
         \/ Listens(C) /\ kq' = [kq EXCEPT ![C] = Received(C, Introduction)]
  BY DEF StartInv, TypeInv, Queued, Handshake, Phase
<1>2. Held' /\ \A v \in Node : up'[v] = "down" => up[v] = "down"
  BY <1>1 DEF Held
<1>3. C \in Node
  BY DEF Node
<1>4. CASE UNCHANGED kq
  <2>1. Queued'
    BY <1>1, <1>4 DEF Queued
  <2> QED
    BY <1>1, <1>2, <1>4, <2>1, SameAnch, NextState
<1>5. CASE Listens(C) /\ kq' = [kq EXCEPT ![C] = Received(C, Introduction)]
  <2>1. /\ DOMAIN kq' = Node /\ \A v \in Node : kq'[v] \in Seq(ItemOf(v))
        /\ \A v \in Node \ {C} : kq'[v] = kq[v]
        /\ \A v \in Node : Anch(v) => Anch(v)'
    BY <1>1, <1>5, IntroductionArrives
  <2>2. Queued'
    BY <1>1, <2>1 DEF Queued
  <2>3. up[C] # "down"
    BY <1>3, <1>5, ListensUp
  <2>4. \A v \in Node : up'[v] = "down" => kq'[v] = <<>>
    BY <1>1, <1>2, <2>1, <2>3
  <2> QED
    BY <1>1, <1>2, <2>1, <2>2, <2>4, NextState
<1> QED
  BY <1>1, <1>4, <1>5

(* What the coordinator catches up with comes after what is known.         *)
LEMMA CatchingUp ==
  ASSUME TypeInv, NEW n \in Node, ~CannotSync(n), NEW o \in CaughtUp(n)
  PROVE  o \in Seq(PushOf(n, cache[n][Peer(n)] # None))
<1>1. CASE CatchesUp(n)
  <2> DEFINE S == {e \in Edge : Cached(M, e)}
  <2>1. PICK q \in Orders(S) : o = [i \in DOMAIN q |-> Item(q[i], None, cache[M][q[i]], M)]
    BY <1>1 DEF CaughtUp
  <2>2. S \in SUBSET Edge /\ \A e \in S : cache[M][e] # None
    BY DEF Cached
  <2> HIDE DEF S
  <2>3. PICK l \in Nat : DOMAIN q = 1..l /\ \A i \in 1..l : q[i] \in Edge /\ cache[M][q[i]] # None
    BY <2>1, <2>2, Orderings
  <2>4. Peer(n) = M /\ cache[n][Peer(n)] # None /\ M \in Node
    BY <1>1 DEF Peer, CannotSync, CatchesUp, Cached, Node
  <2>5. \A e \in Edge : cache[M][e] \in Man
    <3>1. cache[M] \in [RID -> Man]
      BY <2>4 DEF TypeInv, Held
    <3> QED
      BY <3>1 DEF RID
  <2>6. \A i \in 1..l : Item(q[i], None, cache[M][q[i]], M) \in PushOf(n, cache[n][Peer(n)] # None)
    BY <2>3, <2>4, <2>5, IsPush
  <2>7. o \in [1..l -> PushOf(n, cache[n][Peer(n)] # None)]
    BY <2>1, <2>3, <2>6
  <2> QED
    BY <2>7
<1>2. CASE ~CatchesUp(n)
  <2>1. o = <<>>
    BY <1>2 DEF CaughtUp
  <2> QED
    BY <2>1, EmptySeq
<1> QED
  BY <1>1, <1>2

LEMMA FinishStartStep == ASSUME StartInv, NEW n \in Node, FinishStart(n) PROVE StartInv'
<1>1. PICK a : a = (IF Cached(n, Peer(n)) THEN Contact(n, Peer(n), cache[n]) ELSE <<>>)
  OBVIOUS
<1>2. /\ TypeInv /\ Held /\ Queued /\ \A v \in Node : up[v] = "down" => kq[v] = <<>>
      /\ UNCHANGED <<full, cache, evq, buf, lapsed>> /\ up[n] = "greeted"
      /\ now' = now + Len(a)
      /\ \E ph \in {"run", "stopping"} : up' = [up EXCEPT ![n] = ph]
      /\ \/ kq' = [kq EXCEPT ![n] = (kq[n] \o a) \o <<>>]
         \/ ~CannotSync(n) /\ \E o \in CaughtUp(n) : kq' = [kq EXCEPT ![n] = (kq[n] \o a) \o o]
  BY <1>1 DEF StartInv, TypeInv, Queued, FinishStart, Phase
<1>3. PICK known : known = (cache[n][Peer(n)] # None)
  OBVIOUS
<1>4. a \in Seq(PushOf(n, known))
  <2>1. CASE Cached(n, Peer(n))
    <3>1. known /\ now \in Nat
      BY <1>2, <1>3, <2>1 DEF Cached, Held
    <3> QED
      BY <1>1, <2>1, <3>1, ContactPush
  <2>2. CASE ~Cached(n, Peer(n))
    BY <1>1, <2>2, EmptySeq
  <2> QED
    BY <2>1, <2>2
<1>5. kq[n] \in Seq(ItemOf(n)) /\ kq[n] \o a \in Seq(ItemOf(n))
  BY <1>2, <1>4, PushItems DEF Queued
<1>6. Anch(n) => Anchored(cache[n], kq[n] \o a, n, Peer(n))
  BY <1>3, <1>4, <1>5, PushAnchored DEF Anch
<1>7. PICK t \in Seq(ItemOf(n)) :
        /\ kq' = [kq EXCEPT ![n] = t]
        /\ Anch(n) => Anchored(cache[n], t, n, Peer(n))
  <2>1. CASE kq' = [kq EXCEPT ![n] = (kq[n] \o a) \o <<>>]
    BY <1>5, <1>6, <2>1, ConcatEmptySeq
  <2>2. CASE ~CannotSync(n) /\ \E o \in CaughtUp(n) : kq' = [kq EXCEPT ![n] = (kq[n] \o a) \o o]
    <3>1. PICK o \in CaughtUp(n) : kq' = [kq EXCEPT ![n] = (kq[n] \o a) \o o]
      BY <2>2
    <3>2. o \in Seq(PushOf(n, known))
      BY <1>2, <1>3, <2>2, CatchingUp
    <3>3. (kq[n] \o a) \o o \in Seq(ItemOf(n))
      BY <1>5, <3>2, PushItems
    <3>4. Anch(n) => Anchored(cache[n], (kq[n] \o a) \o o, n, Peer(n))
      BY <1>3, <1>5, <1>6, <3>2, PushAnchored
    <3> QED
      BY <3>1, <3>3, <3>4
  <2> QED
    BY <1>2, <2>1, <2>2
<1>8. DOMAIN kq' = Node /\ kq'[n] = t /\ \A v \in Node \ {n} : kq'[v] = kq[v]
  BY <1>2, <1>7, OneQueue DEF Queued
<1>9. Held'
  <2>1. Len(a) \in Nat
    BY <1>4, LenProperties
  <2>2. now' \in Nat
    BY <1>2, <2>1 DEF Held
  <2>3. up' \in [Node -> {"down", "boot", "greeted", "run", "stopping"}]
    BY <1>2 DEF Held
  <2> QED
    BY <1>2, <2>2, <2>3 DEF Held
<1>10. \A v \in Node : up'[v] = "down" => kq'[v] = <<>>
  BY <1>2, <1>8 DEF Held
<1>11. Queued'
  BY <1>2, <1>7, <1>8 DEF Queued
<1>12. ASSUME NEW v \in Node, Anch(v) PROVE Anch(v)'
  <2>1. CASE v = n
    BY <1>2, <1>7, <1>8, <1>12, <2>1 DEF Anch
  <2>2. CASE v # n
    BY <1>2, <1>8, <1>12, <2>2 DEF Anch
  <2> QED
    BY <2>1, <2>2
<1> QED
  BY <1>2, <1>9, <1>10, <1>11, <1>12, NextState

LEMMA NextStart == ASSUME StartInv, [Next]_vars PROVE StartInv'
<1>1. CASE UNCHANGED vars
  <2>1. Held /\ Queued /\ \A v \in Node : up[v] = "down" => kq[v] = <<>>
    BY DEF StartInv, TypeInv, Queued
  <2>2. UNCHANGED <<full, up, cache, kq, evq, buf, now, lapsed>>
    BY <1>1 DEF vars
  <2>3. Held' /\ Queued'
    BY <2>1, <2>2 DEF Held, Queued
  <2> QED
    BY <2>1, <2>2, <2>3, SameAnch, NextState
<1> QED
  BY <1>1, ProcessStep, RouteStep, FlushStep, PollStep, PhaseStep, CrashStep, HaltStep,
     WipeStep, HandshakeStep, FinishStartStep DEF Next, Work

LEMMA InitStart == Init => StartInv
<1> SUFFICES ASSUME Init PROVE StartInv
  OBVIOUS
<1>1. Held
  <2>1. \A n \in Node : [r \in RID |-> IF r = n THEN Profile ELSE None] \in [RID -> Man]
    BY Bundles
  <2>2. \A n \in Node : n \in RID
    BY Two
  <2> QED
    BY <2>1, <2>2, CoordinationAssumption DEF Init, Held
<1>2. TypeInv
  BY <1>1, EmptySeq DEF Init, TypeInv
<1>3. ASSUME NEW n \in Node PROVE Anch(n)
  <2>1. <<Peer(n), n>> \in RID /\ <<Peer(n), n>> # n
    <3>1. <<Peer(n), n>> \in Edge
      BY Two
    <3> QED
      BY <3>1, EdgeIsNoNode
  <2>2. cache[n][<<Peer(n), n>>] = None /\ kq[n] = <<>>
    BY <2>1 DEF Init
  <2>3. Paired(<<>>, Peer(n)) /\ ~Names(<<>>, <<Peer(n), n>>)
    BY DEF Paired, Names
  <2> QED
    BY <2>2, <2>3 DEF Anch, Anchored
<1> QED
  BY <1>2, <1>3 DEF StartInv, Anch

(* TypeOK holds for every choice of a full or partial member and however   *)
(* often the nodes stop and crash; a node's own profile stays cached.      *)
THEOREM TypeTheorem == Spec => []TypeOK
<1>1. StartInv => TypeOK
  <2> SUFFICES ASSUME StartInv PROVE TypeOK
    OBVIOUS
  <2>1. Held /\ \A n \in Node : kq[n] \in Seq(ItemOf(n))
    BY DEF StartInv, TypeInv
  <2>2. ASSUME NEW n \in Node, NEW i \in DOMAIN kq[n]
        PROVE  kq[n][i].ev # "FORGET" => kq[n][i].man # None
    <3>1. kq[n][i] \in ItemOf(n)
      BY <2>1, LenProperties, ElementOfSeq
    <3> QED
      BY <3>1, ItemFields
  <2> QED
    BY <2>1, <2>2 DEF Held, TypeOK
<1>2. StartInv /\ [Next]_vars => StartInv'
  BY NextStart
<1> QED
  BY InitStart, <1>1, <1>2, PTL DEF Spec

(* StartsAgain: a node that has an edge from the other node knows that     *)
(* node, once it has processed what it received, if no work was lost in a  *)
(* crash: whatever handshakes, retries, stops and wipes there were, the    *)
(* synchronisation at its next start does not fail on it.                  *)
THEOREM StartsAgainTheorem == Spec => []StartsAgain
<1>1. StartInv => StartsAgain
  <2> SUFFICES ASSUME StartInv, NEW n \in Node, Quiet, "lost" \notin lapsed PROVE ~CannotSync(n)
    BY DEF StartsAgain
  <2>1. Anch(n) /\ kq[n] = <<>>
    BY DEF StartInv, Anch, Quiet
  <2>2. ~Tells(<<>>, Peer(n))
    BY DEF Tells
  <2> QED
    BY <2>1, <2>2 DEF Anch, Anchored, CannotSync, Cached
<1>2. StartInv /\ [Next]_vars => StartInv'
  BY NextStart
<1> QED
  BY InitStart, <1>1, <1>2, PTL DEF Spec

-----------------------------------------------------------------------------
(* Agreement of the two nodes                                              *)
(*                                                                         *)
(* QuietAgreement is about cached edges, but what keeps it is in the       *)
(* queues: which knowledge and which events are under way, in which order  *)
(* and made when. The proof puts each queue into a few words, Has, Mem,    *)
(* Before, Ahead, Open, Starts, Led and Late, and goes on in three parts:  *)
(* what happens to the words when queues are joined, popped and added to;  *)
(* the invariant, in these words, of a view of the two nodes, which the    *)
(* moves of a view keep; and that each step of Coordination is a move.     *)

(* What is in the queues, in short.  "1" is the edge <<M, C>>, which C     *)
(* proposes (P1) and M approves (A1), "2" the edge <<C, M>>, with the      *)
(* roles exchanged; F1 and F2 forget them, NM and NC introduce the nodes,  *)
(* FM forgets M.  What C catches up with is CP or CA.                      *)
What(x, f, p, a, cp, ca) ==
  IF x.ev = "FORGET" THEN f
  ELSE IF x.ev = None /\ x.src # None
  THEN IF x.man.st = "PROPOSED" THEN cp ELSE ca
  ELSE IF x.man.st = "PROPOSED" THEN p ELSE a

Kind(x) ==
  IF x.rid = M THEN IF x.ev = "FORGET" THEN "FM" ELSE "NM"
  ELSE IF x.rid = C THEN "NC"
  ELSE IF x.rid = <<M, C>> THEN What(x, "F1", "P1", "A1", "CP1", "CA1")
  ELSE What(x, "F2", "P2", "A2", "CP2", "CA2")

Made(x) == IF x.man = None THEN 0 ELSE x.man.ts

(* In s there is an x, made at t; an x with a y behind it, made at t; an x *)
(* with no y behind it.  Each y but a first one follows an x.  Each y was  *)
(* made after what of X is in front of it.                                 *)
Has(s, x)         == \E i \in 1..Len(s) : Kind(s[i]) = x
Mem(s, x, t)      == \E i \in 1..Len(s) : Kind(s[i]) = x /\ Made(s[i]) = t
Before(s, x, y)   == \E i, j \in 1..Len(s) : i < j /\ Kind(s[i]) = x /\ Kind(s[j]) = y
Ahead(s, x, y, t) ==
  \E i, j \in 1..Len(s) : i < j /\ Kind(s[i]) = x /\ Kind(s[j]) = y /\ Made(s[j]) = t
Open(s, x, y) ==
  \E i \in 1..Len(s) : Kind(s[i]) = x /\ \A j \in 1..Len(s) : i < j => Kind(s[j]) # y
Starts(s, x) == s # <<>> /\ Kind(Head(s)) = x
Led(s, y, x) == \A i \in 1..Len(s) : i # 1 /\ Kind(s[i]) = y => Kind(s[i - 1]) = x
Late(s, X, y) ==
  \A i, j \in 1..Len(s) :
     (i < j /\ Kind(s[i]) \in X /\ Kind(s[j]) = y) => Made(s[j]) > Made(s[i])

-----------------------------------------------------------------------------
(* What is in two queues, one behind the other.                            *)
Behind(s, w, q, k, l) ==
  /\ k = Len(s) /\ l = Len(w)
  /\ \A i \in 1..k : i \in 1..Len(q) /\ q[i] = s[i]
  /\ \A i \in 1..l : k + i \in 1..Len(q) /\ q[k + i] = w[i]
  /\ \A i \in 1..Len(q) : i \in 1..k \/ \E j \in 1..l : i = k + j

(* An index into a joined queue is one into the first or the second.       *)
LEMMA JoinIndex ==
  ASSUME NEW S, NEW s \in Seq(S), NEW w \in Seq(S), NEW q, q = s \o w
  PROVE  \E k \in Nat, l \in Nat : Behind(s, w, q, k, l)
<1>1. PICK k \in Nat : k = Len(s)
  BY LenProperties
<1>2. PICK l \in Nat : l = Len(w)
  BY LenProperties
<1>3. /\ Len(q) = k + l
      /\ \A i \in 1..k : q[i] = s[i]
      /\ \A i \in 1..l : q[k + i] = w[i]
  BY <1>1, <1>2, ConcatProperties
<1>4. /\ \A i \in 1..k : i \in 1..(k + l)
      /\ \A i \in 1..l : k + i \in 1..(k + l)
  OBVIOUS
<1>5. ASSUME NEW i \in 1..(k + l), i \notin 1..k PROVE \E j \in 1..l : i = k + j
  <2>1. i - k \in 1..l /\ i = k + (i - k)
    BY <1>5
  <2> QED
    BY <2>1
<1>6. Behind(s, w, q, k, l)
  BY <1>1, <1>2, <1>3, <1>4, <1>5 DEF Behind
<1> QED
  BY <1>6

(* The words of a joined queue.                                            *)
LEMMA JoinMem ==
  ASSUME NEW S, NEW s \in Seq(S), NEW w \in Seq(S)
  PROVE  /\ \A x : Has(s \o w, x) <=> Has(s, x) \/ Has(w, x)
         /\ \A x, t : Mem(s \o w, x, t) <=> Mem(s, x, t) \/ Mem(w, x, t)
<1>1. PICK q : q = s \o w
  OBVIOUS
<1>0. PICK k \in Nat, l \in Nat : Behind(s, w, q, k, l)
  BY <1>1, JoinIndex
<1>2. /\ k = Len(s) /\ l = Len(w)
      /\ \A i \in 1..k : i \in 1..Len(q) /\ q[i] = s[i]
      /\ \A i \in 1..l : k + i \in 1..Len(q) /\ q[k + i] = w[i]
      /\ \A i \in 1..Len(q) : i \in 1..k \/ \E j \in 1..l : i = k + j
  BY <1>0 DEF Behind
<1>3. ASSUME NEW x PROVE Has(q, x) <=> Has(s, x) \/ Has(w, x)
  <2>1. ASSUME NEW i \in 1..Len(q), Kind(q[i]) = x PROVE Has(s, x) \/ Has(w, x)
    <3>1. CASE i \in 1..k
      BY <1>2, <2>1, <3>1 DEF Has
    <3>2. CASE \E j \in 1..l : i = k + j
      BY <1>2, <2>1, <3>2 DEF Has
    <3> QED
      BY <1>2, <3>1, <3>2
  <2>2. ASSUME NEW i \in 1..k, Kind(s[i]) = x PROVE Has(q, x)
    BY <1>2, <2>2 DEF Has
  <2>3. ASSUME NEW i \in 1..l, Kind(w[i]) = x PROVE Has(q, x)
    BY <1>2, <2>3 DEF Has
  <2> QED
    BY <1>2, <2>1, <2>2, <2>3 DEF Has
<1>4. ASSUME NEW x, NEW t PROVE Mem(q, x, t) <=> Mem(s, x, t) \/ Mem(w, x, t)
  <2>1. ASSUME NEW i \in 1..Len(q), Kind(q[i]) = x, Made(q[i]) = t PROVE Mem(s, x, t) \/ Mem(w, x, t)
    <3>1. CASE i \in 1..k
      BY <1>2, <2>1, <3>1 DEF Mem
    <3>2. CASE \E j \in 1..l : i = k + j
      BY <1>2, <2>1, <3>2 DEF Mem
    <3> QED
      BY <1>2, <3>1, <3>2
  <2>2. ASSUME NEW i \in 1..k, Kind(s[i]) = x, Made(s[i]) = t PROVE Mem(q, x, t)
    BY <1>2, <2>2 DEF Mem
  <2>3. ASSUME NEW i \in 1..l, Kind(w[i]) = x, Made(w[i]) = t PROVE Mem(q, x, t)
    BY <1>2, <2>3 DEF Mem
  <2> QED
    BY <1>2, <2>1, <2>2, <2>3 DEF Mem
<1> QED
  BY <1>1, <1>3, <1>4

LEMMA JoinBefore ==
  ASSUME NEW S, NEW s \in Seq(S), NEW w \in Seq(S)
  PROVE  /\ \A x, y : Before(s \o w, x, y) <=>
                        Before(s, x, y) \/ Before(w, x, y) \/ (Has(s, x) /\ Has(w, y))
         /\ \A x, y, t : Ahead(s \o w, x, y, t) <=>
                           Ahead(s, x, y, t) \/ Ahead(w, x, y, t) \/ (Has(s, x) /\ Mem(w, y, t))
<1>1. PICK q : q = s \o w
  OBVIOUS
<1>0. PICK k \in Nat, l \in Nat : Behind(s, w, q, k, l)
  BY <1>1, JoinIndex
<1>2. /\ k = Len(s) /\ l = Len(w)
      /\ \A i \in 1..k : i \in 1..Len(q) /\ q[i] = s[i]
      /\ \A i \in 1..l : k + i \in 1..Len(q) /\ q[k + i] = w[i]
      /\ \A i \in 1..Len(q) : i \in 1..k \/ \E j \in 1..l : i = k + j
  BY <1>0 DEF Behind
<1>5. /\ \A i \in 1..k, j \in 1..l : i < k + j /\ ~(k + j < i)
      /\ \A i \in 1..l, j \in 1..l : i < j <=> k + i < k + j
  OBVIOUS
<1>6. ASSUME NEW x, NEW y
      PROVE  Before(q, x, y) <=> Before(s, x, y) \/ Before(w, x, y) \/ (Has(s, x) /\ Has(w, y))
  <2>1. Before(q, x, y) => Before(s, x, y) \/ Before(w, x, y) \/ (Has(s, x) /\ Has(w, y))
    <3> SUFFICES ASSUME NEW i \in 1..Len(q), NEW j \in 1..Len(q), i < j,
                        Kind(q[i]) = x, Kind(q[j]) = y
                 PROVE  Before(s, x, y) \/ Before(w, x, y) \/ (Has(s, x) /\ Has(w, y))
      BY DEF Before
    <3>1. CASE i \in 1..k /\ j \in 1..k
      BY <1>2, <3>1 DEF Before
    <3>2. CASE i \in 1..k /\ \E m \in 1..l : j = k + m
      <4>1. PICK m \in 1..l : j = k + m
        BY <3>2
      <4>2. Kind(w[m]) = y /\ Kind(s[i]) = x
        BY <1>2, <3>2, <4>1
      <4> QED
        BY <1>2, <3>2, <4>1, <4>2 DEF Has
    <3>3. CASE (\E m \in 1..l : i = k + m) /\ \E m \in 1..l : j = k + m
      <4>1. PICK a \in 1..l : i = k + a
        BY <3>3
      <4>2. PICK b \in 1..l : j = k + b
        BY <3>3
      <4>3. a < b /\ Kind(w[a]) = x /\ Kind(w[b]) = y
        BY <1>2, <1>5, <4>1, <4>2
      <4> QED
        BY <1>2, <4>3 DEF Before
    <3>4. CASE (\E m \in 1..l : i = k + m) /\ j \in 1..k
      BY <1>5, <3>4
    <3> QED
      BY <1>2, <3>1, <3>2, <3>3, <3>4
  <2>2. Before(s, x, y) => Before(q, x, y)
    BY <1>2, <1>2 DEF Before
  <2>3. Before(w, x, y) => Before(q, x, y)
    <3> SUFFICES ASSUME NEW i \in 1..l, NEW j \in 1..l, i < j, Kind(w[i]) = x, Kind(w[j]) = y
                 PROVE  Before(q, x, y)
      BY <1>2 DEF Before
    <3> QED
      BY <1>2, <1>5 DEF Before
  <2>4. Has(s, x) /\ Has(w, y) => Before(q, x, y)
    <3> SUFFICES ASSUME NEW i \in 1..k, NEW j \in 1..l, Kind(s[i]) = x, Kind(w[j]) = y
                 PROVE  Before(q, x, y)
      BY <1>2 DEF Has
    <3> QED
      BY <1>2, <1>5 DEF Before
  <2> QED
    BY <2>1, <2>2, <2>3, <2>4
<1>7. ASSUME NEW x, NEW y, NEW t
      PROVE  Ahead(q, x, y, t) <=>
               Ahead(s, x, y, t) \/ Ahead(w, x, y, t) \/ (Has(s, x) /\ Mem(w, y, t))
  <2>1. Ahead(q, x, y, t) => Ahead(s, x, y, t) \/ Ahead(w, x, y, t) \/ (Has(s, x) /\ Mem(w, y, t))
    <3> SUFFICES ASSUME NEW i \in 1..Len(q), NEW j \in 1..Len(q), i < j,
                        Kind(q[i]) = x, Kind(q[j]) = y, Made(q[j]) = t
                 PROVE  Ahead(s, x, y, t) \/ Ahead(w, x, y, t) \/ (Has(s, x) /\ Mem(w, y, t))
      BY DEF Ahead
    <3>1. CASE i \in 1..k /\ j \in 1..k
      BY <1>2, <3>1 DEF Ahead
    <3>2. CASE i \in 1..k /\ \E m \in 1..l : j = k + m
      <4>1. PICK m \in 1..l : j = k + m
        BY <3>2
      <4>2. Kind(w[m]) = y /\ Made(w[m]) = t /\ Kind(s[i]) = x
        BY <1>2, <3>2, <4>1
      <4> QED
        BY <1>2, <3>2, <4>1, <4>2 DEF Has, Mem
    <3>3. CASE (\E m \in 1..l : i = k + m) /\ \E m \in 1..l : j = k + m
      <4>1. PICK a \in 1..l : i = k + a
        BY <3>3
      <4>2. PICK b \in 1..l : j = k + b
        BY <3>3
      <4>3. a < b /\ Kind(w[a]) = x /\ Kind(w[b]) = y /\ Made(w[b]) = t
        BY <1>2, <1>5, <4>1, <4>2
      <4> QED
        BY <1>2, <4>3 DEF Ahead
    <3>4. CASE (\E m \in 1..l : i = k + m) /\ j \in 1..k
      BY <1>5, <3>4
    <3> QED
      BY <1>2, <3>1, <3>2, <3>3, <3>4
  <2>2. Ahead(s, x, y, t) => Ahead(q, x, y, t)
    BY <1>2, <1>2 DEF Ahead
  <2>3. Ahead(w, x, y, t) => Ahead(q, x, y, t)
    <3> SUFFICES ASSUME NEW i \in 1..l, NEW j \in 1..l, i < j, Kind(w[i]) = x,
                        Kind(w[j]) = y, Made(w[j]) = t
                 PROVE  Ahead(q, x, y, t)
      BY <1>2 DEF Ahead
    <3> QED
      BY <1>2, <1>5 DEF Ahead
  <2>4. Has(s, x) /\ Mem(w, y, t) => Ahead(q, x, y, t)
    <3> SUFFICES ASSUME NEW i \in 1..k, NEW j \in 1..l, Kind(s[i]) = x, Kind(w[j]) = y, Made(w[j]) = t
                 PROVE  Ahead(q, x, y, t)
      BY <1>2 DEF Has, Mem
    <3> QED
      BY <1>2, <1>5 DEF Ahead
  <2> QED
    BY <2>1, <2>2, <2>3, <2>4
<1> QED
  BY <1>1, <1>6, <1>7

LEMMA JoinOpen ==
  ASSUME NEW S, NEW s \in Seq(S), NEW w \in Seq(S)
  PROVE  \A x, y : Open(s \o w, x, y) <=> Open(w, x, y) \/ (Open(s, x, y) /\ ~Has(w, y))
<1>1. PICK q : q = s \o w
  OBVIOUS
<1>0. PICK k \in Nat, l \in Nat : Behind(s, w, q, k, l)
  BY <1>1, JoinIndex
<1>2. /\ k = Len(s) /\ l = Len(w)
      /\ \A i \in 1..k : i \in 1..Len(q) /\ q[i] = s[i]
      /\ \A i \in 1..l : k + i \in 1..Len(q) /\ q[k + i] = w[i]
      /\ \A i \in 1..Len(q) : i \in 1..k \/ \E j \in 1..l : i = k + j
  BY <1>0 DEF Behind
<1>5. /\ \A i \in 1..k, j \in 1..l : i < k + j /\ ~(k + j < i)
      /\ \A i \in 1..l, j \in 1..l : i < j <=> k + i < k + j
  OBVIOUS
<1> SUFFICES ASSUME NEW x, NEW y
             PROVE  Open(q, x, y) <=> Open(w, x, y) \/ (Open(s, x, y) /\ ~Has(w, y))
  BY <1>1
<1>6. Open(q, x, y) => Open(w, x, y) \/ (Open(s, x, y) /\ ~Has(w, y))
  <2> SUFFICES ASSUME NEW i \in 1..Len(q), Kind(q[i]) = x,
                      \A j \in 1..Len(q) : i < j => Kind(q[j]) # y
               PROVE  Open(w, x, y) \/ (Open(s, x, y) /\ ~Has(w, y))
    BY DEF Open
  <2>1. CASE i \in 1..k
    <3>1. \A j \in 1..l : Kind(w[j]) # y
      BY <1>2, <1>5, <2>1
    <3>2. Open(s, x, y)
      BY <1>2, <2>1 DEF Open
    <3> QED
      BY <1>2, <3>1, <3>2 DEF Has
  <2>2. CASE \E m \in 1..l : i = k + m
    <3>1. PICK m \in 1..l : i = k + m
      BY <2>2
    <3>2. \A j \in 1..l : m < j => Kind(w[j]) # y
      BY <1>2, <1>5, <3>1
    <3> QED
      BY <1>2, <3>1, <3>2 DEF Open
  <2> QED
    BY <1>2, <2>1, <2>2
<1>7. Open(w, x, y) => Open(q, x, y)
  <2> SUFFICES ASSUME NEW m \in 1..l, Kind(w[m]) = x, \A j \in 1..l : m < j => Kind(w[j]) # y
               PROVE  Open(q, x, y)
    BY <1>2 DEF Open
  <2>1. k + m \in 1..Len(q) /\ Kind(q[k + m]) = x
    BY <1>2
  <2>2. ASSUME NEW j \in 1..Len(q), k + m < j PROVE Kind(q[j]) # y
    <3>1. PICK i \in 1..l : j = k + i
      BY <1>2, <1>5, <2>2
    <3> QED
      BY <1>2, <1>5, <2>2, <3>1
  <2> QED
    BY <2>1, <2>2 DEF Open
<1>8. Open(s, x, y) /\ ~Has(w, y) => Open(q, x, y)
  <2> SUFFICES ASSUME NEW i \in 1..k, Kind(s[i]) = x, \A j \in 1..k : i < j => Kind(s[j]) # y,
                      \A j \in 1..l : Kind(w[j]) # y
               PROVE  Open(q, x, y)
    BY <1>2 DEF Open, Has
  <2>1. i \in 1..Len(q) /\ Kind(q[i]) = x
    BY <1>2
  <2>2. ASSUME NEW j \in 1..Len(q), i < j PROVE Kind(q[j]) # y
    <3>1. CASE j \in 1..k
      BY <1>2, <2>2, <3>1
    <3>2. CASE \E m \in 1..l : j = k + m
      BY <1>2, <3>2
    <3> QED
      BY <1>2, <3>1, <3>2
  <2> QED
    BY <2>1, <2>2 DEF Open
<1> QED
  BY <1>6, <1>7, <1>8

LEMMA JoinOrder ==
  ASSUME NEW S, NEW s \in Seq(S), NEW w \in Seq(S)
  PROVE  /\ \A x, y : (Led(s, y, x) /\ ~Has(w, y)) => Led(s \o w, y, x)
         /\ \A X, y : (Late(s, X, y) /\ ~Has(w, y)) => Late(s \o w, X, y)
<1>1. PICK q : q = s \o w
  OBVIOUS
<1>0. PICK k \in Nat, l \in Nat : Behind(s, w, q, k, l)
  BY <1>1, JoinIndex
<1>2. /\ k = Len(s) /\ l = Len(w)
      /\ \A i \in 1..k : i \in 1..Len(q) /\ q[i] = s[i]
      /\ \A i \in 1..l : k + i \in 1..Len(q) /\ q[k + i] = w[i]
      /\ \A i \in 1..Len(q) : i \in 1..k \/ \E j \in 1..l : i = k + j
  BY <1>0 DEF Behind
<1>5. ASSUME NEW y, ~Has(w, y), NEW i \in 1..Len(q), Kind(q[i]) = y PROVE i \in 1..k
  BY <1>2, <1>5 DEF Has
<1>6. ASSUME NEW x, NEW y, Led(s, y, x), ~Has(w, y) PROVE Led(q, y, x)
  <2> SUFFICES ASSUME NEW i \in 1..Len(q), i # 1, Kind(q[i]) = y PROVE Kind(q[i - 1]) = x
    BY DEF Led
  <2>1. i \in 1..k
    BY <1>5, <1>6
  <2>2. i - 1 \in 1..k
    BY <2>1
  <2> QED
    BY <1>2, <1>6, <2>1, <2>2 DEF Led
<1>7. ASSUME NEW X, NEW y, Late(s, X, y), ~Has(w, y) PROVE Late(q, X, y)
  <2> SUFFICES ASSUME NEW i \in 1..Len(q), NEW j \in 1..Len(q), i < j,
                      Kind(q[i]) \in X, Kind(q[j]) = y
               PROVE  Made(q[j]) > Made(q[i])
    BY DEF Late
  <2>1. j \in 1..k
    BY <1>5, <1>7
  <2>2. i \in 1..k
    BY <1>2, <2>1
  <2> QED
    BY <1>2, <1>7, <2>1, <2>2 DEF Late
<1> QED
  BY <1>1, <1>6, <1>7

-----------------------------------------------------------------------------
(* A queue is popped, and added to.                                        *)

Ends(s, x) == s # <<>> /\ Kind(s[Len(s)]) = x

(* r is s without the x made at a at its head.                             *)
Popped(s, k, a, r) ==
  /\ \A x : Has(s, x) <=> x = k \/ Has(r, x)
  /\ \A x, t : Mem(s, x, t) <=> (x = k /\ t = a) \/ Mem(r, x, t)
  /\ \A x, y : Before(s, x, y) <=> (x = k /\ Has(r, y)) \/ Before(r, x, y)
  /\ \A x, y, t : Ahead(s, x, y, t) <=> (x = k /\ Mem(r, y, t)) \/ Ahead(r, x, y, t)
  /\ \A x, y : Open(s, x, y) <=> (x = k /\ ~Has(r, y)) \/ Open(r, x, y)
  /\ \A y : Starts(s, y) <=> y = k
  /\ \A x, y : Led(s, y, x) => Led(r, y, x) /\ (Starts(r, y) => k = x)
  /\ \A X, y : Late(s, X, y) => Late(r, X, y) /\ (k \in X => \A t : Mem(r, y, t) => t > a)

(* q is r with a k made at a at its end.                                   *)
Added(r, k, a, q) ==
  /\ q # <<>>
  /\ \A x : Has(q, x) <=> Has(r, x) \/ x = k
  /\ \A x, t : Mem(q, x, t) <=> Mem(r, x, t) \/ (x = k /\ t = a)
  /\ \A x, y : Before(q, x, y) <=> Before(r, x, y) \/ (Has(r, x) /\ y = k)
  /\ \A x, y, t : Ahead(q, x, y, t) <=> Ahead(r, x, y, t) \/ (Has(r, x) /\ y = k /\ t = a)
  /\ \A x, y : Open(q, x, y) <=> x = k \/ (Open(r, x, y) /\ y # k)
  /\ \A x : Ends(q, x) <=> x = k
  /\ \A y : Starts(q, y) <=> IF r = <<>> THEN y = k ELSE Starts(r, y)
  /\ \A x, y : (Led(r, y, x) /\ (y = k => r = <<>> \/ Ends(r, x))) => Led(q, y, x)
  /\ \A X, y : (Late(r, X, y) /\ (y = k => \A x \in X : \A u : Mem(r, x, u) => a > u)) => Late(q, X, y)

(* The words of a queue of one.                                            *)
LEMMA One ==
  ASSUME NEW h
  PROVE  /\ \A x : Has(<<h>>, x) <=> x = Kind(h)
         /\ \A x, t : Mem(<<h>>, x, t) <=> x = Kind(h) /\ t = Made(h)
         /\ \A x, y : ~Before(<<h>>, x, y) /\ (Open(<<h>>, x, y) <=> x = Kind(h))
         /\ \A x, y, t : ~Ahead(<<h>>, x, y, t)
<1>1. PICK w : w = <<h>>
  OBVIOUS
<1>2. Len(w) = 1 /\ w[1] = h
  BY <1>1
<1>3. 1 \in 1..1 /\ \A i \in 1..1 : i = 1 /\ ~(1 < 1)
  OBVIOUS
<1>4. ASSUME NEW x PROVE Has(w, x) <=> x = Kind(h)
  BY <1>2, <1>3 DEF Has
<1>5. ASSUME NEW x, NEW t PROVE Mem(w, x, t) <=> x = Kind(h) /\ t = Made(h)
  BY <1>2, <1>3 DEF Mem
<1>6. ASSUME NEW x, NEW y PROVE ~Before(w, x, y) /\ (Open(w, x, y) <=> x = Kind(h))
  BY <1>2, <1>3 DEF Before, Open
<1>7. ASSUME NEW x, NEW y, NEW t PROVE ~Ahead(w, x, y, t)
  BY <1>2, <1>3 DEF Ahead
<1> QED
  BY <1>1, <1>4, <1>5, <1>6, <1>7

(* The words of a queue before and after its head is taken.                *)
LEMMA HeadAndTail ==
  ASSUME NEW S, NEW s \in Seq(S), s # <<>>
  PROVE  \E k \in Nat : /\ k = Len(s) /\ Len(Tail(s)) = k - 1 /\ k # 0
                        /\ Head(s) = s[1] /\ \A i \in 1..(k - 1) : Tail(s)[i] = s[i + 1]
<1>1. PICK k \in Nat : k = Len(s)
  BY LenProperties
<1>2. k # 0
  BY <1>1, EmptySeq
<1>3. Head(s) = s[1] /\ Len(Tail(s)) = k - 1 /\ \A i \in 1..(k - 1) : Tail(s)[i] = s[i + 1]
  BY <1>1, <1>2, HeadTailProperties
<1> QED
  BY <1>1, <1>2, <1>3

LEMMA PopView ==
  ASSUME NEW S, NEW s \in Seq(S), s # <<>>
  PROVE  Popped(s, Kind(Head(s)), Made(Head(s)), Tail(s))
<1>1. PICK h : h = Head(s)
  OBVIOUS
<1>2. PICK r : r = Tail(s)
  OBVIOUS
<1>3. h \in S /\ r \in Seq(S) /\ <<h>> \in Seq(S) /\ s = <<h>> \o r
  BY <1>1, <1>2, HeadTailProperties
<1>4. /\ \A x : Has(s, x) <=> Has(<<h>>, x) \/ Has(r, x)
      /\ \A x, t : Mem(s, x, t) <=> Mem(<<h>>, x, t) \/ Mem(r, x, t)
  BY <1>3, JoinMem
<1>5. /\ \A x, y : Before(s, x, y) <=>
                     Before(<<h>>, x, y) \/ Before(r, x, y) \/ (Has(<<h>>, x) /\ Has(r, y))
      /\ \A x, y, t : Ahead(s, x, y, t) <=>
                        Ahead(<<h>>, x, y, t) \/ Ahead(r, x, y, t) \/ (Has(<<h>>, x) /\ Mem(r, y, t))
  BY <1>3, JoinBefore
<1>6. \A x, y : Open(s, x, y) <=> Open(r, x, y) \/ (Open(<<h>>, x, y) /\ ~Has(r, y))
  BY <1>3, JoinOpen
<1>7. PICK k \in Nat : /\ k = Len(s) /\ Len(r) = k - 1 /\ k # 0
                       /\ h = s[1] /\ \A i \in 1..(k - 1) : r[i] = s[i + 1]
  BY <1>1, <1>2, HeadAndTail
<1>8. ASSUME NEW x, NEW y, Led(s, y, x) PROVE Led(r, y, x) /\ (Starts(r, y) => Kind(h) = x)
  <2>1. Led(r, y, x)
    <3> SUFFICES ASSUME NEW i \in 1..(k - 1), i # 1, Kind(r[i]) = y PROVE Kind(r[i - 1]) = x
      BY <1>7 DEF Led
    <3>1. i + 1 \in 1..k /\ i + 1 # 1 /\ (i + 1) - 1 = i /\ i - 1 \in 1..(k - 1) /\ (i - 1) + 1 = i
      OBVIOUS
    <3>2. Kind(s[i]) = x
      BY <1>7, <1>8, <3>1 DEF Led
    <3> QED
      BY <1>7, <3>1, <3>2
  <2>2. ASSUME Starts(r, y) PROVE Kind(h) = x
    <3>1. r # <<>> /\ Kind(Head(r)) = y
      BY <2>2 DEF Starts
    <3>2. Head(r) = r[1] /\ k - 1 # 0
      BY <1>3, <1>7, <3>1, HeadTailProperties, EmptySeq
    <3>3. 1 \in 1..(k - 1) /\ 2 \in 1..k /\ 2 # 1 /\ 2 - 1 = 1 /\ 1 + 1 = 2
      BY <1>7, <3>2
    <3>4. Kind(s[2]) = y
      BY <1>7, <3>1, <3>2, <3>3
    <3> QED
      BY <1>7, <1>8, <3>3, <3>4 DEF Led
  <2> QED
    BY <2>1, <2>2
<1>9. ASSUME NEW X, NEW y, Late(s, X, y)
      PROVE  Late(r, X, y) /\ (Kind(h) \in X => \A t : Mem(r, y, t) => t > Made(h))
  <2>1. \A i \in 1..(k - 1) : i + 1 \in 1..k /\ 1 < i + 1 /\ 1 \in 1..k
    OBVIOUS
  <2>2. Late(r, X, y)
    <3> SUFFICES ASSUME NEW i \in 1..(k - 1), NEW j \in 1..(k - 1), i < j,
                        Kind(r[i]) \in X, Kind(r[j]) = y
                 PROVE  Made(r[j]) > Made(r[i])
      BY <1>7 DEF Late
    <3>1. i + 1 < j + 1
      OBVIOUS
    <3> QED
      BY <1>7, <1>9, <2>1, <3>1 DEF Late
  <2>3. ASSUME Kind(h) \in X, NEW t, Mem(r, y, t) PROVE t > Made(h)
    <3>1. PICK i \in 1..(k - 1) : Kind(r[i]) = y /\ Made(r[i]) = t
      BY <1>7, <2>3 DEF Mem
    <3> QED
      BY <1>7, <1>9, <2>1, <2>3, <3>1 DEF Late
  <2> QED
    BY <2>2, <2>3
<1>10. \A y : Starts(s, y) <=> y = Kind(h)
  BY <1>1 DEF Starts
<1> QED
  BY <1>1, <1>2, <1>4, <1>5, <1>6, <1>8, <1>9, <1>10, One DEF Popped

LEMMA AddView ==
  ASSUME NEW S, NEW r \in Seq(S), NEW h \in S
  PROVE  Added(r, Kind(h), Made(h), r \o <<h>>)
<1>1. PICK q : q = r \o <<h>>
  OBVIOUS
<1>2. <<h>> \in Seq(S) /\ q \in Seq(S)
  BY <1>1, ConcatProperties
<1>3. /\ \A x : Has(q, x) <=> Has(r, x) \/ Has(<<h>>, x)
      /\ \A x, t : Mem(q, x, t) <=> Mem(r, x, t) \/ Mem(<<h>>, x, t)
  BY <1>1, <1>2, JoinMem
<1>4. /\ \A x, y : Before(q, x, y) <=>
                     Before(r, x, y) \/ Before(<<h>>, x, y) \/ (Has(r, x) /\ Has(<<h>>, y))
      /\ \A x, y, t : Ahead(q, x, y, t) <=>
                        Ahead(r, x, y, t) \/ Ahead(<<h>>, x, y, t) \/ (Has(r, x) /\ Mem(<<h>>, y, t))
  BY <1>1, <1>2, JoinBefore
<1>5. \A x, y : Open(q, x, y) <=> Open(<<h>>, x, y) \/ (Open(r, x, y) /\ ~Has(<<h>>, y))
  BY <1>1, <1>2, JoinOpen
<1>6. PICK k \in Nat : k = Len(r)
  BY LenProperties
<1>7. Len(q) = k + 1 /\ q[k + 1] = h /\ \A i \in 1..k : q[i] = r[i]
  BY <1>1, <1>2, <1>6, ConcatProperties
<1>8. q # <<>> /\ \A x : Ends(q, x) <=> x = Kind(h)
  <2>1. q # <<>>
    BY <1>7, EmptySeq
  <2> QED
    BY <1>7, <2>1 DEF Ends
<1>9. ASSUME NEW y PROVE Starts(q, y) <=> IF r = <<>> THEN y = Kind(h) ELSE Starts(r, y)
  <2>1. Head(q) = q[1]
    BY <1>2, <1>8, HeadTailProperties
  <2>2. CASE r = <<>>
    <3>1. q[1] = h
      BY <1>6, <1>7, <2>2
    <3> QED
      BY <1>8, <2>1, <2>2, <3>1 DEF Starts
  <2>3. CASE r # <<>>
    <3>1. 1 \in 1..k /\ Head(r) = r[1]
      BY <1>6, <2>3, HeadTailProperties, EmptySeq
    <3> QED
      BY <1>7, <1>8, <2>1, <2>3, <3>1 DEF Starts
  <2> QED
    BY <2>2, <2>3
<1>10. \A i \in 1..(k + 1) : i \in 1..k \/ i = k + 1
  OBVIOUS
<1>11. ASSUME NEW x, NEW y, Led(r, y, x), y = Kind(h) => r = <<>> \/ Ends(r, x) PROVE Led(q, y, x)
  <2> SUFFICES ASSUME NEW i \in 1..(k + 1), i # 1, Kind(q[i]) = y PROVE Kind(q[i - 1]) = x
    BY <1>7 DEF Led
  <2>1. i - 1 \in 1..k
    OBVIOUS
  <2>2. CASE i \in 1..k
    BY <1>6, <1>7, <1>11, <2>1, <2>2 DEF Led
  <2>3. CASE i = k + 1
    <3>1. r # <<>> /\ y = Kind(h) /\ i - 1 = k /\ k \in 1..k
      BY <1>6, <1>7, <2>1, <2>3, EmptySeq
    <3> QED
      BY <1>6, <1>7, <1>11, <3>1 DEF Ends
  <2> QED
    BY <1>10, <2>2, <2>3
<1>12. ASSUME NEW X, NEW y, Late(r, X, y),
              y = Kind(h) => \A x \in X : \A u : Mem(r, x, u) => Made(h) > u
       PROVE  Late(q, X, y)
  <2> SUFFICES ASSUME NEW i \in 1..(k + 1), NEW j \in 1..(k + 1), i < j,
                      Kind(q[i]) \in X, Kind(q[j]) = y
               PROVE  Made(q[j]) > Made(q[i])
    BY <1>7 DEF Late
  <2>1. i \in 1..k
    OBVIOUS
  <2>2. CASE j \in 1..k
    BY <1>6, <1>7, <1>12, <2>1, <2>2 DEF Late
  <2>3. CASE j = k + 1
    <3>1. Mem(r, Kind(r[i]), Made(r[i])) /\ Kind(r[i]) \in X
      BY <1>6, <1>7, <2>1 DEF Mem
    <3>2. y = Kind(h)
      BY <1>7, <2>3
    <3> QED
      BY <1>7, <1>12, <2>1, <2>3, <3>1, <3>2
  <2> QED
    BY <1>10, <2>2, <2>3
<1> QED
  BY <1>1, <1>3, <1>4, <1>5, <1>8, <1>9, <1>11, <1>12, One DEF Added

(* The two edges, and what the nodes hold and send.                        *)
E1 == <<M, C>>
E2 == <<C, M>>

(* What C and M may have to do, what they send, and what they do of        *)
(* themselves rather than for a message.                                   *)
KindsC == {"FM", "NM", "F1", "P1", "A1", "CP1", "CA1", "F2", "P2", "A2", "CP2", "CA2"}
KindsM == {"NC", "F1", "P1", "A1", "F2", "P2", "A2"}
SentC  == {"NC", "F1", "P1", "F2", "A2"}
SentM  == {"P2", "A1"}
OwnC   == {"F1", "P1", "F2", "A2"}
OwnM   == {"P2", "A1"}

EdgeState == {"PROPOSED", "APPROVED"}

(* Knowledge and events as the two nodes make them; and what is in the     *)
(* queues.                                                                 *)
Form(x) ==
  IF x.rid \in Edge THEN x.ev = "FORGET" \/ (x.man # None /\ x.man.st \in EdgeState)
  ELSE (x.ev = "FORGET" /\ x.rid = M) \/ (x.ev = "NEW" /\ x.man = Profile)

ItemC == {x \in ItemOf(C) : /\ Form(x) /\ Kind(x) \in KindsC
                            /\ x.src = IF Kind(x) \in OwnC THEN None ELSE M}
ItemM == {x \in ItemOf(M) : /\ Form(x) /\ Kind(x) \in KindsM
                            /\ x.src = IF Kind(x) \in OwnM THEN None ELSE C}
EventC == {x \in EventOf(C) : Form(x) /\ Kind(x) \in SentC}
EventM == {x \in EventOf(M) : Form(x) /\ Kind(x) \in SentM}

WordInv ==
  /\ kq[C] \in Seq(ItemC) /\ buf[C] \in Seq(EventC) /\ evq[C] \in Seq(EventC)
  /\ kq[M] \in Seq(ItemM) /\ buf[M] \in Seq(EventM) /\ evq[M] \in Seq(EventM)
  /\ \A n \in Node, e \in Edge : cache[n][e] # None => cache[n][e].st \in EdgeState
  /\ up[M] = "down" => buf[M] = <<>> /\ evq[M] = <<>>

(* Facts about RIDs and about bundles.                                     *)
LEMMA Rids ==
  /\ C # M /\ E1 # E2 /\ E1 # M /\ E1 # C /\ E2 # M /\ E2 # C
  /\ Edge = {E1, E2} /\ Node = {C, M} /\ M \notin Edge /\ C \notin Edge
  /\ Peer(C) = M /\ Peer(M) = C /\ C # None /\ M # None
  /\ E1[1] = M /\ E1[2] = C /\ E2[1] = C /\ E2[2] = M
  /\ E1 \in RID /\ E2 \in RID /\ C \in RID /\ M \in RID
  /\ C \in Node /\ M \in Node /\ E1 \in Edge /\ E2 \in Edge
BY CoordinationAssumption DEF E1, E2, Edge, Node, Peer, RID

LEMMA States ==
  /\ None # "NEW" /\ None # "UPDATE" /\ None # "FORGET"
  /\ Profile # None /\ Profile.ts = 0 /\ Profile.st = "PROFILE"
  /\ \A t \in Nat : /\ EdgeBundle("APPROVED", t).st = "APPROVED" /\ EdgeBundle("APPROVED", t).ts = t
                    /\ EdgeBundle("PROPOSED", t).st = "PROPOSED" /\ EdgeBundle("PROPOSED", t).ts = t
                    /\ EdgeBundle("APPROVED", t) \in Bundle /\ EdgeBundle("PROPOSED", t) \in Bundle
                    /\ EdgeBundle("APPROVED", t) # None /\ EdgeBundle("PROPOSED", t) # None
<1>1. Profile # None
  BY Bundles
<1>2. Profile.ts = 0 /\ Profile.st = "PROFILE"
  BY DEF Profile
<1> QED
  BY <1>1, <1>2, Bundles, CoordinationAssumption DEF EdgeBundle

(* The kinds of the knowledge and of the events about an edge.             *)
LEMMA EdgeKind ==
  ASSUME NEW x
  PROVE  /\ x.rid = E1 => /\ x.ev = "FORGET" => Kind(x) = "F1"
                          /\ (x.ev # "FORGET" /\ x.ev # None /\ x.man.st = "PROPOSED") => Kind(x) = "P1"
                          /\ (x.ev # "FORGET" /\ x.ev # None /\ x.man.st = "APPROVED") => Kind(x) = "A1"
                          /\ (x.ev = None /\ x.src = None /\ x.man.st = "PROPOSED") => Kind(x) = "P1"
                          /\ (x.ev = None /\ x.src = None /\ x.man.st = "APPROVED") => Kind(x) = "A1"
                          /\ (x.ev = None /\ x.src # None /\ x.man.st = "PROPOSED") => Kind(x) = "CP1"
                          /\ (x.ev = None /\ x.src # None /\ x.man.st = "APPROVED") => Kind(x) = "CA1"
                          /\ Kind(x) \in {"F1", "P1", "A1", "CP1", "CA1"}
         /\ x.rid = E2 => /\ x.ev = "FORGET" => Kind(x) = "F2"
                          /\ (x.ev # "FORGET" /\ x.ev # None /\ x.man.st = "PROPOSED") => Kind(x) = "P2"
                          /\ (x.ev # "FORGET" /\ x.ev # None /\ x.man.st = "APPROVED") => Kind(x) = "A2"
                          /\ (x.ev = None /\ x.src = None /\ x.man.st = "PROPOSED") => Kind(x) = "P2"
                          /\ (x.ev = None /\ x.src = None /\ x.man.st = "APPROVED") => Kind(x) = "A2"
                          /\ (x.ev = None /\ x.src # None /\ x.man.st = "PROPOSED") => Kind(x) = "CP2"
                          /\ (x.ev = None /\ x.src # None /\ x.man.st = "APPROVED") => Kind(x) = "CA2"
                          /\ Kind(x) \in {"F2", "P2", "A2", "CP2", "CA2"}
         /\ x.rid = M => Kind(x) = IF x.ev = "FORGET" THEN "FM" ELSE "NM"
         /\ x.rid = C => Kind(x) = "NC"
<1>1. ASSUME x.rid = E1
      PROVE  Kind(x) = What(x, "F1", "P1", "A1", "CP1", "CA1")
  BY <1>1, Rids DEF Kind, E1
<1>2. ASSUME x.rid = E2
      PROVE  Kind(x) = What(x, "F2", "P2", "A2", "CP2", "CA2")
  BY <1>2, Rids DEF Kind, E1
<1>3. x.rid = M => Kind(x) = IF x.ev = "FORGET" THEN "FM" ELSE "NM"
  BY DEF Kind
<1>4. x.rid = C => Kind(x) = "NC"
  BY Rids DEF Kind
<1> QED
  BY <1>1, <1>2, <1>3, <1>4, States DEF What

(* What is known of the head of a queue by its kind.                       *)
Read(x, rid, ev, src, st) ==
  /\ x.rid = rid /\ x.ev \in ev /\ x.src = src
  /\ x.man \in Bundle /\ x.man # None /\ x.man.st = st /\ x.man.ts \in Nat /\ Made(x) = x.man.ts

(* The knowledge of C by its kind.                                         *)
LEMMA ItemsOfC ==
  ASSUME NEW x \in ItemC
  PROVE  /\ Kind(x) \in KindsC /\ Made(x) \in Nat
         /\ Kind(x) = "FM" => x.rid = M /\ x.ev = "FORGET" /\ x.src = M
         /\ Kind(x) = "NM" => Read(x, M, {"NEW"}, M, "PROFILE")
         /\ Kind(x) = "F1" => x.rid = E1 /\ x.ev = "FORGET" /\ x.src = None
         /\ Kind(x) = "F2" => x.rid = E2 /\ x.ev = "FORGET" /\ x.src = None
         /\ Kind(x) = "P1" => Read(x, E1, {"NEW", "UPDATE", None}, None, "PROPOSED")
         /\ Kind(x) = "A2" => Read(x, E2, {"NEW", "UPDATE", None}, None, "APPROVED")
         /\ Kind(x) = "P2" => Read(x, E2, {"NEW", "UPDATE"}, M, "PROPOSED")
         /\ Kind(x) = "A1" => Read(x, E1, {"NEW", "UPDATE"}, M, "APPROVED")
         /\ Kind(x) = "CP1" => Read(x, E1, {None}, M, "PROPOSED")
         /\ Kind(x) = "CA1" => Read(x, E1, {None}, M, "APPROVED")
         /\ Kind(x) = "CP2" => Read(x, E2, {None}, M, "PROPOSED")
         /\ Kind(x) = "CA2" => Read(x, E2, {None}, M, "APPROVED")
<1>1. /\ x \in ItemOf(C) /\ Form(x) /\ Kind(x) \in KindsC
      /\ x.src = IF Kind(x) \in OwnC THEN None ELSE M
  BY DEF ItemC
<1>2. /\ x.rid \in RID /\ x.ev \in {"NEW", "UPDATE", "FORGET", None}
      /\ x.man \in Man /\ (x.ev # "FORGET" => x.man # None)
  BY <1>1, Rids, ItemFields
<1>3. x.rid \in {M, E1, E2}
  <2>1. x.rid # C
    BY <1>1, EdgeKind DEF KindsC
  <2> QED
    BY <1>2, <2>1, Rids DEF RID
<1>4. ASSUME x.ev # "FORGET"
      PROVE  x.man \in Bundle /\ x.man # None /\ x.man.ts \in Nat /\ Made(x) = x.man.ts
  <2>1. x.man \in Bundle /\ x.man # None
    BY <1>2, <1>4, Bundles
  <2> QED
    BY <2>1 DEF Bundle, Made
<1>5. Made(x) \in Nat
  <2>1. CASE x.man = None
    BY <2>1 DEF Made
  <2>2. CASE x.man # None
    <3>1. x.man \in Bundle
      BY <1>2, <2>2, Bundles
    <3> QED
      BY <2>2, <3>1 DEF Bundle, Made
  <2> QED
    BY <2>1, <2>2
<1>6. CASE x.rid = M
  <2>1. CASE x.ev = "FORGET"
    BY <1>1, <1>5, <1>6, <2>1, EdgeKind DEF OwnC
  <2>2. CASE x.ev # "FORGET"
    <3>1. Kind(x) = "NM" /\ x.src = M /\ x.ev = "NEW" /\ x.man = Profile
      BY <1>1, <1>6, <2>2, EdgeKind, Rids DEF OwnC, Form
    <3> QED
      BY <1>1, <1>4, <1>5, <1>6, <2>2, <3>1, States DEF Read
  <2> QED
    BY <2>1, <2>2
<1>7. CASE x.rid = E1
  <2>1. CASE x.ev = "FORGET"
    BY <1>1, <1>5, <1>7, <2>1, EdgeKind DEF OwnC
  <2>2. CASE x.ev # "FORGET"
    <3>1. x.man.st \in EdgeState
      BY <1>1, <1>7, <2>2, Rids DEF Form
    <3>2. x.src \in {None, M}
      BY <1>1
    <3>3. CASE x.man.st = "PROPOSED"
      BY <1>1, <1>2, <1>4, <1>5, <1>7, <2>2, <3>2, <3>3, EdgeKind, Rids, States DEF OwnC, Read
    <3>4. CASE x.man.st = "APPROVED"
      BY <1>1, <1>2, <1>4, <1>5, <1>7, <2>2, <3>2, <3>4, EdgeKind, Rids, States DEF OwnC, Read
    <3> QED
      BY <3>1, <3>3, <3>4 DEF EdgeState
  <2> QED
    BY <2>1, <2>2
<1>8. CASE x.rid = E2
  <2>1. CASE x.ev = "FORGET"
    BY <1>1, <1>5, <1>8, <2>1, EdgeKind DEF OwnC
  <2>2. CASE x.ev # "FORGET"
    <3>1. x.man.st \in EdgeState
      BY <1>1, <1>8, <2>2, Rids DEF Form
    <3>2. x.src \in {None, M}
      BY <1>1
    <3>3. CASE x.man.st = "PROPOSED"
      BY <1>1, <1>2, <1>4, <1>5, <1>8, <2>2, <3>2, <3>3, EdgeKind, Rids, States DEF OwnC, Read
    <3>4. CASE x.man.st = "APPROVED"
      BY <1>1, <1>2, <1>4, <1>5, <1>8, <2>2, <3>2, <3>4, EdgeKind, Rids, States DEF OwnC, Read
    <3> QED
      BY <3>1, <3>3, <3>4 DEF EdgeState
  <2> QED
    BY <2>1, <2>2
<1> QED
  BY <1>3, <1>6, <1>7, <1>8

(* The knowledge of M by its kind.                                         *)
LEMMA ItemsOfM ==
  ASSUME NEW x \in ItemM
  PROVE  /\ Kind(x) \in KindsM /\ Made(x) \in Nat
         /\ Kind(x) = "NC" => Read(x, C, {"NEW"}, C, "PROFILE")
         /\ Kind(x) = "F1" => x.rid = E1 /\ x.ev = "FORGET" /\ x.src = C
         /\ Kind(x) = "F2" => x.rid = E2 /\ x.ev = "FORGET" /\ x.src = C
         /\ Kind(x) = "P1" => Read(x, E1, {"NEW", "UPDATE"}, C, "PROPOSED")
         /\ Kind(x) = "A2" => Read(x, E2, {"NEW", "UPDATE"}, C, "APPROVED")
         /\ Kind(x) = "P2" => Read(x, E2, {"NEW", "UPDATE", None}, None, "PROPOSED")
         /\ Kind(x) = "A1" => Read(x, E1, {"NEW", "UPDATE", None}, None, "APPROVED")
<1>1. /\ x \in ItemOf(M) /\ Form(x) /\ Kind(x) \in KindsM
      /\ x.src = IF Kind(x) \in OwnM THEN None ELSE C
  BY DEF ItemM
<1>2. /\ x.rid \in RID /\ x.ev \in {"NEW", "UPDATE", "FORGET", None}
      /\ x.man \in Man /\ (x.ev # "FORGET" => x.man # None)
      /\ x.src = None => x.rid \in Edge
  BY <1>1, Rids, ItemFields
<1>3. x.rid \in {C, E1, E2}
  <2>1. x.rid # M
    BY <1>1, EdgeKind DEF KindsM
  <2> QED
    BY <1>2, <2>1, Rids DEF RID
<1>4. ASSUME x.ev # "FORGET"
      PROVE  x.man \in Bundle /\ x.man # None /\ x.man.ts \in Nat /\ Made(x) = x.man.ts
  <2>1. x.man \in Bundle /\ x.man # None
    BY <1>2, <1>4, Bundles
  <2> QED
    BY <2>1 DEF Bundle, Made
<1>5. Made(x) \in Nat
  <2>1. CASE x.man = None
    BY <2>1 DEF Made
  <2>2. CASE x.man # None
    <3>1. x.man \in Bundle
      BY <1>2, <2>2, Bundles
    <3> QED
      BY <2>2, <3>1 DEF Bundle, Made
  <2> QED
    BY <2>1, <2>2
<1>6. CASE x.rid = C
  <2>1. Kind(x) = "NC" /\ x.src = C
    BY <1>1, <1>6, EdgeKind DEF OwnM
  <2>2. x.ev = "NEW" /\ x.man = Profile
    <3>1. x.ev # "FORGET"
      BY <1>1, <1>6, Rids DEF Form
    <3> QED
      BY <1>1, <1>6, <3>1, Rids DEF Form
  <2> QED
    BY <1>1, <1>4, <1>5, <1>6, <2>1, <2>2, States DEF Read
<1>7. CASE x.rid = E1
  <2>1. CASE x.ev = "FORGET"
    BY <1>1, <1>5, <1>7, <2>1, EdgeKind DEF OwnM
  <2>2. CASE x.ev # "FORGET"
    <3>1. x.man.st \in EdgeState
      BY <1>1, <1>7, <2>2, Rids DEF Form
    <3>2. x.src \in {None, C}
      BY <1>1
    <3>3. CASE x.man.st = "PROPOSED"
      BY <1>1, <1>2, <1>4, <1>5, <1>7, <2>2, <3>2, <3>3, EdgeKind, Rids, States DEF OwnM, KindsM, Read
    <3>4. CASE x.man.st = "APPROVED"
      BY <1>1, <1>2, <1>4, <1>5, <1>7, <2>2, <3>2, <3>4, EdgeKind, Rids, States DEF OwnM, KindsM, Read
    <3> QED
      BY <3>1, <3>3, <3>4 DEF EdgeState
  <2> QED
    BY <2>1, <2>2
<1>8. CASE x.rid = E2
  <2>1. CASE x.ev = "FORGET"
    BY <1>1, <1>5, <1>8, <2>1, EdgeKind DEF OwnM
  <2>2. CASE x.ev # "FORGET"
    <3>1. x.man.st \in EdgeState
      BY <1>1, <1>8, <2>2, Rids DEF Form
    <3>2. x.src \in {None, C}
      BY <1>1
    <3>3. CASE x.man.st = "PROPOSED"
      BY <1>1, <1>2, <1>4, <1>5, <1>8, <2>2, <3>2, <3>3, EdgeKind, Rids, States DEF OwnM, KindsM, Read
    <3>4. CASE x.man.st = "APPROVED"
      BY <1>1, <1>2, <1>4, <1>5, <1>8, <2>2, <3>2, <3>4, EdgeKind, Rids, States DEF OwnM, KindsM, Read
    <3> QED
      BY <3>1, <3>3, <3>4 DEF EdgeState
  <2> QED
    BY <2>1, <2>2
<1> QED
  BY <1>3, <1>6, <1>7, <1>8

(* What is put into the queues.                                            *)
LEMMA Fields ==
  ASSUME NEW rid, NEW ev, NEW man, NEW src
  PROVE  /\ Item(rid, ev, man, src).rid = rid /\ Item(rid, ev, man, src).ev = ev
         /\ Item(rid, ev, man, src).man = man /\ Item(rid, ev, man, src).src = src
         /\ Event(rid, ev, man).rid = rid /\ Event(rid, ev, man).ev = ev
         /\ Event(rid, ev, man).man = man
BY DEF Item, Event

LEMMA NewItemC ==
  ASSUME NEW rid \in RID, NEW ev \in {"NEW", "UPDATE", "FORGET", None}, NEW man \in Man,
         NEW src \in Node \union {None}, NEW k \in KindsC,
         ev # "FORGET" => man # None, src = None \/ ev = None => rid \in Edge,
         Form(Item(rid, ev, man, src)), Kind(Item(rid, ev, man, src)) = k,
         src = IF k \in OwnC THEN None ELSE M
  PROVE  Item(rid, ev, man, src) \in ItemC
<1>1. Item(rid, ev, man, src) \in ItemOf(C)
  BY Rids, IsItem
<1> QED
  BY <1>1, Fields DEF ItemC

LEMMA NewItemM ==
  ASSUME NEW rid \in RID, NEW ev \in {"NEW", "UPDATE", "FORGET", None}, NEW man \in Man,
         NEW src \in Node \union {None}, NEW k \in KindsM,
         ev # "FORGET" => man # None, src = None \/ ev = None => rid \in Edge,
         Form(Item(rid, ev, man, src)), Kind(Item(rid, ev, man, src)) = k,
         src = IF k \in OwnM THEN None ELSE C
  PROVE  Item(rid, ev, man, src) \in ItemM
<1>1. Item(rid, ev, man, src) \in ItemOf(M)
  BY Rids, IsItem
<1> QED
  BY <1>1, Fields DEF ItemM

IsPut(x, S, k, t) == x \in S /\ Kind(x) = k /\ Made(x) = t

LEMMA PushedByC ==
  ASSUME NEW t \in Nat
  PROVE  /\ IsPut(Item(E1, "FORGET", None, None), ItemC, "F1", 0)
         /\ IsPut(Item(E2, "FORGET", None, None), ItemC, "F2", 0)
         /\ IsPut(Item(E1, None, EdgeBundle("PROPOSED", t), None), ItemC, "P1", t)
         /\ IsPut(Item(E2, "UPDATE", EdgeBundle("APPROVED", t), None), ItemC, "A2", t)
<1>1. ASSUME NEW rid \in Edge, NEW k \in {"F1", "F2"}, Kind(Item(rid, "FORGET", None, None)) = k
      PROVE  IsPut(Item(rid, "FORGET", None, None), ItemC, k, 0)
  <2>1. Form(Item(rid, "FORGET", None, None)) /\ Made(Item(rid, "FORGET", None, None)) = 0
    BY Fields DEF Form, Made
  <2>2. Item(rid, "FORGET", None, None) \in ItemC
    BY <1>1, <2>1, Bundles, Rids, NewItemC DEF KindsC, OwnC
  <2> QED
    BY <1>1, <2>1, <2>2 DEF IsPut
<1>2. IsPut(Item(E1, None, EdgeBundle("PROPOSED", t), None), ItemC, "P1", t)
  <2> DEFINE b == EdgeBundle("PROPOSED", t)
             x == Item(E1, None, b, None)
  <2>1. b \in Bundle /\ b \in Man /\ b # None /\ b.st = "PROPOSED" /\ b.ts = t
    BY States, Bundles
  <2> HIDE DEF b
  <2>2. Kind(x) = "P1" /\ Made(x) = t /\ Form(x)
    BY <2>1, Fields, EdgeKind, Rids, States DEF Made, Form, EdgeState
  <2>3. x \in ItemC
    BY <2>1, <2>2, States, Rids, NewItemC DEF KindsC, OwnC
  <2> QED
    BY <2>2, <2>3 DEF IsPut, b
<1>3. IsPut(Item(E2, "UPDATE", EdgeBundle("APPROVED", t), None), ItemC, "A2", t)
  <2> DEFINE b == EdgeBundle("APPROVED", t)
             x == Item(E2, "UPDATE", b, None)
  <2>1. b \in Bundle /\ b \in Man /\ b # None /\ b.st = "APPROVED" /\ b.ts = t
    BY States, Bundles
  <2> HIDE DEF b
  <2>2. Kind(x) = "A2" /\ Made(x) = t /\ Form(x)
    BY <2>1, Fields, EdgeKind, Rids, States DEF Made, Form, EdgeState
  <2>3. x \in ItemC
    BY <2>1, <2>2, States, Rids, NewItemC DEF KindsC, OwnC
  <2> QED
    BY <2>2, <2>3 DEF IsPut, b
<1>4. IsPut(Item(E1, "FORGET", None, None), ItemC, "F1", 0)
  <2>1. Kind(Item(E1, "FORGET", None, None)) = "F1"
    BY Fields, EdgeKind
  <2> QED
    BY <1>1, <2>1, Rids
<1>5. IsPut(Item(E2, "FORGET", None, None), ItemC, "F2", 0)
  <2>1. Kind(Item(E2, "FORGET", None, None)) = "F2"
    BY Fields, EdgeKind
  <2> QED
    BY <1>1, <2>1, Rids
<1> QED
  BY <1>2, <1>3, <1>4, <1>5

LEMMA PushedByM ==
  ASSUME NEW t \in Nat
  PROVE  /\ IsPut(Item(E2, None, EdgeBundle("PROPOSED", t), None), ItemM, "P2", t)
         /\ IsPut(Item(E1, "UPDATE", EdgeBundle("APPROVED", t), None), ItemM, "A1", t)
<1>1. IsPut(Item(E2, None, EdgeBundle("PROPOSED", t), None), ItemM, "P2", t)
  <2> DEFINE b == EdgeBundle("PROPOSED", t)
             x == Item(E2, None, b, None)
  <2>1. b \in Bundle /\ b \in Man /\ b # None /\ b.st = "PROPOSED" /\ b.ts = t
    BY States, Bundles
  <2> HIDE DEF b
  <2>2. Kind(x) = "P2" /\ Made(x) = t /\ Form(x)
    BY <2>1, Fields, EdgeKind, Rids, States DEF Made, Form, EdgeState
  <2>3. x \in ItemM
    BY <2>1, <2>2, States, Rids, NewItemM DEF KindsM, OwnM
  <2> QED
    BY <2>2, <2>3 DEF IsPut, b
<1>2. IsPut(Item(E1, "UPDATE", EdgeBundle("APPROVED", t), None), ItemM, "A1", t)
  <2> DEFINE b == EdgeBundle("APPROVED", t)
             x == Item(E1, "UPDATE", b, None)
  <2>1. b \in Bundle /\ b \in Man /\ b # None /\ b.st = "APPROVED" /\ b.ts = t
    BY States, Bundles
  <2> HIDE DEF b
  <2>2. Kind(x) = "A1" /\ Made(x) = t /\ Form(x)
    BY <2>1, Fields, EdgeKind, Rids, States DEF Made, Form, EdgeState
  <2>3. x \in ItemM
    BY <2>1, <2>2, States, Rids, NewItemM DEF KindsM, OwnM
  <2> QED
    BY <2>2, <2>3 DEF IsPut, b
<1> QED
  BY <1>1, <1>2

(* What C looks up at M, the introduction of M, what arrives of a request. *)
CopyKind(e, st) ==
  IF e = E1 THEN IF st = "PROPOSED" THEN "CP1" ELSE "CA1"
  ELSE IF st = "PROPOSED" THEN "CP2" ELSE "CA2"

LEMMA Looked ==
  ASSUME NEW e \in Edge, NEW b \in Man, b # None, b.st \in EdgeState
  PROVE  IsPut(Item(e, None, b, M), ItemC, CopyKind(e, b.st), b.ts)
<1> DEFINE x == Item(e, None, b, M)
<1>1. Kind(x) = CopyKind(e, b.st) /\ Made(x) = b.ts /\ Form(x)
  BY Fields, EdgeKind, Rids, States DEF Made, Form, EdgeState, CopyKind
<1>2. x \in ItemC
  BY <1>1, States, Rids, NewItemC DEF KindsC, OwnC, CopyKind
<1> QED
  BY <1>1, <1>2 DEF IsPut

LEMMA Introduced ==
  /\ IsPut(Item(M, "FORGET", None, M), ItemC, "FM", 0)
  /\ IsPut(Item(M, "NEW", Profile, M), ItemC, "NM", 0)
<1>1. /\ Kind(Item(M, "FORGET", None, M)) = "FM" /\ Kind(Item(M, "NEW", Profile, M)) = "NM"
      /\ Made(Item(M, "FORGET", None, M)) = 0 /\ Made(Item(M, "NEW", Profile, M)) = 0
      /\ Form(Item(M, "FORGET", None, M)) /\ Form(Item(M, "NEW", Profile, M))
  BY Fields, EdgeKind, Rids, States DEF Made, Form
<1>2. Item(M, "FORGET", None, M) \in ItemC
  BY <1>1, Bundles, Rids, States, NewItemC DEF KindsC, OwnC
<1>3. Item(M, "NEW", Profile, M) \in ItemC
  BY <1>1, Bundles, Rids, States, NewItemC DEF KindsC, OwnC
<1> QED
  BY <1>1, <1>2, <1>3 DEF IsPut

(* q is s with other things of the same kinds, made at the same times.     *)
Alike(s, q) ==
  /\ Len(q) = Len(s)
  /\ \A i \in 1..Len(s) : Kind(q[i]) = Kind(s[i]) /\ Made(q[i]) = Made(s[i])

(* What arrives keeps its words.                                           *)
LEMMA AlikeView ==
  ASSUME NEW s, NEW q, Alike(s, q)
  PROVE  /\ \A x : Has(q, x) <=> Has(s, x)
         /\ \A x, t : Mem(q, x, t) <=> Mem(s, x, t)
         /\ \A x, y, t : Ahead(q, x, y, t) <=> Ahead(s, x, y, t)
         /\ \A x, y : Open(q, x, y) <=> Open(s, x, y)
<1>1. \A x : Has(q, x) <=> Has(s, x)
  BY DEF Alike, Has
<1>2. \A x, t : Mem(q, x, t) <=> Mem(s, x, t)
  BY DEF Alike, Mem
<1>3. \A x, y, t : Ahead(q, x, y, t) <=> Ahead(s, x, y, t)
  BY DEF Alike, Ahead
<1>4. \A x, y : Open(q, x, y) <=> Open(s, x, y)
  BY DEF Alike, Open
<1> QED
  BY <1>1, <1>2, <1>3, <1>4

LEMMA SameKind ==
  ASSUME NEW x, NEW src, x.ev # None
  PROVE  /\ Kind(Item(x.rid, x.ev, x.man, src)) = Kind(x)
         /\ Made(Item(x.rid, x.ev, x.man, src)) = Made(x)
         /\ Form(Item(x.rid, x.ev, x.man, src)) <=> Form(x)
BY Fields DEF Kind, What, Made, Form

LEMMA Arriving ==
  /\ \A x \in EventM : /\ Item(x.rid, x.ev, x.man, M) \in ItemC
                       /\ Kind(Item(x.rid, x.ev, x.man, M)) = Kind(x)
                       /\ Made(Item(x.rid, x.ev, x.man, M)) = Made(x)
  /\ \A x \in EventC : /\ Item(x.rid, x.ev, x.man, C) \in ItemM
                       /\ Kind(Item(x.rid, x.ev, x.man, C)) = Kind(x)
                       /\ Made(Item(x.rid, x.ev, x.man, C)) = Made(x)
<1>1. ASSUME NEW x \in EventM
      PROVE  /\ Item(x.rid, x.ev, x.man, M) \in ItemC
             /\ Kind(Item(x.rid, x.ev, x.man, M)) = Kind(x)
             /\ Made(Item(x.rid, x.ev, x.man, M)) = Made(x)
  <2>1. x \in EventOf(M) /\ Form(x) /\ Kind(x) \in SentM
    BY DEF EventM
  <2>2. /\ x.rid \in RID /\ x.ev \in {"NEW", "UPDATE", "FORGET"} /\ x.man \in Man
        /\ x.ev # "FORGET" => x.man # None
    BY <2>1, Rids, EventFields
  <2>3. x.ev # None
    BY <2>2, States
  <2>4. Kind(x) \in KindsC /\ Kind(x) \notin OwnC
    BY <2>1 DEF SentM, KindsC, OwnC
  <2> QED
    BY <2>1, <2>2, <2>3, <2>4, SameKind, Rids, NewItemC
<1>2. ASSUME NEW x \in EventC
      PROVE  /\ Item(x.rid, x.ev, x.man, C) \in ItemM
             /\ Kind(Item(x.rid, x.ev, x.man, C)) = Kind(x)
             /\ Made(Item(x.rid, x.ev, x.man, C)) = Made(x)
  <2>1. x \in EventOf(C) /\ Form(x) /\ Kind(x) \in SentC
    BY DEF EventC
  <2>2. /\ x.rid \in RID /\ x.ev \in {"NEW", "UPDATE", "FORGET"} /\ x.man \in Man
        /\ x.ev # "FORGET" => x.man # None
    BY <2>1, Rids, EventFields
  <2>3. x.ev # None
    BY <2>2, States
  <2>4. Kind(x) \in KindsM /\ Kind(x) \notin OwnM
    BY <2>1 DEF SentC, KindsM, OwnM
  <2> QED
    BY <2>1, <2>2, <2>3, <2>4, SameKind, Rids, NewItemM
<1> QED
  BY <1>1, <1>2

(* What n makes of an event.                                               *)
Turns(x, n, T) ==
  /\ Item(x.rid, x.ev, x.man, Peer(n)) \in T
  /\ Kind(Item(x.rid, x.ev, x.man, Peer(n))) = Kind(x)
  /\ Made(Item(x.rid, x.ev, x.man, Peer(n))) = Made(x)

LEMMA GotView ==
  ASSUME NEW n \in Node, NEW S, NEW T, NEW s \in Seq(S),
         \A x \in S : Turns(x, n, T)
  PROVE  /\ Got(n, s) \in Seq(T) /\ Alike(s, Got(n, s))
         /\ Received(n, s) = kq[n] \o Got(n, s)
<1>1. PICK k \in Nat : k = Len(s) /\ DOMAIN s = 1..k
  BY LenProperties
<1>2. \A i \in 1..k : s[i] \in S
  BY <1>1, ElementOfSeq
<1>3. Got(n, s) \in [1..k -> T]
  BY <1>1, <1>2 DEF Got, Turns
<1>4. \A i \in 1..k : Kind(Got(n, s)[i]) = Kind(s[i]) /\ Made(Got(n, s)[i]) = Made(s[i])
  BY <1>1, <1>2 DEF Got, Turns
<1>5. Received(n, s) = kq[n] \o Got(n, s)
  BY DEF Received, Got
<1> HIDE DEF Got
<1>6. Got(n, s) \in Seq(T) /\ Len(Got(n, s)) = k
  BY <1>3
<1> QED
  BY <1>1, <1>4, <1>5, <1>6 DEF Alike

(* What a node sends of what it has accepted.                              *)
LEMMA Sending ==
  /\ IsPut(Event(C, "NEW", Profile), EventC, "NC", 0)
  /\ \A rid \in Edge, ev \in {"NEW", "UPDATE"}, b \in Bundle :
       b.st \in EdgeState =>
         /\ Made(Event(rid, ev, b)) = b.ts
         /\ rid = E1 /\ b.st = "PROPOSED" => IsPut(Event(rid, ev, b), EventC, "P1", b.ts)
         /\ rid = E2 /\ b.st = "APPROVED" => IsPut(Event(rid, ev, b), EventC, "A2", b.ts)
         /\ rid = E1 /\ b.st = "APPROVED" => IsPut(Event(rid, ev, b), EventM, "A1", b.ts)
         /\ rid = E2 /\ b.st = "PROPOSED" => IsPut(Event(rid, ev, b), EventM, "P2", b.ts)
  /\ IsPut(Event(E1, "FORGET", None), EventC, "F1", 0)
  /\ IsPut(Event(E2, "FORGET", None), EventC, "F2", 0)
<1>1. IsPut(Event(C, "NEW", Profile), EventC, "NC", 0)
  <2>1. Event(C, "NEW", Profile) \in EventOf(C)
    BY Rids, Bundles, IsEvent
  <2>2. /\ Kind(Event(C, "NEW", Profile)) = "NC" /\ Made(Event(C, "NEW", Profile)) = 0
        /\ Form(Event(C, "NEW", Profile))
    BY Fields, EdgeKind, Rids, States DEF Made, Form
  <2> QED
    BY <2>1, <2>2 DEF IsPut, EventC, SentC
<1>2. ASSUME NEW rid \in Edge, NEW ev \in {"NEW", "UPDATE"}, NEW b \in Bundle, b.st \in EdgeState
      PROVE  /\ Made(Event(rid, ev, b)) = b.ts
             /\ rid = E1 /\ b.st = "PROPOSED" => IsPut(Event(rid, ev, b), EventC, "P1", b.ts)
             /\ rid = E2 /\ b.st = "APPROVED" => IsPut(Event(rid, ev, b), EventC, "A2", b.ts)
             /\ rid = E1 /\ b.st = "APPROVED" => IsPut(Event(rid, ev, b), EventM, "A1", b.ts)
             /\ rid = E2 /\ b.st = "PROPOSED" => IsPut(Event(rid, ev, b), EventM, "P2", b.ts)
  <2>1. b \in Man /\ b # None /\ ev # "FORGET" /\ ev # None
    BY Bundles, States
  <2>2. rid # C /\ rid # M
    BY Rids
  <2>3. Event(rid, ev, b) \in EventOf(C) /\ Event(rid, ev, b) \in EventOf(M)
    BY <2>1, <2>2, Rids, IsEvent
  <2>4. Form(Event(rid, ev, b)) /\ Made(Event(rid, ev, b)) = b.ts
    BY <1>2, <2>1, Fields DEF Form, Made
  <2>5. CASE rid = E1
    BY <2>1, <2>3, <2>4, <2>5, Fields, EdgeKind, Rids DEF IsPut, EventC, EventM, SentC, SentM, EdgeState
  <2>6. CASE rid = E2
    BY <2>1, <2>3, <2>4, <2>6, Fields, EdgeKind, Rids DEF IsPut, EventC, EventM, SentC, SentM, EdgeState
  <2> QED
    BY <2>4, <2>5, <2>6, Rids
<1>3. IsPut(Event(E1, "FORGET", None), EventC, "F1", 0)
  <2>1. Event(E1, "FORGET", None) \in EventOf(C)
    BY Rids, Bundles, IsEvent
  <2>2. /\ Kind(Event(E1, "FORGET", None)) = "F1" /\ Made(Event(E1, "FORGET", None)) = 0
        /\ Form(Event(E1, "FORGET", None))
    BY Fields, EdgeKind, Rids, States DEF Made, Form
  <2> QED
    BY <2>1, <2>2 DEF IsPut, EventC, SentC
<1>4. IsPut(Event(E2, "FORGET", None), EventC, "F2", 0)
  <2>1. Event(E2, "FORGET", None) \in EventOf(C)
    BY Rids, Bundles, IsEvent
  <2>2. /\ Kind(Event(E2, "FORGET", None)) = "F2" /\ Made(Event(E2, "FORGET", None)) = 0
        /\ Form(Event(E2, "FORGET", None))
    BY Fields, EdgeKind, Rids, States DEF Made, Form
  <2> QED
    BY <2>1, <2>2 DEF IsPut, EventC, SentC
<1> QED
  BY <1>1, <1>2, <1>3, <1>4

-----------------------------------------------------------------------------
(* A view of the two nodes: what C has to do (kc), what M sends (wc), what *)
(* is on its way to M and in its queue (d), the edges at C (c1, c2) and at *)
(* M (m1, m2), whether C knows M (cm) and M knows C (mc), whether M is     *)
(* past its handshake (on), and the clock (now).                           *)

Kinds1 == {"P1", "A1", "CP1", "CA1"}
Kinds2 == {"P2", "A2", "CP2", "CA2"}

(* What is in the queue of C or on its way there; M is about to be         *)
(* introduced to C, or C to propose its edge; M has heard of C.            *)
UHas(v, x)    == Has(v.kc, x) \/ Has(v.wc, x)
UMem(v, x, t) == Mem(v.kc, x, t) \/ Mem(v.wc, x, t)

Comes(v) == Has(v.kc, "NM")
Redo(v)  == Comes(v) \/ Has(v.kc, "P1")
Heard(v) == v.mc \/ Has(v.d, "NC")

(* What holds of the words of any queue of kinds K.                        *)
Lexicon(s, K) ==
  /\ \A x : Has(s, x) => x \in K /\ \E t \in Nat : Mem(s, x, t)
  /\ \A x, t : Mem(s, x, t) => Has(s, x) /\ t \in Nat
  /\ \A x, y, t : Ahead(s, x, y, t) => Has(s, x) /\ Mem(s, y, t)
  /\ \A x, y : Before(s, x, y) => Has(s, x) /\ Has(s, y)
  /\ \A x, y : Open(s, x, y) => Has(s, x)
  /\ \A x, y : Has(s, x) /\ ~Has(s, y) => Open(s, x, y)
  /\ \A x : Starts(s, x) => Has(s, x)

Is(b, st) == b # None /\ b.st = st
EdgeOK(b) == b = None \/ (b.st \in EdgeState /\ b.ts \in Nat)

ViewOK(v) ==
  /\ Lexicon(v.kc, KindsC) /\ Lexicon(v.wc, SentM) /\ Lexicon(v.d, KindsM)
  /\ EdgeOK(v.c1) /\ EdgeOK(v.c2) /\ EdgeOK(v.m1) /\ EdgeOK(v.m2)
  /\ v.now \in Nat /\ v.cm \in BOOLEAN /\ v.mc \in BOOLEAN /\ v.on \in BOOLEAN

(* Handshake                                                               *)

(* S1, S2: C forgets M right before M is introduced to it.  S3: and        *)
(* forgets its edge right before it proposes it.                           *)
S1(v) == ~Open(v.kc, "FM", "NM")
S2(v) == Led(v.kc, "NM", "FM") /\ (Starts(v.kc, "NM") => ~v.cm)
S3(v) == Led(v.kc, "P1", "F1") /\ (Starts(v.kc, "P1") => v.c1 = None)

(* What there can be while M does not know C.                              *)
G0(v) ==
  ~v.mc => /\ v.m1 = None /\ v.m2 = None
           /\ \A x : Has(v.d, x) => x \in {"NC", "F1", "P1", "F2"}
           /\ \A x : Has(v.kc, x) => x \in {"FM", "NM", "F1", "P1", "F2"}
           /\ \A x : ~Has(v.wc, x)

(* G1: M proposes to a C it was introduced to.  G2: M is not past its      *)
(* handshake without being heard.  G3: before M is introduced, nothing is  *)
(* under way.                                                              *)
G1(v) == ~Before(v.kc, "P2", "NM")
G2(v) == v.on => Heard(v) \/ Comes(v)
G3(v) == (~v.cm /\ ~Comes(v)) => (\A x : ~Has(v.kc, x) /\ ~Has(v.d, x)) /\ ~v.mc

(* A C that knows M proposes its edge; a proposal that is forgotten, at C  *)
(* or at M, is made again.                                                 *)
R1(v) == (v.cm /\ v.c1 = None) => Redo(v)
O1(v) == Open(v.kc, "F1", "P1") => Comes(v)
O2(v) == Open(v.d, "F1", "P1") => Redo(v)

HInv(v) == /\ S1(v) /\ S2(v) /\ S3(v) /\ G0(v) /\ G1(v) /\ G2(v) /\ G3(v)
           /\ R1(v) /\ O1(v) /\ O2(v)

(* Edge 1                                                                  *)

(* Nothing is made later than now, and what a node has made for itself is  *)
(* newer than all that it has to process before.                           *)
Clock1(v) ==
  /\ \A x \in Kinds1 : \A t : UMem(v, x, t) \/ Mem(v.d, x, t) => t <= v.now
  /\ v.c1 # None => v.c1.ts <= v.now
  /\ v.m1 # None => v.m1.ts <= v.now
Fresh1(v) ==
  /\ Late(v.kc, Kinds1, "P1") /\ Late(v.d, Kinds1, "A1")
  /\ v.m1 # None => \A t : Mem(v.d, "A1", t) => t > v.m1.ts

(* No proposal and approval were made at one time.                         *)
Proposed1(v, t) ==
  \/ Is(v.c1, "PROPOSED") /\ v.c1.ts = t
  \/ Is(v.m1, "PROPOSED") /\ v.m1.ts = t
  \/ Mem(v.kc, "P1", t) \/ Mem(v.kc, "CP1", t) \/ Mem(v.d, "P1", t)
Approved1(v, t) ==
  \/ Is(v.c1, "APPROVED") /\ v.c1.ts = t
  \/ Is(v.m1, "APPROVED") /\ v.m1.ts = t
  \/ UMem(v, "A1", t) \/ Mem(v.kc, "CA1", t) \/ Mem(v.d, "A1", t)
Apart1(v) == \A t : ~(Proposed1(v, t) /\ Approved1(v, t))

(* A proposal of at least t is on its way to an M that knows C.  T1: M,    *)
(* when C does not propose any more, has approved, will, or has a proposal *)
(* coming.  J1: a proposal that C holds meets an approval that is newer.   *)
(* X1: so does one that C will hold.                                       *)
Coming1(v, t) ==
  \E u \in Nat : u >= t /\ ((v.mc /\ Mem(v.d, "P1", u)) \/ Ahead(v.d, "NC", "P1", u))
T1(v) == (Heard(v) /\ ~Redo(v)) =>
           Is(v.m1, "APPROVED") \/ Has(v.d, "A1") \/ Coming1(v, 0)
J1(v) == (Heard(v) /\ ~Redo(v) /\ Is(v.c1, "PROPOSED")) =>
           \/ \E u \in Nat : u > v.c1.ts /\ UMem(v, "A1", u)
           \/ Coming1(v, v.c1.ts) /\ ~(Is(v.m1, "APPROVED") /\ v.m1.ts > v.c1.ts)
           \/ /\ Has(v.d, "A1") /\ \A u \in Nat : Mem(v.d, "A1", u) => u > v.c1.ts
              /\ ~Is(v.m1, "APPROVED")
X1(v) == \A t : (Mem(v.kc, "P1", t) /\ Is(v.m1, "APPROVED") /\ v.m1.ts > t) =>
           \E u \in Nat : u > t /\ UMem(v, "A1", u)

(* Q1: a proposal that M holds is going to be approved.                    *)
Q1(v) == Is(v.m1, "PROPOSED") => Has(v.d, "A1")

E1Inv(v) == /\ Clock1(v) /\ Fresh1(v) /\ Apart1(v) /\ T1(v) /\ J1(v) /\ X1(v)
            /\ Q1(v)

(* Edge 2                                                                  *)

(* What C has approved for M, and what it will approve is newer.           *)
Granted2(v, t) ==
  (Is(v.m2, "APPROVED") /\ v.m2.ts = t) \/ Mem(v.d, "A2", t) \/ Mem(v.kc, "CA2", t)
Clock2(v) ==
  /\ \A x \in Kinds2 : \A t : UMem(v, x, t) \/ Mem(v.d, x, t) => t <= v.now
  /\ v.c2 # None => v.c2.ts <= v.now
  /\ v.m2 # None => v.m2.ts <= v.now
Fresh2(v) ==
  /\ Late(v.kc, Kinds2, "A2") /\ Late(v.d, Kinds2, "P2")
  /\ v.c2 # None => \A t : Mem(v.kc, "A2", t) => t > v.c2.ts
  /\ v.m2 # None => \A t : Mem(v.d, "P2", t) => t > v.m2.ts
  /\ \A s, t : Granted2(v, s) /\ Mem(v.kc, "A2", t) => t > s

(* No proposal and approval were made at one time.                         *)
Proposed2(v, t) ==
  \/ Is(v.c2, "PROPOSED") /\ v.c2.ts = t
  \/ Is(v.m2, "PROPOSED") /\ v.m2.ts = t
  \/ UMem(v, "P2", t) \/ Mem(v.kc, "CP2", t) \/ Mem(v.d, "P2", t)
Approved2(v, t) ==
  \/ Is(v.c2, "APPROVED") /\ v.c2.ts = t
  \/ Is(v.m2, "APPROVED") /\ v.m2.ts = t
  \/ Mem(v.kc, "A2", t) \/ Mem(v.kc, "CA2", t) \/ Mem(v.d, "A2", t)
Apart2(v) == \A t : ~(Proposed2(v, t) /\ Approved2(v, t))

(* Q2: a proposal that C holds is going to be approved.  J2: a proposal    *)
(* that M holds meets an approval that is newer.  N2: an M that knows C    *)
(* and has no edge has one coming.  X2: a proposal made before the         *)
(* approval of C meets that approval.                                      *)
Q2(v) == Is(v.c2, "PROPOSED") => Has(v.kc, "A2")
J2(v) == Is(v.m2, "PROPOSED") =>
           \/ \E u \in Nat : u > v.m2.ts /\ Mem(v.d, "A2", u)
           \/ (\E u \in Nat : u >= v.m2.ts /\ UMem(v, "P2", u))
              /\ ~(Is(v.c2, "APPROVED") /\ v.c2.ts > v.m2.ts)
           \/ /\ Has(v.kc, "A2") /\ \A u \in Nat : Mem(v.kc, "A2", u) => u > v.m2.ts
              /\ ~Is(v.c2, "APPROVED")
N2(v) == (v.mc /\ v.m2 = None) =>
           \/ Has(v.d, "P2") \/ Has(v.d, "A2")
           \/ ~Is(v.c2, "APPROVED") /\ (UHas(v, "P2") \/ Has(v.kc, "A2"))
X2(v) == \A t : (Mem(v.d, "P2", t) /\ Is(v.c2, "APPROVED") /\ v.c2.ts > t) =>
           \E u \in Nat : u > t /\ Mem(v.d, "A2", u)

(* An M that forgets its edge has not heard of an approval, nor has C      *)
(* approved.                                                               *)
O3(v) == Open(v.d, "F2", "A2") =>
           ~Has(v.d, "A2") /\ ~Is(v.c2, "APPROVED") /\ ~Is(v.m2, "APPROVED")

(* L1: where C has approved for M it holds that edge itself, and is not    *)
(* going to forget it, nor, L2, what it is about to approve.               *)
L1(v) == \A t : Granted2(v, t) => ~Has(v.kc, "F2") /\ ~Comes(v) /\ v.c2 # None
L2(v) == Has(v.kc, "A2") => ~Comes(v) /\ ~Before(v.kc, "A2", "F2")

E2Inv(v) == /\ Clock2(v) /\ Fresh2(v) /\ Apart2(v) /\ Q2(v) /\ J2(v) /\ N2(v) /\ X2(v)
            /\ O3(v) /\ L1(v) /\ L2(v)

-----------------------------------------------------------------------------
(* The moves of a view: what a step may do to it.                          *)

(* q is s with a word of Z behind it; r with a k made at a put into it.    *)
Extended(s, q, Z) ==
  /\ \A x : Has(s, x) => Has(q, x)
  /\ \A x, t : Mem(s, x, t) => Mem(q, x, t)
  /\ \A x : x \notin Z => /\ Has(q, x) <=> Has(s, x)
                          /\ \A t : Mem(q, x, t) <=> Mem(s, x, t)
                          /\ Starts(q, x) => Starts(s, x)
                          /\ \A y : Before(q, y, x) <=> Before(s, y, x)
                          /\ \A y : y \notin Z => (Open(q, y, x) <=> Open(s, y, x))
                          /\ \A y : Led(s, x, y) => Led(q, x, y)
                          /\ \A X : Late(s, X, x) => Late(q, X, x)

Inserted(r, k, a, q) ==
  /\ \A x : Has(q, x) <=> Has(r, x) \/ x = k
  /\ \A x, t : Mem(q, x, t) <=> Mem(r, x, t) \/ (x = k /\ t = a)
  /\ \A x, y : x # k /\ y # k => (Open(q, x, y) <=> Open(r, x, y))
  /\ \A x, y, t : x # k /\ y # k => (Ahead(q, x, y, t) <=> Ahead(r, x, y, t))
  /\ \A X : (Late(r, X, k) /\ \A x \in X : \A u : Mem(r, x, u) => a > u) => Late(q, X, k)
  /\ \A X : k # "A1" /\ k \notin X /\ Late(r, X, "A1") => Late(q, X, "A1")
  /\ \A X : k # "P2" /\ k \notin X /\ Late(r, X, "P2") => Late(q, X, "P2")

(* What a step leaves alone.                                               *)
SameC(v, w)    == w.c1 = v.c1 /\ w.c2 = v.c2 /\ w.cm = v.cm
SameM(v, w)    == w.m1 = v.m1 /\ w.m2 = v.m2 /\ w.mc = v.mc
SameMail(v, w) == w.wc = v.wc /\ w.d = v.d
SameTime(v, w) == w.now = v.now /\ w.on = v.on

-----------------------------------------------------------------------------
Rests(v, w) ==
  /\ SameC(v, w) /\ SameM(v, w) /\ SameMail(v, w) /\ w.kc = v.kc /\ w.now = v.now
  /\ w.on => v.on \/ v.mc

(* Delivery.                                                               *)
CarriesToC(v, w) ==
  /\ SameC(v, w) /\ SameM(v, w) /\ w.d = v.d /\ w.now = v.now /\ (w.on => v.on)
  /\ Extended(v.kc, w.kc, SentM)
  /\ \A x : UHas(w, x) <=> UHas(v, x)
  /\ \A x, t : UMem(w, x, t) <=> UMem(v, x, t)

CarriesToM(v, w) ==
  /\ SameC(v, w) /\ SameM(v, w) /\ w.kc = v.kc /\ w.wc = v.wc /\ SameTime(v, w)
  /\ \A x : Has(w.d, x) <=> Has(v.d, x)
  /\ \A x, t : Mem(w.d, x, t) <=> Mem(v.d, x, t)
  /\ \A x, y, t : Ahead(v.d, x, y, t) => Ahead(w.d, x, y, t)
  /\ \A x, y : Open(w.d, x, y) => Open(v.d, x, y)
  /\ \A X : /\ Late(v.d, X, "A1") => Late(w.d, X, "A1")
            /\ Late(v.d, X, "P2") => Late(w.d, X, "P2")

(* An event for a node that C does not know is dropped.                    *)
Drops(v, w) ==
  /\ SameC(v, w) /\ SameM(v, w) /\ w.kc = v.kc /\ w.wc = v.wc /\ SameTime(v, w)
  /\ ~v.cm /\ \E x : Has(v.d, x)
  /\ \A x : Has(w.d, x) => Has(v.d, x)
  /\ \A x, t : Mem(w.d, x, t) => Mem(v.d, x, t)
  /\ \A x \in OwnM : Has(w.d, x) <=> Has(v.d, x)
  /\ \A x \in OwnM : \A t : Mem(w.d, x, t) <=> Mem(v.d, x, t)
  /\ \A X : /\ Late(v.d, X, "A1") => Late(w.d, X, "A1")
            /\ Late(v.d, X, "P2") => Late(w.d, X, "P2")

(* Starts.                                                                 *)
Wiped(v, w) ==
  /\ SameC(v, w) /\ w.now = v.now /\ ~w.on /\ ~w.mc /\ w.m1 = None /\ w.m2 = None
  /\ \A x : ~Has(w.kc, x) /\ ~Has(w.wc, x) /\ ~Has(w.d, x)
  /\ SameMail(v, w) /\ w.kc = v.kc

Introduces(v, w) ==
  /\ ~v.mc /\ v.m2 = None
  /\ SameC(v, w) /\ SameM(v, w) /\ SameMail(v, w) /\ w.now = v.now
  /\ \E r : Added(v.kc, "FM", 0, r) /\ Added(r, "NM", 0, w.kc)

Contacts(v, w) ==
  /\ v.mc /\ v.m2 = None
  /\ SameC(v, w) /\ SameM(v, w) /\ w.wc = v.wc /\ w.kc = v.kc
  /\ (w.on => v.on) /\ w.now = v.now + 1
  /\ Inserted(v.d, "P2", w.now, w.d)

Syncs(v, w) ==
  /\ v.mc
  /\ SameC(v, w) /\ SameM(v, w) /\ SameMail(v, w) /\ SameTime(v, w)
  /\ Extended(v.kc, w.kc, {"CP1", "CA1", "CP2", "CA2"})
  /\ \A t : Mem(w.kc, "CP1", t) => Mem(v.kc, "CP1", t) \/ (Is(v.m1, "PROPOSED") /\ t = v.m1.ts)
  /\ \A t : Mem(w.kc, "CA1", t) => Mem(v.kc, "CA1", t) \/ (Is(v.m1, "APPROVED") /\ t = v.m1.ts)
  /\ \A t : Mem(w.kc, "CP2", t) => Mem(v.kc, "CP2", t) \/ (Is(v.m2, "PROPOSED") /\ t = v.m2.ts)
  /\ \A t : Mem(w.kc, "CA2", t) => Mem(v.kc, "CA2", t) \/ (Is(v.m2, "APPROVED") /\ t = v.m2.ts)

-----------------------------------------------------------------------------
(* Knowledge processed by C. Of what it catches up with, it may refuse any *)
(* and takes what M has then.                                              *)
Newer(b, st, a) == b = None \/ (b.st # st /\ a > b.ts)

StaleAtC(v, k, a) ==
  /\ k = "FM" => ~v.cm
  /\ k = "NM" => v.cm
  /\ k = "F1" => v.c1 = None
  /\ k = "F2" => v.c2 = None
  /\ k = "P1" => ~Newer(v.c1, "PROPOSED", a)
  /\ k = "A1" => ~Newer(v.c1, "APPROVED", a)
  /\ k = "A2" => ~Newer(v.c2, "APPROVED", a)
  /\ k = "P2" => ~Newer(v.c2, "PROPOSED", a) \/ ~v.cm

RefusesC(v, w) ==
  /\ SameC(v, w) /\ SameM(v, w) /\ SameMail(v, w) /\ SameTime(v, w)
  /\ \E k \in KindsC, a \in Nat : Popped(v.kc, k, a, w.kc) /\ StaleAtC(v, k, a)

ForgetsM(v, w) ==
  /\ v.cm /\ ~w.cm /\ w.c1 = v.c1 /\ w.c2 = v.c2
  /\ SameM(v, w) /\ SameMail(v, w) /\ SameTime(v, w)
  /\ \E r : \E a \in Nat : Popped(v.kc, "FM", a, r) /\ Extended(r, w.kc, {"F1", "F2"})

LearnsM(v, w) ==
  /\ ~v.cm /\ w.cm /\ w.c1 = v.c1 /\ w.c2 = v.c2
  /\ SameM(v, w) /\ w.wc = v.wc /\ w.on = v.on /\ w.now = v.now + 1
  /\ Added(v.d, "NC", 0, w.d)
  /\ \E r, s : \E a \in Nat : /\ Popped(v.kc, "NM", a, r) /\ Added(r, "F1", 0, s)
                                 /\ Added(s, "P1", w.now, w.kc)

Forgets1C(v, w) ==
  /\ v.c1 # None /\ w.c1 = None /\ w.c2 = v.c2 /\ w.cm = v.cm
  /\ SameM(v, w) /\ w.wc = v.wc /\ SameTime(v, w)
  /\ Added(v.d, "F1", 0, w.d)
  /\ \E a \in Nat : Popped(v.kc, "F1", a, w.kc)

Forgets2C(v, w) ==
  /\ v.c2 # None /\ w.c2 = None /\ w.c1 = v.c1 /\ w.cm = v.cm
  /\ SameM(v, w) /\ w.wc = v.wc /\ SameTime(v, w)
  /\ Added(v.d, "F2", 0, w.d)
  /\ \E a \in Nat : Popped(v.kc, "F2", a, w.kc)

Proposes1C(v, w) ==
  /\ Is(w.c1, "PROPOSED") /\ Newer(v.c1, "PROPOSED", w.c1.ts) /\ w.c2 = v.c2 /\ w.cm = v.cm
  /\ SameM(v, w) /\ w.wc = v.wc /\ SameTime(v, w)
  /\ Added(v.d, "P1", w.c1.ts, w.d)
  /\ Popped(v.kc, "P1", w.c1.ts, w.kc)

Approves2C(v, w) ==
  /\ Is(w.c2, "APPROVED") /\ Newer(v.c2, "APPROVED", w.c2.ts) /\ w.c1 = v.c1 /\ w.cm = v.cm
  /\ SameM(v, w) /\ w.wc = v.wc /\ SameTime(v, w)
  /\ Added(v.d, "A2", w.c2.ts, w.d)
  /\ Popped(v.kc, "A2", w.c2.ts, w.kc)

Learns2C(v, w) ==
  /\ v.cm /\ Is(w.c2, "PROPOSED") /\ Newer(v.c2, "PROPOSED", w.c2.ts) /\ w.c1 = v.c1 /\ w.cm = v.cm
  /\ SameM(v, w) /\ SameMail(v, w) /\ w.on = v.on /\ w.now = v.now + 1
  /\ \E r : Popped(v.kc, "P2", w.c2.ts, r) /\ Added(r, "A2", w.now, w.kc)

Learns1C(v, w) ==
  /\ Is(w.c1, "APPROVED") /\ Newer(v.c1, "APPROVED", w.c1.ts) /\ w.c2 = v.c2 /\ w.cm = v.cm
  /\ SameM(v, w) /\ SameMail(v, w) /\ SameTime(v, w)
  /\ Popped(v.kc, "A1", w.c1.ts, w.kc)

Copies1C(v, w) ==
  /\ w.c1 = v.m1 /\ w.c1 # None /\ w.c2 = v.c2 /\ w.cm = v.cm
  /\ SameM(v, w) /\ SameMail(v, w) /\ SameTime(v, w)
  /\ \E k \in {"CP1", "CA1"}, a \in Nat : Popped(v.kc, k, a, w.kc)

Copies2C(v, w) ==
  /\ Is(v.m2, "APPROVED") /\ w.c2 = v.m2 /\ w.c1 = v.c1 /\ w.cm = v.cm
  /\ SameM(v, w) /\ SameMail(v, w) /\ SameTime(v, w)
  /\ \E k \in {"CP2", "CA2"}, a \in Nat : Popped(v.kc, k, a, w.kc)

-----------------------------------------------------------------------------
(* Knowledge processed by M.                                               *)
StaleAtM(v, k, a) ==
  /\ k = "NC" => v.mc
  /\ k = "F1" => v.m1 = None
  /\ k = "F2" => v.m2 = None
  /\ k = "P1" => ~Newer(v.m1, "PROPOSED", a) \/ ~v.mc
  /\ k = "A1" => ~Newer(v.m1, "APPROVED", a)
  /\ k = "P2" => ~Newer(v.m2, "PROPOSED", a)
  /\ k = "A2" => ~Newer(v.m2, "APPROVED", a)

RefusesM(v, w) ==
  /\ SameC(v, w) /\ SameM(v, w) /\ w.kc = v.kc /\ w.wc = v.wc /\ SameTime(v, w)
  /\ \E k \in KindsM, a \in Nat : Popped(v.d, k, a, w.d) /\ StaleAtM(v, k, a)

LearnsC(v, w) ==
  /\ ~v.mc /\ w.mc /\ w.m1 = v.m1 /\ w.m2 = v.m2
  /\ SameC(v, w) /\ w.kc = v.kc /\ w.wc = v.wc /\ w.on = v.on
  /\ \E r : \E a \in Nat :
       /\ Popped(v.d, "NC", a, r)
       /\ \/ v.m2 = None /\ w.now = v.now + 1 /\ Inserted(r, "P2", w.now, w.d)
          \/ v.m2 # None /\ w.now = v.now /\ w.d = r

Forgets1M(v, w) ==
  /\ v.m1 # None /\ w.m1 = None /\ w.m2 = v.m2 /\ w.mc = v.mc
  /\ SameC(v, w) /\ w.kc = v.kc /\ w.wc = v.wc /\ SameTime(v, w)
  /\ \E a \in Nat : Popped(v.d, "F1", a, w.d)

Forgets2M(v, w) ==
  /\ v.m2 # None /\ w.m2 = None /\ w.m1 = v.m1 /\ w.mc = v.mc
  /\ SameC(v, w) /\ w.kc = v.kc /\ w.wc = v.wc /\ SameTime(v, w)
  /\ \E a \in Nat : Popped(v.d, "F2", a, w.d)

Learns1M(v, w) ==
  /\ v.mc /\ Is(w.m1, "PROPOSED") /\ Newer(v.m1, "PROPOSED", w.m1.ts) /\ w.m2 = v.m2 /\ w.mc = v.mc
  /\ SameC(v, w) /\ w.kc = v.kc /\ w.wc = v.wc /\ w.on = v.on /\ w.now = v.now + 1
  /\ \E r : Popped(v.d, "P1", w.m1.ts, r) /\ Inserted(r, "A1", w.now, w.d)

Approves1M(v, w) ==
  /\ Is(w.m1, "APPROVED") /\ Newer(v.m1, "APPROVED", w.m1.ts) /\ w.m2 = v.m2 /\ w.mc = v.mc
  /\ SameC(v, w) /\ w.kc = v.kc /\ SameTime(v, w)
  /\ Added(v.wc, "A1", w.m1.ts, w.wc)
  /\ Popped(v.d, "A1", w.m1.ts, w.d)

Proposes2M(v, w) ==
  /\ Is(w.m2, "PROPOSED") /\ Newer(v.m2, "PROPOSED", w.m2.ts) /\ w.m1 = v.m1 /\ w.mc = v.mc
  /\ SameC(v, w) /\ w.kc = v.kc /\ SameTime(v, w)
  /\ Added(v.wc, "P2", w.m2.ts, w.wc)
  /\ Popped(v.d, "P2", w.m2.ts, w.d)

Learns2M(v, w) ==
  /\ Is(w.m2, "APPROVED") /\ Newer(v.m2, "APPROVED", w.m2.ts) /\ w.m1 = v.m1 /\ w.mc = v.mc
  /\ SameC(v, w) /\ w.kc = v.kc /\ w.wc = v.wc /\ SameTime(v, w)
  /\ Popped(v.d, "A2", w.m2.ts, w.d)

-----------------------------------------------------------------------------
(* From queues to words.                                                   *)

(* Queues of known kinds have a lexicon.                                   *)
LEMMA LexiconOf ==
  ASSUME NEW S, NEW K, NEW s \in Seq(S), \A x \in S : Kind(x) \in K /\ Made(x) \in Nat
  PROVE  Lexicon(s, K)
<1>1. \A i \in 1..Len(s) : Kind(s[i]) \in K /\ Made(s[i]) \in Nat
  BY ElementOfSeq
<1>2. \A x : Has(s, x) => x \in K /\ \E t \in Nat : Mem(s, x, t)
  BY <1>1 DEF Has, Mem
<1>3. \A x, t : Mem(s, x, t) => Has(s, x) /\ t \in Nat
  BY <1>1 DEF Has, Mem
<1>4. \A x, y, t : Ahead(s, x, y, t) => Has(s, x) /\ Mem(s, y, t)
  BY DEF Ahead, Has, Mem
<1>5. \A x, y : Before(s, x, y) => Has(s, x) /\ Has(s, y)
  BY DEF Before, Has
<1>6. \A x, y : (Open(s, x, y) => Has(s, x)) /\ (Has(s, x) /\ ~Has(s, y) => Open(s, x, y))
  BY DEF Open, Has
<1>7. ASSUME NEW x, Starts(s, x) PROVE Has(s, x)
  <2>1. PICK k \in Nat : k = Len(s) /\ k # 0 /\ Head(s) = s[1]
    BY <1>7, HeadAndTail DEF Starts
  <2> QED
    BY <1>7, <2>1 DEF Starts, Has
<1> QED
  BY <1>2, <1>3, <1>4, <1>5, <1>6, <1>7 DEF Lexicon

LEMMA NothingThere ==
  /\ \A x : ~Has(<<>>, x)
  /\ \A x, t : ~Mem(<<>>, x, t)
BY DEF Has, Mem

LEMMA Something ==
  ASSUME NEW S, NEW s \in Seq(S), s # <<>>
  PROVE  Has(s, Kind(Head(s)))
<1>1. PICK k \in Nat : k = Len(s) /\ k # 0 /\ Head(s) = s[1]
  BY HeadAndTail
<1> QED
  BY <1>1 DEF Has

LEMMA PrefixLate ==
  ASSUME NEW S, NEW s \in Seq(S), NEW w \in Seq(S), NEW X, NEW y, Late(s \o w, X, y)
  PROVE  Late(s, X, y)
<1>1. PICK q : q = s \o w
  OBVIOUS
<1>2. PICK k \in Nat, l \in Nat : Behind(s, w, q, k, l)
  BY <1>1, JoinIndex
<1>3. k = Len(s) /\ \A i \in 1..k : i \in 1..Len(q) /\ q[i] = s[i]
  BY <1>2 DEF Behind
<1> QED
  BY <1>1, <1>3 DEF Late

LEMMA HasMem == \A s, x, t : Mem(s, x, t) => Has(s, x)
BY DEF Has, Mem

LEMMA Inside ==
  /\ \A s, x, y : Before(s, x, y) => Has(s, x) /\ Has(s, y)
  /\ \A s, x, y : Open(s, x, y) => Has(s, x)
  /\ \A s, x, y, t : Ahead(s, x, y, t) => Has(s, x) /\ Mem(s, y, t)
BY DEF Has, Before, Open, Ahead, Mem

(* The words of a queue that is extended.                                  *)
LEMMA ExtendView ==
  ASSUME NEW S, NEW s \in Seq(S), NEW w \in Seq(S), NEW Z, \A x : Has(w, x) => x \in Z
  PROVE  Extended(s, s \o w, Z)
<1>1. PICK q : q = s \o w
  OBVIOUS
<1>2. /\ \A x : Has(q, x) <=> Has(s, x) \/ Has(w, x)
      /\ \A x, t : Mem(q, x, t) <=> Mem(s, x, t) \/ Mem(w, x, t)
  BY <1>1, JoinMem
<1>3. \A x, y : Before(q, x, y) <=> Before(s, x, y) \/ Before(w, x, y) \/ (Has(s, x) /\ Has(w, y))
  BY <1>1, JoinBefore
<1>4. \A x, y : Open(q, x, y) <=> Open(w, x, y) \/ (Open(s, x, y) /\ ~Has(w, y))
  BY <1>1, JoinOpen
<1>5. /\ \A x, y : (Led(s, y, x) /\ ~Has(w, y)) => Led(q, y, x)
      /\ \A X, y : (Late(s, X, y) /\ ~Has(w, y)) => Late(q, X, y)
  BY <1>1, JoinOrder
<1>6. ASSUME NEW x, ~Has(w, x), Starts(q, x) PROVE Starts(s, x)
  <2>1. CASE s = <<>>
    <3>1. q = w
      BY <1>1, <2>1, ConcatEmptySeq
    <3> QED
      BY <1>6, <3>1, Something DEF Starts
  <2>2. CASE s # <<>>
    <3>1. PICK k \in Nat, l \in Nat : Behind(s, w, q, k, l)
      BY <1>1, JoinIndex
    <3>2. k # 0 /\ Head(s) = s[1] /\ k = Len(s)
      BY <2>2, <3>1, HeadAndTail DEF Behind
    <3>3. q[1] = s[1]
      BY <3>1, <3>2 DEF Behind
    <3>4. q \in Seq(S) /\ q # <<>>
      BY <1>1, <1>6, ConcatProperties DEF Starts
    <3>5. Head(q) = q[1]
      BY <3>4, HeadAndTail
    <3> QED
      BY <1>6, <2>2, <3>2, <3>3, <3>5 DEF Starts
  <2> QED
    BY <2>1, <2>2
<1> QED
  BY <1>1, <1>2, <1>3, <1>4, <1>5, <1>6, HasMem, Inside DEF Extended

-----------------------------------------------------------------------------
(* What is on its way to M.                                                *)
Down(s, b, e) == (s \o b) \o e

(* The words of what is on its way to M.                                   *)
LEMMA DownView ==
  ASSUME NEW s \in Seq(ItemM), NEW b \in Seq(EventC), NEW e \in Seq(EventC)
  PROVE  /\ Down(s, b, e) \in Seq(ItemM \union EventC)
         /\ \A x : Has(Down(s, b, e), x) <=> Has(s, x) \/ Has(b, x) \/ Has(e, x)
         /\ \A x, t : Mem(Down(s, b, e), x, t) <=> Mem(s, x, t) \/ Mem(b, x, t) \/ Mem(e, x, t)
         /\ \A x, y, t : Ahead(Down(s, b, e), x, y, t) <=>
              \/ Ahead(s, x, y, t) \/ Ahead(b, x, y, t) \/ Ahead(e, x, y, t)
              \/ Has(s, x) /\ (Mem(b, y, t) \/ Mem(e, y, t))
              \/ Has(b, x) /\ Mem(e, y, t)
         /\ \A x, y : Open(Down(s, b, e), x, y) <=>
              Open(e, x, y) \/ ((Open(b, x, y) \/ (Open(s, x, y) /\ ~Has(b, y))) /\ ~Has(e, y))
         /\ \A y \in OwnM : ~Has(b, y) /\ ~Has(e, y)
         /\ \A X, y : y \in OwnM => (Late(Down(s, b, e), X, y) <=> Late(s, X, y))
<1> DEFINE S == ItemM \union EventC
           q == s \o b
           d == q \o e
<1>1. s \in Seq(S) /\ b \in Seq(S) /\ e \in Seq(S)
  BY SeqMonotonic
<1>2. q \in Seq(S) /\ d \in Seq(S)
  BY <1>1, ConcatProperties
<1>3. \A y \in OwnM : ~Has(b, y) /\ ~Has(e, y)
  <2>1. \A x \in EventC : Kind(x) \notin OwnM
    BY DEF EventC, SentC, OwnM
  <2> QED
    BY <2>1, ElementOfSeq DEF Has
<1> HIDE DEF S
<1>4. /\ \A x : Has(q, x) <=> Has(s, x) \/ Has(b, x)
      /\ \A x, t : Mem(q, x, t) <=> Mem(s, x, t) \/ Mem(b, x, t)
      /\ \A x, y, t : Ahead(q, x, y, t) <=>
                        Ahead(s, x, y, t) \/ Ahead(b, x, y, t) \/ (Has(s, x) /\ Mem(b, y, t))
      /\ \A x, y : Open(q, x, y) <=> Open(b, x, y) \/ (Open(s, x, y) /\ ~Has(b, y))
      /\ \A X, y : (Late(s, X, y) /\ ~Has(b, y)) => Late(q, X, y)
      /\ \A X, y : Late(q, X, y) => Late(s, X, y)
  BY <1>1, JoinMem, JoinBefore, JoinOpen, JoinOrder, PrefixLate
<1> HIDE DEF q
<1>5. /\ \A x : Has(d, x) <=> Has(q, x) \/ Has(e, x)
      /\ \A x, t : Mem(d, x, t) <=> Mem(q, x, t) \/ Mem(e, x, t)
      /\ \A x, y, t : Ahead(d, x, y, t) <=>
                        Ahead(q, x, y, t) \/ Ahead(e, x, y, t) \/ (Has(q, x) /\ Mem(e, y, t))
      /\ \A x, y : Open(d, x, y) <=> Open(e, x, y) \/ (Open(q, x, y) /\ ~Has(e, y))
      /\ \A X, y : (Late(q, X, y) /\ ~Has(e, y)) => Late(d, X, y)
      /\ \A X, y : Late(d, X, y) => Late(q, X, y)
  BY <1>1, <1>2, JoinMem, JoinBefore, JoinOpen, JoinOrder, PrefixLate
<1> HIDE DEF d
<1>6. Down(s, b, e) = d
  BY DEF Down, d, q
<1> QED
  BY <1>2, <1>3, <1>4, <1>5, <1>6 DEF S

(* The words of a queue without its head.                                  *)
LEMMA PopOf ==
  ASSUME NEW S, NEW h \in S, NEW r \in Seq(S)
  PROVE  Popped(<<h>> \o r, Kind(h), Made(h), r)
<1>1. PICK s : s = <<h>> \o r
  OBVIOUS
<1>2. <<h>> \in Seq(S) /\ Len(<<h>>) = 1 /\ <<h>>[1] = h
  OBVIOUS
<1>3. s \in Seq(S) /\ Len(s) = 1 + Len(r)
  BY <1>1, <1>2, ConcatProperties
<1>4. PICK l \in Nat : l = Len(r)
  BY LenProperties
<1>5. s # <<>>
  BY <1>3, <1>4, EmptySeq
<1>6. s[1] = h /\ \A i \in 1..l : s[1 + i] = r[i]
  BY <1>1, <1>2, <1>4, ConcatProperties
<1>7. Head(s) = h
  BY <1>3, <1>5, <1>6, HeadAndTail
<1>8. Tail(s) = r
  <2>1. /\ Tail(s) \in Seq(S) /\ Len(Tail(s)) = l
        /\ \A i \in 1..l : Tail(s)[i] = s[i + 1]
    BY <1>3, <1>4, <1>5, HeadTailProperties, HeadAndTail
  <2>2. \A i \in 1..l : Tail(s)[i] = r[i]
    <3>1. \A i \in 1..l : 1 + i = i + 1
      OBVIOUS
    <3> QED
      BY <1>6, <2>1, <3>1
  <2> QED
    BY <1>4, <2>1, <2>2, SeqEqual
<1> QED
  BY <1>1, <1>3, <1>5, <1>7, <1>8, PopView

LEMMA Unpop ==
  ASSUME NEW S, NEW s \in Seq(S), s # <<>>
  PROVE  Head(s) \in S /\ Tail(s) \in Seq(S) /\ s = <<Head(s)>> \o Tail(s)
BY HeadTailProperties

(* M takes the first of what came.                                         *)
LEMMA DownPop ==
  ASSUME NEW h \in ItemM, NEW r \in Seq(ItemM), NEW b \in Seq(EventC), NEW e \in Seq(EventC)
  PROVE  Popped(Down(<<h>> \o r, b, e), Kind(h), Made(h), Down(r, b, e))
<1> DEFINE S == ItemM \union EventC
<1>1. h \in S /\ <<h>> \in Seq(S) /\ r \in Seq(S) /\ b \in Seq(S) /\ e \in Seq(S)
  <2>1. r \in Seq(S) /\ b \in Seq(S) /\ e \in Seq(S)
    BY SeqMonotonic
  <2> QED
    BY <2>1
<1> HIDE DEF S
<1>2. r \o b \in Seq(S) /\ (r \o b) \o e \in Seq(S)
  BY <1>1, ConcatProperties
<1>3. (<<h>> \o r) \o b = <<h>> \o (r \o b)
  BY <1>1, ConcatAssociative
<1>4. (<<h>> \o (r \o b)) \o e = <<h>> \o ((r \o b) \o e)
  BY <1>1, <1>2, ConcatAssociative
<1>5. Popped(<<h>> \o ((r \o b) \o e), Kind(h), Made(h), (r \o b) \o e)
  BY <1>1, <1>2, PopOf
<1> QED
  BY <1>3, <1>4, <1>5 DEF Down

(* C has an event for M.                                                   *)
LEMMA DownAdd ==
  ASSUME NEW h \in EventC, NEW s \in Seq(ItemM), NEW b \in Seq(EventC), NEW e \in Seq(EventC)
  PROVE  Added(Down(s, b, e), Kind(h), Made(h), Down(s, b, e \o <<h>>))
<1> DEFINE S == ItemM \union EventC
<1>1. h \in S /\ <<h>> \in Seq(S) /\ s \in Seq(S) /\ b \in Seq(S) /\ e \in Seq(S)
  <2>1. s \in Seq(S) /\ b \in Seq(S) /\ e \in Seq(S)
    BY SeqMonotonic
  <2> QED
    BY <2>1
<1> HIDE DEF S
<1>2. s \o b \in Seq(S) /\ (s \o b) \o e \in Seq(S)
  BY <1>1, ConcatProperties
<1>3. (s \o b) \o (e \o <<h>>) = ((s \o b) \o e) \o <<h>>
  BY <1>1, <1>2, ConcatAssociative
<1>4. Added((s \o b) \o e, Kind(h), Made(h), ((s \o b) \o e) \o <<h>>)
  BY <1>1, <1>2, AddView
<1> QED
  BY <1>3, <1>4 DEF Down

(* An event goes into the buffer.                                          *)
LEMMA DownRoute ==
  ASSUME NEW s \in Seq(ItemM), NEW b \in Seq(EventC), NEW e \in Seq(EventC), e # <<>>
  PROVE  Down(s, b \o <<Head(e)>>, Tail(e)) = Down(s, b, e)
<1> DEFINE S == ItemM \union EventC
<1>1. s \in Seq(S) /\ b \in Seq(S) /\ e \in Seq(S)
  BY SeqMonotonic
<1> HIDE DEF S
<1>2. PICK h \in S, t \in Seq(S) : h = Head(e) /\ t = Tail(e) /\ e = <<h>> \o t
  BY <1>1, Unpop
<1>3. <<h>> \in Seq(S) /\ s \o b \in Seq(S)
  BY <1>1, ConcatProperties
<1>4. s \o (b \o <<h>>) = (s \o b) \o <<h>>
  BY <1>1, <1>3, ConcatAssociative
<1>5. ((s \o b) \o <<h>>) \o t = (s \o b) \o (<<h>> \o t)
  BY <1>2, <1>3, ConcatAssociative
<1> QED
  BY <1>2, <1>4, <1>5 DEF Down

(* M has something to do for itself.                                       *)
LEMMA DownInsert ==
  ASSUME NEW h \in ItemM, Kind(h) \in OwnM,
         NEW s \in Seq(ItemM), NEW b \in Seq(EventC), NEW e \in Seq(EventC)
  PROVE  Inserted(Down(s, b, e), Kind(h), Made(h), Down(s \o <<h>>, b, e))
<1>1. PICK d : d = Down(s, b, e)
  OBVIOUS
<1>2. PICK p \in Seq(ItemM) : p = s \o <<h>>
  <2>1. <<h>> \in Seq(ItemM)
    OBVIOUS
  <2> QED
    BY <2>1, ConcatProperties
<1>3. PICK q : q = Down(p, b, e)
  OBVIOUS
<1>4. PICK k : k = Kind(h)
  OBVIOUS
<1>5. PICK a : a = Made(h)
  OBVIOUS
<1>6. Added(s, k, a, p)
  BY <1>2, <1>4, <1>5, AddView
<1>7. ~Has(b, k) /\ ~Has(e, k) /\ (\A t : ~Mem(b, k, t) /\ ~Mem(e, k, t))
  BY <1>4, DownView, HasMem
<1>8. \A x : Has(q, x) <=> Has(d, x) \/ x = k
  BY <1>1, <1>3, <1>6, DownView DEF Added
<1>9. \A x, t : Mem(q, x, t) <=> Mem(d, x, t) \/ (x = k /\ t = a)
  BY <1>1, <1>3, <1>6, DownView DEF Added
<1>10. \A x, y : x # k /\ y # k => (Open(q, x, y) <=> Open(d, x, y))
  BY <1>1, <1>3, <1>6, DownView DEF Added
<1>11. \A x, y, t : x # k /\ y # k => (Ahead(q, x, y, t) <=> Ahead(d, x, y, t))
  BY <1>1, <1>3, <1>6, DownView DEF Added
<1>12. ASSUME NEW X, Late(d, X, k), \A x \in X : \A u : Mem(d, x, u) => a > u PROVE Late(q, X, k)
  <2>1. Late(s, X, k) /\ \A x \in X : \A u : Mem(s, x, u) => a > u
    BY <1>1, <1>4, <1>12, DownView
  <2>2. Late(p, X, k)
    BY <1>6, <2>1 DEF Added
  <2> QED
    BY <1>3, <1>4, <2>2, DownView
<1>13. ASSUME NEW X, NEW y \in OwnM, y # k, Late(d, X, y) PROVE Late(q, X, y)
  <2>1. Late(s, X, y)
    BY <1>1, <1>13, DownView
  <2>2. Late(p, X, y)
    BY <1>6, <1>13, <2>1 DEF Added
  <2> QED
    BY <1>3, <1>13, <2>2, DownView
<1>14. "A1" \in OwnM /\ "P2" \in OwnM
  BY DEF OwnM
<1> QED
  BY <1>1, <1>2, <1>3, <1>4, <1>5, <1>8, <1>9, <1>10, <1>11, <1>12, <1>13, <1>14 DEF Inserted

(* What DownView says of a word.                                           *)
Spliced(d, s, b, e) ==
  /\ \A x : Has(d, x) <=> Has(s, x) \/ Has(b, x) \/ Has(e, x)
  /\ \A x, t : Mem(d, x, t) <=> Mem(s, x, t) \/ Mem(b, x, t) \/ Mem(e, x, t)
  /\ \A x, y, t : Ahead(d, x, y, t) <=>
       \/ Ahead(s, x, y, t) \/ Ahead(b, x, y, t) \/ Ahead(e, x, y, t)
       \/ Has(s, x) /\ (Mem(b, y, t) \/ Mem(e, y, t))
       \/ Has(b, x) /\ Mem(e, y, t)
  /\ \A x, y : Open(d, x, y) <=>
       Open(e, x, y) \/ ((Open(b, x, y) \/ (Open(s, x, y) /\ ~Has(b, y))) /\ ~Has(e, y))
  /\ \A y \in OwnM : ~Has(b, y) /\ ~Has(e, y)
  /\ \A X, y : y \in OwnM => (Late(d, X, y) <=> Late(s, X, y))

LEMMA DownJoins ==
  ASSUME NEW s \in Seq(ItemM), NEW b \in Seq(EventC), NEW e \in Seq(EventC)
  PROVE  Spliced(Down(s, b, e), s, b, e)
BY DownView DEF Spliced

(* Whatever word c says, word b says.                                      *)
Lesser(c, b) ==
  /\ \A x : Has(c, x) => Has(b, x)
  /\ \A x, t : Mem(c, x, t) => Mem(b, x, t)
  /\ \A x, y, t : Ahead(c, x, y, t) => Ahead(b, x, y, t)
  /\ \A x, y : Open(c, x, y) => Open(b, x, y)

LEMMA KeptOrNot == \A b : Lesser(b, b) /\ Lesser(<<>>, b)
BY NothingThere, HasMem, Inside DEF Lesser

(* The buffer arrives, and may be kept to be sent again.                   *)
LEMMA DownCarry ==
  ASSUME NEW s \in Seq(ItemM), NEW b \in Seq(EventC), NEW e \in Seq(EventC),
         NEW g \in Seq(ItemM), Alike(b, g), NEW c \in Seq(EventC), Lesser(c, b)
  PROVE  /\ s \o g \in Seq(ItemM)
         /\ \A x : Has(Down(s \o g, c, e), x) <=> Has(Down(s, b, e), x)
         /\ \A x, t : Mem(Down(s \o g, c, e), x, t) <=> Mem(Down(s, b, e), x, t)
         /\ \A x, y, t : Ahead(Down(s, b, e), x, y, t) => Ahead(Down(s \o g, c, e), x, y, t)
         /\ \A x, y : Open(Down(s \o g, c, e), x, y) => Open(Down(s, b, e), x, y)
         /\ \A X, y : y \in OwnM /\ Late(Down(s, b, e), X, y) => Late(Down(s \o g, c, e), X, y)
<1>1. PICK p \in Seq(ItemM) : p = s \o g
  BY ConcatProperties
<1>3. /\ \A x : Has(p, x) <=> Has(s, x) \/ Has(b, x)
      /\ \A x, t : Mem(p, x, t) <=> Mem(s, x, t) \/ Mem(b, x, t)
      /\ \A x, y, t : Ahead(p, x, y, t) <=>
                        Ahead(s, x, y, t) \/ Ahead(b, x, y, t) \/ (Has(s, x) /\ Mem(b, y, t))
      /\ \A x, y : Open(p, x, y) <=> Open(b, x, y) \/ (Open(s, x, y) /\ ~Has(b, y))
      /\ \A X, y : (Late(s, X, y) /\ ~Has(b, y)) => Late(p, X, y)
  BY <1>1, AlikeView, JoinMem, JoinBefore, JoinOpen, JoinOrder
<1>4. PICK d : d = Down(s, b, e)
  OBVIOUS
<1>5. PICK q : q = Down(p, c, e)
  OBVIOUS
<1>6. Spliced(d, s, b, e)
  BY <1>4, DownJoins
<1>7. Spliced(q, p, c, e)
  BY <1>5, DownJoins
<1>8. /\ \A x : Has(c, x) => Has(b, x)
      /\ \A x, t : Mem(c, x, t) => Mem(b, x, t)
      /\ \A x, y, t : Ahead(c, x, y, t) => Ahead(b, x, y, t)
      /\ \A x, y : Open(c, x, y) => Open(b, x, y)
  BY DEF Lesser
<1>9. /\ \A x : Has(q, x) <=> Has(d, x)
      /\ \A x, t : Mem(q, x, t) <=> Mem(d, x, t)
  BY <1>3, <1>6, <1>7, <1>8 DEF Spliced
<1>10. \A x, y, t : Ahead(d, x, y, t) => Ahead(q, x, y, t)
  BY <1>3, <1>6, <1>7 DEF Spliced
<1>11. \A x, y : Open(q, x, y) => Open(d, x, y)
  BY <1>3, <1>6, <1>7, <1>8 DEF Spliced
<1>12. \A X, y : y \in OwnM /\ Late(d, X, y) => Late(q, X, y)
  BY <1>3, <1>6, <1>7 DEF Spliced
<1> QED
  BY <1>1, <1>4, <1>5, <1>9, <1>10, <1>11, <1>12

(* An event for M is dropped.                                              *)
LEMMA DownDrop ==
  ASSUME NEW s \in Seq(ItemM), NEW b \in Seq(EventC), NEW e \in Seq(EventC), e # <<>>
  PROVE  /\ \A x : Has(Down(s, b, Tail(e)), x) => Has(Down(s, b, e), x)
         /\ \A x, t : Mem(Down(s, b, Tail(e)), x, t) => Mem(Down(s, b, e), x, t)
         /\ \A x \in OwnM : Has(Down(s, b, Tail(e)), x) <=> Has(Down(s, b, e), x)
         /\ \A x \in OwnM : \A t : Mem(Down(s, b, Tail(e)), x, t) <=> Mem(Down(s, b, e), x, t)
         /\ \A X, y : y \in OwnM /\ Late(Down(s, b, e), X, y) => Late(Down(s, b, Tail(e)), X, y)
         /\ Has(Down(s, b, e), Kind(Head(e)))
<1>1. PICK t \in Seq(EventC) : t = Tail(e)
  BY Unpop
<1>2. /\ \A x : Has(t, x) => Has(e, x)
      /\ \A x, u : Mem(t, x, u) => Mem(e, x, u)
  BY <1>1, PopView DEF Popped
<1>3. Has(e, Kind(Head(e)))
  BY Something
<1>4. PICK d : d = Down(s, b, e)
  OBVIOUS
<1>5. PICK q : q = Down(s, b, t)
  OBVIOUS
<1>6. \A x \in OwnM : ~Has(e, x) /\ ~Has(t, x) /\ (\A u : ~Mem(e, x, u) /\ ~Mem(t, x, u))
  BY DownView, HasMem
<1>7. /\ \A x : Has(q, x) => Has(d, x)
      /\ \A x, u : Mem(q, x, u) => Mem(d, x, u)
  BY <1>2, <1>4, <1>5, DownView
<1>8. /\ \A x \in OwnM : Has(q, x) <=> Has(d, x)
      /\ \A x \in OwnM : \A u : Mem(q, x, u) <=> Mem(d, x, u)
  BY <1>4, <1>5, <1>6, DownView
<1>9. \A X, y : y \in OwnM /\ Late(d, X, y) => Late(q, X, y)
  BY <1>4, <1>5, DownView
<1>10. Has(d, Kind(Head(e)))
  BY <1>3, <1>4, DownView
<1> QED
  BY <1>1, <1>4, <1>5, <1>7, <1>8, <1>9, <1>10

(* The view of a state.                                                    *)
View ==
  [kc |-> kq[C], wc |-> buf[M] \o evq[M], d |-> Down(kq[M], buf[C], evq[C]),
   c1 |-> cache[C][E1], c2 |-> cache[C][E2], m1 |-> cache[M][E1], m2 |-> cache[M][E2],
   cm |-> Cached(C, M), mc |-> Cached(M, C),
   on |-> up[M] \in {"greeted", "run"}, now |-> now]

LEMMA ViewFields ==
  /\ View.kc = kq[C] /\ View.wc = buf[M] \o evq[M] /\ View.d = Down(kq[M], buf[C], evq[C])
  /\ View.c1 = cache[C][E1] /\ View.c2 = cache[C][E2]
  /\ View.m1 = cache[M][E1] /\ View.m2 = cache[M][E2]
  /\ View.cm = (cache[C][M] # None) /\ View.mc = (cache[M][C] # None)
  /\ View.on = (up[M] \in {"greeted", "run"}) /\ View.now = now
BY DEF View, Cached

LEMMA ViewFieldsNext ==
  /\ View'.kc = kq'[C] /\ View'.wc = buf'[M] \o evq'[M]
  /\ View'.d = Down(kq'[M], buf'[C], evq'[C])
  /\ View'.c1 = cache'[C][E1] /\ View'.c2 = cache'[C][E2]
  /\ View'.m1 = cache'[M][E1] /\ View'.m2 = cache'[M][E2]
  /\ View'.cm = (cache'[C][M] # None) /\ View'.mc = (cache'[M][C] # None)
  /\ View'.on = (up'[M] \in {"greeted", "run"}) /\ View'.now = now'
BY DEF View, Cached

(* A state of the right types has a view of the right types.               *)
LEMMA ViewFine == TypeInv /\ WordInv => ViewOK(View)
<1> SUFFICES ASSUME TypeInv, WordInv PROVE ViewOK(View)
  OBVIOUS
<1>1. Lexicon(kq[C], KindsC)
  BY ItemsOfC, LexiconOf DEF WordInv
<1>2. Lexicon(buf[M] \o evq[M], SentM)
  <2>1. buf[M] \o evq[M] \in Seq(EventM)
    BY ConcatProperties DEF WordInv
  <2>2. ASSUME NEW x \in EventM PROVE Kind(x) \in SentM /\ Made(x) \in Nat
    <3>1. Item(x.rid, x.ev, x.man, M) \in ItemC /\ Made(Item(x.rid, x.ev, x.man, M)) = Made(x)
      BY Arriving
    <3> QED
      BY <3>1, ItemsOfC DEF EventM
  <2> QED
    BY <2>1, <2>2, LexiconOf
<1>3. Lexicon(Down(kq[M], buf[C], evq[C]), KindsM)
  <2>1. Down(kq[M], buf[C], evq[C]) \in Seq(ItemM \union EventC)
    BY DownView DEF WordInv
  <2>2. ASSUME NEW x \in EventC PROVE Kind(x) \in KindsM /\ Made(x) \in Nat
    <3>1. /\ Item(x.rid, x.ev, x.man, C) \in ItemM
          /\ Kind(Item(x.rid, x.ev, x.man, C)) = Kind(x)
          /\ Made(Item(x.rid, x.ev, x.man, C)) = Made(x)
      BY Arriving
    <3> QED
      BY <3>1, ItemsOfM
  <2> QED
    BY <2>1, <2>2, ItemsOfM, LexiconOf
<1>4. ASSUME NEW n \in Node, NEW e \in Edge PROVE EdgeOK(cache[n][e])
  <2>1. cache[n][e] \in Man
    BY EdgeIsNoNode DEF TypeInv, Held
  <2>2. cache[n][e] # None => cache[n][e] \in Bundle /\ cache[n][e].st \in EdgeState
    BY <2>1, Bundles DEF WordInv
  <2> QED
    BY <2>2 DEF EdgeOK, Bundle
<1>5. /\ EdgeOK(View.c1) /\ EdgeOK(View.c2) /\ EdgeOK(View.m1) /\ EdgeOK(View.m2)
  BY <1>4, ViewFields, Rids
<1>6. View.now \in Nat /\ View.cm \in BOOLEAN /\ View.mc \in BOOLEAN /\ View.on \in BOOLEAN
  BY ViewFields DEF TypeInv, Held
<1> QED
  BY <1>1, <1>2, <1>3, <1>5, <1>6, ViewFields DEF ViewOK

LEMMA ViewFineNext == TypeInv' /\ WordInv' => ViewOK(View)'
BY ViewFine, PTL

LEMMA ViewFineLater == TypeInv' /\ WordInv' => ViewOK(View')
BY ViewFineNext

(* Which knowledge is accepted, by its kind.                               *)
LEMMA AcceptedByC ==
  ASSUME TypeInv, NEW k \in ItemC
  PROVE  /\ Kind(k) = "FM" => (Accepts(C, k) <=> Cached(C, M))
         /\ Kind(k) = "NM" => (Accepts(C, k) <=> ~Cached(C, M))
         /\ Kind(k) = "F1" => (Accepts(C, k) <=> Cached(C, E1))
         /\ Kind(k) = "F2" => (Accepts(C, k) <=> Cached(C, E2))
         /\ Kind(k) = "P1" => (Accepts(C, k) <=> Newer(cache[C][E1], "PROPOSED", Made(k)))
         /\ Kind(k) = "A1" => (Accepts(C, k) <=> Newer(cache[C][E1], "APPROVED", Made(k)))
         /\ Kind(k) = "A2" => (Accepts(C, k) <=> Newer(cache[C][E2], "APPROVED", Made(k)))
         /\ Kind(k) = "P2" => (Accepts(C, k) <=> Newer(cache[C][E2], "PROPOSED", Made(k)) /\ Cached(C, M))
<1>1. ASSUME k.rid # C PROVE ~Blocked(C, k)
  BY <1>1 DEF Blocked
<1>2. ASSUME k.rid \in {M, E1, E2}, IsProposal(C, k)
      PROVE  k.rid = E2 /\ k.src # None /\ k.man.st = "PROPOSED" /\ k.ev \in {"NEW", "UPDATE"}
  BY <1>2, Rids DEF IsProposal
<1>3. ASSUME k.rid # C, ~IsProposal(C, k), k.ev = "FORGET" PROVE Accepts(C, k) <=> Cached(C, k.rid)
  BY <1>1, <1>3 DEF Accepts, Relevant
<1>4. ASSUME k.rid # C, ~IsProposal(C, k), k.ev # "FORGET"
      PROVE  Accepts(C, k) <=> Newer(cache[C][k.rid], k.man.st, k.man.ts)
  BY <1>1, <1>4 DEF Accepts, Relevant, Newer, Cached
<1>5. ASSUME Kind(k) \in {"FM", "F1", "F2"} PROVE k.ev = "FORGET" /\ ~IsProposal(C, k)
  BY <1>5, ItemsOfC, Rids, States DEF IsProposal
<1>6. CASE Kind(k) = "FM"
  BY <1>3, <1>5, <1>6, ItemsOfC, Rids
<1>7. CASE Kind(k) = "F1"
  BY <1>3, <1>5, <1>7, ItemsOfC, Rids
<1>8. CASE Kind(k) = "F2"
  BY <1>3, <1>5, <1>8, ItemsOfC, Rids
<1>9. CASE Kind(k) = "NM"
  <2>1. k.rid = M /\ k.ev # "FORGET" /\ k.man = Profile
    <3>1. Form(k)
      BY DEF ItemC
    <3> QED
      BY <1>9, <3>1, ItemsOfC, Rids, States DEF Form, Read
  <2>2. ~IsProposal(C, k)
    BY <1>2, <2>1, Rids
  <2>3. cache[C][M] # None => cache[C][M].ts \in Nat
    BY Rids, Bundles DEF TypeInv, Held, Bundle
  <2>4. ~(cache[C][M] # None /\ 0 > cache[C][M].ts)
    BY <2>3
  <2> QED
    BY <1>4, <1>9, <2>1, <2>2, <2>4, Rids, States DEF Newer, Cached
<1>10. CASE Kind(k) = "P1"
  <2>1. k.rid = E1 /\ k.ev # "FORGET" /\ k.man.st = "PROPOSED" /\ Made(k) = k.man.ts
    BY <1>10, ItemsOfC, States DEF Read
  <2>2. ~IsProposal(C, k)
    BY <1>2, <2>1, Rids
  <2> QED
    BY <1>4, <1>10, <2>1, <2>2, Rids
<1>11. CASE Kind(k) = "A1"
  <2>1. k.rid = E1 /\ k.ev # "FORGET" /\ k.man.st = "APPROVED" /\ Made(k) = k.man.ts
    BY <1>11, ItemsOfC, States DEF Read
  <2>2. ~IsProposal(C, k)
    BY <1>2, <2>1, Rids
  <2> QED
    BY <1>4, <1>11, <2>1, <2>2, Rids
<1>12. CASE Kind(k) = "A2"
  <2>1. k.rid = E2 /\ k.ev # "FORGET" /\ k.man.st = "APPROVED" /\ Made(k) = k.man.ts
    BY <1>12, ItemsOfC, States DEF Read
  <2>2. ~IsProposal(C, k)
    BY <1>2, <2>1, Rids
  <2> QED
    BY <1>4, <1>12, <2>1, <2>2, Rids
<1>14. CASE Kind(k) = "P2"
  <2>1. k.rid = E2 /\ k.ev \in {"NEW", "UPDATE"} /\ k.src = M /\ k.man.st = "PROPOSED" /\ Made(k) = k.man.ts
    BY <1>14, ItemsOfC, States DEF Read
  <2>2. IsProposal(C, k) /\ k.ev # "FORGET" /\ k.rid # C /\ k.rid[2] = M
    BY <2>1, Rids DEF IsProposal
  <2>3. ~Blocked(C, k)
    BY <1>1, <2>2
  <2> QED
    BY <1>14, <2>1, <2>2, <2>3 DEF Accepts, Relevant, Newer, Cached
<1> QED
  BY <1>6, <1>7, <1>8, <1>9, <1>10, <1>11, <1>12, <1>14

(* Which knowledge is accepted, by its kind.                               *)
LEMMA AcceptedByM ==
  ASSUME TypeInv, NEW k \in ItemM
  PROVE  /\ Kind(k) = "NC" => (Accepts(M, k) <=> ~Cached(M, C))
         /\ Kind(k) = "F1" => (Accepts(M, k) <=> Cached(M, E1))
         /\ Kind(k) = "F2" => (Accepts(M, k) <=> Cached(M, E2))
         /\ Kind(k) = "P1" => (Accepts(M, k) <=> Newer(cache[M][E1], "PROPOSED", Made(k)) /\ Cached(M, C))
         /\ Kind(k) = "A1" => (Accepts(M, k) <=> Newer(cache[M][E1], "APPROVED", Made(k)))
         /\ Kind(k) = "P2" => (Accepts(M, k) <=> Newer(cache[M][E2], "PROPOSED", Made(k)))
         /\ Kind(k) = "A2" => (Accepts(M, k) <=> Newer(cache[M][E2], "APPROVED", Made(k)))
<1>1. ASSUME k.rid # M PROVE ~Blocked(M, k)
  BY <1>1 DEF Blocked
<1>2. ASSUME k.rid \in {C, E1, E2}, IsProposal(M, k)
      PROVE  k.rid = E1 /\ k.src # None /\ k.man.st = "PROPOSED" /\ k.ev \in {"NEW", "UPDATE"}
  BY <1>2, Rids DEF IsProposal
<1>3. ASSUME k.rid # M, ~IsProposal(M, k), k.ev = "FORGET" PROVE Accepts(M, k) <=> Cached(M, k.rid)
  BY <1>1, <1>3 DEF Accepts, Relevant
<1>4. ASSUME k.rid # M, ~IsProposal(M, k), k.ev # "FORGET"
      PROVE  Accepts(M, k) <=> Newer(cache[M][k.rid], k.man.st, k.man.ts)
  BY <1>1, <1>4 DEF Accepts, Relevant, Newer, Cached
<1>5. ASSUME Kind(k) \in {"F1", "F2"} PROVE k.ev = "FORGET" /\ ~IsProposal(M, k)
  BY <1>5, ItemsOfM, Rids, States DEF IsProposal
<1>7. CASE Kind(k) = "F1"
  BY <1>3, <1>5, <1>7, ItemsOfM, Rids
<1>8. CASE Kind(k) = "F2"
  BY <1>3, <1>5, <1>8, ItemsOfM, Rids
<1>9. CASE Kind(k) = "NC"
  <2>1. k.rid = C /\ k.ev # "FORGET" /\ k.man = Profile
    <3>1. Form(k)
      BY DEF ItemM
    <3> QED
      BY <1>9, <3>1, ItemsOfM, Rids, States DEF Form, Read
  <2>2. ~IsProposal(M, k)
    BY <1>2, <2>1, Rids
  <2>3. cache[M][C] # None => cache[M][C].ts \in Nat
    BY Rids, Bundles DEF TypeInv, Held, Bundle
  <2>4. ~(cache[M][C] # None /\ 0 > cache[M][C].ts)
    BY <2>3
  <2> QED
    BY <1>4, <1>9, <2>1, <2>2, <2>4, Rids, States DEF Newer, Cached
<1>10. CASE Kind(k) = "P2"
  <2>1. k.rid = E2 /\ k.ev # "FORGET" /\ k.man.st = "PROPOSED" /\ Made(k) = k.man.ts
    BY <1>10, ItemsOfM, States DEF Read
  <2>2. ~IsProposal(M, k)
    BY <1>2, <2>1, Rids
  <2> QED
    BY <1>4, <1>10, <2>1, <2>2, Rids
<1>11. CASE Kind(k) = "A1"
  <2>1. k.rid = E1 /\ k.ev # "FORGET" /\ k.man.st = "APPROVED" /\ Made(k) = k.man.ts
    BY <1>11, ItemsOfM, States DEF Read
  <2>2. ~IsProposal(M, k)
    BY <1>2, <2>1, Rids
  <2> QED
    BY <1>4, <1>11, <2>1, <2>2, Rids
<1>12. CASE Kind(k) = "A2"
  <2>1. k.rid = E2 /\ k.ev # "FORGET" /\ k.man.st = "APPROVED" /\ Made(k) = k.man.ts
    BY <1>12, ItemsOfM, States DEF Read
  <2>2. ~IsProposal(M, k)
    BY <1>2, <2>1, Rids
  <2> QED
    BY <1>4, <1>12, <2>1, <2>2, Rids
<1>14. CASE Kind(k) = "P1"
  <2>1. k.rid = E1 /\ k.ev \in {"NEW", "UPDATE"} /\ k.src = C /\ k.man.st = "PROPOSED" /\ Made(k) = k.man.ts
    BY <1>14, ItemsOfM, States DEF Read
  <2>2. IsProposal(M, k) /\ k.ev # "FORGET" /\ k.rid # M /\ k.rid[2] = C
    BY <2>1, Rids DEF IsProposal
  <2>3. ~Blocked(M, k)
    BY <1>1, <2>2
  <2> QED
    BY <1>14, <2>1, <2>2, <2>3 DEF Accepts, Relevant, Newer, Cached
<1> QED
  BY <1>7, <1>8, <1>9, <1>10, <1>11, <1>12, <1>14

(* Which knowledge is what C has caught up with.                           *)
LEMMA BareOfC ==
  ASSUME NEW k \in ItemC PROVE Bare(k) <=> Kind(k) \in {"CP1", "CA1", "CP2", "CA2"}
<1>1. CASE Kind(k) \in {"CP1", "CA1", "CP2", "CA2"}
  <2>1. k.ev = None /\ k.src = M
    BY <1>1, ItemsOfC DEF Read
  <2> QED
    BY <1>1, <2>1, Rids DEF Bare
<1>2. CASE Kind(k) \in {"FM", "NM", "P2", "A1"}
  <2>1. k.ev # None
    BY <1>2, ItemsOfC, States DEF Read
  <2> QED
    BY <1>2, <2>1 DEF Bare
<1>3. CASE Kind(k) \in {"F1", "F2", "P1", "A2"}
  <2>1. k.src = None
    BY <1>3, ItemsOfC DEF Read
  <2> QED
    BY <1>3, <2>1 DEF Bare
<1> QED
  BY <1>1, <1>2, <1>3, ItemsOfC DEF KindsC

LEMMA BareOfM == ASSUME NEW k \in ItemM PROVE ~Bare(k)
<1>1. CASE Kind(k) \in {"P2", "A1"}
  <2>1. k.src = None
    BY <1>1, ItemsOfM DEF Read
  <2> QED
    BY <2>1 DEF Bare
<1>2. CASE Kind(k) \in {"NC", "F1", "F2", "P1", "A2"}
  <2>1. k.ev # None
    BY <1>2, ItemsOfM, States DEF Read
  <2> QED
    BY <2>1 DEF Bare
<1> QED
  BY <1>1, <1>2, ItemsOfM DEF KindsM

(* What follows from knowledge that is accepted, by its kind.              *)
LEMMA FollowsAtC ==
  ASSUME NEW k \in ItemC, NEW known
  PROVE  /\ \A r : Contact(C, r, known) = <<>>
         /\ Kind(k) # "P2" => Approval(C, k) = <<>>
         /\ Kind(k) = "P2" => Approval(C, k) = <<Item(E2, "UPDATE", EdgeBundle("APPROVED", now + 1), None)>>
         /\ Kind(k) # "NM" => Greeting(C, k) = <<>>
         /\ Kind(k) = "NM" => Greeting(C, k) = <<Item(E1, "FORGET", None, None),
                                                 Item(E1, None, EdgeBundle("PROPOSED", now + 1), None)>>
         /\ Kind(k) # "FM" => Orphans(C, k, known) = {<<>>}
         /\ Kind(k) = "CP2" => Unnegotiated(C, k)
         /\ Kind(k) = "NM" => Events(C, k, known) = <<Event(C, "NEW", Profile)>>
         /\ Kind(k) \notin OwnC \union {"NM"} => Events(C, k, known) = <<>>
         /\ Kind(k) \in OwnC => Events(C, k, known) =
              <<Event(k.rid, Normalized(C, k), IF k.ev = "FORGET" THEN None ELSE k.man)>>
<1>1. \A r : Contact(C, r, known) = <<>>
  BY Rids DEF Contact
<1>2. IsProposal(C, k) <=> Kind(k) = "P2"
  <2>1. ASSUME Kind(k) = "P2" PROVE IsProposal(C, k)
    BY <2>1, ItemsOfC, Rids DEF IsProposal, Read
  <2>2. ASSUME IsProposal(C, k) PROVE Kind(k) = "P2"
    <3>1. k.rid = E2 /\ k.ev \in {"NEW", "UPDATE"} /\ k.man.st = "PROPOSED"
      <4>1. k.rid \in {E1, E2} /\ k.rid[1] = C /\ k.ev \in {"NEW", "UPDATE"} /\ k.man.st = "PROPOSED"
        BY <2>2, Rids DEF IsProposal
      <4> QED
        BY <4>1, Rids
    <3> QED
      BY <3>1, EdgeKind, States
  <2> QED
    BY <2>1, <2>2
<1>3. Greets(C, k) <=> Kind(k) = "NM"
  <2>1. ASSUME Kind(k) = "NM" PROVE Greets(C, k)
    BY <2>1, ItemsOfC, Rids DEF Greets, Read
  <2>2. ASSUME Greets(C, k) PROVE Kind(k) = "NM"
    BY <2>2, EdgeKind DEF Greets
  <2> QED
    BY <2>1, <2>2
<1>4. Kind(k) # "FM" => ~(k.rid = M /\ k.ev = "FORGET")
  BY EdgeKind
<1>5. Kind(k) = "CP2" => Unnegotiated(C, k)
  BY ItemsOfC, Rids DEF Unnegotiated, Read
<1>6. Kind(k) \in OwnC <=> k.src = None
  BY Rids DEF ItemC
<1>7. Kind(k) \in OwnC => k.rid \in Edge /\ Kind(k) # "NM"
  BY ItemsOfC, Rids DEF OwnC, Read
<1>8. /\ Kind(k) # "P2" => Approval(C, k) = <<>>
      /\ Kind(k) = "P2" => Approval(C, k) = <<Item(E2, "UPDATE", EdgeBundle("APPROVED", now + 1), None)>>
  BY <1>2, ItemsOfC DEF Approval, Read
<1>9. /\ Kind(k) # "NM" => Greeting(C, k) = <<>>
      /\ Kind(k) = "NM" => Greeting(C, k) = <<Item(E1, "FORGET", None, None),
                                              Item(E1, None, EdgeBundle("PROPOSED", now + 1), None)>>
  BY <1>3 DEF Greeting, E1
<1>10. Kind(k) # "FM" => Orphans(C, k, known) = {<<>>}
  BY <1>4, Rids DEF Orphans
<1>11. /\ Kind(k) = "NM" => Events(C, k, known) = <<Event(C, "NEW", Profile)>>
       /\ Kind(k) \notin OwnC \union {"NM"} => Events(C, k, known) = <<>>
       /\ Kind(k) \in OwnC => Events(C, k, known) =
            <<Event(k.rid, Normalized(C, k), IF k.ev = "FORGET" THEN None ELSE k.man)>>
  BY <1>3, <1>6, <1>7 DEF Events, Targeted
<1> QED
  BY <1>1, <1>5, <1>8, <1>9, <1>10, <1>11

LEMMA FollowsAtM ==
  ASSUME NEW k \in ItemM, NEW known
  PROVE  /\ Kind(k) # "P1" => Approval(M, k) = <<>>
         /\ Kind(k) = "P1" => Approval(M, k) = <<Item(E1, "UPDATE", EdgeBundle("APPROVED", now + 1), None)>>
         /\ Kind(k) # "NC" => Contact(M, k.rid, known) = <<>>
         /\ Kind(k) = "NC" => Contact(M, k.rid, known) =
              IF known[E2] = None THEN <<Item(E2, None, EdgeBundle("PROPOSED", now + 1), None)>> ELSE <<>>
         /\ Greeting(M, k) = <<>> /\ Orphans(M, k, known) = {<<>>} /\ ~Unnegotiated(M, k)
         /\ Kind(k) \notin OwnM => Events(M, k, known) = <<>>
         /\ Kind(k) \in OwnM => Events(M, k, known) =
              <<Event(k.rid, Normalized(M, k), IF k.ev = "FORGET" THEN None ELSE k.man)>>
<1>2. IsProposal(M, k) <=> Kind(k) = "P1"
  <2>1. ASSUME Kind(k) = "P1" PROVE IsProposal(M, k)
    BY <2>1, ItemsOfM, Rids DEF IsProposal, Read
  <2>2. ASSUME IsProposal(M, k) PROVE Kind(k) = "P1"
    <3>1. k.rid = E1 /\ k.ev \in {"NEW", "UPDATE"} /\ k.man.st = "PROPOSED"
      <4>1. k.rid \in {E1, E2} /\ k.rid[1] = M /\ k.ev \in {"NEW", "UPDATE"} /\ k.man.st = "PROPOSED"
        BY <2>2, Rids DEF IsProposal
      <4> QED
        BY <4>1, Rids
    <3> QED
      BY <3>1, EdgeKind, States
  <2> QED
    BY <2>1, <2>2
<1>3. ~Greets(M, k)
  BY Rids DEF Greets
<1>4. ~(k.rid = C /\ k.ev = "FORGET")
  <2>1. k.rid = C => Kind(k) = "NC"
    BY EdgeKind
  <2> QED
    BY <2>1, ItemsOfM, States DEF Read
<1>5. ~Unnegotiated(M, k)
  <2>1. ASSUME Unnegotiated(M, k) PROVE FALSE
    <3>1. k.rid \in {E1, E2} /\ k.src # None /\ k.ev = None /\ k.man.st = "PROPOSED"
      BY <2>1, Rids DEF Unnegotiated
    <3>2. Kind(k) \in {"CP1", "CP2"}
      BY <3>1, EdgeKind, States
    <3> QED
      BY <3>2, ItemsOfM DEF KindsM
  <2> QED
    BY <2>1
<1>6. Kind(k) \in OwnM <=> k.src = None
  BY Rids DEF ItemM
<1>7. Kind(k) \in OwnM => k.rid \in Edge
  BY ItemsOfM, Rids DEF OwnM, Read
<1>8. /\ Kind(k) # "P1" => Approval(M, k) = <<>>
      /\ Kind(k) = "P1" => Approval(M, k) = <<Item(E1, "UPDATE", EdgeBundle("APPROVED", now + 1), None)>>
  BY <1>2, ItemsOfM DEF Approval, Read
<1>9. k.rid = C <=> Kind(k) = "NC"
  BY EdgeKind, ItemsOfM DEF Read
<1>10. /\ Kind(k) # "NC" => Contact(M, k.rid, known) = <<>>
       /\ Kind(k) = "NC" => Contact(M, k.rid, known) =
            IF known[E2] = None THEN <<Item(E2, None, EdgeBundle("PROPOSED", now + 1), None)>> ELSE <<>>
  BY <1>9 DEF Contact, E2
<1>11. Greeting(M, k) = <<>> /\ Orphans(M, k, known) = {<<>>}
  BY <1>3, <1>4, Rids DEF Greeting, Orphans
<1>12. /\ Kind(k) \notin OwnM => Events(M, k, known) = <<>>
       /\ Kind(k) \in OwnM => Events(M, k, known) =
            <<Event(k.rid, Normalized(M, k), IF k.ev = "FORGET" THEN None ELSE k.man)>>
  BY <1>3, <1>6, <1>7, Rids DEF Events, Targeted
<1> QED
  BY <1>5, <1>8, <1>10, <1>11, <1>12

-----------------------------------------------------------------------------
(* C processes knowledge.                                                  *)

(* C takes k from its queue, accepts it, has s left to do and says e.      *)
TakesC(k, r, s, e) ==
  /\ k \in ItemC /\ r \in Seq(ItemC) /\ s \in Seq(ItemC) /\ e \in Seq(EventC)
  /\ kq[C] = <<k>> \o r /\ kq'[C] = s /\ kq'[M] = kq[M]
  /\ evq'[C] = evq[C] \o e /\ evq'[M] = evq[M] /\ buf' = buf /\ up' = up
  /\ cache'[M] = cache[M]
  /\ \A x \in RID : cache'[C][x] = IF x = k.rid THEN IF k.ev = "FORGET" THEN None ELSE k.man
                                  ELSE cache[C][x]

(* WordInv is kept; the edges of a forgotten M are to be forgotten.        *)
LEMMA WordsAfterC ==
  ASSUME WordInv, NEW k, NEW r, NEW s, NEW e, TakesC(k, r, s, e)
  PROVE  WordInv'
<1>1. kq'[C] \in Seq(ItemC) /\ kq'[M] \in Seq(ItemM)
  BY DEF WordInv, TakesC
<1>2. evq'[C] \in Seq(EventC) /\ evq'[M] \in Seq(EventM)
  BY ConcatProperties DEF WordInv, TakesC
<1>3. buf'[C] \in Seq(EventC) /\ buf'[M] \in Seq(EventM)
  BY DEF WordInv, TakesC
<1>4. ASSUME NEW n \in Node, NEW x \in Edge, cache'[n][x] # None PROVE cache'[n][x].st \in EdgeState
  <2>1. CASE n = M
    BY <1>4, <2>1 DEF WordInv, TakesC
  <2>2. CASE n = C
    <3>1. Form(k) /\ x \in RID
      BY EdgeIsNoNode DEF TakesC, ItemC
    <3>2. CASE x # k.rid
      BY <1>4, <2>2, <3>1, <3>2 DEF WordInv, TakesC
    <3>3. CASE x = k.rid
      BY <1>4, <2>2, <3>1, <3>3 DEF TakesC, Form
    <3> QED
      BY <3>2, <3>3
  <2> QED
    BY <2>1, <2>2, Rids
<1>5. up'[M] = "down" => buf'[M] = <<>> /\ evq'[M] = <<>>
  BY DEF WordInv, TakesC
<1> QED
  BY <1>1, <1>2, <1>3, <1>4, <1>5 DEF WordInv

LEMMA OrphansOfC ==
  ASSUME NEW k, NEW known, NEW q \in Orphans(C, k, known)
  PROVE  q \in Seq(ItemC) /\ \A x : Has(q, x) => x \in {"F1", "F2"}
<1> DEFINE G == {x \in ItemC : Kind(x) \in {"F1", "F2"}}
<1>1. \A e \in Edge : Item(e, "FORGET", None, None) \in G
  BY PushedByC, Rids DEF IsPut
<1>2. q \in Seq(G)
  <2>1. CASE q = <<>>
    BY <2>1
  <2>2. CASE q # <<>>
    <3> DEFINE S == {e \in Edge : known[e] # None}
    <3>1. PICK o \in Orders(S) : q = [i \in DOMAIN o |-> Item(o[i], "FORGET", None, None)]
      BY <2>2 DEF Orphans
    <3>2. DOMAIN o = 1..Len(o) /\ Len(o) \in Nat /\ \A i \in 1..Len(o) : o[i] \in S
      BY Orderings
    <3>3. q \in [1..Len(o) -> G]
      BY <1>1, <3>1, <3>2
    <3> QED
      BY <3>2, <3>3
  <2> QED
    BY <2>1, <2>2
<1>3. \A x : Has(q, x) => x \in {"F1", "F2"}
  BY <1>2, ElementOfSeq DEF Has
<1> QED
  BY <1>2, <1>3, SeqMonotonic

(* What C says of what it accepts.                                         *)
LEMMA ToldByC ==
  ASSUME NEW k \in ItemC, NEW known
  PROVE  /\ Events(C, k, known) \in Seq(EventC)
         /\ Kind(k) = "NM" => \E x \in EventC : Events(C, k, known) = <<x>> /\ Kind(x) = "NC" /\ Made(x) = 0
         /\ Kind(k) \in {"F1", "F2"} =>
              \E x \in EventC : Events(C, k, known) = <<x>> /\ Kind(x) = Kind(k) /\ Made(x) = 0
         /\ Kind(k) \in {"P1", "A2"} =>
              \E x \in EventC : Events(C, k, known) = <<x>> /\ Kind(x) = Kind(k) /\ Made(x) = Made(k)
         /\ Kind(k) \notin OwnC \union {"NM"} => Events(C, k, known) = <<>>
<1>1. Kind(k) \notin OwnC \union {"NM"} => Events(C, k, known) = <<>>
  BY FollowsAtC
<1>2. Kind(k) = "NM" => \E x \in EventC : Events(C, k, known) = <<x>> /\ Kind(x) = "NC" /\ Made(x) = 0
  BY FollowsAtC, Sending DEF IsPut
<1>3. ASSUME Kind(k) \in {"F1", "F2"}
      PROVE  \E x \in EventC : Events(C, k, known) = <<x>> /\ Kind(x) = Kind(k) /\ Made(x) = 0
  <2>1. k.ev = "FORGET" /\ (Kind(k) = "F1" => k.rid = E1) /\ (Kind(k) = "F2" => k.rid = E2)
    BY <1>3, ItemsOfC
  <2>2. Normalized(C, k) = "FORGET"
    BY <2>1 DEF Normalized
  <2>3. Events(C, k, known) = <<Event(k.rid, "FORGET", None)>>
    BY <1>3, <2>1, <2>2, FollowsAtC DEF OwnC
  <2>4. CASE Kind(k) = "F1"
    BY <2>1, <2>3, <2>4, Sending DEF IsPut
  <2>5. CASE Kind(k) = "F2"
    BY <2>1, <2>3, <2>5, Sending DEF IsPut
  <2> QED
    BY <1>3, <2>4, <2>5
<1>4. ASSUME Kind(k) \in {"P1", "A2"}
      PROVE  \E x \in EventC : Events(C, k, known) = <<x>> /\ Kind(x) = Kind(k) /\ Made(x) = Made(k)
  <2>1. /\ k.ev # "FORGET" /\ k.man \in Bundle /\ Made(k) = k.man.ts
        /\ Kind(k) = "P1" => k.rid = E1 /\ k.man.st = "PROPOSED"
        /\ Kind(k) = "A2" => k.rid = E2 /\ k.man.st = "APPROVED"
    BY <1>4, ItemsOfC, States DEF Read
  <2>2. Normalized(C, k) \in {"NEW", "UPDATE"}
    BY <2>1 DEF Normalized
  <2>3. Events(C, k, known) = <<Event(k.rid, Normalized(C, k), k.man)>>
    BY <1>4, <2>1, FollowsAtC DEF OwnC
  <2>4. CASE Kind(k) = "P1"
    BY <2>1, <2>2, <2>3, <2>4, Sending, Rids DEF IsPut, EdgeState
  <2>5. CASE Kind(k) = "A2"
    BY <2>1, <2>2, <2>3, <2>5, Sending, Rids DEF IsPut, EdgeState
  <2> QED
    BY <1>4, <2>4, <2>5
<1>5. Events(C, k, known) \in Seq(EventC)
  <2>1. CASE Kind(k) \in OwnC \union {"NM"}
    <3>1. PICK x \in EventC : Events(C, k, known) = <<x>>
      BY <1>2, <1>3, <1>4, <2>1 DEF OwnC
    <3> QED
      BY <3>1
  <2>2. CASE Kind(k) \notin OwnC \union {"NM"}
    BY <1>1, <2>2
  <2> QED
    BY <2>1, <2>2
<1> QED
  BY <1>1, <1>2, <1>3, <1>4, <1>5

(* What C does with what it has accepted, by its kind.                     *)
LEMMA TakenByC ==
  ASSUME StartInv, WordInv, kq[C] # <<>>, UNCHANGED buf, Accepts(C, Head(kq[C])),
         ~Bare(Head(kq[C])), Commit(C, Head(kq[C]))
  PROVE  \E k, r, s, e :
           /\ TakesC(k, r, s, e) /\ Accepts(C, k)
           /\ Kind(k) \notin {"CP1", "CA1", "CP2", "CA2"}
           /\ e = Events(C, k, CacheAfter(C, k))
           /\ Kind(k) \notin {"FM", "NM", "P2"} => s = r /\ now' = now
           /\ Kind(k) = "FM" => Extended(r, s, {"F1", "F2"}) /\ now' = now
           /\ Kind(k) = "NM" => /\ now' = now + 1
                                /\ \E u : Added(r, "F1", 0, u) /\ Added(u, "P1", now', s)
           /\ Kind(k) = "P2" => now' = now + 1 /\ Added(r, "A2", now', s)
<1>1. kq[C] \in Seq(ItemC) /\ kq[C] # <<>>
  BY DEF WordInv
<1>2. PICK k \in ItemC, r \in Seq(ItemC) : k = Head(kq[C]) /\ r = Tail(kq[C]) /\ kq[C] = <<k>> \o r
  BY <1>1, Unpop
<1>3. PICK c : c = CacheAfter(C, k)
  OBVIOUS
<1>4. PICK p : p = Approval(C, k) \o Contact(C, k.rid, c) \o Greeting(C, k)
  OBVIOUS
<1>5. /\ cache' = [cache EXCEPT ![C] = c]
      /\ evq' = [evq EXCEPT ![C] = @ \o Events(C, k, c)]
      /\ now' = IF p = <<>> THEN now ELSE now + 1
      /\ UNCHANGED <<up, buf>>
  BY <1>2, <1>3, <1>4 DEF Commit
<1>6. PICK q \in Orphans(C, k, c) : kq' = [kq EXCEPT ![C] = (r \o p) \o q]
  BY <1>2, <1>3, <1>4 DEF Commit
<1>7. q \in Seq(ItemC) /\ \A x : Has(q, x) => x \in {"F1", "F2"}
  BY <1>6, OrphansOfC
<1>8. DOMAIN kq = Node /\ DOMAIN evq = Node /\ DOMAIN buf = Node /\ now \in Nat /\ now + 1 \in Nat
      /\ cache \in [Node -> [RID -> Man]]
  BY DEF StartInv, TypeInv, Held
<1>9. Kind(k) \notin {"CP1", "CA1", "CP2", "CA2"}
  BY <1>2, BareOfC
<1>10. \A x \in RID : cache'[C][x] = IF x = k.rid THEN IF k.ev = "FORGET" THEN None ELSE k.man
                                    ELSE cache[C][x]
  BY <1>3, <1>5, <1>8, Rids DEF CacheAfter
<1>11. PICK s : s = (r \o p) \o q
  OBVIOUS
<1>12. PICK e : e = Events(C, k, c)
  OBVIOUS
<1>13. e \in Seq(EventC)
  BY <1>12, ToldByC
<1>14. /\ kq'[C] = s /\ kq'[M] = kq[M] /\ evq'[C] = evq[C] \o e /\ evq'[M] = evq[M]
       /\ cache'[M] = cache[M]
  BY <1>5, <1>6, <1>8, <1>11, <1>12, Rids
<1>15. /\ s \in Seq(ItemC)
       /\ Kind(k) \notin {"FM", "NM", "P2"} => s = r /\ now' = now
       /\ Kind(k) = "FM" => Extended(r, s, {"F1", "F2"}) /\ now' = now
       /\ Kind(k) = "NM" => /\ now' = now + 1
                            /\ \E u : Added(r, "F1", 0, u) /\ Added(u, "P1", now', s)
       /\ Kind(k) = "P2" => now' = now + 1 /\ Added(r, "A2", now', s)
  <2>1. CASE Kind(k) \notin {"NM", "P2"}
    <3>1. p = <<>> /\ r \o p = r
      BY <1>4, <2>1, FollowsAtC
    <3>2. now' = now /\ s = r \o q
      BY <1>5, <1>11, <3>1
    <3>3. CASE Kind(k) = "FM"
      BY <1>7, <3>2, <3>3, ExtendView, ConcatProperties
    <3>4. CASE Kind(k) # "FM"
      <4>1. q = <<>>
        BY <1>6, <3>4, FollowsAtC
      <4> QED
        BY <2>1, <3>2, <3>4, <4>1
    <3> QED
      BY <2>1, <3>3, <3>4
  <2>2. CASE Kind(k) = "NM"
    <3>1. PICK f : f = Item(E1, "FORGET", None, None)
      OBVIOUS
    <3>2. PICK b : b = Item(E1, None, EdgeBundle("PROPOSED", now + 1), None)
      OBVIOUS
    <3>3. f \in ItemC /\ Kind(f) = "F1" /\ Made(f) = 0 /\ b \in ItemC /\ Kind(b) = "P1" /\ Made(b) = now + 1
      BY <1>8, <3>1, <3>2, PushedByC DEF IsPut
    <3>4. Approval(C, k) = <<>> /\ Contact(C, k.rid, c) = <<>> /\ Greeting(C, k) = <<f, b>>
      BY <2>2, <3>1, <3>2, FollowsAtC
    <3>5. p = <<f, b>> /\ p # <<>> /\ q = <<>>
      BY <1>4, <1>6, <2>2, <3>4, FollowsAtC
    <3>6. s = (r \o <<f>>) \o <<b>> /\ r \o <<f>> \in Seq(ItemC) /\ s \in Seq(ItemC)
      BY <1>11, <3>3, <3>5
    <3>7. Added(r, "F1", 0, r \o <<f>>)
      BY <3>3, AddView
    <3>8. Added(r \o <<f>>, "P1", now + 1, s)
      BY <3>3, <3>6, AddView
    <3> QED
      BY <1>5, <2>2, <3>5, <3>6, <3>7, <3>8
  <2>3. CASE Kind(k) = "P2"
    <3>1. PICK b : b = Item(E2, "UPDATE", EdgeBundle("APPROVED", now + 1), None)
      OBVIOUS
    <3>2. b \in ItemC /\ Kind(b) = "A2" /\ Made(b) = now + 1
      BY <1>8, <3>1, PushedByC DEF IsPut
    <3>3. Approval(C, k) = <<b>> /\ Contact(C, k.rid, c) = <<>> /\ Greeting(C, k) = <<>>
      BY <2>3, <3>1, FollowsAtC
    <3>4. p = <<b>> /\ p # <<>> /\ q = <<>>
      BY <1>4, <1>6, <2>3, <3>3, FollowsAtC
    <3>5. s = r \o <<b>> /\ s \in Seq(ItemC)
      BY <1>11, <3>2, <3>4
    <3>6. Added(r, "A2", now + 1, s)
      BY <3>2, <3>5, AddView
    <3> QED
      BY <1>5, <2>3, <3>4, <3>5, <3>6
  <2> QED
    BY <2>1, <2>2, <2>3
<1>16. TakesC(k, r, s, e)
  BY <1>2, <1>5, <1>10, <1>13, <1>14, <1>15 DEF TakesC
<1>17. Accepts(C, k)
  BY <1>2
<1> QED
  BY <1>3, <1>9, <1>12, <1>15, <1>16, <1>17

(* The moves of the view that knowledge of C makes.                        *)
MovesC(v, w) ==
  \/ RefusesC(v, w) \/ ForgetsM(v, w) \/ LearnsM(v, w) \/ Forgets1C(v, w) \/ Forgets2C(v, w)
  \/ Proposes1C(v, w) \/ Approves2C(v, w) \/ Learns2C(v, w) \/ Learns1C(v, w)
  \/ Copies1C(v, w) \/ Copies2C(v, w)

(* Knowledge refused, and the step.                                        *)
LEMMA RefusedByC ==
  ASSUME StartInv, WordInv, kq[C] # <<>>, UNCHANGED buf, Drop(C),
         ~Accepts(C, Head(kq[C])) \/ Bare(Head(kq[C]))
  PROVE  WordInv' /\ RefusesC(View, View')
<1>1. kq[C] \in Seq(ItemC) /\ kq[C] # <<>>
  BY DEF WordInv
<1>2. PICK k \in ItemC, r \in Seq(ItemC) : k = Head(kq[C]) /\ r = Tail(kq[C])
  BY <1>1, Unpop
<1>3. /\ kq' = [kq EXCEPT ![C] = r] /\ cache' = cache /\ evq' = evq /\ now' = now
      /\ buf' = buf /\ up' = up
  BY <1>2 DEF Drop
<1>4. kq'[C] = r /\ kq'[M] = kq[M]
  BY <1>3, Rids DEF StartInv, TypeInv
<1>5. WordInv'
  BY <1>2, <1>3, <1>4 DEF WordInv
<1>6. PICK v : v = View
  OBVIOUS
<1>7. PICK w : w = View'
  OBVIOUS
<1>8. SameC(v, w) /\ SameM(v, w) /\ SameMail(v, w) /\ SameTime(v, w)
  BY <1>3, <1>4, <1>6, <1>7, ViewFields, ViewFieldsNext DEF SameC, SameM, SameMail, SameTime
<1>9. v.kc = kq[C] /\ w.kc = r
  BY <1>4, <1>6, <1>7, ViewFields, ViewFieldsNext
<1>10. Popped(v.kc, Kind(k), Made(k), w.kc)
  BY <1>1, <1>2, <1>9, PopView
<1>11. StaleAtC(v, Kind(k), Made(k))
  BY <1>2, <1>6, AcceptedByC, BareOfC, ViewFields DEF StaleAtC, StartInv, Cached
<1>12. Kind(k) \in KindsC /\ Made(k) \in Nat
  BY ItemsOfC
<1> QED
  BY <1>5, <1>6, <1>7, <1>8, <1>10, <1>11, <1>12 DEF RefusesC

(* What C has caught up with is replaced by what M has then.               *)
LEMMA CopiedByC ==
  ASSUME StartInv, WordInv, NEW k \in ItemC, k = Head(kq[C]), kq[C] # <<>>, UNCHANGED buf,
         Bare(k), Cached(M, k.rid), NEW b \in ItemOf(C), b.rid = k.rid, b.ev = k.ev, b.src = k.src,
         b.man = cache[M][k.rid], Commit(C, b), lapsed' = {}
  PROVE  WordInv' /\ (Copies1C(View, View') \/ Copies2C(View, View'))
<1>1. PICK x \in Man : x = cache[M][k.rid]
  BY ItemFields, Rids DEF StartInv, TypeInv, Held, ItemC
<1>2. k \in [rid : RID, ev : {"NEW", "UPDATE", "FORGET", None}, man : Man, src : Node \union {None}]
  BY DEF ItemC, ItemOf
<1>3. Kind(k) \in {"CP1", "CA1", "CP2", "CA2"} /\ k.ev = None /\ k.src = M /\ k.rid \in {E1, E2}
  BY BareOfC, ItemsOfC DEF Read
<1>4. b.rid = k.rid /\ b.ev = None /\ b.src = M /\ b.man = x /\ b.man # None
  BY <1>1, <1>2, <1>3 DEF Cached
<1>5. x.st \in EdgeState
  BY <1>1, <1>3, <1>4, Rids DEF WordInv
<1>6. /\ k.rid = E1 => Kind(b) \in {"CP1", "CA1"}
      /\ k.rid = E2 /\ x.st = "PROPOSED" => Kind(b) = "CP2"
      /\ k.rid = E2 /\ x.st = "APPROVED" => Kind(b) = "CA2"
  BY <1>4, <1>5, EdgeKind, Rids DEF EdgeState
<1>7. b \in ItemC
  BY <1>3, <1>4, <1>5, <1>6, Rids DEF ItemC, Form, KindsC, OwnC, EdgeState
<1>8. PICK c : c = CacheAfter(C, b)
  OBVIOUS
<1>9. /\ Approval(C, b) \o Contact(C, b.rid, c) \o Greeting(C, b) = <<>>
      /\ Orphans(C, b, c) = {<<>>} /\ Events(C, b, c) = <<>>
      /\ Kind(b) = "CP2" => Unnegotiated(C, b)
  <2>1. Kind(b) \in {"CP1", "CA1", "CP2", "CA2"}
    BY <1>3, <1>5, <1>6 DEF EdgeState
  <2>2. /\ Approval(C, b) = <<>> /\ Contact(C, b.rid, c) = <<>> /\ Greeting(C, b) = <<>>
        /\ Orphans(C, b, c) = {<<>>} /\ Events(C, b, c) = <<>>
        /\ Kind(b) = "CP2" => Unnegotiated(C, b)
    BY <1>7, <2>1, FollowsAtC DEF OwnC
  <2>3. <<>> \o <<>> \o <<>> = <<>>
    OBVIOUS
  <2> QED
    BY <2>2, <2>3
<1>10. PICK r \in Seq(ItemC) : r = Tail(kq[C])
  <2>1. kq[C] \in Seq(ItemC) /\ kq[C] # <<>>
    BY DEF WordInv
  <2> QED
    BY <2>1, HeadTailProperties
<1>11. /\ cache' = [cache EXCEPT ![C] = c] /\ now' = now /\ UNCHANGED <<up, buf>>
       /\ kq' = [kq EXCEPT ![C] = (r \o <<>>) \o <<>>]
       /\ evq' = [evq EXCEPT ![C] = evq[C] \o <<>>]
       /\ ~Unnegotiated(C, b)
  <2>1. PICK p : p = Approval(C, b) \o Contact(C, b.rid, c) \o Greeting(C, b)
    OBVIOUS
  <2>2. /\ cache' = [cache EXCEPT ![C] = c] /\ now' = IF p = <<>> THEN now ELSE now + 1
        /\ evq' = [evq EXCEPT ![C] = @ \o Events(C, b, c)]
        /\ lapsed' = Note(Unnegotiated(C, b), "skipped") /\ UNCHANGED up
    BY <1>8, <2>1 DEF Commit
  <2>3. PICK q \in Orphans(C, b, c) : kq' = [kq EXCEPT ![C] = (r \o p) \o q]
    BY <1>8, <1>10, <2>1 DEF Commit
  <2>4. p = <<>> /\ q = <<>> /\ Events(C, b, c) = <<>>
    BY <1>9, <2>1, <2>3
  <2>5. ~Unnegotiated(C, b)
    BY <2>2 DEF Note
  <2> QED
    BY <2>2, <2>3, <2>4, <2>5
<1>12. /\ DOMAIN kq = Node /\ DOMAIN evq = Node /\ cache \in [Node -> [RID -> Man]]
       /\ evq[C] \in Seq(EventC)
  BY DEF StartInv, TypeInv, Held, WordInv
<1>13. kq'[C] = r /\ kq'[M] = kq[M] /\ evq'[C] = evq[C] /\ evq'[M] = evq[M]
  <2>1. (r \o <<>>) \o <<>> = r /\ evq[C] \o <<>> = evq[C]
    BY <1>10, <1>12, ConcatEmptySeq
  <2> QED
    BY <1>11, <1>12, <2>1, Rids
<1>14. /\ cache'[M] = cache[M]
       /\ \A y \in RID : cache'[C][y] = IF y = k.rid THEN x ELSE cache[C][y]
  BY <1>4, <1>8, <1>11, <1>12, Rids, States DEF CacheAfter
<1>15. \A n \in Node, e \in Edge : cache'[n][e] # None => cache'[n][e].st \in EdgeState
  <2> TAKE n \in Node, e \in Edge
  <2>1. e \in RID /\ n \in {C, M}
    BY Rids
  <2>2. cache[n][e] # None => cache[n][e].st \in EdgeState
    BY DEF WordInv
  <2> QED
    BY <1>5, <1>14, <2>1, <2>2
<1>16. WordInv'
  BY <1>10, <1>11, <1>13, <1>15, Rids DEF WordInv
<1>17. PICK v : v = View
  OBVIOUS
<1>18. PICK w : w = View'
  OBVIOUS
<1>19. /\ SameM(v, w) /\ SameMail(v, w) /\ SameTime(v, w) /\ w.cm = v.cm
       /\ k.rid = E1 => w.c1 = x /\ w.c2 = v.c2 /\ x = v.m1
       /\ k.rid = E2 => w.c2 = x /\ w.c1 = v.c1 /\ x = v.m2
  BY <1>1, <1>3, <1>11, <1>13, <1>14, <1>17, <1>18, ViewFields, ViewFieldsNext, Rids
  DEF SameM, SameMail, SameTime
<1>20. v.kc = kq[C] /\ w.kc = r
  BY <1>13, <1>17, <1>18, ViewFields, ViewFieldsNext
<1>21. Popped(v.kc, Kind(k), Made(k), w.kc) /\ Made(k) \in Nat
  BY <1>10, <1>20, PopView, ItemsOfC DEF WordInv
<1>22. CASE k.rid = E1
  <2>1. Kind(k) \in {"CP1", "CA1"}
    BY <1>3, <1>22, EdgeKind
  <2>2. Copies1C(v, w)
    BY <1>4, <1>19, <1>21, <1>22, <2>1 DEF Copies1C
  <2> QED
    BY <1>16, <1>17, <1>18, <2>2
<1>23. CASE k.rid = E2
  <2>1. Kind(k) \in {"CP2", "CA2"}
    BY <1>3, <1>23, EdgeKind
  <2>2. Is(v.m2, "APPROVED")
    BY <1>4, <1>5, <1>6, <1>9, <1>11, <1>19, <1>23 DEF EdgeState, Is
  <2>3. Copies2C(v, w)
    BY <1>19, <1>21, <1>23, <2>1, <2>2 DEF Copies2C
  <2> QED
    BY <1>16, <1>17, <1>18, <2>3
<1> QED
  BY <1>3, <1>22, <1>23

LEMMA StepOfC ==
  ASSUME StartInv, WordInv, Process(C), lapsed' = {}
  PROVE  WordInv' /\ MovesC(View, View')
<1>0. /\ TypeInv /\ kq[C] # <<>> /\ UNCHANGED buf /\ Head(kq[C]) \in ItemC
      /\ \/ Drop(C) /\ (~Accepts(C, Head(kq[C])) \/ Bare(Head(kq[C])))
         \/ Dies(C)
         \/ \E b \in ItemOf(C) : /\ Accepts(C, Head(kq[C])) /\ Version(b, Head(kq[C]))
                                 /\ Commit(C, b)
  BY Processed, HeadTailProperties, Rids DEF StartInv, WordInv
<1>1. CASE Drop(C) /\ (~Accepts(C, Head(kq[C])) \/ Bare(Head(kq[C])))
  BY <1>0, <1>1, RefusedByC DEF MovesC
<1>3. CASE Dies(C)
  BY <1>3 DEF Dies, Note
<1>4. CASE Bare(Head(kq[C])) /\ \E b \in ItemOf(C) : Version(b, Head(kq[C])) /\ Commit(C, b)
  <2>1. PICK b \in ItemOf(C) : Version(b, Head(kq[C])) /\ Commit(C, b)
    BY <1>4
  <2>2. PICK k \in ItemC : k = Head(kq[C])
    BY <1>0
  <2>3. k \in ItemOf(C) /\ Bare(k)
    BY <1>4, <2>2 DEF ItemC
  <2>4. b = [k EXCEPT !.man = cache[M][k.rid]] /\ Cached(M, k.rid)
    BY <2>1, <2>2, <2>3 DEF Version
  <2>5. b.rid = k.rid /\ b.ev = k.ev /\ b.src = k.src /\ b.man = cache[M][k.rid]
    BY <2>3, <2>4 DEF ItemOf
  <2>6. Cached(M, k.rid)
    BY <2>4
  <2> QED
    BY <1>0, <2>1, <2>2, <2>3, <2>5, <2>6, CopiedByC DEF MovesC
<1>2. CASE ~Bare(Head(kq[C])) /\ Accepts(C, Head(kq[C])) /\ Commit(C, Head(kq[C]))
  <2>1. PICK k, r, s, e :
           /\ TakesC(k, r, s, e) /\ Accepts(C, k)
           /\ Kind(k) \notin {"CP1", "CA1", "CP2", "CA2"}
           /\ e = Events(C, k, CacheAfter(C, k))
           /\ Kind(k) \notin {"FM", "NM", "P2"} => s = r /\ now' = now
           /\ Kind(k) = "FM" => Extended(r, s, {"F1", "F2"}) /\ now' = now
           /\ Kind(k) = "NM" => /\ now' = now + 1
                                /\ \E u : Added(r, "F1", 0, u) /\ Added(u, "P1", now', s)
           /\ Kind(k) = "P2" => now' = now + 1 /\ Added(r, "A2", now', s)
    BY <1>0, <1>2, TakenByC
  <2>2. WordInv'
    BY <2>1, WordsAfterC
  <2>3. PICK v : v = View
    OBVIOUS
  <2>4. PICK w : w = View'
    OBVIOUS
  <2>5. /\ k \in ItemC /\ r \in Seq(ItemC) /\ s \in Seq(ItemC) /\ e \in Seq(EventC)
        /\ kq[C] = <<k>> \o r /\ kq'[C] = s /\ kq'[M] = kq[M]
        /\ evq'[C] = evq[C] \o e /\ evq'[M] = evq[M] /\ buf' = buf /\ up' = up
        /\ cache'[M] = cache[M]
        /\ \A x \in RID : cache'[C][x] = IF x = k.rid THEN IF k.ev = "FORGET" THEN None ELSE k.man
                                         ELSE cache[C][x]
    BY <2>1 DEF TakesC
  <2>6. SameM(v, w) /\ w.wc = v.wc /\ w.on = v.on /\ v.now = now /\ w.now = now'
    BY <2>3, <2>4, <2>5, ViewFields, ViewFieldsNext DEF SameM
  <2>7. v.kc = <<k>> \o r /\ w.kc = s /\ v.d = Down(kq[M], buf[C], evq[C])
        /\ w.d = Down(kq[M], buf[C], evq[C] \o e)
    BY <2>3, <2>4, <2>5, ViewFields, ViewFieldsNext
  <2>8. Popped(v.kc, Kind(k), Made(k), r)
    BY <2>5, <2>7, PopOf
  <2>9. /\ v.c1 = cache[C][E1] /\ v.c2 = cache[C][E2] /\ v.cm = (cache[C][M] # None)
        /\ w.c1 = IF E1 = k.rid THEN IF k.ev = "FORGET" THEN None ELSE k.man ELSE v.c1
        /\ w.c2 = IF E2 = k.rid THEN IF k.ev = "FORGET" THEN None ELSE k.man ELSE v.c2
        /\ w.cm = IF M = k.rid THEN ~(k.ev = "FORGET" \/ k.man = None) ELSE v.cm
    BY <2>3, <2>4, <2>5, ViewFields, ViewFieldsNext, Rids
  <2>10. ASSUME e = <<>> PROVE w.d = v.d
    BY <2>5, <2>7, <2>10 DEF WordInv
  <2>11. ASSUME NEW x \in EventC, e = <<x>> PROVE Added(v.d, Kind(x), Made(x), w.d)
    BY <2>7, <2>11, DownAdd DEF WordInv
  <2>12. Made(k) \in Nat /\ Kind(k) \in KindsC
    BY <2>5, ItemsOfC
  <2>13. TypeInv
    BY DEF StartInv
  <2>14. CASE Kind(k) = "FM"
    <3>1. v.cm /\ ~w.cm /\ w.c1 = v.c1 /\ w.c2 = v.c2
      BY <2>1, <2>5, <2>9, <2>13, <2>14, AcceptedByC, ItemsOfC, Rids DEF Cached
    <3>2. SameMail(v, w)
      BY <2>1, <2>5, <2>6, <2>10, <2>14, ToldByC DEF SameMail, OwnC
    <3> QED
      BY <2>1, <2>2, <2>3, <2>4, <2>6, <2>7, <2>8, <2>12, <2>14, <3>1, <3>2
      DEF MovesC, ForgetsM, SameTime
  <2>15. CASE Kind(k) = "NM"
    <3>3. ~v.cm
      BY <2>1, <2>5, <2>9, <2>13, <2>15, AcceptedByC DEF Cached
    <3>4. k.rid = M /\ k.ev # "FORGET" /\ k.man # None
      BY <2>5, <2>15, ItemsOfC, States DEF Read
    <3>1. ~v.cm /\ w.cm /\ w.c1 = v.c1 /\ w.c2 = v.c2
      BY <2>9, <3>3, <3>4, Rids
    <3>2. Added(v.d, "NC", 0, w.d)
      BY <2>1, <2>5, <2>11, <2>15, ToldByC
    <3> QED
      BY <2>1, <2>2, <2>3, <2>4, <2>6, <2>7, <2>8, <2>12, <2>15, <3>1, <3>2
      DEF MovesC, LearnsM
  <2>16. CASE Kind(k) = "F1"
    <3>1. v.c1 # None /\ w.c1 = None /\ w.c2 = v.c2 /\ w.cm = v.cm
      BY <2>1, <2>5, <2>9, <2>13, <2>16, AcceptedByC, ItemsOfC, Rids DEF Cached
    <3>2. Added(v.d, "F1", 0, w.d)
      BY <2>1, <2>5, <2>11, <2>16, ToldByC
    <3> QED
      BY <2>1, <2>2, <2>3, <2>4, <2>6, <2>7, <2>8, <2>12, <2>16, <3>1, <3>2
      DEF MovesC, Forgets1C, SameTime
  <2>17. CASE Kind(k) = "F2"
    <3>1. v.c2 # None /\ w.c2 = None /\ w.c1 = v.c1 /\ w.cm = v.cm
      BY <2>1, <2>5, <2>9, <2>13, <2>17, AcceptedByC, ItemsOfC, Rids DEF Cached
    <3>2. Added(v.d, "F2", 0, w.d)
      BY <2>1, <2>5, <2>11, <2>17, ToldByC
    <3> QED
      BY <2>1, <2>2, <2>3, <2>4, <2>6, <2>7, <2>8, <2>12, <2>17, <3>1, <3>2
      DEF MovesC, Forgets2C, SameTime
  <2>18. CASE Kind(k) = "P1"
    <3>3. Newer(v.c1, "PROPOSED", Made(k))
      BY <2>1, <2>5, <2>9, <2>13, <2>18, AcceptedByC
    <3>4. /\ k.rid = E1 /\ k.ev # "FORGET" /\ k.man # None
          /\ k.man.st = "PROPOSED" /\ k.man.ts = Made(k)
      BY <2>5, <2>18, ItemsOfC, States DEF Read
    <3>1. /\ Is(w.c1, "PROPOSED") /\ w.c1.ts = Made(k) /\ Newer(v.c1, "PROPOSED", Made(k))
          /\ w.c2 = v.c2 /\ w.cm = v.cm
      BY <2>9, <3>3, <3>4, Rids DEF Is
    <3>2. Added(v.d, "P1", Made(k), w.d)
      BY <2>1, <2>5, <2>11, <2>18, ToldByC
    <3> QED
      BY <2>1, <2>2, <2>3, <2>4, <2>6, <2>7, <2>8, <2>12, <2>18, <3>1, <3>2
      DEF MovesC, Proposes1C, SameTime
  <2>19. CASE Kind(k) = "A2"
    <3>3. Newer(v.c2, "APPROVED", Made(k))
      BY <2>1, <2>5, <2>9, <2>13, <2>19, AcceptedByC
    <3>4. /\ k.rid = E2 /\ k.ev # "FORGET" /\ k.man # None
          /\ k.man.st = "APPROVED" /\ k.man.ts = Made(k)
      BY <2>5, <2>19, ItemsOfC, States DEF Read
    <3>1. /\ Is(w.c2, "APPROVED") /\ w.c2.ts = Made(k) /\ Newer(v.c2, "APPROVED", Made(k))
          /\ w.c1 = v.c1 /\ w.cm = v.cm
      BY <2>9, <3>3, <3>4, Rids DEF Is
    <3>2. Added(v.d, "A2", Made(k), w.d)
      BY <2>1, <2>5, <2>11, <2>19, ToldByC
    <3> QED
      BY <2>1, <2>2, <2>3, <2>4, <2>6, <2>7, <2>8, <2>12, <2>19, <3>1, <3>2
      DEF MovesC, Approves2C, SameTime
  <2>20. CASE Kind(k) = "P2"
    <3>0. Newer(v.c2, "PROPOSED", Made(k)) /\ v.cm
      BY <2>1, <2>5, <2>9, <2>13, <2>20, AcceptedByC DEF Cached
    <3>4. /\ k.rid = E2 /\ k.ev # "FORGET" /\ k.man # None
          /\ k.man.st = "PROPOSED" /\ k.man.ts = Made(k)
      BY <2>5, <2>20, ItemsOfC, States DEF Read
    <3>1. /\ Is(w.c2, "PROPOSED") /\ w.c2.ts = Made(k)
          /\ w.c1 = v.c1 /\ w.cm = v.cm
      BY <2>9, <3>4, Rids DEF Is
    <3>2. SameMail(v, w)
      BY <2>1, <2>5, <2>6, <2>10, <2>20, ToldByC DEF SameMail, OwnC
    <3> QED
      BY <2>1, <2>2, <2>3, <2>4, <2>6, <2>7, <2>8, <2>12, <2>20, <3>0, <3>1, <3>2
      DEF MovesC, Learns2C
  <2>21. CASE Kind(k) = "A1"
    <3>3. Newer(v.c1, "APPROVED", Made(k))
      BY <2>1, <2>5, <2>9, <2>13, <2>21, AcceptedByC
    <3>4. /\ k.rid = E1 /\ k.ev # "FORGET" /\ k.man # None
          /\ k.man.st = "APPROVED" /\ k.man.ts = Made(k)
      BY <2>5, <2>21, ItemsOfC, States DEF Read
    <3>1. /\ Is(w.c1, "APPROVED") /\ w.c1.ts = Made(k) /\ Newer(v.c1, "APPROVED", Made(k))
          /\ w.c2 = v.c2 /\ w.cm = v.cm
      BY <2>9, <3>3, <3>4, Rids DEF Is
    <3>2. SameMail(v, w)
      BY <2>1, <2>5, <2>6, <2>10, <2>21, ToldByC DEF SameMail, OwnC
    <3> QED
      BY <2>1, <2>2, <2>3, <2>4, <2>6, <2>7, <2>8, <2>12, <2>21, <3>1, <3>2
      DEF MovesC, Learns1C, SameTime
  <2> QED
    BY <2>1, <2>12, <2>14, <2>15, <2>16, <2>17, <2>18, <2>19, <2>20, <2>21 DEF KindsC
<1> QED
  BY <1>0, <1>1, <1>2, <1>3, <1>4 DEF Version

-----------------------------------------------------------------------------
(* M processes knowledge.                                                  *)

(* M takes k from its queue, accepts it, has s left to do and says e.      *)
TakesM(k, r, s, e) ==
  /\ k \in ItemM /\ r \in Seq(ItemM) /\ s \in Seq(ItemM) /\ e \in Seq(EventM)
  /\ kq[M] = <<k>> \o r /\ kq'[M] = s /\ kq'[C] = kq[C]
  /\ evq'[M] = evq[M] \o e /\ evq'[C] = evq[C] /\ buf' = buf /\ up' = up /\ up[M] # "down"
  /\ cache'[C] = cache[C]
  /\ \A x \in RID : cache'[M][x] = IF x = k.rid THEN IF k.ev = "FORGET" THEN None ELSE k.man
                                  ELSE cache[M][x]

LEMMA WordsAfterM ==
  ASSUME WordInv, NEW k, NEW r, NEW s, NEW e, TakesM(k, r, s, e)
  PROVE  WordInv'
<1>1. kq'[C] \in Seq(ItemC) /\ kq'[M] \in Seq(ItemM)
  BY DEF WordInv, TakesM
<1>2. evq'[C] \in Seq(EventC) /\ evq'[M] \in Seq(EventM)
  BY ConcatProperties DEF WordInv, TakesM
<1>3. buf'[C] \in Seq(EventC) /\ buf'[M] \in Seq(EventM)
  BY DEF WordInv, TakesM
<1>4. ASSUME NEW n \in Node, NEW x \in Edge, cache'[n][x] # None PROVE cache'[n][x].st \in EdgeState
  <2>1. CASE n = C
    BY <1>4, <2>1 DEF WordInv, TakesM
  <2>2. CASE n = M
    <3>1. Form(k) /\ x \in RID
      BY EdgeIsNoNode DEF TakesM, ItemM
    <3>2. CASE x # k.rid
      BY <1>4, <2>2, <3>1, <3>2 DEF WordInv, TakesM
    <3>3. CASE x = k.rid
      BY <1>4, <2>2, <3>1, <3>3 DEF TakesM, Form
    <3> QED
      BY <3>2, <3>3
  <2> QED
    BY <2>1, <2>2, Rids
<1>5. up'[M] # "down"
  BY DEF TakesM
<1> QED
  BY <1>1, <1>2, <1>3, <1>4, <1>5 DEF WordInv

(* What M says of what it accepts.                                         *)
LEMMA ToldByM ==
  ASSUME NEW k \in ItemM, NEW known
  PROVE  /\ Events(M, k, known) \in Seq(EventM)
         /\ Kind(k) \in OwnM =>
              \E x \in EventM : Events(M, k, known) = <<x>> /\ Kind(x) = Kind(k) /\ Made(x) = Made(k)
         /\ Kind(k) \notin OwnM => Events(M, k, known) = <<>>
<1>1. Kind(k) \notin OwnM => Events(M, k, known) = <<>>
  BY FollowsAtM
<1>4. ASSUME Kind(k) \in OwnM
      PROVE  \E x \in EventM : Events(M, k, known) = <<x>> /\ Kind(x) = Kind(k) /\ Made(x) = Made(k)
  <2>1. /\ k.ev # "FORGET" /\ k.man \in Bundle /\ Made(k) = k.man.ts
        /\ Kind(k) = "A1" => k.rid = E1 /\ k.man.st = "APPROVED"
        /\ Kind(k) = "P2" => k.rid = E2 /\ k.man.st = "PROPOSED"
    BY <1>4, ItemsOfM, States DEF Read, OwnM
  <2>2. Normalized(M, k) \in {"NEW", "UPDATE"}
    BY <2>1 DEF Normalized
  <2>3. Events(M, k, known) = <<Event(k.rid, Normalized(M, k), k.man)>>
    BY <1>4, <2>1, FollowsAtM
  <2>4. CASE Kind(k) = "A1"
    BY <2>1, <2>2, <2>3, <2>4, Sending, Rids DEF IsPut, EdgeState
  <2>5. CASE Kind(k) = "P2"
    BY <2>1, <2>2, <2>3, <2>5, Sending, Rids DEF IsPut, EdgeState
  <2> QED
    BY <1>4, <2>4, <2>5 DEF OwnM
<1>5. Events(M, k, known) \in Seq(EventM)
  <2>1. CASE Kind(k) \in OwnM
    <3>1. PICK x \in EventM : Events(M, k, known) = <<x>>
      BY <1>4, <2>1
    <3> QED
      BY <3>1
  <2>2. CASE Kind(k) \notin OwnM
    BY <1>1, <2>2
  <2> QED
    BY <2>1, <2>2
<1> QED
  BY <1>1, <1>4, <1>5

(* What M does with what it has accepted, by its kind.                     *)
LEMMA TakenByM ==
  ASSUME StartInv, WordInv, kq[M] # <<>>, up[M] # "down", UNCHANGED buf,
         Accepts(M, Head(kq[M])), Commit(M, Head(kq[M]))
  PROVE  \E k, r, s, e :
           /\ TakesM(k, r, s, e) /\ Accepts(M, k)
           /\ e = Events(M, k, CacheAfter(M, k))
           /\ (Kind(k) \notin {"NC", "P1"} \/ (Kind(k) = "NC" /\ cache[M][E2] # None)) => s = r /\ now' = now
           /\ (Kind(k) = "NC" /\ cache[M][E2] = None) =>
                now' = now + 1 /\ \E h \in ItemM : s = r \o <<h>> /\ Kind(h) = "P2" /\ Made(h) = now'
           /\ Kind(k) = "P1" =>
                now' = now + 1 /\ \E h \in ItemM : s = r \o <<h>> /\ Kind(h) = "A1" /\ Made(h) = now'
<1>1. kq[M] \in Seq(ItemM) /\ kq[M] # <<>> /\ up[M] # "down"
  BY DEF WordInv
<1>2. PICK k \in ItemM, r \in Seq(ItemM) : k = Head(kq[M]) /\ r = Tail(kq[M]) /\ kq[M] = <<k>> \o r
  BY <1>1, Unpop
<1>3. PICK c : c = CacheAfter(M, k)
  OBVIOUS
<1>4. PICK p : p = Approval(M, k) \o Contact(M, k.rid, c) \o Greeting(M, k)
  OBVIOUS
<1>5. /\ cache' = [cache EXCEPT ![M] = c]
      /\ evq' = [evq EXCEPT ![M] = @ \o Events(M, k, c)]
      /\ now' = IF p = <<>> THEN now ELSE now + 1
      /\ UNCHANGED <<up, buf>>
  BY <1>2, <1>3, <1>4 DEF Commit
<1>6. PICK q \in Orphans(M, k, c) : kq' = [kq EXCEPT ![M] = (r \o p) \o q]
  BY <1>2, <1>3, <1>4 DEF Commit
<1>7. q = <<>>
  BY <1>6, FollowsAtM
<1>8. DOMAIN kq = Node /\ DOMAIN evq = Node /\ DOMAIN buf = Node /\ now \in Nat /\ now + 1 \in Nat
      /\ cache \in [Node -> [RID -> Man]]
  BY DEF StartInv, TypeInv, Held
<1>10. \A x \in RID : cache'[M][x] = IF x = k.rid THEN IF k.ev = "FORGET" THEN None ELSE k.man
                                    ELSE cache[M][x]
  BY <1>3, <1>5, <1>8, Rids DEF CacheAfter
<1>11. PICK s : s = (r \o p) \o q
  OBVIOUS
<1>12. PICK e : e = Events(M, k, c)
  OBVIOUS
<1>13. e \in Seq(EventM)
  BY <1>12, ToldByM
<1>14. /\ kq'[M] = s /\ kq'[C] = kq[C] /\ evq'[M] = evq[M] \o e /\ evq'[C] = evq[C]
       /\ cache'[C] = cache[C]
  BY <1>5, <1>6, <1>8, <1>11, <1>12, Rids
<1>15. Kind(k) = "NC" => c[E2] = cache[M][E2]
  <2>1. Kind(k) = "NC" => k.rid = C
    BY ItemsOfM DEF Read
  <2> QED
    BY <1>3, <2>1, <1>8, Rids DEF CacheAfter
<1>16. CASE Kind(k) \notin {"NC", "P1"} \/ (Kind(k) = "NC" /\ cache[M][E2] # None)
  <2>1. Approval(M, k) = <<>> /\ Contact(M, k.rid, c) = <<>> /\ Greeting(M, k) = <<>>
    BY <1>15, <1>16, FollowsAtM
  <2>2. p = <<>> /\ s = r /\ now' = now
    BY <1>4, <1>5, <1>7, <1>11, <2>1
  <2>3. TakesM(k, r, s, e)
    BY <1>1, <1>2, <1>5, <1>10, <1>13, <1>14, <2>2 DEF TakesM
  <2> QED
    BY <1>2, <1>3, <1>12, <1>16, <2>2, <2>3
<1>17. CASE Kind(k) = "P1" \/ (Kind(k) = "NC" /\ cache[M][E2] = None)
  <2>1. PICK h \in ItemM : /\ Approval(M, k) \o Contact(M, k.rid, c) \o Greeting(M, k) = <<h>>
                           /\ Made(h) = now + 1
                           /\ Kind(k) = "NC" => Kind(h) = "P2"
                           /\ Kind(k) = "P1" => Kind(h) = "A1"
    <3>1. CASE Kind(k) = "P1"
      <4>1. PICK h : h = Item(E1, "UPDATE", EdgeBundle("APPROVED", now + 1), None)
        OBVIOUS
      <4>2. h \in ItemM /\ Kind(h) = "A1" /\ Made(h) = now + 1
        BY <1>8, <4>1, PushedByM DEF IsPut
      <4>3. Approval(M, k) = <<h>> /\ Contact(M, k.rid, c) = <<>> /\ Greeting(M, k) = <<>>
        BY <3>1, <4>1, FollowsAtM
      <4> QED
        BY <3>1, <4>2, <4>3
    <3>2. CASE Kind(k) = "NC" /\ cache[M][E2] = None
      <4>1. PICK h : h = Item(E2, None, EdgeBundle("PROPOSED", now + 1), None)
        OBVIOUS
      <4>2. h \in ItemM /\ Kind(h) = "P2" /\ Made(h) = now + 1
        BY <1>8, <4>1, PushedByM DEF IsPut
      <4>3. Approval(M, k) = <<>> /\ Contact(M, k.rid, c) = <<h>> /\ Greeting(M, k) = <<>>
        BY <1>15, <3>2, <4>1, FollowsAtM
      <4> QED
        BY <3>2, <4>2, <4>3
    <3> QED
      BY <1>17, <3>1, <3>2
  <2>2. p = <<h>> /\ p # <<>> /\ s = r \o <<h>> /\ s \in Seq(ItemM) /\ now' = now + 1
    BY <1>4, <1>5, <1>7, <1>11, <2>1
  <2>3. TakesM(k, r, s, e)
    BY <1>1, <1>2, <1>5, <1>10, <1>13, <1>14, <2>2 DEF TakesM
  <2> QED
    BY <1>2, <1>3, <1>12, <1>17, <2>1, <2>2, <2>3
<1> QED
  BY <1>16, <1>17

(* The moves of the view that knowledge of M makes.                        *)
MovesM(v, w) ==
  \/ RefusesM(v, w) \/ LearnsC(v, w) \/ Forgets1M(v, w) \/ Forgets2M(v, w)
  \/ Learns1M(v, w) \/ Approves1M(v, w) \/ Proposes2M(v, w) \/ Learns2M(v, w)

(* Knowledge refused.                                                      *)
LEMMA RefusedByM ==
  ASSUME StartInv, WordInv, kq[M] # <<>>, UNCHANGED buf, Drop(M), ~Accepts(M, Head(kq[M]))
  PROVE  WordInv' /\ RefusesM(View, View')
<1>1. kq[M] \in Seq(ItemM) /\ kq[M] # <<>>
  BY DEF WordInv
<1>2. PICK k \in ItemM, r \in Seq(ItemM) : k = Head(kq[M]) /\ r = Tail(kq[M]) /\ kq[M] = <<k>> \o r
  BY <1>1, Unpop
<1>3. /\ kq' = [kq EXCEPT ![M] = r] /\ cache' = cache /\ evq' = evq /\ now' = now
      /\ buf' = buf /\ up' = up
  BY <1>2 DEF Drop
<1>4. kq'[M] = r /\ kq'[C] = kq[C]
  BY <1>3, Rids DEF StartInv, TypeInv
<1>5. WordInv'
  BY <1>2, <1>3, <1>4 DEF WordInv
<1>6. PICK v : v = View
  OBVIOUS
<1>7. PICK w : w = View'
  OBVIOUS
<1>8. SameC(v, w) /\ SameM(v, w) /\ w.kc = v.kc /\ w.wc = v.wc /\ SameTime(v, w)
  BY <1>3, <1>4, <1>6, <1>7, ViewFields, ViewFieldsNext DEF SameC, SameM, SameTime
<1>9. v.d = Down(<<k>> \o r, buf[C], evq[C]) /\ w.d = Down(r, buf[C], evq[C])
  BY <1>2, <1>3, <1>4, <1>6, <1>7, ViewFields, ViewFieldsNext
<1>10. Popped(v.d, Kind(k), Made(k), w.d)
  BY <1>2, <1>9, DownPop DEF WordInv
<1>11. StaleAtM(v, Kind(k), Made(k))
  BY <1>2, <1>6, AcceptedByM, ViewFields DEF StaleAtM, StartInv, Cached
<1>12. Kind(k) \in KindsM /\ Made(k) \in Nat
  BY ItemsOfM
<1> QED
  BY <1>5, <1>6, <1>7, <1>8, <1>10, <1>11, <1>12 DEF RefusesM

(* M has an event for C, or has not.                                       *)
LEMMA UpAdd ==
  ASSUME NEW b \in Seq(EventM), NEW e \in Seq(EventM), NEW x \in EventM
  PROVE  Added(b \o e, Kind(x), Made(x), b \o (e \o <<x>>))
<1>0. <<x>> \in Seq(EventM)
  OBVIOUS
<1>1. PICK o \in Seq(EventM) : o = <<x>>
  BY <1>0
<1>2. (b \o e) \o o = b \o (e \o o)
  BY ConcatAssociative
<1>3. PICK s \in Seq(EventM) : s = b \o e
  BY ConcatProperties
<1>4. Added(s, Kind(x), Made(x), s \o <<x>>)
  BY AddView
<1> QED
  BY <1>1, <1>2, <1>3, <1>4

LEMMA UpSame ==
  ASSUME NEW b \in Seq(EventM), NEW e \in Seq(EventM)
  PROVE  b \o (e \o <<>>) = b \o e
BY ConcatEmptySeq

LEMMA StepOfM ==
  ASSUME StartInv, WordInv, Process(M)
  PROVE  WordInv' /\ MovesM(View, View')
<1>0. /\ kq[M] # <<>> /\ up[M] # "down" /\ UNCHANGED buf
      /\ \/ Drop(M) /\ ~Accepts(M, Head(kq[M]))
         \/ Accepts(M, Head(kq[M])) /\ Commit(M, Head(kq[M]))
  <2>1. TypeInv /\ kq[M] # <<>> /\ kq[M] \in Seq(ItemM)
    BY Processed, Rids DEF StartInv, WordInv
  <2>2. Head(kq[M]) \in ItemM
    BY <2>1, HeadTailProperties
  <2> QED
    BY <2>1, <2>2, Processed, BareOfM, Rids DEF Version
<1>1. CASE Drop(M) /\ ~Accepts(M, Head(kq[M]))
  BY <1>0, <1>1, RefusedByM DEF MovesM
<1>2. CASE Accepts(M, Head(kq[M])) /\ Commit(M, Head(kq[M]))
  <2>1. PICK k, r, s, e :
           /\ TakesM(k, r, s, e) /\ Accepts(M, k)
           /\ e = Events(M, k, CacheAfter(M, k))
           /\ (Kind(k) \notin {"NC", "P1"} \/ (Kind(k) = "NC" /\ cache[M][E2] # None)) => s = r /\ now' = now
           /\ (Kind(k) = "NC" /\ cache[M][E2] = None) =>
                now' = now + 1 /\ \E h \in ItemM : s = r \o <<h>> /\ Kind(h) = "P2" /\ Made(h) = now'
           /\ Kind(k) = "P1" =>
                now' = now + 1 /\ \E h \in ItemM : s = r \o <<h>> /\ Kind(h) = "A1" /\ Made(h) = now'
    BY <1>0, <1>2, TakenByM
  <2>2. WordInv'
    BY <2>1, WordsAfterM
  <2>3. PICK v : v = View
    OBVIOUS
  <2>4. PICK w : w = View'
    OBVIOUS
  <2>5. /\ k \in ItemM /\ r \in Seq(ItemM) /\ s \in Seq(ItemM) /\ e \in Seq(EventM)
        /\ kq[M] = <<k>> \o r /\ kq'[M] = s /\ kq'[C] = kq[C]
        /\ evq'[M] = evq[M] \o e /\ evq'[C] = evq[C] /\ buf' = buf /\ up' = up
        /\ cache'[C] = cache[C]
        /\ \A x \in RID : cache'[M][x] = IF x = k.rid THEN IF k.ev = "FORGET" THEN None ELSE k.man
                                         ELSE cache[M][x]
    BY <2>1 DEF TakesM
  <2>6. SameC(v, w) /\ w.kc = v.kc /\ w.on = v.on /\ v.now = now /\ w.now = now'
    BY <2>3, <2>4, <2>5, ViewFields, ViewFieldsNext DEF SameC
  <2>7. PICK d : d = Down(r, buf[C], evq[C])
    OBVIOUS
  <2>8. Popped(v.d, Kind(k), Made(k), d)
    <3>1. v.d = Down(<<k>> \o r, buf[C], evq[C])
      BY <2>3, <2>5, ViewFields
    <3> QED
      BY <2>5, <2>7, <3>1, DownPop DEF WordInv
  <2>9. ASSUME s = r PROVE w.d = d
    BY <2>4, <2>5, <2>7, <2>9, ViewFieldsNext
  <2>10. ASSUME NEW h \in ItemM, s = r \o <<h>>, Kind(h) \in OwnM PROVE Inserted(d, Kind(h), Made(h), w.d)
    <3>1. w.d = Down(r \o <<h>>, buf[C], evq[C])
      BY <2>4, <2>5, <2>10, ViewFieldsNext
    <3> QED
      BY <2>5, <2>7, <2>10, <3>1, DownInsert DEF WordInv
  <2>11. v.wc = buf[M] \o evq[M] /\ w.wc = buf[M] \o (evq[M] \o e)
    BY <2>3, <2>4, <2>5, ViewFields, ViewFieldsNext
  <2>12. ASSUME NEW x \in EventM, e = <<x>> PROVE Added(v.wc, Kind(x), Made(x), w.wc)
    BY <2>11, <2>12, UpAdd DEF WordInv
  <2>12a. e = <<>> => w.wc = v.wc
    BY <2>11, UpSame DEF WordInv
  <2>13. /\ v.m1 = cache[M][E1] /\ v.m2 = cache[M][E2] /\ v.mc = (cache[M][C] # None)
         /\ w.m1 = IF E1 = k.rid THEN IF k.ev = "FORGET" THEN None ELSE k.man ELSE v.m1
         /\ w.m2 = IF E2 = k.rid THEN IF k.ev = "FORGET" THEN None ELSE k.man ELSE v.m2
         /\ w.mc = IF C = k.rid THEN ~(k.ev = "FORGET" \/ k.man = None) ELSE v.mc
    BY <2>3, <2>4, <2>5, ViewFields, ViewFieldsNext, Rids
  <2>14. Made(k) \in Nat /\ Kind(k) \in KindsM
    BY <2>5, ItemsOfM
  <2>15. TypeInv
    BY DEF StartInv
  <2>16. CASE Kind(k) = "NC"
    <3>4. ~v.mc
      BY <2>1, <2>5, <2>13, <2>15, <2>16, AcceptedByM DEF Cached
    <3>5. k.rid = C /\ k.ev # "FORGET" /\ k.man # None
      BY <2>5, <2>16, ItemsOfM, States DEF Read
    <3>1. ~v.mc /\ w.mc /\ w.m1 = v.m1 /\ w.m2 = v.m2
      BY <2>13, <3>4, <3>5, Rids
    <3>2. w.wc = v.wc
      BY <2>1, <2>5, <2>16, <2>12a, ToldByM DEF OwnM
    <3>3. \/ v.m2 = None /\ w.now = v.now + 1 /\ Inserted(d, "P2", w.now, w.d)
          \/ v.m2 # None /\ w.now = v.now /\ w.d = d
      <4>1. CASE v.m2 = None
        <5>1. PICK h \in ItemM : s = r \o <<h>> /\ Kind(h) = "P2" /\ Made(h) = now'
          BY <2>1, <2>13, <2>16, <4>1
        <5> QED
          BY <2>1, <2>6, <2>10, <2>13, <2>16, <4>1, <5>1 DEF OwnM
      <4>2. CASE v.m2 # None
        BY <2>1, <2>6, <2>9, <2>13, <2>16, <4>2
      <4> QED
        BY <4>1, <4>2
    <3> QED
      BY <2>2, <2>3, <2>4, <2>6, <2>8, <2>14, <2>16, <3>1, <3>2, <3>3 DEF MovesM, LearnsC
  <2>17. CASE Kind(k) = "F1"
    <3>1. v.m1 # None /\ w.m1 = None /\ w.m2 = v.m2 /\ w.mc = v.mc
      BY <2>1, <2>5, <2>13, <2>15, <2>17, AcceptedByM, ItemsOfM, Rids DEF Cached
    <3>2. w.wc = v.wc /\ w.d = d /\ SameTime(v, w)
      BY <2>1, <2>5, <2>6, <2>9, <2>17, <2>12a, ToldByM DEF OwnM, SameTime
    <3> QED
      BY <2>2, <2>3, <2>4, <2>6, <2>8, <2>14, <2>17, <3>1, <3>2 DEF MovesM, Forgets1M
  <2>18. CASE Kind(k) = "F2"
    <3>1. v.m2 # None /\ w.m2 = None /\ w.m1 = v.m1 /\ w.mc = v.mc
      BY <2>1, <2>5, <2>13, <2>15, <2>18, AcceptedByM, ItemsOfM, Rids DEF Cached
    <3>2. w.wc = v.wc /\ w.d = d /\ SameTime(v, w)
      BY <2>1, <2>5, <2>6, <2>9, <2>18, <2>12a, ToldByM DEF OwnM, SameTime
    <3> QED
      BY <2>2, <2>3, <2>4, <2>6, <2>8, <2>14, <2>18, <3>1, <3>2 DEF MovesM, Forgets2M
  <2>19. CASE Kind(k) = "P1"
    <3>0. Newer(v.m1, "PROPOSED", Made(k)) /\ v.mc
      BY <2>1, <2>5, <2>13, <2>15, <2>19, AcceptedByM DEF Cached
    <3>5. /\ k.rid = E1 /\ k.ev # "FORGET" /\ k.man # None
          /\ k.man.st = "PROPOSED" /\ k.man.ts = Made(k)
      BY <2>5, <2>19, ItemsOfM, States DEF Read
    <3>1. Is(w.m1, "PROPOSED") /\ w.m1.ts = Made(k) /\ w.m2 = v.m2 /\ w.mc = v.mc
      BY <2>13, <3>5, Rids DEF Is
    <3>2. w.wc = v.wc
      BY <2>1, <2>5, <2>19, <2>12a, ToldByM DEF OwnM
    <3>3. PICK h \in ItemM : s = r \o <<h>> /\ Kind(h) = "A1" /\ Made(h) = now'
      BY <2>1, <2>19
    <3>4. Inserted(d, "A1", w.now, w.d) /\ w.now = v.now + 1
      BY <2>1, <2>6, <2>10, <2>19, <3>3 DEF OwnM
    <3> QED
      BY <2>2, <2>3, <2>4, <2>6, <2>8, <2>14, <2>19, <3>0, <3>1, <3>2, <3>4 DEF MovesM, Learns1M
  <2>20. CASE Kind(k) = "A1"
    <3>0. Newer(v.m1, "APPROVED", Made(k))
      BY <2>1, <2>5, <2>13, <2>15, <2>20, AcceptedByM
    <3>5. /\ k.rid = E1 /\ k.ev # "FORGET" /\ k.man # None
          /\ k.man.st = "APPROVED" /\ k.man.ts = Made(k)
      BY <2>5, <2>20, ItemsOfM, States DEF Read
    <3>1. Is(w.m1, "APPROVED") /\ w.m1.ts = Made(k) /\ w.m2 = v.m2 /\ w.mc = v.mc
      BY <2>13, <3>5, Rids DEF Is
    <3>2. w.d = d /\ SameTime(v, w)
      BY <2>1, <2>6, <2>9, <2>20 DEF SameTime
    <3>3. Added(v.wc, "A1", Made(k), w.wc)
      BY <2>1, <2>5, <2>12, <2>20, ToldByM DEF OwnM
    <3> QED
      BY <2>2, <2>3, <2>4, <2>6, <2>8, <2>14, <2>20, <3>0, <3>1, <3>2, <3>3 DEF MovesM, Approves1M
  <2>21. CASE Kind(k) = "P2"
    <3>0. Newer(v.m2, "PROPOSED", Made(k))
      BY <2>1, <2>5, <2>13, <2>15, <2>21, AcceptedByM
    <3>4. /\ k.rid = E2 /\ k.ev # "FORGET" /\ k.man # None
          /\ k.man.st = "PROPOSED" /\ k.man.ts = Made(k)
      BY <2>5, <2>21, ItemsOfM, States DEF Read
    <3>1. Is(w.m2, "PROPOSED") /\ w.m2.ts = Made(k) /\ w.m1 = v.m1 /\ w.mc = v.mc
      BY <2>13, <3>4, Rids DEF Is
    <3>2. w.d = d /\ SameTime(v, w)
      BY <2>1, <2>6, <2>9, <2>21 DEF SameTime
    <3>3. Added(v.wc, "P2", Made(k), w.wc)
      BY <2>1, <2>5, <2>12, <2>21, ToldByM DEF OwnM
    <3> QED
      BY <2>2, <2>3, <2>4, <2>6, <2>8, <2>14, <2>21, <3>0, <3>1, <3>2, <3>3 DEF MovesM, Proposes2M
  <2>22. CASE Kind(k) = "A2"
    <3>0. Newer(v.m2, "APPROVED", Made(k))
      BY <2>1, <2>5, <2>13, <2>15, <2>22, AcceptedByM
    <3>5. /\ k.rid = E2 /\ k.ev # "FORGET" /\ k.man # None
          /\ k.man.st = "APPROVED" /\ k.man.ts = Made(k)
      BY <2>5, <2>22, ItemsOfM, States DEF Read
    <3>1. Is(w.m2, "APPROVED") /\ w.m2.ts = Made(k) /\ w.m1 = v.m1 /\ w.mc = v.mc
      BY <2>13, <3>5, Rids DEF Is
    <3>2. w.wc = v.wc /\ w.d = d /\ SameTime(v, w)
      BY <2>1, <2>5, <2>6, <2>9, <2>22, <2>12a, ToldByM DEF OwnM, SameTime
    <3> QED
      BY <2>2, <2>3, <2>4, <2>6, <2>8, <2>14, <2>22, <3>0, <3>1, <3>2 DEF MovesM, Learns2M
  <2> QED
    BY <2>14, <2>16, <2>17, <2>18, <2>19, <2>20, <2>21, <2>22 DEF KindsM
<1> QED
  BY <1>0, <1>1, <1>2

-----------------------------------------------------------------------------
(* The other steps.                                                        *)

LEMMA AppendWord ==
  ASSUME NEW S, NEW s \in Seq(S), NEW h \in S
  PROVE  Append(s, h) = s \o <<h>> /\ Append(s, h) \in Seq(S)
BY AppendIsConcat, AppendProperties

(* Nothing moves.                                                          *)
LEMMA NoMove ==
  ASSUME kq'[C] = kq[C], kq'[M] = kq[M], cache' = cache, now' = now,
         buf'[M] \o evq'[M] = buf[M] \o evq[M],
         Down(kq[M], buf'[C], evq'[C]) = Down(kq[M], buf[C], evq[C]),
         up'[M] \in {"greeted", "run"} => up[M] \in {"greeted", "run"} \/ Cached(M, C)
  PROVE  Rests(View, View')
<1>1. PICK v : v = View
  OBVIOUS
<1>2. PICK w : w = View'
  OBVIOUS
<1>3. SameC(v, w) /\ SameM(v, w) /\ SameMail(v, w) /\ w.kc = v.kc /\ w.now = v.now
  BY <1>1, <1>2, ViewFields, ViewFieldsNext DEF SameC, SameM, SameMail
<1>4. w.on => v.on \/ v.mc
  BY <1>1, <1>2, ViewFields, ViewFieldsNext DEF Cached
<1> QED
  BY <1>1, <1>2, <1>3, <1>4 DEF Rests

(* What a request brings.                                                  *)
LEMMA GotByC ==
  ASSUME NEW b \in Seq(EventM)
  PROVE  /\ Got(C, b) \in Seq(ItemC) /\ Alike(b, Got(C, b))
         /\ Received(C, b) = kq[C] \o Got(C, b)
<1>1. \A x \in EventM : Turns(x, C, ItemC)
  BY Arriving, Rids DEF Turns
<1>2. C \in Node
  BY Rids
<1> QED
  BY <1>1, <1>2, GotView

LEMMA GotByM ==
  ASSUME NEW b \in Seq(EventC)
  PROVE  /\ Got(M, b) \in Seq(ItemM) /\ Alike(b, Got(M, b))
         /\ Received(M, b) = kq[M] \o Got(M, b)
<1>1. \A x \in EventC : Turns(x, M, ItemM)
  BY Arriving, Rids DEF Turns
<1>2. M \in Node
  BY Rids
<1> QED
  BY <1>1, <1>2, GotView

(* What M or C has in its buffer arrives, and may be kept.                 *)
LEMMA ArrivesAtC ==
  ASSUME TypeInv, WordInv, kq' = [kq EXCEPT ![C] = Received(C, buf[M])],
         buf'[M] = buf[M] \/ buf'[M] = <<>>, buf'[C] = buf[C], evq' = evq, cache' = cache,
         now' = now, up'[M] \in {"greeted", "run"} => up[M] \in {"greeted", "run"},
         up'[M] = "down" => buf'[M] = <<>> /\ evq[M] = <<>>
  PROVE  WordInv' /\ CarriesToC(View, View')
<1>1. PICK b \in Seq(EventM) : b = buf[M]
  BY DEF WordInv
<1>2. PICK g : g = Got(C, b)
  OBVIOUS
<1>3. g \in Seq(ItemC) /\ Alike(b, g) /\ Received(C, b) = kq[C] \o g
  BY <1>2, GotByC
<1>4. kq'[C] = kq[C] \o g /\ kq'[M] = kq[M]
  BY <1>1, <1>3, Rids DEF TypeInv
<1>5. kq[C] \in Seq(ItemC) /\ kq'[C] \in Seq(ItemC) /\ buf'[M] \in Seq(EventM) /\ evq[M] \in Seq(EventM)
  <2>1. kq[C] \in Seq(ItemC) /\ evq[M] \in Seq(EventM)
    BY DEF WordInv
  <2>2. kq'[C] \in Seq(ItemC)
    BY <1>3, <1>4, <2>1, ConcatProperties
  <2>3. buf'[M] \in Seq(EventM)
    BY <1>1, EmptySeq
  <2> QED
    BY <2>1, <2>2, <2>3
<1>6. WordInv'
  BY <1>4, <1>5 DEF WordInv
<1>7. \A x : Has(b, x) => x \in SentM
  BY <1>1, ElementOfSeq DEF Has, EventM
<1>8. Extended(kq[C], kq[C] \o g, SentM)
  BY <1>3, <1>5, <1>7, AlikeView, ExtendView
<1>9. /\ \A x : Has(kq'[C], x) <=> Has(kq[C], x) \/ Has(b, x)
      /\ \A x, t : Mem(kq'[C], x, t) <=> Mem(kq[C], x, t) \/ Mem(b, x, t)
  <2>1. /\ \A x : Has(kq[C] \o g, x) <=> Has(kq[C], x) \/ Has(g, x)
        /\ \A x, t : Mem(kq[C] \o g, x, t) <=> Mem(kq[C], x, t) \/ Mem(g, x, t)
    BY <1>3, <1>5, JoinMem
  <2>2. (\A x : Has(g, x) <=> Has(b, x)) /\ \A x, t : Mem(g, x, t) <=> Mem(b, x, t)
    BY <1>3, AlikeView
  <2> QED
    BY <1>4, <2>1, <2>2
<1>10. /\ \A x : Has(b \o evq[M], x) <=> Has(b, x) \/ Has(evq[M], x)
       /\ \A x, t : Mem(b \o evq[M], x, t) <=> Mem(b, x, t) \/ Mem(evq[M], x, t)
  BY <1>1, <1>5, JoinMem
<1>11. PICK c \in Seq(EventM) : c = buf'[M]
  BY <1>5
<1>12. /\ \A x : Has(c \o evq[M], x) <=> Has(c, x) \/ Has(evq[M], x)
       /\ \A x, t : Mem(c \o evq[M], x, t) <=> Mem(c, x, t) \/ Mem(evq[M], x, t)
  BY <1>5, JoinMem
<1>13. Lesser(c, b)
  BY <1>1, <1>11, KeptOrNot
<1>14. PICK v : v = View
  OBVIOUS
<1>15. PICK w : w = View'
  OBVIOUS
<1>16. v.kc = kq[C] /\ w.kc = kq'[C] /\ v.wc = b \o evq[M] /\ w.wc = c \o evq[M]
  BY <1>1, <1>11, <1>14, <1>15, ViewFields, ViewFieldsNext
<1>17. /\ \A x : UHas(w, x) <=> UHas(v, x)
       /\ \A x, t : UMem(w, x, t) <=> UMem(v, x, t)
  BY <1>9, <1>10, <1>12, <1>13, <1>16 DEF UHas, UMem, Lesser
<1>18. SameC(v, w) /\ SameM(v, w) /\ w.d = v.d /\ w.now = v.now /\ (w.on => v.on)
  BY <1>4, <1>14, <1>15, ViewFields, ViewFieldsNext DEF SameC, SameM
<1> QED
  BY <1>4, <1>6, <1>8, <1>14, <1>15, <1>16, <1>17, <1>18 DEF CarriesToC

LEMMA ArrivesAtM ==
  ASSUME TypeInv, WordInv, kq' = [kq EXCEPT ![M] = Received(M, buf[C])],
         buf'[C] = buf[C] \/ buf'[C] = <<>>, buf'[M] = buf[M], evq' = evq, cache' = cache,
         now' = now, up'[M] = up[M]
  PROVE  WordInv' /\ CarriesToM(View, View')
<1>1. PICK b \in Seq(EventC) : b = buf[C]
  BY DEF WordInv
<1>2. PICK g : g = Got(M, b)
  OBVIOUS
<1>3. g \in Seq(ItemM) /\ Alike(b, g) /\ Received(M, b) = kq[M] \o g
  BY <1>2, GotByM
<1>4. kq'[M] = kq[M] \o g /\ kq'[C] = kq[C]
  BY <1>1, <1>3, Rids DEF TypeInv
<1>5. PICK s \in Seq(ItemM) : s = kq[M]
  BY DEF WordInv
<1>6. PICK e \in Seq(EventC) : e = evq[C]
  BY DEF WordInv
<1>7. kq'[M] \in Seq(ItemM) /\ buf'[C] \in Seq(EventC)
  <2>1. kq'[M] \in Seq(ItemM)
    BY <1>3, <1>4, <1>5, ConcatProperties
  <2>2. buf'[C] \in Seq(EventC)
    BY <1>1, EmptySeq
  <2> QED
    BY <2>1, <2>2
<1>8. WordInv'
  BY <1>4, <1>7 DEF WordInv
<1>9. PICK c \in Seq(EventC) : c = buf'[C]
  BY <1>7
<1>10. Lesser(c, b)
  BY <1>1, <1>9, KeptOrNot
<1>11. PICK v : v = View
  OBVIOUS
<1>12. PICK w : w = View'
  OBVIOUS
<1>13. v.d = Down(s, b, e) /\ w.d = Down(s \o g, c, e)
  BY <1>1, <1>4, <1>5, <1>6, <1>9, <1>11, <1>12, ViewFields, ViewFieldsNext
<1>14. /\ \A x : Has(w.d, x) <=> Has(v.d, x)
       /\ \A x, t : Mem(w.d, x, t) <=> Mem(v.d, x, t)
       /\ \A x, y, t : Ahead(v.d, x, y, t) => Ahead(w.d, x, y, t)
       /\ \A x, y : Open(w.d, x, y) => Open(v.d, x, y)
       /\ \A X, y : y \in OwnM /\ Late(v.d, X, y) => Late(w.d, X, y)
  BY <1>3, <1>10, <1>13, DownCarry
<1>15. \A X : /\ Late(v.d, X, "A1") => Late(w.d, X, "A1")
              /\ Late(v.d, X, "P2") => Late(w.d, X, "P2")
  BY <1>14 DEF OwnM
<1>16. SameC(v, w) /\ SameM(v, w) /\ w.kc = v.kc /\ w.wc = v.wc /\ SameTime(v, w)
  BY <1>4, <1>11, <1>12, ViewFields, ViewFieldsNext DEF SameC, SameM, SameTime
<1> QED
  BY <1>8, <1>11, <1>12, <1>14, <1>15, <1>16 DEF CarriesToM

(* The moves of the view but for knowledge processing.                     *)
MovesX(v, w) ==
  \/ Rests(v, w) \/ CarriesToC(v, w) \/ CarriesToM(v, w) \/ Drops(v, w)
  \/ Wiped(v, w) \/ Introduces(v, w) \/ Contacts(v, w) \/ Syncs(v, w)

(* Delivery.                                                               *)
LEMMA RouteAtM == ASSUME StartInv, WordInv, Route(M) PROVE WordInv' /\ MovesX(View, View')
<1>1. PICK b \in Seq(EventM) : b = buf[M]
  BY DEF WordInv
<1>2. PICK e \in Seq(EventM) : e = evq[M]
  BY DEF WordInv
<1>3. up[M] # "down" /\ e # <<>>
  BY <1>2 DEF Route
<1>4. PICK h \in EventM, t \in Seq(EventM) : h = Head(e) /\ t = Tail(e) /\ e = <<h>> \o t
  BY <1>3, Unpop
<1>5. /\ UNCHANGED <<up, cache, kq, now>>
      /\ evq' = [evq EXCEPT ![M] = t] /\ buf' = [buf EXCEPT ![M] = Append(b, h)]
  BY <1>1, <1>2, <1>4 DEF Route
<1>6. /\ evq'[M] = t /\ buf'[M] = Append(b, h) /\ evq'[C] = evq[C] /\ buf'[C] = buf[C]
  BY <1>5, Rids DEF StartInv, TypeInv
<1>7. Append(b, h) = b \o <<h>> /\ Append(b, h) \in Seq(EventM)
  BY AppendWord
<1>8. (b \o <<h>>) \o t = b \o e
  <2>1. PICK o \in Seq(EventM) : o = <<h>>
    <3>1. <<h>> \in Seq(EventM)
      OBVIOUS
    <3> QED
      BY <3>1
  <2>2. (b \o o) \o t = b \o (o \o t)
    BY ConcatAssociative
  <2> QED
    BY <1>4, <2>1, <2>2
<1>9. WordInv'
  BY <1>3, <1>5, <1>6, <1>7 DEF WordInv
<1>10. Rests(View, View')
  BY <1>1, <1>2, <1>5, <1>6, <1>7, <1>8, NoMove
<1> QED
  BY <1>9, <1>10 DEF MovesX

LEMMA RouteAtC == ASSUME StartInv, WordInv, Route(C) PROVE WordInv' /\ MovesX(View, View')
<1>1. PICK b \in Seq(EventC) : b = buf[C]
  BY DEF WordInv
<1>2. PICK e \in Seq(EventC) : e = evq[C]
  BY DEF WordInv
<1>3. e # <<>>
  BY <1>2 DEF Route
<1>4. PICK h \in EventC, t \in Seq(EventC) : h = Head(e) /\ t = Tail(e)
  BY <1>3, Unpop
<1>5. /\ UNCHANGED <<up, cache, kq, now>>
      /\ evq' = [evq EXCEPT ![C] = t]
      /\ IF Cached(C, M) THEN buf' = [buf EXCEPT ![C] = Append(b, h)] ELSE buf' = buf
  BY <1>1, <1>2, <1>4, Rids DEF Route
<1>6. /\ evq'[C] = t /\ evq'[M] = evq[M] /\ buf'[M] = buf[M]
      /\ IF Cached(C, M) THEN buf'[C] = Append(b, h) ELSE buf'[C] = b
  BY <1>1, <1>5, Rids DEF StartInv, TypeInv
<1>7. Append(b, h) = b \o <<h>> /\ Append(b, h) \in Seq(EventC)
  BY AppendWord
<1>8. WordInv'
  <2>1. buf'[C] \in Seq(EventC)
    BY <1>6, <1>7
  <2> QED
    BY <1>4, <1>5, <1>6, <2>1 DEF WordInv
<1>9. PICK s \in Seq(ItemM) : s = kq[M]
  BY DEF WordInv
<1>10. CASE Cached(C, M)
  <2>1. Down(s, b \o <<h>>, t) = Down(s, b, e)
    BY <1>3, <1>4, DownRoute
  <2>2. Rests(View, View')
    BY <1>1, <1>2, <1>5, <1>6, <1>7, <1>9, <1>10, <2>1, NoMove
  <2> QED
    BY <1>8, <2>2 DEF MovesX
<1>11. CASE ~Cached(C, M)
  <2>1. PICK v : v = View
    OBVIOUS
  <2>2. PICK w : w = View'
    OBVIOUS
  <2>3. SameC(v, w) /\ SameM(v, w) /\ w.kc = v.kc /\ w.wc = v.wc /\ SameTime(v, w) /\ ~v.cm
    BY <1>5, <1>6, <1>11, <2>1, <2>2, ViewFields, ViewFieldsNext DEF SameC, SameM, SameTime, Cached
  <2>4. v.d = Down(s, b, e) /\ w.d = Down(s, b, Tail(e))
    BY <1>1, <1>2, <1>4, <1>5, <1>6, <1>9, <1>11, <2>1, <2>2, ViewFields, ViewFieldsNext
  <2>5. /\ \A x : Has(w.d, x) => Has(v.d, x)
        /\ \A x, u : Mem(w.d, x, u) => Mem(v.d, x, u)
        /\ \A x \in OwnM : Has(w.d, x) <=> Has(v.d, x)
        /\ \A x \in OwnM : \A u : Mem(w.d, x, u) <=> Mem(v.d, x, u)
        /\ \A X, y : y \in OwnM /\ Late(v.d, X, y) => Late(w.d, X, y)
        /\ \E x : Has(v.d, x)
    BY <1>3, <2>4, DownDrop
  <2>6. \A X : /\ Late(v.d, X, "A1") => Late(w.d, X, "A1")
               /\ Late(v.d, X, "P2") => Late(w.d, X, "P2")
    BY <2>5 DEF OwnM
  <2>7. Drops(v, w)
    BY <2>3, <2>5, <2>6 DEF Drops
  <2> QED
    BY <1>8, <2>1, <2>2, <2>7 DEF MovesX
<1> QED
  BY <1>10, <1>11

LEMMA FlushMoves ==
  ASSUME StartInv, WordInv, NEW n \in Node, Flush(n) PROVE WordInv' /\ MovesX(View, View')
<1>1. /\ UNCHANGED <<up, cache, evq, now>> /\ up[n] # "down"
      /\ \/ UNCHANGED <<kq, buf>>
         \/ /\ kq' = [kq EXCEPT ![Peer(n)] = Received(Peer(n), buf[n])]
            /\ buf' = [buf EXCEPT ![n] = <<>>] \/ buf' = buf
  BY DEF Flush
<1>2. CASE UNCHANGED <<kq, buf>>
  <2>1. WordInv'
    BY <1>1, <1>2 DEF WordInv
  <2>2. Rests(View, View')
    BY <1>1, <1>2, NoMove
  <2> QED
    BY <2>1, <2>2 DEF MovesX
<1>3. CASE /\ kq' = [kq EXCEPT ![Peer(n)] = Received(Peer(n), buf[n])]
           /\ buf' = [buf EXCEPT ![n] = <<>>] \/ buf' = buf
  <2>1. /\ buf'[n] = buf[n] \/ buf'[n] = <<>>
        /\ buf'[Peer(n)] = buf[Peer(n)]
    BY <1>3, Rids, Two DEF StartInv, TypeInv
  <2>2. CASE n = C
    <3>1. kq' = [kq EXCEPT ![M] = Received(M, buf[C])]
          /\ (buf'[C] = buf[C] \/ buf'[C] = <<>>) /\ buf'[M] = buf[M]
      BY <1>3, <2>1, <2>2, Rids
    <3> QED
      BY <1>1, <3>1, ArrivesAtM DEF MovesX, StartInv
  <2>3. CASE n = M
    <3>1. kq' = [kq EXCEPT ![C] = Received(C, buf[M])]
          /\ (buf'[M] = buf[M] \/ buf'[M] = <<>>) /\ buf'[C] = buf[C] /\ up[M] # "down"
      BY <1>1, <1>3, <2>1, <2>3, Rids
    <3> QED
      BY <1>1, <3>1, ArrivesAtC DEF MovesX, StartInv
  <2> QED
    BY <2>2, <2>3, Rids
<1> QED
  BY <1>1, <1>2, <1>3

LEMMA PollMoves ==
  ASSUME StartInv, WordInv, Poll, lapsed' = {} PROVE WordInv' /\ MovesX(View, View')
<1>1. /\ UNCHANGED <<up, cache, evq, now>>
      /\ kq' = [kq EXCEPT ![M] = Received(M, buf[C])] /\ buf' = [buf EXCEPT ![C] = <<>>]
  BY DEF Poll, Note
<1>2. buf'[C] = <<>> /\ buf'[M] = buf[M]
  BY <1>1, Rids DEF StartInv, TypeInv
<1> QED
  BY <1>1, <1>2, ArrivesAtM DEF MovesX, StartInv

(* Shutdown, crash, wipe and start.                                        *)
LEMMA HaltMoves ==
  ASSUME StartInv, WordInv, NEW n \in Node, Halt(n), lapsed' = {}
  PROVE  WordInv' /\ MovesX(View, View')
<1>1. /\ UNCHANGED <<cache, evq, now>> /\ evq[n] = <<>>
      /\ up' = [up EXCEPT ![n] = "down"] /\ buf' = [buf EXCEPT ![n] = <<>>]
      /\ \/ kq' = [kq EXCEPT ![Peer(n)] = Received(Peer(n), buf[n])]
         \/ buf[n] = <<>> /\ kq' = kq
  <2>1. buf[n] \in Seq(EventOf(n)) /\ UNCHANGED <<cache, evq, now>> /\ evq[n] = <<>>
        /\ up' = [up EXCEPT ![n] = "down"] /\ buf' = [buf EXCEPT ![n] = <<>>]
        /\ \/ /\ buf[n] # <<>> /\ ~(Len(buf[n]) > 1)
              /\ kq' = [kq EXCEPT ![Peer(n)] = Received(Peer(n), SubSeq(buf[n], 1, 1))]
           \/ buf[n] = <<>> /\ kq' = kq
    BY DEF Halt, Note, Phase, StartInv, TypeInv
  <2> QED
    BY <2>1, FirstOnly
<1>2. /\ buf'[n] = <<>> /\ buf'[Peer(n)] = buf[Peer(n)]
      /\ up'[n] = "down" /\ up'[Peer(n)] = up[Peer(n)]
  BY <1>1, Two DEF StartInv, TypeInv, Held
<1>3. CASE n = C
  <2>1. buf'[C] = <<>> /\ buf'[M] = buf[M] /\ up'[M] = up[M] /\ evq[C] = <<>>
    BY <1>1, <1>2, <1>3, Rids
  <2>2. CASE kq' = [kq EXCEPT ![Peer(n)] = Received(Peer(n), buf[n])]
    <3>1. kq' = [kq EXCEPT ![M] = Received(M, buf[C])]
      BY <1>3, <2>2, Rids
    <3> QED
      BY <1>1, <2>1, <3>1, ArrivesAtM DEF MovesX, StartInv
  <2>3. CASE buf[n] = <<>> /\ kq' = kq
    <3>1. buf'[C] = buf[C]
      BY <1>3, <2>1, <2>3
    <3>2. WordInv'
      BY <1>1, <2>1, <2>3, <3>1 DEF WordInv
    <3>3. Rests(View, View')
      BY <1>1, <2>1, <2>3, <3>1, NoMove
    <3> QED
      BY <3>2, <3>3 DEF MovesX
  <2> QED
    BY <1>1, <2>2, <2>3
<1>4. CASE n = M
  <2>1. buf'[M] = <<>> /\ buf'[C] = buf[C] /\ up'[M] = "down" /\ evq[M] = <<>>
    BY <1>1, <1>2, <1>4, Rids
  <2>2. CASE kq' = [kq EXCEPT ![Peer(n)] = Received(Peer(n), buf[n])]
    <3>1. kq' = [kq EXCEPT ![C] = Received(C, buf[M])]
      BY <1>4, <2>2, Rids
    <3> QED
      BY <1>1, <2>1, <3>1, ArrivesAtC DEF MovesX, StartInv
  <2>3. CASE buf[n] = <<>> /\ kq' = kq
    <3>1. buf'[M] = buf[M]
      BY <1>4, <2>1, <2>3
    <3>2. WordInv'
      BY <1>1, <2>1, <2>3, <3>1 DEF WordInv
    <3>3. Rests(View, View')
      BY <1>1, <2>1, <2>3, <3>1, NoMove
    <3> QED
      BY <3>2, <3>3 DEF MovesX
  <2> QED
    BY <1>1, <2>2, <2>3
<1> QED
  BY <1>3, <1>4, Rids

LEMMA BootStopMoves ==
  ASSUME StartInv, WordInv, NEW n \in Node, Boot(n) \/ Stop(n)
  PROVE  WordInv' /\ MovesX(View, View')
<1>1. /\ UNCHANGED <<cache, kq, evq, buf, now>>
      /\ up' = [up EXCEPT ![n] = "boot"] \/ up' = [up EXCEPT ![n] = "stopping"]
  BY DEF Boot, Stop, Phase
<1>2. up'[M] \in {up[M], "boot", "stopping"}
  BY <1>1, Rids DEF StartInv, TypeInv, Held
<1>3. WordInv'
  BY <1>1, <1>2 DEF WordInv
<1>4. Rests(View, View')
  BY <1>1, <1>2, NoMove
<1> QED
  BY <1>3, <1>4 DEF MovesX

LEMMA CrashMoves ==
  ASSUME StartInv, WordInv, NEW n \in Node, Crash(n), lapsed' = {}
  PROVE  WordInv' /\ MovesX(View, View')
<1>1. ~Busy(n)
  BY DEF Crash, Note
<1>2. /\ UNCHANGED <<cache, now>> /\ up' = [up EXCEPT ![n] = "down"]
      /\ kq' = [kq EXCEPT ![n] = <<>>] /\ evq' = [evq EXCEPT ![n] = <<>>]
      /\ buf' = [buf EXCEPT ![n] = <<>>]
  BY DEF Crash, Phase
<1>3. \A v \in Node : kq'[v] = kq[v] /\ evq'[v] = evq[v] /\ buf'[v] = buf[v]
  <2>1. kq[n] = <<>> /\ evq[n] = <<>> /\ buf[n] = <<>>
    BY <1>1 DEF Busy
  <2>2. \A v \in Node : kq'[v] = kq[v]
    BY <1>2, <2>1 DEF StartInv, TypeInv
  <2>3. \A v \in Node : evq'[v] = evq[v]
    BY <1>2, <2>1 DEF StartInv, TypeInv
  <2>4. \A v \in Node : buf'[v] = buf[v]
    BY <1>2, <2>1 DEF StartInv, TypeInv
  <2> QED
    BY <2>2, <2>3, <2>4
<1>4. up'[M] \in {up[M], "down"} /\ (n = M \/ up'[M] = up[M])
  BY <1>2, Rids DEF StartInv, TypeInv, Held
<1>5. WordInv'
  <2>1. up'[M] = "down" => buf[M] = <<>> /\ evq[M] = <<>>
    <3>1. CASE n = M
      BY <1>1, <3>1 DEF Busy
    <3>2. CASE n # M
      BY <1>4, <3>2 DEF WordInv
    <3> QED
      BY <3>1, <3>2
  <2> QED
    BY <1>2, <1>3, <2>1, Rids DEF WordInv
<1>6. Rests(View, View')
  BY <1>2, <1>3, <1>4, Rids, NoMove
<1> QED
  BY <1>5, <1>6 DEF MovesX

LEMMA WipeMoves ==
  ASSUME StartInv, WordInv, Wipe, lapsed' = {} PROVE WordInv' /\ MovesX(View, View')
<1>1. ~Busy(C) /\ up[M] = "down"
  BY DEF Wipe, Note
<1>2. /\ UNCHANGED <<up, kq, evq, buf, now>>
      /\ cache' = [cache EXCEPT ![M] = [r \in RID |-> IF r = M THEN Profile ELSE None]]
  BY DEF Wipe
<1>3. cache'[C] = cache[C] /\ cache'[M] = [r \in RID |-> IF r = M THEN Profile ELSE None]
  BY <1>2, Rids DEF StartInv, TypeInv, Held
<1>4. cache'[M][C] = None /\ cache'[M][E1] = None /\ cache'[M][E2] = None
  BY <1>3, Rids
<1>5. /\ kq[C] = <<>> /\ evq[C] = <<>> /\ buf[C] = <<>>
      /\ kq[M] = <<>> /\ evq[M] = <<>> /\ buf[M] = <<>>
  BY <1>1, Rids DEF Busy, StartInv, TypeInv, WordInv
<1>6. WordInv'
  <2>1. \A n \in Node, e \in Edge : cache'[n][e] # None => cache'[n][e].st \in EdgeState
    BY <1>3, <1>4, Rids DEF WordInv
  <2> QED
    BY <1>2, <2>1 DEF WordInv
<1>7. PICK v : v = View
  OBVIOUS
<1>8. PICK w : w = View'
  OBVIOUS
<1>9. /\ SameC(v, w) /\ w.now = v.now /\ ~w.on /\ ~w.mc /\ w.m1 = None /\ w.m2 = None
      /\ SameMail(v, w) /\ w.kc = v.kc
  <2>1. SameC(v, w) /\ SameMail(v, w) /\ w.kc = v.kc /\ w.now = v.now
    BY <1>2, <1>3, <1>7, <1>8, ViewFields, ViewFieldsNext DEF SameC, SameMail
  <2>2. ~w.mc /\ w.m1 = None /\ w.m2 = None
    BY <1>4, <1>8, ViewFieldsNext
  <2>3. ~w.on
    BY <1>1, <1>2, <1>8, ViewFieldsNext
  <2> QED
    BY <2>1, <2>2, <2>3
<1>10. w.kc = <<>> /\ w.wc = <<>> /\ w.d = <<>>
  <2>1. <<>> \o <<>> = <<>> /\ Down(<<>>, <<>>, <<>>) = <<>>
    BY DEF Down
  <2> QED
    BY <1>2, <1>5, <1>8, <2>1, ViewFieldsNext
<1>11. \A x : ~Has(w.kc, x) /\ ~Has(w.wc, x) /\ ~Has(w.d, x)
  BY <1>10, NothingThere
<1> QED
  BY <1>6, <1>7, <1>8, <1>9, <1>11 DEF MovesX, Wiped

LEMMA IntroductionMoves ==
  ASSUME WordInv
  PROVE  /\ Received(C, Introduction) \in Seq(ItemC)
         /\ \E r : Added(kq[C], "FM", 0, r) /\ Added(r, "NM", 0, Received(C, Introduction))
<1>1. PICK f \in ItemC : f = Item(M, "FORGET", None, M) /\ Kind(f) = "FM" /\ Made(f) = 0
  BY Introduced DEF IsPut
<1>2. PICK g \in ItemC : g = Item(M, "NEW", Profile, M) /\ Kind(g) = "NM" /\ Made(g) = 0
  BY Introduced DEF IsPut
<1>3. Received(C, Introduction) = kq[C] \o <<f, g>>
  <2>1. PICK i : i = Introduction
    OBVIOUS
  <2>2. /\ DOMAIN i = 1..2 /\ i[1] = Event(M, "FORGET", None) /\ i[2] = Event(M, "NEW", Profile)
    BY <2>1 DEF Introduction
  <2>3. PICK a : a = [j \in 1..2 |-> Item(i[j].rid, i[j].ev, i[j].man, M)]
    OBVIOUS
  <2>4. a[1] = f /\ a[2] = g
    BY <1>1, <1>2, <2>2, <2>3, Fields
  <2>5. a = <<f, g>>
    <3>1. a \in [1..2 -> ItemC]
      <4>1. \A j \in 1..2 : a[j] \in ItemC
        <5>1. \A j \in 1..2 : j = 1 \/ j = 2
          OBVIOUS
        <5> QED
          BY <2>4, <5>1
      <4> QED
        BY <2>3, <4>1
    <3>2. PICK l \in Nat : l = 2 /\ a \in [1..l -> ItemC]
      BY <3>1
    <3>3. a \in [1..l -> ItemC]
      BY <3>2
    <3>4. a \in Seq(ItemC)
      BY <3>3
    <3>5. Len(a) = l
      BY <3>3, <3>4, LenProperties
    <3> QED
      BY <2>4, <3>2, <3>4, <3>5
  <2> QED
    BY <2>1, <2>2, <2>3, <2>5, Rids DEF Received
<1>4. PICK s \in Seq(ItemC) : s = kq[C]
  BY DEF WordInv
<1>5. s \o <<f, g>> = (s \o <<f>>) \o <<g>> /\ s \o <<f>> \in Seq(ItemC) /\ s \o <<f, g>> \in Seq(ItemC)
  OBVIOUS
<1>6. Added(s, "FM", 0, s \o <<f>>) /\ Added(s \o <<f>>, "NM", 0, (s \o <<f>>) \o <<g>>)
  BY <1>1, <1>2, <1>5, AddView
<1> QED
  BY <1>3, <1>4, <1>5, <1>6

LEMMA HandshakeMoves ==
  ASSUME StartInv, WordInv, HInv(View), NEW n \in Node, Handshake(n)
  PROVE  WordInv' /\ MovesX(View, View')
<1>1. /\ UNCHANGED <<cache, evq, buf, now>> /\ up[n] = "boot"
      /\ up' = [up EXCEPT ![n] = "greeted"] \/ up' = [up EXCEPT ![n] = "stopping"]
      /\ \/ ~MustGreet(n) /\ kq' = kq
         \/ MustGreet(n) /\ kq' = [kq EXCEPT ![C] = Received(C, Introduction)]
         \/ MustGreet(n) /\ up' = [up EXCEPT ![n] = "stopping"] /\ kq' = kq
  BY DEF Handshake, Phase
<1>2. up'[M] # "down" \/ up'[M] = up[M]
  BY <1>1, Rids DEF StartInv, TypeInv, Held
<1>3. n # M => up'[M] = up[M]
  BY <1>1, Rids DEF StartInv, TypeInv, Held
<1>4. CASE kq' = kq /\ (~MustGreet(n) \/ up' = [up EXCEPT ![n] = "stopping"])
  <2>1. WordInv'
    BY <1>1, <1>2, <1>4 DEF WordInv
  <2>2. up'[M] \in {"greeted", "run"} => up[M] \in {"greeted", "run"} \/ Cached(M, C)
    <3>1. CASE n # M
      BY <1>3, <3>1
    <3>2. CASE n = M /\ up' = [up EXCEPT ![n] = "stopping"]
      BY <3>2, Rids DEF StartInv, TypeInv, Held
    <3>3. CASE n = M /\ ~MustGreet(n)
      <4>1. Cached(M, C) \/ cache[M][E2] # None
        BY <3>3, Rids DEF MustGreet, Cached, E2
      <4>2. ~View.mc => View.m2 = None
        BY DEF HInv, G0
      <4> QED
        BY <4>1, <4>2, ViewFields DEF Cached
    <3> QED
      BY <1>4, <3>1, <3>2, <3>3
  <2>3. Rests(View, View')
    BY <1>1, <1>4, <2>2, NoMove
  <2> QED
    BY <2>1, <2>3 DEF MovesX
<1>5. CASE MustGreet(n) /\ kq' = [kq EXCEPT ![C] = Received(C, Introduction)]
  <2>1. n = M /\ ~Cached(M, C) /\ cache[M][E2] = None
    BY <1>5 DEF MustGreet, Cached, E2
  <2>2. kq'[C] = Received(C, Introduction) /\ kq'[M] = kq[M]
    BY <1>5, Rids DEF StartInv, TypeInv
  <2>3. up'[M] # "down"
    BY <1>1, <2>1, Rids DEF StartInv, TypeInv, Held
  <2>4. WordInv'
    BY <1>1, <2>2, <2>3, IntroductionMoves DEF WordInv
  <2>5. PICK v : v = View
    OBVIOUS
  <2>6. PICK w : w = View'
    OBVIOUS
  <2>7. /\ SameC(v, w) /\ SameM(v, w) /\ SameMail(v, w) /\ w.now = v.now
        /\ ~v.mc /\ v.m2 = None
    BY <1>1, <2>1, <2>2, <2>5, <2>6, ViewFields, ViewFieldsNext DEF SameC, SameM, SameMail, Cached
  <2>8. v.kc = kq[C] /\ w.kc = Received(C, Introduction)
    BY <2>2, <2>5, <2>6, ViewFields, ViewFieldsNext
  <2>9. Introduces(v, w)
    BY <2>7, <2>8, IntroductionMoves DEF Introduces
  <2> QED
    BY <2>4, <2>5, <2>6, <2>9 DEF MovesX
<1> QED
  BY <1>1, <1>4, <1>5

(* What C looks up at M, and what becomes of it.                           *)
LEMMA CopiesOfM ==
  ASSUME StartInv, WordInv, NEW o \in CaughtUp(C)
  PROVE  /\ o \in Seq(ItemC)
         /\ o # <<>> => Cached(M, C)
         /\ \A x, t : Mem(o, x, t) =>
              \E e \in Edge : cache[M][e] # None /\ x = CopyKind(e, cache[M][e].st) /\ t = cache[M][e].ts
<1>1. CASE CatchesUp(C)
  <2>1. PICK S : S = {e \in Edge : Cached(M, e)}
    OBVIOUS
  <2>2. PICK q \in Orders(S) : o = [i \in DOMAIN q |-> Item(q[i], None, cache[M][q[i]], M)]
    BY <1>1, <2>1 DEF CaughtUp
  <2>3. S \in SUBSET Edge /\ \A e \in S : cache[M][e] # None
    BY <2>1 DEF Cached
  <2>4. PICK l \in Nat : DOMAIN q = 1..l /\ \A i \in 1..l : q[i] \in S
    BY <2>2, <2>3, Orderings
  <2>5. ASSUME NEW i \in 1..l
        PROVE  /\ o[i] \in ItemC /\ q[i] \in Edge /\ cache[M][q[i]] # None
               /\ Kind(o[i]) = CopyKind(q[i], cache[M][q[i]].st) /\ Made(o[i]) = cache[M][q[i]].ts
    <3>1. q[i] \in Edge /\ cache[M][q[i]] # None
      BY <2>3, <2>4
    <3>2. q[i] \in RID
      BY <3>1, EdgeIsNoNode
    <3>3. cache[M][q[i]] \in Man /\ cache[M][q[i]].st \in EdgeState
      BY <3>1, <3>2, Rids DEF StartInv, TypeInv, Held, WordInv
    <3>4. o[i] = Item(q[i], None, cache[M][q[i]], M)
      BY <2>2, <2>4
    <3>5. IsPut(o[i], ItemC, CopyKind(q[i], cache[M][q[i]].st), cache[M][q[i]].ts)
      BY <3>1, <3>3, <3>4, Looked
    <3> QED
      BY <3>1, <3>5 DEF IsPut
  <2>6. o \in [1..l -> ItemC]
    BY <2>2, <2>4, <2>5
  <2>7. o \in Seq(ItemC)
    BY <2>6
  <2>8. Len(o) = l
    BY <2>6, <2>7, LenProperties
  <2>9. ASSUME NEW x, NEW t, Mem(o, x, t)
        PROVE  \E e \in Edge : cache[M][e] # None /\ x = CopyKind(e, cache[M][e].st) /\ t = cache[M][e].ts
    <3>1. PICK i \in 1..l : Kind(o[i]) = x /\ Made(o[i]) = t
      BY <2>8, <2>9 DEF Mem
    <3> QED
      BY <2>5, <3>1
  <2> QED
    BY <1>1, <2>7, <2>9 DEF CatchesUp, Answers
<1>2. CASE ~CatchesUp(C)
  <2>1. o = <<>>
    BY <1>2 DEF CaughtUp
  <2> QED
    BY <2>1, NothingThere
<1> QED
  BY <1>1, <1>2

LEMMA StartOfC ==
  ASSUME StartInv, WordInv, FinishStart(C)
  PROVE  WordInv' /\ MovesX(View, View')
<1>1. PICK a : a = (IF Cached(C, M) THEN Contact(C, M, cache[C]) ELSE <<>>)
  OBVIOUS
<1>2. a = <<>>
  BY <1>1, Rids DEF Contact
<1>3. /\ UNCHANGED <<cache, evq, buf>> /\ now' = now + Len(a) /\ up[C] = "greeted"
      /\ \E ph \in {"run", "stopping"} : up' = [up EXCEPT ![C] = ph]
      /\ \/ kq' = [kq EXCEPT ![C] = (kq[C] \o a) \o <<>>]
         \/ \E q \in CaughtUp(C) : kq' = [kq EXCEPT ![C] = (kq[C] \o a) \o q]
  BY <1>1, Rids DEF FinishStart, Phase
<1>4. kq[C] \o a = kq[C] /\ (kq[C] \o a) \o <<>> = kq[C] /\ now' = now
  <2>1. now + Len(<<>>) = now
    BY EmptySeq DEF StartInv, TypeInv, Held
  <2>2. kq[C] \o <<>> = kq[C]
    BY ConcatEmptySeq DEF WordInv
  <2> QED
    BY <1>2, <1>3, <2>1, <2>2
<1>5. up'[M] = up[M]
  BY <1>3, Rids DEF StartInv, TypeInv, Held
<1>6. CASE kq' = [kq EXCEPT ![C] = (kq[C] \o a) \o <<>>]
  <2>1. kq'[C] = kq[C] /\ kq'[M] = kq[M]
    BY <1>4, <1>6, Rids DEF StartInv, TypeInv
  <2>2. WordInv'
    BY <1>3, <1>5, <2>1 DEF WordInv
  <2>3. Rests(View, View')
    BY <1>3, <1>4, <1>5, <2>1, NoMove
  <2> QED
    BY <2>2, <2>3 DEF MovesX
<1>7. CASE \E q \in CaughtUp(C) : kq' = [kq EXCEPT ![C] = (kq[C] \o a) \o q]
  <2>1. PICK q \in CaughtUp(C) : kq' = [kq EXCEPT ![C] = kq[C] \o q]
    BY <1>4, <1>7
  <2>2. /\ q \in Seq(ItemC) /\ (q # <<>> => Cached(M, C))
        /\ \A x, t : Mem(q, x, t) =>
             \E e \in Edge : cache[M][e] # None /\ x = CopyKind(e, cache[M][e].st) /\ t = cache[M][e].ts
    BY CopiesOfM
  <2>3. PICK s \in Seq(ItemC) : s = kq[C]
    BY DEF WordInv
  <2>4. kq'[C] = s \o q /\ kq'[M] = kq[M]
    BY <2>1, <2>3, Rids DEF StartInv, TypeInv
  <2>5. WordInv'
    <3>1. s \o q \in Seq(ItemC)
      BY <2>2, ConcatProperties
    <3> QED
      BY <1>3, <1>5, <2>4, <3>1 DEF WordInv
  <2>6. CASE q = <<>>
    <3>1. kq'[C] = kq[C]
      BY <2>3, <2>4, <2>6, ConcatEmptySeq
    <3>2. Rests(View, View')
      BY <1>3, <1>4, <1>5, <2>4, <3>1, NoMove
    <3> QED
      BY <2>5, <3>2 DEF MovesX
  <2>7. CASE q # <<>>
    <3>1. PICK v : v = View
      OBVIOUS
    <3>2. PICK w : w = View'
      OBVIOUS
    <3>3. /\ v.mc /\ SameC(v, w) /\ SameM(v, w) /\ SameMail(v, w) /\ SameTime(v, w)
      <4>1. v.mc
        BY <2>2, <2>7, <3>1, ViewFields DEF Cached
      <4>2. SameC(v, w) /\ SameM(v, w)
        BY <1>3, <1>5, <3>1, <3>2, ViewFields, ViewFieldsNext DEF SameC, SameM
      <4>3. SameMail(v, w)
        BY <1>3, <1>5, <2>4, <3>1, <3>2, ViewFields, ViewFieldsNext DEF SameMail
      <4>4. SameTime(v, w)
        BY <1>3, <1>4, <1>5, <3>1, <3>2, ViewFields, ViewFieldsNext DEF SameTime
      <4> QED
        BY <4>1, <4>2, <4>3, <4>4
    <3>4. /\ v.kc = s /\ w.kc = s \o q /\ v.m1 = cache[M][E1] /\ v.m2 = cache[M][E2]
      BY <2>3, <2>4, <3>1, <3>2, ViewFields, ViewFieldsNext
    <3>5. \A e \in Edge : cache[M][e] # None => cache[M][e].st \in EdgeState
      BY Rids DEF WordInv
    <3>6. ASSUME NEW x, NEW t, Mem(q, x, t)
          PROVE  /\ x \in {"CP1", "CA1", "CP2", "CA2"}
                 /\ x = "CP1" => Is(v.m1, "PROPOSED") /\ t = v.m1.ts
                 /\ x = "CA1" => Is(v.m1, "APPROVED") /\ t = v.m1.ts
                 /\ x = "CP2" => Is(v.m2, "PROPOSED") /\ t = v.m2.ts
                 /\ x = "CA2" => Is(v.m2, "APPROVED") /\ t = v.m2.ts
      <4>1. PICK e \in Edge : /\ cache[M][e] # None /\ x = CopyKind(e, cache[M][e].st)
                              /\ t = cache[M][e].ts
        BY <2>2, <3>6
      <4>2. CASE e = E1
        BY <3>4, <3>5, <4>1, <4>2 DEF CopyKind, Is, EdgeState
      <4>3. CASE e = E2
        BY <3>4, <3>5, <4>1, <4>3, Rids DEF CopyKind, Is, EdgeState
      <4> QED
        BY <4>2, <4>3, Rids
    <3>7. \A x : Has(q, x) => x \in {"CP1", "CA1", "CP2", "CA2"}
      BY <3>6 DEF Has, Mem
    <3>8. Extended(v.kc, w.kc, {"CP1", "CA1", "CP2", "CA2"})
      BY <2>2, <3>4, <3>7, ExtendView
    <3>9. \A x, t : Mem(w.kc, x, t) <=> Mem(v.kc, x, t) \/ Mem(q, x, t)
      BY <2>2, <3>4, JoinMem
    <3>10. Syncs(v, w)
      BY <3>3, <3>6, <3>8, <3>9 DEF Syncs
    <3> QED
      BY <2>5, <3>1, <3>2, <3>10 DEF MovesX
  <2> QED
    BY <2>6, <2>7
<1> QED
  BY <1>3, <1>6, <1>7

LEMMA StartOfM ==
  ASSUME StartInv, WordInv, FinishStart(M)
  PROVE  WordInv' /\ MovesX(View, View')
<1>1. PICK a : a = (IF Cached(M, C) THEN Contact(M, C, cache[M]) ELSE <<>>)
  OBVIOUS
<1>2. /\ UNCHANGED <<cache, evq, buf>> /\ now' = now + Len(a) /\ up[M] = "greeted"
      /\ \E ph \in {"run", "stopping"} : up' = [up EXCEPT ![M] = ph]
      /\ kq' = [kq EXCEPT ![M] = (kq[M] \o a) \o <<>>]
  BY <1>1, Rids DEF FinishStart, Phase, CaughtUp, CatchesUp
<1>3. up'[M] # "down"
  BY <1>2, Rids DEF StartInv, TypeInv, Held
<1>4. PICK s \in Seq(ItemM) : s = kq[M]
  BY DEF WordInv
<1>5. PICK b \in Seq(EventC) : b = buf[C]
  BY DEF WordInv
<1>6. PICK e \in Seq(EventC) : e = evq[C]
  BY DEF WordInv
<1>7. now \in Nat
  BY DEF StartInv, TypeInv, Held
<1>8. CASE Cached(M, C) /\ cache[M][E2] = None
  <2>1. PICK h : h = Item(E2, None, EdgeBundle("PROPOSED", now + 1), None)
    OBVIOUS
  <2>2. h \in ItemM /\ Kind(h) = "P2" /\ Made(h) = now + 1
    BY <1>7, <2>1, PushedByM DEF IsPut
  <2>3. a = <<h>>
    BY <1>1, <1>8, <2>1 DEF Contact, E2
  <2>4. now' = now + 1
    BY <1>2, <2>3
  <2>5. s \o <<h>> \in Seq(ItemM)
    <3>1. <<h>> \in Seq(ItemM)
      BY <2>2
    <3> QED
      BY <3>1, ConcatProperties
  <2>6. kq'[M] = s \o <<h>> /\ kq'[C] = kq[C]
    <3>1. kq' = [kq EXCEPT ![M] = s \o <<h>>]
      BY <1>2, <1>4, <2>3, <2>5, ConcatEmptySeq
    <3> QED
      BY <3>1, Rids DEF StartInv, TypeInv
  <2>7. WordInv'
    BY <1>2, <1>3, <2>5, <2>6 DEF WordInv
  <2>8. PICK v : v = View
    OBVIOUS
  <2>9. PICK w : w = View'
    OBVIOUS
  <2>10. v.d = Down(s, b, e) /\ w.d = Down(s \o <<h>>, b, e)
    BY <1>2, <1>4, <1>5, <1>6, <2>6, <2>8, <2>9, ViewFields, ViewFieldsNext
  <2>11. Inserted(v.d, "P2", now + 1, w.d)
    BY <2>2, <2>10, DownInsert DEF OwnM
  <2>12. /\ v.mc /\ v.m2 = None /\ SameC(v, w) /\ SameM(v, w) /\ w.wc = v.wc /\ w.kc = v.kc
         /\ w.on => v.on
         /\ w.now = now + 1 /\ w.now = v.now + 1
    BY <1>2, <1>8, <2>4, <2>6, <2>8, <2>9, ViewFields, ViewFieldsNext DEF SameC, SameM, Cached
  <2>13. Contacts(v, w)
    BY <2>11, <2>12 DEF Contacts
  <2> QED
    BY <2>7, <2>8, <2>9, <2>13 DEF MovesX
<1>9. CASE ~(Cached(M, C) /\ cache[M][E2] = None)
  <2>1. a = <<>>
    BY <1>1, <1>9 DEF Contact, E2
  <2>2. now' = now
    BY <1>2, <1>7, <2>1, EmptySeq
  <2>3. kq'[M] = kq[M] /\ kq'[C] = kq[C]
    <3>1. s \o <<>> = s
      BY ConcatEmptySeq
    <3>2. kq' = [kq EXCEPT ![M] = s]
      BY <1>2, <1>4, <2>1, <3>1
    <3> QED
      BY <1>4, <3>2, Rids DEF StartInv, TypeInv
  <2>4. WordInv'
    BY <1>2, <1>3, <2>3 DEF WordInv
  <2>5. Rests(View, View')
    BY <1>2, <2>2, <2>3, NoMove
  <2> QED
    BY <2>4, <2>5 DEF MovesX
<1> QED
  BY <1>8, <1>9

-----------------------------------------------------------------------------
(* Each step is a move of the view, as long as nothing lapses.             *)
Moves(v, w) == MovesC(v, w) \/ MovesM(v, w) \/ MovesX(v, w)

LEMMA NextMoves ==
  ASSUME StartInv, WordInv, HInv(View), [Next]_vars, lapsed' = {}
  PROVE  WordInv' /\ Moves(View, View')
<1>1. CASE UNCHANGED vars
  <2>1. UNCHANGED <<up, cache, kq, evq, buf, now>>
    BY <1>1 DEF vars
  <2>2. WordInv'
    BY <2>1 DEF WordInv
  <2>3. Rests(View, View')
    BY <2>1, NoMove
  <2> QED
    BY <2>2, <2>3 DEF Moves, MovesX
<1>2. ASSUME NEW n \in Node, Process(n) PROVE WordInv' /\ Moves(View, View')
  BY <1>2, StepOfC, StepOfM, Rids DEF Moves
<1>3. ASSUME NEW n \in Node, Route(n) PROVE WordInv' /\ Moves(View, View')
  BY <1>3, RouteAtC, RouteAtM, Rids DEF Moves
<1>4. ASSUME NEW n \in Node, FinishStart(n) PROVE WordInv' /\ Moves(View, View')
  BY <1>4, StartOfC, StartOfM, Rids DEF Moves
<1> QED
  BY <1>1, <1>2, <1>3, <1>4, FlushMoves, PollMoves, HaltMoves, BootStopMoves, CrashMoves,
     WipeMoves, HandshakeMoves DEF Next, Work, Moves

-----------------------------------------------------------------------------
(* The moves keep the invariant. The clauses that take more than one leaf  *)
(* come first.                                                             *)

LEMMA ApartLearnsM ==
  ASSUME NEW v, NEW w, ViewOK(v), ViewOK(w), HInv(v), E1Inv(v), E2Inv(v), LearnsM(v, w)
  PROVE  Apart1(w)
<1>1. \A t : Mem(w.kc, "P1", t) => Mem(v.kc, "P1", t) \/ t = w.now
  BY DEF LearnsM, Popped, Added
<1>2. \A x, t : /\ x # "P1" /\ x # "F1" /\ Mem(w.kc, x, t) => Mem(v.kc, x, t)
                /\ x # "NC" /\ Mem(w.d, x, t) => Mem(v.d, x, t)
  BY DEF LearnsM, Popped, Added
<1>3. \A t : Proposed1(w, t) => Proposed1(v, t) \/ t = w.now
  BY <1>1, <1>2 DEF LearnsM, SameM, Proposed1
<1>4. \A t : Approved1(w, t) => Approved1(v, t)
  BY <1>2 DEF LearnsM, SameM, Approved1, UMem
<1>5. \A t : Approved1(v, t) => t <= v.now
  BY DEF Approved1, E1Inv, Clock1, Kinds1, Is, UMem
<1>6. v.now \in Nat /\ w.now = v.now + 1
  BY DEF LearnsM, ViewOK
<1>7. \A t : ~(Proposed1(v, t) /\ Approved1(v, t))
  BY DEF E1Inv, Apart1
<1>8. ASSUME NEW t, Proposed1(w, t), Approved1(w, t) PROVE FALSE
  <2>1. t <= v.now /\ t = w.now
    BY <1>3, <1>4, <1>5, <1>7, <1>8
  <2> QED
    BY <1>6, <2>1
<1> QED
  BY <1>8 DEF Apart1

LEMMA OpenForgets2C ==
  ASSUME NEW v, NEW w, ViewOK(v), ViewOK(w), HInv(v), E1Inv(v), E2Inv(v), Forgets2C(v, w)
  PROVE  O3(w)
<1>1. Has(v.kc, "F2")
  BY DEF Forgets2C, Popped
<1>2. \A t : ~Granted2(v, t)
  BY <1>1 DEF E2Inv, L1
<1>3. ~Has(v.d, "A2")
  BY <1>2 DEF Granted2, ViewOK, Lexicon
<1>4. ~Is(v.m2, "APPROVED")
  BY <1>2 DEF Granted2
<1>5. ~Has(w.d, "A2") /\ w.c2 = None /\ w.m2 = v.m2
  BY <1>3 DEF Forgets2C, Added, SameM
<1> QED
  BY <1>4, <1>5 DEF O3, Is

LEMMA FreshApproves2C ==
  ASSUME NEW v, NEW w, ViewOK(v), ViewOK(w), HInv(v), E1Inv(v), E2Inv(v), Approves2C(v, w)
  PROVE  Fresh2(w)
<1>1. /\ Late(v.kc, Kinds2, "A2") /\ Late(v.d, Kinds2, "P2") /\ "A2" \in Kinds2
      /\ v.m2 # None => \A t : Mem(v.d, "P2", t) => t > v.m2.ts
  BY DEF E2Inv, Fresh2, Granted2, Kinds2
<1>2. Late(w.kc, Kinds2, "A2") /\ \A t : Mem(w.kc, "A2", t) => t > w.c2.ts
  BY <1>1 DEF Approves2C, Popped
<1>3. Late(w.d, Kinds2, "P2")
  BY <1>1 DEF Approves2C, Added
<1>4. w.m2 # None => \A t : Mem(w.d, "P2", t) => t > w.m2.ts
  BY <1>1 DEF Approves2C, Added, SameM
<1>5. ASSUME NEW s, NEW t, Granted2(w, s), Mem(w.kc, "A2", t) PROVE t > s
  <2>1. Granted2(v, s) \/ s = w.c2.ts
    BY <1>5 DEF Granted2, Approves2C, Added, Popped, SameM
  <2>2. Mem(v.kc, "A2", t)
    BY <1>5 DEF Approves2C, Popped
  <2> QED
    BY <1>2, <1>5, <2>1, <2>2 DEF E2Inv, Fresh2, Granted2
<1> QED
  BY <1>2, <1>3, <1>4, <1>5 DEF Fresh2, Granted2

(* The clock moves on.                                                     *)
LEMMA ClockLearns2C ==
  ASSUME NEW v, NEW w, ViewOK(v), ViewOK(w), HInv(v), E1Inv(v), E2Inv(v), Learns2C(v, w)
  PROVE  Clock2(w) /\ Fresh2(w)
<1>1. PICK r : Popped(v.kc, "P2", w.c2.ts, r) /\ Added(r, "A2", w.now, w.kc)
  BY DEF Learns2C
<1>2. Mem(v.kc, "P2", w.c2.ts) /\ \A x, t : Mem(r, x, t) => Mem(v.kc, x, t)
  BY <1>1 DEF Popped
<1>3. \A x, t : Mem(w.kc, x, t) => Mem(r, x, t) \/ (x = "A2" /\ t = w.now)
  BY <1>1 DEF Added
<1>4. /\ v.now \in Nat /\ w.now = v.now + 1 /\ w.wc = v.wc /\ w.d = v.d /\ w.m2 = v.m2
      /\ w.c2.ts \in Nat
  BY <1>2 DEF Learns2C, SameMail, SameM, ViewOK, Lexicon
<1>5. \A x \in Kinds2 : \A t : (UMem(v, x, t) \/ Mem(v.d, x, t)) => t <= v.now /\ t \in Nat
  BY DEF E2Inv, Clock2, UMem, ViewOK, Lexicon
<1>6. \A x \in Kinds2 : \A t : Mem(v.kc, x, t) => t <= v.now /\ t \in Nat
  BY <1>5 DEF UMem
<1>7. \A t \in Nat : t <= v.now => t <= w.now /\ w.now > t
  BY <1>4
<1>8. \A x \in Kinds2 : \A t : (UMem(w, x, t) \/ Mem(w.d, x, t)) => t <= w.now
  <2>1. \A x, t : UMem(w, x, t) => UMem(v, x, t) \/ t = w.now
    BY <1>2, <1>3, <1>4 DEF UMem
  <2>2. w.now <= w.now
    BY <1>4
  <2> QED
    BY <1>4, <1>5, <1>7, <2>1, <2>2
<1>9. w.c2.ts <= v.now
  BY <1>2, <1>6 DEF Kinds2
<1>10. w.m2 # None => w.m2.ts <= w.now
  BY <1>4, <1>7 DEF E2Inv, Clock2, ViewOK, EdgeOK
<1>11. Clock2(w)
  BY <1>4, <1>7, <1>8, <1>9, <1>10 DEF Clock2
<1>12. /\ Late(v.kc, Kinds2, "A2") /\ Late(v.d, Kinds2, "P2") /\ "P2" \in Kinds2
       /\ v.m2 # None => \A t : Mem(v.d, "P2", t) => t > v.m2.ts
  BY DEF E2Inv, Fresh2, Granted2, Kinds2
<1>13. Late(r, Kinds2, "A2") /\ \A t : Mem(r, "A2", t) => t > w.c2.ts
  BY <1>1, <1>12 DEF Popped
<1>14. \A x \in Kinds2 : \A u : Mem(r, x, u) => w.now > u
  BY <1>2, <1>6, <1>7
<1>15. Late(w.kc, Kinds2, "A2")
  BY <1>1, <1>13, <1>14 DEF Added
<1>16. \A t : Mem(w.kc, "A2", t) => t > w.c2.ts
  BY <1>3, <1>4, <1>7, <1>9, <1>13
<1>17. ASSUME NEW s, NEW t, Granted2(w, s), Mem(w.kc, "A2", t) PROVE t > s
  <2>1. Granted2(v, s)
    BY <1>2, <1>3, <1>4, <1>17 DEF Granted2
  <2>2. s <= v.now /\ s \in Nat
    BY <1>5, <1>6, <2>1 DEF E2Inv, Clock2, Granted2, Is, ViewOK, EdgeOK, Kinds2
  <2>3. Mem(v.kc, "A2", t) \/ t = w.now
    BY <1>2, <1>3, <1>17
  <2> QED
    BY <1>7, <2>1, <2>2, <2>3 DEF E2Inv, Fresh2, Granted2
<1> QED
  BY <1>4, <1>11, <1>12, <1>15, <1>16, <1>17 DEF Fresh2, Granted2

LEMMA ClockLearns1M ==
  ASSUME NEW v, NEW w, ViewOK(v), ViewOK(w), HInv(v), E1Inv(v), E2Inv(v), Learns1M(v, w)
  PROVE  Clock1(w) /\ Fresh1(w)
<1>1. PICK r : Popped(v.d, "P1", w.m1.ts, r) /\ Inserted(r, "A1", w.now, w.d)
  BY DEF Learns1M
<1>2. Mem(v.d, "P1", w.m1.ts) /\ \A x, t : Mem(r, x, t) => Mem(v.d, x, t)
  BY <1>1 DEF Popped
<1>3. \A x, t : Mem(w.d, x, t) => Mem(r, x, t) \/ (x = "A1" /\ t = w.now)
  BY <1>1 DEF Inserted
<1>4. /\ v.now \in Nat /\ w.now = v.now + 1 /\ w.wc = v.wc /\ w.kc = v.kc /\ w.c1 = v.c1
      /\ w.m1.ts \in Nat
  BY <1>2 DEF Learns1M, SameC, ViewOK, Lexicon
<1>5. \A x \in Kinds1 : \A t : (UMem(v, x, t) \/ Mem(v.d, x, t)) => t <= v.now /\ t \in Nat
  BY DEF E1Inv, Clock1, UMem, ViewOK, Lexicon
<1>6. \A t \in Nat : t <= v.now => t <= w.now /\ w.now > t
  BY <1>4
<1>7. \A x \in Kinds1 : \A t : (UMem(w, x, t) \/ Mem(w.d, x, t)) => t <= w.now
  <2>1. \A x, t : UMem(w, x, t) => UMem(v, x, t)
    BY <1>4 DEF UMem
  <2>2. \A x, t : Mem(w.d, x, t) => Mem(v.d, x, t) \/ t = w.now
    BY <1>2, <1>3
  <2>3. w.now <= w.now
    BY <1>4
  <2> QED
    BY <1>5, <1>6, <2>1, <2>2, <2>3
<1>8. w.m1.ts <= v.now
  BY <1>2, <1>5 DEF Kinds1
<1>9. w.c1 # None => w.c1.ts <= w.now
  BY <1>4, <1>6 DEF E1Inv, Clock1, ViewOK, EdgeOK
<1>10. Clock1(w)
  BY <1>4, <1>6, <1>7, <1>8, <1>9 DEF Clock1
<1>11. Late(v.kc, Kinds1, "P1") /\ Late(v.d, Kinds1, "A1") /\ "P1" \in Kinds1
  BY DEF E1Inv, Fresh1, Kinds1
<1>12. Late(r, Kinds1, "A1") /\ \A t : Mem(r, "A1", t) => t > w.m1.ts
  BY <1>1, <1>11 DEF Popped
<1>13. \A x \in Kinds1 : \A u : Mem(r, x, u) => w.now > u
  BY <1>2, <1>5, <1>6
<1>14. Late(w.d, Kinds1, "A1")
  BY <1>1, <1>12, <1>13 DEF Inserted
<1>15. \A t : Mem(w.d, "A1", t) => t > w.m1.ts
  BY <1>3, <1>4, <1>6, <1>8, <1>12
<1> QED
  BY <1>4, <1>10, <1>11, <1>14, <1>15 DEF Fresh1

LEMMA ClockLearns1C ==
  ASSUME NEW v, NEW w, ViewOK(v), ViewOK(w), HInv(v), E1Inv(v), E2Inv(v), Learns1C(v, w)
  PROVE  Clock1(w) /\ X1(w)
<1>1. Popped(v.kc, "A1", w.c1.ts, w.kc)
  BY DEF Learns1C
<1>2. /\ w.wc = v.wc /\ w.d = v.d /\ w.m1 = v.m1 /\ w.mc = v.mc /\ w.now = v.now /\ w.cm = v.cm
      /\ v.c1 = None \/ w.c1.ts > v.c1.ts
  BY DEF Learns1C, SameMail, SameM, SameTime, Newer
<1>3. Mem(v.kc, "A1", w.c1.ts) /\ \A x, t : Mem(w.kc, x, t) => Mem(v.kc, x, t)
  BY <1>1 DEF Popped
<1>4. "A1" \in Kinds1 /\ w.c1.ts \in Nat
  BY <1>3 DEF Kinds1, ViewOK, Lexicon
<1>5. Clock1(w)
  <2>1. \A x, t : UMem(w, x, t) => UMem(v, x, t)
    BY <1>2, <1>3 DEF UMem
  <2>2. w.c1.ts <= w.now
    BY <1>2, <1>3, <1>4 DEF E1Inv, Clock1, UMem
  <2> QED
    BY <1>2, <2>1, <2>2 DEF E1Inv, Clock1
<1>6. X1(w)
  <2> SUFFICES ASSUME NEW t, Mem(w.kc, "P1", t), Is(w.m1, "APPROVED"), w.m1.ts > t
               PROVE  \E u \in Nat : u > t /\ UMem(w, "A1", u)
    BY DEF X1
  <2>1. Mem(v.kc, "P1", t) /\ t \in Nat
    BY <1>3 DEF ViewOK, Lexicon
  <2>2. PICK u \in Nat : u > t /\ UMem(v, "A1", u)
    BY <1>2, <2>1 DEF E1Inv, X1
  <2>3. t > w.c1.ts
    BY <1>1, <1>4 DEF E1Inv, Fresh1, Popped
  <2>4. u # w.c1.ts
    BY <1>4, <2>1, <2>2, <2>3
  <2>5. UMem(w, "A1", u)
    BY <1>1, <1>2, <2>2, <2>4 DEF UMem, Popped
  <2> QED
    BY <2>2, <2>5
<1> QED
  BY <1>5, <1>6

LEMMA UnknownCarriesToC ==
  ASSUME NEW v, NEW w, ViewOK(v), ViewOK(w), HInv(v), E1Inv(v), E2Inv(v), CarriesToC(v, w)
  PROVE  G0(w) /\ G3(w)
<1>1. /\ w.d = v.d /\ w.mc = v.mc /\ w.m1 = v.m1 /\ w.m2 = v.m2 /\ w.cm = v.cm
      /\ \A x : UHas(w, x) <=> UHas(v, x)
      /\ Has(w.kc, "NM") <=> Has(v.kc, "NM")
  BY DEF CarriesToC, SameM, SameC, Extended, SentM
<1>2. \A x : Has(w.wc, x) => x \in {"P2", "A1"}
  BY DEF ViewOK, Lexicon, SentM
<1>3. ASSUME ~v.mc PROVE \A x : Has(w.kc, x) \/ Has(w.wc, x) => Has(v.kc, x)
  BY <1>1, <1>3 DEF HInv, G0, UHas
<1>4. G0(w)
  BY <1>1, <1>2, <1>3 DEF HInv, G0
<1>5. G3(w)
  BY <1>1, <1>3 DEF HInv, G3, Comes
<1> QED
  BY <1>4, <1>5

(* One lemma for each move.                                                *)
LEMMA AfterRests ==
  ASSUME NEW v, NEW w, ViewOK(v), ViewOK(w), HInv(v), E1Inv(v), E2Inv(v), Rests(v, w)
  PROVE  HInv(w) /\ E1Inv(w) /\ E2Inv(w)
<1>1. HInv(w)
  BY DEF Rests, SameC, SameM, SameMail, HInv, S1, S2, S3, G0, G1, G2, G3, R1, O1, O2,
    Comes, Redo, Heard
<1>2. E1Inv(w)
  BY DEF Rests, SameC, SameM, SameMail, E1Inv, Clock1, Fresh1, Apart1, T1, J1, X1, Q1,
    Comes, Redo, Heard, UMem, Is, Proposed1, Approved1, Coming1
<1>3. E2Inv(w)
  BY DEF Rests, SameC, SameM, SameMail, E2Inv, Clock2, Fresh2, Apart2, Q2, J2, N2, X2,
    O3, L1, L2, Comes, UHas, UMem, Is, Proposed2, Approved2, Granted2
<1> QED
  BY <1>1, <1>2, <1>3

LEMMA AfterCarriesToC ==
  ASSUME NEW v, NEW w, ViewOK(v), ViewOK(w), HInv(v), E1Inv(v), E2Inv(v), CarriesToC(v, w)
  PROVE  HInv(w) /\ E1Inv(w) /\ E2Inv(w)
<1>1. S1(w) /\ S2(w)
  BY DEF CarriesToC, Extended, SameC, SameM, HInv, S1, S2, SentM
<1>2. S3(w)
  BY DEF CarriesToC, Extended, SameC, SameM, HInv, S3, SentM
<1>3. G1(w)
  BY DEF CarriesToC, Extended, SameC, SameM, HInv, G1, SentM
<1>4. G2(w)
  BY DEF CarriesToC, Extended, SameC, SameM, HInv, G2, Comes, Heard
<1>5. R1(w) /\ O1(w) /\ O2(w)
  BY DEF CarriesToC, Extended, SameC, SameM, HInv, R1, O1, O2, Comes, Redo, SentM
<1>6. G0(w) /\ G3(w)
  BY UnknownCarriesToC
<1>7. E1Inv(w)
  BY DEF CarriesToC, Extended, SameC, SameM, E1Inv, Clock1, Fresh1, Apart1, T1, J1, X1,
    Q1, Comes, Redo, Heard, UMem, Is, Proposed1, Approved1, Coming1, SentM
<1>8. Clock2(w) /\ Fresh2(w) /\ Apart2(w) /\ Q2(w) /\ J2(w)
  BY DEF CarriesToC, Extended, SameC, SameM, E2Inv, Clock2, Fresh2, Granted2, Apart2,
    Q2, J2, UMem, Is, Proposed2, Approved2, SentM
<1>9. N2(w) /\ X2(w) /\ O3(w) /\ L1(w) /\ L2(w)
  BY DEF CarriesToC, Extended, SameC, SameM, E2Inv, N2, X2, O3, L1, L2, Comes, UHas, Is,
    Granted2, SentM
<1> QED
  BY <1>1, <1>2, <1>3, <1>4, <1>5, <1>6, <1>7, <1>8, <1>9 DEF HInv, E2Inv

LEMMA AfterCarriesToM ==
  ASSUME NEW v, NEW w, ViewOK(v), ViewOK(w), HInv(v), E1Inv(v), E2Inv(v), CarriesToM(v, w)
  PROVE  HInv(w) /\ E1Inv(w) /\ E2Inv(w)
<1>1. HInv(w)
  BY DEF CarriesToM, SameC, SameM, SameTime, HInv, S1, S2, S3, G0, G1, G2, G3, R1, O1,
    O2, Comes, Redo, Heard
<1>2. E1Inv(w)
  BY DEF CarriesToM, SameC, SameM, SameTime, E1Inv, Clock1, Fresh1, Apart1, T1, J1, X1,
    Q1, Comes, Redo, Heard, UMem, Is, Proposed1, Approved1, Coming1
<1>3. E2Inv(w)
  BY DEF CarriesToM, SameC, SameM, SameTime, E2Inv, Clock2, Fresh2, Apart2, Q2, J2, N2,
    X2, O3, L1, L2, Comes, UHas, UMem, Is, Proposed2, Approved2, Granted2
<1> QED
  BY <1>1, <1>2, <1>3

LEMMA AfterDrops ==
  ASSUME NEW v, NEW w, ViewOK(v), ViewOK(w), HInv(v), E1Inv(v), E2Inv(v), Drops(v, w)
  PROVE  HInv(w) /\ E1Inv(w) /\ E2Inv(w)
<1>1. HInv(w)
  BY DEF Drops, SameC, SameM, SameTime, HInv, S1, S2, S3, G0, G1, G2, G3, R1, O1, O2,
    Comes, Redo, Heard
<1>2. E1Inv(w)
  BY DEF Drops, SameC, SameM, SameTime, HInv, E1Inv, G3, Clock1, Fresh1, Apart1, T1, J1,
    X1, Q1, Comes, Redo, Heard, UMem, Is, Proposed1, Approved1, Coming1, OwnM
<1>3. E2Inv(w)
  BY DEF Drops, SameC, SameM, SameTime, HInv, E2Inv, G3, Clock2, Fresh2, Apart2, Q2, J2,
    N2, X2, O3, L1, L2, Comes, UHas, UMem, Is, Proposed2, Approved2, Granted2, ViewOK,
    Lexicon, OwnM
<1> QED
  BY <1>1, <1>2, <1>3

LEMMA AfterWiped ==
  ASSUME NEW v, NEW w, ViewOK(v), ViewOK(w), HInv(v), E1Inv(v), E2Inv(v), Wiped(v, w)
  PROVE  HInv(w) /\ E1Inv(w) /\ E2Inv(w)
<1>1. HInv(w)
  BY DEF Wiped, SameC, SameM, SameMail, HInv, S1, S2, S3, G0, G1, G2, G3, R1, O1, O2,
    Comes, Redo, Heard
<1>2. E1Inv(w)
  BY DEF Wiped, SameC, SameM, SameMail, E1Inv, Clock1, Fresh1, Apart1, T1, J1, X1, Q1,
    Comes, Redo, Heard, UMem, Is, Proposed1, Approved1, Coming1
<1>3. E2Inv(w)
  BY DEF Wiped, SameC, SameM, SameMail, E2Inv, Clock2, Fresh2, Apart2, Q2, J2, N2, X2,
    O3, L1, L2, Comes, UHas, UMem, Is, Proposed2, Approved2, Granted2
<1> QED
  BY <1>1, <1>2, <1>3

LEMMA AfterIntroduces ==
  ASSUME NEW v, NEW w, ViewOK(v), ViewOK(w), HInv(v), E1Inv(v), E2Inv(v), Introduces(v, w)
  PROVE  HInv(w) /\ E1Inv(w) /\ E2Inv(w)
<1>1. HInv(w)
  BY DEF Introduces, Added, SameC, SameM, SameMail, HInv, S1, S2, S3, G0, G1, G2, G3,
    R1, O1, O2, Comes, Redo, Heard
<1>2. Clock1(w) /\ Fresh1(w) /\ Apart1(w) /\ T1(w)
  BY DEF Introduces, Added, SameC, SameM, SameMail, E1Inv, Clock1, Fresh1, Apart1, T1,
    Comes, Redo, Heard, UMem, Is, Proposed1, Approved1, Coming1, Kinds1
<1>3. J1(w) /\ X1(w) /\ Q1(w)
  BY DEF Introduces, Added, SameC, SameM, SameMail, E1Inv, J1, X1, Q1, Comes, Redo,
    Heard, UMem, Is, Coming1
<1>4. Clock2(w) /\ Fresh2(w) /\ Apart2(w) /\ Q2(w) /\ J2(w)
  BY DEF Introduces, Added, SameC, SameM, SameMail, E2Inv, Clock2, Fresh2, Granted2,
    Apart2, Q2, J2, UMem, Is, Proposed2, Approved2, Kinds2
<1>5. N2(w) /\ X2(w) /\ O3(w) /\ L1(w) /\ L2(w)
  BY DEF Introduces, Added, SameC, SameM, SameMail, HInv, E2Inv, G0, N2, X2, O3, L1, L2,
    Comes, UHas, Is, Granted2, ViewOK, Lexicon
<1> QED
  BY <1>1, <1>2, <1>3, <1>4, <1>5 DEF E1Inv, E2Inv

LEMMA AfterContacts ==
  ASSUME NEW v, NEW w, ViewOK(v), ViewOK(w), HInv(v), E1Inv(v), E2Inv(v), Contacts(v, w)
  PROVE  HInv(w) /\ E1Inv(w) /\ E2Inv(w)
<1>1. HInv(w)
  BY DEF Contacts, Inserted, SameC, SameM, HInv, S1, S2, S3, G0, G1, G2, G3, R1, O1, O2,
    Comes, Redo, Heard
<1>2. E1Inv(w)
  BY DEF Contacts, Inserted, SameC, SameM, E1Inv, Clock1, Fresh1, Apart1, T1, J1, X1,
    Q1, Comes, Redo, Heard, UMem, Is, Proposed1, Approved1, Coming1, ViewOK, Lexicon,
    EdgeOK, Kinds1
<1>3. E2Inv(w)
  BY DEF Contacts, Inserted, SameC, SameM, E2Inv, Clock2, Fresh2, Apart2, Q2, J2, N2,
    X2, O3, L1, L2, Comes, UHas, UMem, Is, Proposed2, Approved2, Granted2, ViewOK,
    Lexicon, EdgeOK, Kinds2
<1> QED
  BY <1>1, <1>2, <1>3

LEMMA AfterSyncs ==
  ASSUME NEW v, NEW w, ViewOK(v), ViewOK(w), HInv(v), E1Inv(v), E2Inv(v), Syncs(v, w)
  PROVE  HInv(w) /\ E1Inv(w) /\ E2Inv(w)
<1>1. HInv(w)
  BY DEF Syncs, Extended, SameC, SameM, SameMail, SameTime, HInv, S1, S2, S3, G0,
    G1, G2, G3, R1, O1, O2, Comes, Redo, Heard
<1>2. Clock1(w) /\ Fresh1(w) /\ Apart1(w) /\ T1(w)
  BY DEF Syncs, Extended, SameC, SameM, SameMail, SameTime, E1Inv, Clock1, Fresh1,
    Apart1, T1, Comes, Redo, Heard, UMem, Is, Proposed1, Approved1, Coming1, Kinds1
<1>3. J1(w) /\ X1(w) /\ Q1(w)
  BY DEF Syncs, Extended, SameC, SameM, SameMail, SameTime, E1Inv, J1, X1, Q1, Comes,
    Redo, Heard, UMem, Is, Coming1
<1>4. E2Inv(w)
  BY DEF Syncs, Extended, SameC, SameM, SameMail, SameTime, E2Inv, Clock2, Fresh2,
    Apart2, Q2, J2, N2, X2, O3, L1, L2, Comes, UHas, UMem, Is, Proposed2, Approved2,
    Granted2, Kinds2
<1> QED
  BY <1>1, <1>2, <1>3, <1>4 DEF E1Inv

LEMMA AfterRefusesC ==
  ASSUME NEW v, NEW w, ViewOK(v), ViewOK(w), HInv(v), E1Inv(v), E2Inv(v), RefusesC(v, w)
  PROVE  HInv(w) /\ E1Inv(w) /\ E2Inv(w)
<1>1. HInv(w)
  BY DEF RefusesC, Popped, SameC, SameM, SameMail, SameTime, HInv, S1, S2, S3, G0, G1,
    G2, G3, R1, O1, O2, Comes, Redo, Heard, Newer, StaleAtC
<1>2. Clock1(w) /\ Fresh1(w) /\ Apart1(w) /\ T1(w)
  BY DEF RefusesC, Popped, SameC, SameM, SameMail, SameTime, HInv, E1Inv, S2, S3,
    Clock1, Fresh1, Apart1, T1, Comes, Redo, Heard, UMem, Is, Proposed1, Approved1,
    Coming1, Newer, StaleAtC
<1>3. J1(w) /\ X1(w) /\ Q1(w)
  BY DEF RefusesC, Popped, SameC, SameM, SameMail, SameTime, HInv, E1Inv, S2, S3,
    Fresh1, J1, X1, Q1, Comes, Redo, Heard, UMem, Is, Coming1, Newer, StaleAtC, ViewOK,
    Lexicon, EdgeOK, EdgeState, Kinds1, Kinds2
<1>4. Clock2(w) /\ Fresh2(w) /\ Apart2(w) /\ Q2(w) /\ J2(w)
  BY DEF RefusesC, Popped, SameC, SameM, SameMail, SameTime, HInv, E2Inv, G1, G3,
    Clock2, Fresh2, Granted2, Apart2, Q2, J2, Comes, UMem, Is, Proposed2, Approved2, Newer,
    StaleAtC, ViewOK, EdgeOK, EdgeState, Kinds2
<1>5. N2(w) /\ X2(w) /\ O3(w) /\ L1(w) /\ L2(w)
  BY DEF RefusesC, Popped, SameC, SameM, SameMail, SameTime, HInv, E2Inv, G1, G3,
    Fresh2, Apart2, Q2, N2, X2, O3, L1, L2, Comes, UHas, UMem, Is, Proposed2, Approved2,
    Granted2, Newer, StaleAtC, ViewOK, EdgeOK, EdgeState, Kinds2
<1> QED
  BY <1>1, <1>2, <1>3, <1>4, <1>5 DEF E1Inv, E2Inv

LEMMA AfterForgetsM ==
  ASSUME NEW v, NEW w, ViewOK(v), ViewOK(w), HInv(v), E1Inv(v), E2Inv(v), ForgetsM(v, w)
  PROVE  HInv(w) /\ E1Inv(w) /\ E2Inv(w)
<1>1. HInv(w)
  BY DEF ForgetsM, Popped, Extended, SameM, SameMail, SameTime, HInv, S1, S2, S3, G0,
    G1, G2, G3, R1, O1, O2, Comes, Redo, Heard
<1>2. Clock1(w) /\ Fresh1(w) /\ Apart1(w)
  BY DEF ForgetsM, Popped, Extended, SameM, SameMail, SameTime, E1Inv, Clock1, Fresh1,
    Apart1, UMem, Is, Proposed1, Approved1, Kinds1
<1>3. J1(w) /\ T1(w)
  <2>1. w.c1 = v.c1 /\ w.m1 = v.m1 /\ w.mc = v.mc /\ w.d = v.d /\ w.wc = v.wc
    BY DEF ForgetsM, SameM, SameMail
  <2>2. \A x, t : x \notin {"FM", "F1", "F2"} => /\ Has(w.kc, x) <=> Has(v.kc, x)
                                                 /\ Mem(w.kc, x, t) <=> Mem(v.kc, x, t)
    BY DEF ForgetsM, Popped, Extended
  <2>3. (Redo(w) <=> Redo(v)) /\ (Heard(w) <=> Heard(v)) /\ \A t : Coming1(w, t) <=> Coming1(v, t)
    BY <2>1, <2>2 DEF Redo, Comes, Heard, Coming1
  <2>4. \A t : UMem(w, "A1", t) <=> UMem(v, "A1", t)
    BY <2>1, <2>2 DEF UMem
  <2> QED
    BY <2>1, <2>3, <2>4 DEF E1Inv, J1, T1
<1>6. X1(w) /\ Q1(w)
  BY DEF ForgetsM, Popped, Extended, SameM, SameMail, E1Inv, X1, Q1, UMem
<1>4. Clock2(w) /\ Fresh2(w) /\ Apart2(w) /\ Q2(w) /\ J2(w)
  BY DEF ForgetsM, Popped, Extended, SameM, SameMail, SameTime, E2Inv, Clock2, Fresh2,
    Granted2, Apart2, Q2, J2, UMem, Is, Proposed2, Approved2, Kinds2
<1>5. N2(w) /\ X2(w) /\ O3(w) /\ L1(w) /\ L2(w)
  BY DEF ForgetsM, Popped, Extended, SameM, SameMail, SameTime, HInv, E2Inv, S1, N2, X2,
    O3, L1, L2, Comes, UHas, Is, Granted2
<1> QED
  BY <1>1, <1>2, <1>3, <1>4, <1>5, <1>6 DEF E1Inv, E2Inv

LEMMA AfterLearnsM ==
  ASSUME NEW v, NEW w, ViewOK(v), ViewOK(w), HInv(v), E1Inv(v), E2Inv(v), LearnsM(v, w)
  PROVE  HInv(w) /\ E1Inv(w) /\ E2Inv(w)
<1>1. HInv(w)
  BY DEF LearnsM, Popped, Added, SameM, HInv, S1, S2, S3, G0, G1, G2, G3, R1, O1, O2,
    Comes, Redo, Heard
<1>2. Clock1(w) /\ Fresh1(w)
  BY DEF LearnsM, Popped, Added, SameM, E1Inv, Clock1, Fresh1, UMem, Is, ViewOK,
    Lexicon, EdgeOK, EdgeState
<1>3. T1(w)
  BY DEF LearnsM, Popped, Added, SameM, E1Inv, T1, Comes, Redo, Heard, Is, Coming1
<1>4. J1(w)
  BY DEF LearnsM, Popped, Added, SameM, E1Inv, J1, Comes, Redo, Heard, UMem, Is, Coming1
<1>5. X1(w)
  BY DEF LearnsM, Popped, Added, SameM, E1Inv, Clock1, X1, UMem, Is, ViewOK, EdgeOK
<1>8. Q1(w)
  BY DEF LearnsM, Popped, Added, SameM, E1Inv, Q1, Is
<1>9. Apart1(w)
  BY ApartLearnsM
<1>10. Clock2(w) /\ Fresh2(w)
  BY DEF LearnsM, Popped, Added, SameM, E2Inv, Clock2, Fresh2, Granted2, UMem, ViewOK,
    Lexicon, EdgeOK, Kinds2
<1>11. Apart2(w)
  BY DEF LearnsM, Popped, Added, SameM, E2Inv, Apart2, UMem, Is, Proposed2, Approved2
<1>12. Q2(w) /\ J2(w)
  BY DEF LearnsM, Popped, Added, SameM, E2Inv, Q2, J2, UMem, Is
<1>13. N2(w) /\ X2(w) /\ O3(w) /\ L1(w) /\ L2(w)
  BY DEF LearnsM, Popped, Added, SameM, E2Inv, N2, X2, O3, L1, L2, Comes, UHas, Is,
    Granted2
<1> QED
  BY <1>1, <1>2, <1>3, <1>4, <1>5, <1>8, <1>9, <1>10, <1>11, <1>12, <1>13 DEF E1Inv, E2Inv

LEMMA AfterForgets1C ==
  ASSUME NEW v, NEW w, ViewOK(v), ViewOK(w), HInv(v), E1Inv(v), E2Inv(v), Forgets1C(v, w)
  PROVE  HInv(w) /\ E1Inv(w) /\ E2Inv(w)
<1>1. HInv(w)
  BY DEF Forgets1C, Popped, Added, SameM, SameTime, HInv, S1, S2, S3, G0, G1, G2, G3,
    R1, O1, O2, Comes, Redo, Heard
<1>2. Clock1(w) /\ Fresh1(w) /\ Apart1(w) /\ T1(w)
  BY DEF Forgets1C, Popped, Added, SameM, SameTime, E1Inv, Clock1, Fresh1, Apart1, T1,
    Comes, Redo, Heard, UMem, Is, Proposed1, Approved1, Coming1, Kinds1
<1>3. J1(w) /\ X1(w) /\ Q1(w)
  BY DEF Forgets1C, Popped, Added, SameM, SameTime, E1Inv, J1, X1, Q1, Comes, Redo,
    Heard, UMem, Is, Coming1
<1>4. Clock2(w) /\ Fresh2(w) /\ Apart2(w) /\ Q2(w) /\ J2(w)
  BY DEF Forgets1C, Popped, Added, SameM, SameTime, E2Inv, Clock2, Fresh2, Granted2,
    Apart2, Q2, J2, UMem, Is, Proposed2, Approved2, Kinds2
<1>5. N2(w) /\ X2(w) /\ O3(w) /\ L1(w) /\ L2(w)
  BY DEF Forgets1C, Popped, Added, SameM, SameTime, E2Inv, N2, X2, O3, L1, L2, Comes,
    UHas, Is, Granted2
<1> QED
  BY <1>1, <1>2, <1>3, <1>4, <1>5 DEF E1Inv, E2Inv

LEMMA AfterForgets2C ==
  ASSUME NEW v, NEW w, ViewOK(v), ViewOK(w), HInv(v), E1Inv(v), E2Inv(v), Forgets2C(v, w)
  PROVE  HInv(w) /\ E1Inv(w) /\ E2Inv(w)
<1>1. HInv(w)
  BY DEF Forgets2C, Popped, Added, SameM, SameTime, HInv, S1, S2, S3, G0, G1, G2, G3,
    R1, O1, O2, Comes, Redo, Heard
<1>2. Clock1(w) /\ Fresh1(w) /\ Apart1(w) /\ T1(w)
  BY DEF Forgets2C, Popped, Added, SameM, SameTime, E1Inv, Clock1, Fresh1, Apart1, T1,
    Comes, Redo, Heard, UMem, Is, Proposed1, Approved1, Coming1, Kinds1
<1>3. J1(w) /\ X1(w) /\ Q1(w)
  BY DEF Forgets2C, Popped, Added, SameM, SameTime, E1Inv, J1, X1, Q1, Comes, Redo,
    Heard, UMem, Is, Coming1
<1>4. Clock2(w) /\ Fresh2(w) /\ Apart2(w) /\ Q2(w) /\ J2(w)
  BY DEF Forgets2C, Popped, Added, SameM, SameTime, E2Inv, Clock2, Fresh2, Granted2,
    Apart2, Q2, J2, UMem, Is, Proposed2, Approved2, Kinds2
<1>5. N2(w) /\ X2(w)
  BY DEF Forgets2C, Popped, Added, SameM, SameTime, E2Inv, N2, X2, UHas, Is
<1>6. L1(w) /\ L2(w)
  BY DEF Forgets2C, Popped, Added, SameM, SameTime, E2Inv, L1, L2, Comes, Is, Granted2
<1>7. O3(w)
  BY OpenForgets2C
<1> QED
  BY <1>1, <1>2, <1>3, <1>4, <1>5, <1>6, <1>7 DEF E1Inv, E2Inv

LEMMA AfterProposes1C ==
  ASSUME NEW v, NEW w, ViewOK(v), ViewOK(w), HInv(v), E1Inv(v), E2Inv(v), Proposes1C(v, w)
  PROVE  HInv(w) /\ E1Inv(w) /\ E2Inv(w)
<1>1. HInv(w)
  BY DEF Proposes1C, Popped, Added, SameM, SameTime, HInv, S1, S2, S3, G0, G1, G2, G3,
    R1, O1, O2, Comes, Redo, Heard, Is, ViewOK, EdgeOK, EdgeState
<1>2. Clock1(w) /\ Fresh1(w)
  BY DEF Proposes1C, Popped, Added, SameM, SameTime, E1Inv, Clock1, Fresh1, UMem, Kinds1
<1>3. Apart1(w) /\ T1(w)
  BY DEF Proposes1C, Popped, Added, SameM, SameTime, E1Inv, Apart1, T1, Comes, Redo,
    Heard, UMem, Is, Proposed1, Approved1, Coming1, ViewOK, Lexicon
<1>4. J1(w) /\ X1(w)
  BY DEF Proposes1C, Popped, Added, SameM, SameTime, E1Inv, J1, X1, Comes, Redo, Heard,
    UMem, Is, Coming1, ViewOK, Lexicon
<1>5. Q1(w)
  BY DEF Proposes1C, Popped, Added, SameM, SameTime, E1Inv, Fresh1, Q1, Is, Kinds1
<1>7. E2Inv(w)
  BY DEF Proposes1C, Popped, Added, SameM, SameTime, E2Inv, Clock2, Fresh2, Apart2, Q2,
    J2, N2, X2, O3, L1, L2, Comes, UHas, UMem, Is, Proposed2, Approved2, Granted2
<1> QED
  BY <1>1, <1>2, <1>3, <1>4, <1>5, <1>7 DEF E1Inv

LEMMA AfterApproves2C ==
  ASSUME NEW v, NEW w, ViewOK(v), ViewOK(w), HInv(v), E1Inv(v), E2Inv(v), Approves2C(v, w)
  PROVE  HInv(w) /\ E1Inv(w) /\ E2Inv(w)
<1>1. HInv(w)
  BY DEF Approves2C, Popped, Added, SameM, SameTime, HInv, S1, S2, S3, G0, G1, G2, G3,
    R1, O1, O2, Comes, Redo, Heard
<1>2. E1Inv(w)
  BY DEF Approves2C, Popped, Added, SameM, SameTime, E1Inv, Clock1, Fresh1, Apart1, T1,
    J1, X1, Q1, Comes, Redo, Heard, UMem, Is, Proposed1, Approved1, Coming1
<1>3. Clock2(w)
  BY DEF Approves2C, Popped, Added, SameM, SameTime, E2Inv, Clock2, UMem, Kinds2
<1>4. Apart2(w)
  BY DEF Approves2C, Popped, Added, SameM, SameTime, E2Inv, Apart2, UMem, Is, Proposed2,
    Approved2
<1>5. Q2(w) /\ J2(w)
  BY DEF Approves2C, Popped, Added, SameM, SameTime, E2Inv, Q2, J2, UMem, Is, ViewOK,
    EdgeOK
<1>6. N2(w) /\ X2(w)
  BY DEF Approves2C, Popped, Added, SameM, SameTime, E2Inv, N2, X2, UHas, Is, ViewOK,
    EdgeOK
<1>7. O3(w)
  BY DEF Approves2C, Popped, Added, SameM, SameTime, E2Inv, O3, Is
<1>8. L1(w)
  BY DEF Approves2C, Popped, Added, SameM, SameTime, E2Inv, L1, L2, Comes, Is, Granted2,
    Newer, ViewOK, Lexicon, EdgeOK, EdgeState, Kinds1, Kinds2, OwnM, SentM, KindsC,
    KindsM
<1>9. L2(w)
  BY DEF Approves2C, Popped, Added, SameM, SameTime, E2Inv, L2, Comes
<1>10. Fresh2(w)
  BY FreshApproves2C
<1> QED
  BY <1>1, <1>2, <1>3, <1>4, <1>5, <1>6, <1>7, <1>8, <1>9, <1>10 DEF E2Inv

LEMMA AfterLearns2C ==
  ASSUME NEW v, NEW w, ViewOK(v), ViewOK(w), HInv(v), E1Inv(v), E2Inv(v), Learns2C(v, w)
  PROVE  HInv(w) /\ E1Inv(w) /\ E2Inv(w)
<1>1. HInv(w)
  BY DEF Learns2C, Popped, Added, SameM, SameMail, HInv, S1, S2, S3, G0, G1, G2, G3, R1,
    O1, O2, Comes, Redo, Heard
<1>2. Clock1(w)
  BY DEF Learns2C, Popped, Added, SameM, SameMail, E1Inv, Clock1, UMem, ViewOK, Lexicon,
    EdgeOK, Kinds1
<1>3. Fresh1(w)
  BY DEF Learns2C, Popped, Added, SameM, SameMail, E1Inv, Clock1, Fresh1, UMem, ViewOK,
    Lexicon, EdgeOK, Kinds1
<1>4. Apart1(w) /\ T1(w)
  BY DEF Learns2C, Popped, Added, SameM, SameMail, E1Inv, Apart1, T1, Comes, Redo,
    Heard, UMem, Is, Proposed1, Approved1, Coming1
<1>5. J1(w) /\ X1(w) /\ Q1(w)
  BY DEF Learns2C, Popped, Added, SameM, SameMail, E1Inv, J1, X1, Q1, Comes, Redo,
    Heard, UMem, Is, Coming1
<1>6. Apart2(w)
  BY DEF Learns2C, Popped, Added, SameM, SameMail, E2Inv, Clock2, Apart2, UMem, Is,
    Proposed2, Approved2, ViewOK, Lexicon, Kinds2
<1>7. Q2(w)
  BY DEF Learns2C, Popped, Added, SameM, SameMail, E2Inv, Q2, Is
<1>8. J2(w)
  BY DEF Learns2C, Popped, Added, SameM, SameMail, E2Inv, Clock2, Fresh2, Granted2, J2,
    UMem, Is, ViewOK, EdgeOK, EdgeState, Kinds2
<1>9. N2(w) /\ X2(w)
  BY DEF Learns2C, Popped, Added, SameM, SameMail, E2Inv, N2, X2, UHas, Is
<1>10. O3(w)
  BY DEF Learns2C, Popped, Added, SameM, SameMail, E2Inv, O3, Is
<1>11. L1(w)
  BY DEF Learns2C, Popped, Added, SameM, SameMail, E2Inv, L1, Comes, Is, Granted2,
    Newer, ViewOK, Lexicon, EdgeOK, EdgeState, Kinds2
<1>12. L2(w)
  BY DEF Learns2C, Popped, Added, SameM, SameMail, HInv, E2Inv, G1, L2, Comes, ViewOK,
    Lexicon
<1>13. Clock2(w) /\ Fresh2(w)
  BY ClockLearns2C
<1> QED
  BY <1>1, <1>2, <1>3, <1>4, <1>5, <1>6, <1>7, <1>8, <1>9, <1>10, <1>11, <1>12, <1>13
    DEF E1Inv, E2Inv

LEMMA AfterLearns1C ==
  ASSUME NEW v, NEW w, ViewOK(v), ViewOK(w), HInv(v), E1Inv(v), E2Inv(v), Learns1C(v, w)
  PROVE  HInv(w) /\ E1Inv(w) /\ E2Inv(w)
<1>1. HInv(w)
  BY DEF Learns1C, Popped, SameM, SameMail, SameTime, HInv, S1, S2, S3, G0, G1, G2, G3,
    R1, O1, O2, Comes, Redo, Heard, Is
<1>2. Fresh1(w)
  BY DEF Learns1C, Popped, SameM, SameMail, SameTime, E1Inv, Fresh1, Kinds1
<1>3. Apart1(w) /\ T1(w)
  BY DEF Learns1C, Popped, SameM, SameMail, SameTime, E1Inv, Apart1, T1, Comes, Redo,
    Heard, UMem, Is, Proposed1, Approved1, Coming1
<1>4. J1(w)
  BY DEF Learns1C, Popped, SameM, SameMail, SameTime, HInv, E1Inv, G3, R1, J1, Comes,
    Redo, Heard, UMem, Is, Coming1, Newer, ViewOK, EdgeOK, EdgeState, Kinds1
<1>5. Q1(w)
  BY DEF Learns1C, Popped, SameM, SameMail, SameTime, E1Inv, Q1, Is
<1>6. Clock1(w) /\ X1(w)
  BY ClockLearns1C
<1>7. E2Inv(w)
  BY DEF Learns1C, Popped, SameM, SameMail, SameTime, E2Inv, Clock2, Fresh2, Apart2, Q2,
    J2, N2, X2, O3, L1, L2, Comes, UHas, UMem, Is, Proposed2, Approved2, Granted2
<1> QED
  BY <1>1, <1>2, <1>3, <1>4, <1>5, <1>6, <1>7 DEF E1Inv

LEMMA AfterCopies1C ==
  ASSUME NEW v, NEW w, ViewOK(v), ViewOK(w), HInv(v), E1Inv(v), E2Inv(v), Copies1C(v, w)
  PROVE  HInv(w) /\ E1Inv(w) /\ E2Inv(w)
<1>1. HInv(w)
  BY DEF Copies1C, Popped, SameM, SameMail, SameTime, HInv, S1, S2, S3, G0, G1, G2, G3,
    R1, O1, O2, Comes, Redo, Heard
<1>2. Clock1(w) /\ Fresh1(w) /\ Apart1(w) /\ T1(w)
  BY DEF Copies1C, Popped, SameM, SameMail, SameTime, E1Inv, Clock1, Fresh1, Apart1, T1,
    Comes, Redo, Heard, UMem, Is, Proposed1, Approved1, Coming1
<1>3. J1(w)
  BY DEF Copies1C, SameM, SameMail, E1Inv, Fresh1, Q1, J1, Is
<1>4. X1(w) /\ Q1(w)
  BY DEF Copies1C, Popped, SameM, SameMail, E1Inv, X1, Q1, UMem, Is
<1>5. E2Inv(w)
  BY DEF Copies1C, Popped, SameM, SameMail, SameTime, E2Inv, Clock2, Fresh2, Apart2, Q2,
    J2, N2, X2, O3, L1, L2, Comes, UHas, UMem, Is, Proposed2, Approved2, Granted2
<1> QED
  BY <1>1, <1>2, <1>3, <1>4, <1>5 DEF E1Inv

LEMMA AfterCopies2C ==
  ASSUME NEW v, NEW w, ViewOK(v), ViewOK(w), HInv(v), E1Inv(v), E2Inv(v), Copies2C(v, w)
  PROVE  HInv(w) /\ E1Inv(w) /\ E2Inv(w)
<1>1. HInv(w)
  BY DEF Copies2C, Popped, SameM, SameMail, SameTime, HInv, S1, S2, S3, G0, G1, G2, G3,
    R1, O1, O2, Comes, Redo, Heard
<1>2. E1Inv(w)
  BY DEF Copies2C, Popped, SameM, SameMail, SameTime, E1Inv, Clock1, Fresh1, Apart1, T1,
    J1, X1, Q1, Comes, Redo, Heard, UMem, Is, Proposed1, Approved1, Coming1
<1>3. v.m2 # None /\ Granted2(v, v.m2.ts)
  BY DEF Copies2C, Is, Granted2
<1>4. Clock2(w) /\ Fresh2(w)
  BY <1>3 DEF Copies2C, Popped, SameM, SameMail, SameTime, E2Inv, Clock2, Fresh2, Granted2,
    UMem
<1>5. Apart2(w) /\ Q2(w) /\ J2(w) /\ N2(w)
  BY <1>3 DEF Copies2C, Popped, SameM, SameMail, E2Inv, Apart2, Q2, J2, N2, UMem, Is,
    Proposed2, Approved2
<1>6. X2(w)
  <2> SUFFICES ASSUME NEW t, Mem(w.d, "P2", t), w.c2.ts > t PROVE FALSE
    BY DEF X2
  <2>1. t > v.m2.ts /\ v.m2.ts > t
    BY <1>3 DEF Copies2C, SameMail, E2Inv, Fresh2
  <2>2. t \in Nat /\ v.m2.ts \in Nat
    BY <1>3 DEF ViewOK, Lexicon, EdgeOK
  <2> QED
    BY <2>1, <2>2
<1>7. O3(w) /\ L1(w) /\ L2(w)
  BY <1>3 DEF Copies2C, Popped, SameM, SameMail, E2Inv, O3, L1, L2, Comes, Is, Granted2
<1> QED
  BY <1>1, <1>2, <1>4, <1>5, <1>6, <1>7 DEF E2Inv

LEMMA AfterRefusesM ==
  ASSUME NEW v, NEW w, ViewOK(v), ViewOK(w), HInv(v), E1Inv(v), E2Inv(v), RefusesM(v, w)
  PROVE  HInv(w) /\ E1Inv(w) /\ E2Inv(w)
<1>1. HInv(w)
  BY DEF RefusesM, Popped, SameC, SameM, SameTime, HInv, S1, S2, S3, G0, G1, G2, G3, R1,
    O1, O2, Comes, Redo, Heard, StaleAtM
<1>2. Clock1(w) /\ Fresh1(w) /\ Apart1(w) /\ T1(w)
  BY DEF RefusesM, Popped, SameC, SameM, SameTime, E1Inv, Clock1, Fresh1, Apart1, T1,
    Q1, Comes, Redo, Heard, UMem, Is, Proposed1, Approved1, Coming1, Newer, StaleAtM,
    ViewOK, EdgeOK, EdgeState, Kinds1
<1>3. J1(w) /\ X1(w) /\ Q1(w)
  BY DEF RefusesM, Popped, SameC, SameM, SameTime, E1Inv, Fresh1, Apart1, J1, X1, Q1,
    Comes, Redo, Heard, UMem, Is, Proposed1, Approved1, Coming1, Newer, StaleAtM, ViewOK,
    EdgeOK, EdgeState, Kinds1
<1>4. Clock2(w) /\ Fresh2(w)
  BY DEF RefusesM, Popped, SameC, SameM, SameTime, E2Inv, Clock2, Fresh2, Granted2,
    UMem, StaleAtM
<1>5. Apart2(w) /\ Q2(w) /\ J2(w)
  BY DEF RefusesM, Popped, SameC, SameM, SameTime, E2Inv, Apart2, Q2, J2, UMem, Is,
    Proposed2, Approved2, Newer, StaleAtM
<1>6. N2(w) /\ X2(w) /\ O3(w) /\ L1(w) /\ L2(w)
  BY DEF RefusesM, Popped, SameC, SameM, SameTime, E2Inv, Fresh2, N2, X2, O3, L1, L2,
    Comes, UHas, Is, Granted2, Newer, StaleAtM, ViewOK, Lexicon, Kinds2
<1> QED
  BY <1>1, <1>2, <1>3, <1>4, <1>5, <1>6 DEF E1Inv, E2Inv

LEMMA AfterLearnsC ==
  ASSUME NEW v, NEW w, ViewOK(v), ViewOK(w), HInv(v), E1Inv(v), E2Inv(v), LearnsC(v, w)
  PROVE  HInv(w) /\ E1Inv(w) /\ E2Inv(w)
<1>1. HInv(w)
  BY DEF LearnsC, Popped, Inserted, SameC, HInv, S1, S2, S3, G0, G1, G2, G3, R1, O1, O2,
    Comes, Redo, Heard
<1>2. Clock1(w) /\ Fresh1(w)
  BY DEF LearnsC, Popped, Inserted, SameC, E1Inv, Clock1, Fresh1, UMem, ViewOK, Lexicon,
    EdgeOK, Kinds1
<1>3. Apart1(w) /\ T1(w)
  BY DEF LearnsC, Popped, Inserted, SameC, E1Inv, Apart1, T1, Comes, Redo, Heard, UMem,
    Is, Proposed1, Approved1, Coming1
<1>4. J1(w) /\ X1(w) /\ Q1(w)
  BY DEF LearnsC, Popped, Inserted, SameC, E1Inv, J1, X1, Q1, Comes, Redo, Heard, UMem,
    Is, Coming1
<1>5. Clock2(w) /\ Fresh2(w)
  BY DEF LearnsC, Popped, Inserted, SameC, E2Inv, Clock2, Fresh2, Granted2, UMem,
    ViewOK, Lexicon, EdgeOK, Kinds2
<1>6. Apart2(w) /\ Q2(w) /\ J2(w)
  BY DEF LearnsC, Popped, Inserted, SameC, E2Inv, Clock2, Apart2, Q2, J2, UMem, Is,
    Proposed2, Approved2, ViewOK, Lexicon, Kinds2
<1>7. N2(w) /\ X2(w) /\ O3(w) /\ L1(w) /\ L2(w)
  BY DEF LearnsC, Popped, Inserted, SameC, E2Inv, Clock2, N2, X2, O3, L1, L2, Comes,
    UHas, UMem, Is, Granted2, ViewOK, EdgeOK
<1> QED
  BY <1>1, <1>2, <1>3, <1>4, <1>5, <1>6, <1>7 DEF E1Inv, E2Inv

LEMMA AfterForgets1M ==
  ASSUME NEW v, NEW w, ViewOK(v), ViewOK(w), HInv(v), E1Inv(v), E2Inv(v), Forgets1M(v, w)
  PROVE  HInv(w) /\ E1Inv(w) /\ E2Inv(w)
<1>1. HInv(w)
  BY DEF Forgets1M, Popped, SameC, SameTime, HInv, S1, S2, S3, G0, G1, G2, G3, R1, O1,
    O2, Comes, Redo, Heard
<1>2. Clock1(w) /\ Fresh1(w)
  BY DEF Forgets1M, Popped, SameC, SameTime, E1Inv, Clock1, Fresh1, UMem
<1>3. Apart1(w) /\ T1(w)
  BY DEF Forgets1M, Popped, SameC, SameTime, HInv, E1Inv, G0, O2, Apart1, T1, Comes,
    Redo, Heard, UMem, Is, Proposed1, Approved1, Coming1, ViewOK, Lexicon
<1>4. J1(w) /\ X1(w) /\ Q1(w)
  BY DEF Forgets1M, Popped, SameC, SameTime, E1Inv, J1, X1, Q1, Comes, Redo, Heard,
    UMem, Is, Coming1
<1>5. E2Inv(w)
  BY DEF Forgets1M, Popped, SameC, SameTime, E2Inv, Clock2, Fresh2, Apart2, Q2, J2, N2,
    X2, O3, L1, L2, Comes, UHas, UMem, Is, Proposed2, Approved2, Granted2
<1> QED
  BY <1>1, <1>2, <1>3, <1>4, <1>5 DEF E1Inv

LEMMA AfterForgets2M ==
  ASSUME NEW v, NEW w, ViewOK(v), ViewOK(w), HInv(v), E1Inv(v), E2Inv(v), Forgets2M(v, w)
  PROVE  HInv(w) /\ E1Inv(w) /\ E2Inv(w)
<1>1. HInv(w)
  BY DEF Forgets2M, Popped, SameC, SameTime, HInv, S1, S2, S3, G0, G1, G2, G3, R1, O1,
    O2, Comes, Redo, Heard
<1>2. E1Inv(w)
  BY DEF Forgets2M, Popped, SameC, SameTime, E1Inv, Clock1, Fresh1, Apart1, T1, J1, X1,
    Q1, Comes, Redo, Heard, UMem, Is, Proposed1, Approved1, Coming1
<1>3. Clock2(w) /\ Fresh2(w) /\ Apart2(w) /\ Q2(w) /\ J2(w)
  BY DEF Forgets2M, Popped, SameC, SameTime, E2Inv, Clock2, Fresh2, Granted2, Apart2,
    Q2, J2, UMem, Is, Proposed2, Approved2
<1>4. N2(w) /\ X2(w) /\ O3(w) /\ L1(w) /\ L2(w)
  BY DEF Forgets2M, Popped, SameC, SameTime, E2Inv, J2, N2, X2, O3, L1, L2, Comes, UHas,
    UMem, Is, Granted2, ViewOK, Lexicon, EdgeOK, EdgeState, Kinds2
<1> QED
  BY <1>1, <1>2, <1>3, <1>4 DEF E2Inv

LEMMA AfterLearns1M ==
  ASSUME NEW v, NEW w, ViewOK(v), ViewOK(w), HInv(v), E1Inv(v), E2Inv(v), Learns1M(v, w)
  PROVE  HInv(w) /\ E1Inv(w) /\ E2Inv(w)
<1>1. HInv(w)
  BY DEF Learns1M, Popped, Inserted, SameC, HInv, S1, S2, S3, G0, G1, G2, G3, R1, O1,
    O2, Comes, Redo, Heard
<1>2. Apart1(w) /\ T1(w)
  BY DEF Learns1M, Popped, Inserted, SameC, E1Inv, Clock1, Fresh1, Apart1, T1, Comes,
    Redo, Heard, UMem, Is, Proposed1, Approved1, Coming1, ViewOK, EdgeOK, EdgeState,
    Kinds1
<1>3. J1(w) /\ X1(w)
  BY DEF Learns1M, Popped, Inserted, SameC, E1Inv, Clock1, Fresh1, J1, X1, Comes, Redo,
    Heard, UMem, Is, Coming1, ViewOK, EdgeOK, EdgeState, Kinds1
<1>4. Q1(w)
  BY DEF Learns1M, Popped, Inserted, SameC, E1Inv, Q1, Comes, Redo, Is
<1>5. Clock1(w) /\ Fresh1(w)
  BY ClockLearns1M
<1>6. Clock2(w) /\ Fresh2(w)
  BY DEF Learns1M, Popped, Inserted, SameC, E2Inv, Clock2, Fresh2, Granted2, UMem, ViewOK,
    Lexicon, EdgeOK, Kinds2
<1>7. Apart2(w) /\ Q2(w) /\ J2(w)
  BY DEF Learns1M, Popped, Inserted, SameC, E2Inv, Apart2, Q2, J2, UMem, Is, Proposed2,
    Approved2
<1>8. N2(w) /\ X2(w) /\ O3(w) /\ L1(w) /\ L2(w)
  BY DEF Learns1M, Popped, Inserted, SameC, E2Inv, N2, X2, O3, L1, L2, Comes, UHas, Is,
    Granted2
<1> QED
  BY <1>1, <1>2, <1>3, <1>4, <1>5, <1>6, <1>7, <1>8 DEF E1Inv, E2Inv

LEMMA AfterApproves1M ==
  ASSUME NEW v, NEW w, ViewOK(v), ViewOK(w), HInv(v), E1Inv(v), E2Inv(v), Approves1M(v, w)
  PROVE  HInv(w) /\ E1Inv(w) /\ E2Inv(w)
<1>1. HInv(w)
  BY DEF Approves1M, Popped, Added, SameC, SameTime, HInv, S1, S2, S3, G0, G1, G2, G3,
    R1, O1, O2, Comes, Redo, Heard
<1>2. Clock1(w) /\ Fresh1(w)
  BY DEF Approves1M, Popped, Added, SameC, SameTime, E1Inv, Clock1, Fresh1, UMem, Kinds1
<1>3. Apart1(w) /\ T1(w)
  BY DEF Approves1M, Popped, Added, SameC, SameTime, E1Inv, Apart1, T1, Comes, Redo,
    Heard, UMem, Is, Proposed1, Approved1, Coming1
<1>4. J1(w) /\ X1(w)
  BY DEF Approves1M, Popped, Added, SameC, SameTime, E1Inv, J1, X1, Comes, Redo, Heard,
    UMem, Is, Coming1, ViewOK, EdgeOK
<1>5. Q1(w)
  BY DEF Approves1M, Popped, Added, SameC, SameTime, E1Inv, Q1, Comes, Redo, Is
<1>6. E2Inv(w)
  BY DEF Approves1M, Popped, Added, SameC, SameTime, E2Inv, Clock2, Fresh2, Apart2, Q2,
    J2, N2, X2, O3, L1, L2, Comes, UHas, UMem, Is, Proposed2, Approved2, Granted2
<1> QED
  BY <1>1, <1>2, <1>3, <1>4, <1>5, <1>6 DEF E1Inv

LEMMA AfterProposes2M ==
  ASSUME NEW v, NEW w, ViewOK(v), ViewOK(w), HInv(v), E1Inv(v), E2Inv(v), Proposes2M(v, w)
  PROVE  HInv(w) /\ E1Inv(w) /\ E2Inv(w)
<1>1. HInv(w)
  BY DEF Proposes2M, Popped, Added, SameC, SameTime, HInv, S1, S2, S3, G0, G1, G2, G3,
    R1, O1, O2, Comes, Redo, Heard
<1>2. E1Inv(w)
  BY DEF Proposes2M, Popped, Added, SameC, SameTime, E1Inv, Clock1, Fresh1, Apart1, T1,
    J1, X1, Q1, Comes, Redo, Heard, UMem, Is, Proposed1, Approved1, Coming1
<1>3. Clock2(w) /\ Fresh2(w)
  BY DEF Proposes2M, Popped, Added, SameC, SameTime, E2Inv, Clock2, Fresh2, Granted2,
    UMem, Is, Kinds2
<1>4. Apart2(w)
  BY DEF Proposes2M, Popped, Added, SameC, SameTime, E2Inv, Apart2, UMem, Is, Proposed2,
    Approved2, ViewOK, EdgeOK
<1>5. Q2(w)
  BY DEF Proposes2M, Popped, Added, SameC, SameTime, E2Inv, Q2, UMem, Is, Proposed2,
    Approved2, ViewOK, EdgeOK
<1>6. J2(w)
  BY DEF Proposes2M, Popped, Added, SameC, SameTime, E2Inv, J2, X2, UMem, Is, Proposed2,
    Approved2, ViewOK, EdgeOK
<1>7. N2(w) /\ X2(w) /\ O3(w) /\ L1(w) /\ L2(w)
  BY DEF Proposes2M, Popped, Added, SameC, SameTime, E2Inv, N2, X2, O3, L1, L2, Comes,
    UHas, Is, Granted2
<1> QED
  BY <1>1, <1>2, <1>3, <1>4, <1>5, <1>6, <1>7 DEF E2Inv

LEMMA AfterLearns2M ==
  ASSUME NEW v, NEW w, ViewOK(v), ViewOK(w), HInv(v), E1Inv(v), E2Inv(v), Learns2M(v, w)
  PROVE  HInv(w) /\ E1Inv(w) /\ E2Inv(w)
<1>1. HInv(w)
  BY DEF Learns2M, Popped, SameC, SameTime, HInv, S1, S2, S3, G0, G1, G2, G3, R1, O1,
    O2, Comes, Redo, Heard
<1>2. E1Inv(w)
  BY DEF Learns2M, Popped, SameC, SameTime, E1Inv, Clock1, Fresh1, Apart1, T1, J1, X1,
    Q1, Comes, Redo, Heard, UMem, Is, Proposed1, Approved1, Coming1
<1>3. Clock2(w) /\ Fresh2(w)
  BY DEF Learns2M, Popped, SameC, SameTime, E2Inv, Clock2, Fresh2, Granted2, UMem, Kinds2
<1>4. Apart2(w) /\ Q2(w) /\ J2(w)
  BY DEF Learns2M, Popped, SameC, SameTime, E2Inv, Apart2, Q2, J2, UMem, Is, Proposed2,
    Approved2
<1>5. N2(w) /\ X2(w) /\ O3(w) /\ L1(w) /\ L2(w)
  BY DEF Learns2M, Popped, SameC, SameTime, E2Inv, Fresh2, N2, X2, O3, L1, L2, Comes,
    UHas, Is, Granted2, ViewOK, Lexicon, Kinds2
<1> QED
  BY <1>1, <1>2, <1>3, <1>4, <1>5 DEF E2Inv

(* The moves keep the invariant.                                           *)
LEMMA MovesAgree ==
  ASSUME NEW v, NEW w, ViewOK(v), ViewOK(w), HInv(v), E1Inv(v), E2Inv(v), Moves(v, w)
  PROVE  HInv(w) /\ E1Inv(w) /\ E2Inv(w)
<1>1. CASE MovesC(v, w)
  BY <1>1, AfterRefusesC, AfterForgetsM, AfterLearnsM, AfterForgets1C, AfterForgets2C,
    AfterProposes1C, AfterApproves2C, AfterLearns2C, AfterLearns1C, AfterCopies1C,
    AfterCopies2C DEF MovesC
<1>2. CASE MovesM(v, w)
  BY <1>2, AfterRefusesM, AfterLearnsC, AfterForgets1M, AfterForgets2M, AfterLearns1M,
    AfterApproves1M, AfterProposes2M, AfterLearns2M DEF MovesM
<1>3. CASE MovesX(v, w)
  BY <1>3, AfterRests, AfterCarriesToC, AfterCarriesToM, AfterDrops, AfterWiped,
    AfterIntroduces, AfterContacts, AfterSyncs DEF MovesX
<1> QED
  BY <1>1, <1>2, <1>3 DEF Moves

-----------------------------------------------------------------------------
(* The invariant holds initially, every step keeps it, and it implies      *)
(* QuietAgreement.                                                         *)

(* What has lapsed stays so; the view of the initial states.               *)
LEMMA LapsedStays == ASSUME [Next]_vars, lapsed' = {} PROVE lapsed = {}
<1>1. \A b, what : Note(b, what) = {} => lapsed = {}
  BY DEF Note
<1>2. ASSUME NEW n \in Node, Process(n) PROVE lapsed = {}
  <2>1. PICK k : Commit(n, k) \/ Drop(n) \/ Dies(n)
    BY <1>2 DEF Process
  <2> QED
    BY <1>1, <2>1 DEF Commit, Drop, Dies
<1>3. ASSUME NEW n \in Node, Crash(n) \/ Halt(n) PROVE lapsed = {}
  BY <1>1, <1>3 DEF Crash, Halt
<1>4. ASSUME Poll \/ Wipe PROVE lapsed = {}
  BY <1>1, <1>4 DEF Poll, Wipe
<1>5. ASSUME NEW n \in Node, Route(n) \/ Flush(n) \/ Handshake(n) \/ FinishStart(n) \/ Boot(n) \/ Stop(n)
      PROVE  lapsed = {}
  BY <1>5 DEF Route, Flush, Handshake, FinishStart, Boot, Stop
<1>6. ASSUME UNCHANGED vars PROVE lapsed = {}
  BY <1>6 DEF vars
<1> QED
  BY <1>2, <1>3, <1>4, <1>5, <1>6 DEF Next, Work

LEMMA EmptyQueue ==
  /\ \A x : ~Has(<<>>, x) /\ ~Starts(<<>>, x)
  /\ \A x, t : ~Mem(<<>>, x, t)
  /\ \A x, y : ~Before(<<>>, x, y) /\ ~Open(<<>>, x, y) /\ Led(<<>>, x, y)
  /\ \A x, y, t : ~Ahead(<<>>, x, y, t)
  /\ \A X, y : Late(<<>>, X, y)
BY DEF Has, Mem, Before, Ahead, Open, Starts, Led, Late

LEMMA FirstView ==
  ASSUME NEW v, v.kc = <<>>, v.wc = <<>>, v.d = <<>>, v.c1 = None, v.c2 = None,
         v.m1 = None, v.m2 = None, ~v.cm, ~v.mc, ~v.on
  PROVE  HInv(v) /\ E1Inv(v) /\ E2Inv(v)
<1>1. HInv(v)
  BY EmptyQueue DEF HInv, S1, S2, S3, G0, G1, G2, G3, R1, O1, O2, Redo, Comes, Heard
<1>2. E1Inv(v)
  BY EmptyQueue DEF E1Inv, Clock1, Fresh1, Apart1, T1, J1, X1, Q1, UHas, UMem,
    Proposed1, Approved1, Is, Heard, Kinds1
<1>3. E2Inv(v)
  BY EmptyQueue DEF E2Inv, Clock2, Fresh2, Apart2, Q2, J2, N2, X2, O3, L1, L2, UHas,
    UMem, Proposed2, Approved2, Granted2, Is, Kinds2
<1> QED
  BY <1>1, <1>2, <1>3

LEMMA InitAgrees == ASSUME Init PROVE WordInv /\ HInv(View) /\ E1Inv(View) /\ E2Inv(View)
<1>1. /\ \A n \in Node : kq[n] = <<>> /\ evq[n] = <<>> /\ buf[n] = <<>>
      /\ up[M] = "down"
      /\ cache[C][M] = None /\ cache[M][C] = None
      /\ \A n \in Node, e \in Edge : cache[n][e] = None
  <2>1. \A n \in Node, r \in RID : cache[n][r] = IF r = n THEN Profile ELSE None
    BY DEF Init
  <2> QED
    BY <2>1, Rids, EdgeIsNoNode DEF Init
<1>2. WordInv
  BY <1>1, Rids, EmptySeq DEF WordInv
<1>3. <<>> \o <<>> = <<>> /\ Down(<<>>, <<>>, <<>>) = <<>>
  BY DEF Down
<1>4. PICK v : v = View
  OBVIOUS
<1>5. /\ v.kc = <<>> /\ v.wc = <<>> /\ v.d = <<>> /\ v.c1 = None /\ v.c2 = None
      /\ v.m1 = None /\ v.m2 = None /\ ~v.cm /\ ~v.mc /\ ~v.on
  BY <1>1, <1>3, <1>4, Rids, ViewFields
<1> QED
  BY <1>2, <1>4, <1>5, FirstView

(* Nothing is under way, and M is past its handshake.                      *)
LEMMA QuietView ==
  ASSUME NEW v, ViewOK(v), HInv(v), E1Inv(v), E2Inv(v),
         v.kc = <<>>, v.wc = <<>>, v.d = <<>>, v.on
  PROVE  /\ v.cm /\ v.mc
         /\ Is(v.c1, "APPROVED") /\ Is(v.c2, "APPROVED") /\ Is(v.m1, "APPROVED") /\ Is(v.m2, "APPROVED")
<1>1. v.mc
  BY EmptyQueue DEF HInv, G2, Heard, Comes
<1>2. v.cm
  BY <1>1, EmptyQueue DEF HInv, G3, Comes
<1>3. v.c1 # None
  BY <1>2, EmptyQueue DEF HInv, R1, Redo, Comes
<1>4. ~Redo(v) /\ Heard(v) /\ \A t : ~Coming1(v, t)
  BY <1>1, EmptyQueue DEF Redo, Comes, Heard, Coming1
<1>5. Is(v.m1, "APPROVED")
  BY <1>4, EmptyQueue DEF E1Inv, T1
<1>6. ~Is(v.c1, "PROPOSED")
  BY <1>4, EmptyQueue DEF E1Inv, J1, UMem
<1>7. v.m2 # None
  BY <1>1, EmptyQueue DEF E2Inv, N2, UHas
<1>8. ~Is(v.m2, "PROPOSED")
  BY EmptyQueue DEF E2Inv, J2, UMem
<1>9. Is(v.m2, "APPROVED")
  BY <1>7, <1>8 DEF ViewOK, EdgeOK, EdgeState, Is
<1>10. v.c2 # None
  BY <1>9 DEF E2Inv, L1, Granted2
<1>11. ~Is(v.c2, "PROPOSED")
  BY EmptyQueue DEF E2Inv, Q2
<1> QED
  BY <1>1, <1>2, <1>3, <1>5, <1>6, <1>9, <1>10, <1>11 DEF ViewOK, EdgeOK, EdgeState, Is

(* The inductive invariant: StartInv, and as long as nothing lapsed, the   *)
(* three invariants of the view.                                           *)
AgreeInv == StartInv /\ (lapsed = {} => WordInv /\ HInv(View) /\ E1Inv(View) /\ E2Inv(View))

LEMMA AgreeingJoin == AgreeInv => QuietAgreement
<1> SUFFICES ASSUME AgreeInv, Running, Quiet, lapsed = {} PROVE Joined
  BY DEF QuietAgreement
<1>1. StartInv /\ WordInv /\ HInv(View) /\ E1Inv(View) /\ E2Inv(View) /\ TypeInv
  BY DEF AgreeInv, StartInv
<1>2. PICK v : v = View
  OBVIOUS
<1>3. <<>> \o <<>> = <<>> /\ Down(<<>>, <<>>, <<>>) = <<>>
  BY DEF Down
<1>4. v.kc = <<>> /\ v.wc = <<>> /\ v.d = <<>> /\ v.on
  BY <1>2, <1>3, Rids, ViewFields DEF Running, Quiet
<1>5. /\ v.cm /\ v.mc
      /\ Is(v.c1, "APPROVED") /\ Is(v.c2, "APPROVED") /\ Is(v.m1, "APPROVED") /\ Is(v.m2, "APPROVED")
  BY <1>1, <1>2, <1>4, ViewFine, QuietView
<1>6. /\ cache[C][M] # None /\ cache[M][C] # None
      /\ \A n \in Node, e \in Edge : cache[n][e] # None /\ cache[n][e].st = "APPROVED"
  BY <1>2, <1>5, Rids, ViewFields DEF Is
<1> QED
  BY <1>6, Rids DEF Joined, Cached

LEMMA NextAgrees == ASSUME AgreeInv, [Next]_vars PROVE AgreeInv'
<1>1. StartInv /\ StartInv' /\ TypeInv /\ TypeInv'
  <2>1. StartInv'
    BY NextStart DEF AgreeInv
  <2> QED
    BY <2>1 DEF AgreeInv, StartInv
<1>2. ASSUME lapsed' = {} PROVE WordInv' /\ HInv(View') /\ E1Inv(View') /\ E2Inv(View')
  <2>1. WordInv /\ HInv(View) /\ E1Inv(View) /\ E2Inv(View)
    BY <1>2, LapsedStays DEF AgreeInv
  <2>2. WordInv' /\ Moves(View, View')
    BY <1>1, <1>2, <2>1, NextMoves
  <2>3. ViewOK(View) /\ ViewOK(View')
    BY <1>1, <2>1, <2>2, ViewFine, ViewFineLater
  <2> QED
    BY <2>1, <2>2, <2>3, MovesAgree
<1> QED
  BY <1>1, <1>2 DEF AgreeInv

(* QuietAgreement: when both nodes run, have nothing to do and nothing     *)
(* lapsed on the way, they know each other and hold the same two edges,    *)
(* both approved: for a full and for a partial member, whatever the order  *)
(* of starts, retried handshakes, lost requests, stops, wipes and          *)
(* duplicates (Handshaker, NodeContactHandler, EdgeNegotiationHandler,     *)
(* SyncManager), and however many of them there were.                      *)
THEOREM AgreementTheorem == Spec => []QuietAgreement
<1>1. Init => AgreeInv
  BY InitStart, InitAgrees DEF AgreeInv
<1>2. AgreeInv /\ [Next]_vars => AgreeInv'
  BY NextAgrees
<1> QED
  BY <1>1, <1>2, AgreeingJoin, PTL DEF Spec

=============================================================================
