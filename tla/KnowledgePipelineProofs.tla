---------------------- MODULE KnowledgePipelineProofs ----------------------
(***************************************************************************)
(* Theorems about the knowledge pipeline, for every network, every         *)
(* behaviour of the peers and every bound.                                 *)
(***************************************************************************)
EXTENDS KnowledgePipeline, FiniteSetTheorems, SequenceTheorems, TLAPS

-----------------------------------------------------------------------------
(* Lemmas about the operators the model is built from                      *)

(* RIDs have one type each, and the contents that go with it.              *)
LEMMA TypesOfRids ==
  /\ Node \subseteq RID /\ EdgeRid \subseteq RID /\ Objs \subseteq RID
  /\ Self \in RID /\ Peers \subseteq Node
  /\ \A r \in Node : r \notin EdgeRid /\ BodyOf(r) = NodeBody
  /\ \A r \in EdgeRid : r \notin Node /\ BodyOf(r) = EdgeBody
  /\ \A r \in RID : BodyOf(r) \subseteq NodeBody \union EdgeBody \union ObjBody
  /\ \A r \in RID : Bundles(r) \subseteq AnyBundle
  BY NodesAssumption DEF RID, Node, BodyOf, Bundles, AnyBundle

(* RIDs that peers mix up are those of nodes, or of what is neither a node *)
(* nor an edge with any other.                                             *)
LEMMA MixedRids ==
  ASSUME NEW x \in Mixed
  PROVE  /\ x = <<x[1], x[2]>> /\ x[1] \in RID /\ x[2] \in RID
         /\ x[1] \notin EdgeRid /\ (x[1] \in Node => x[2] \in Node)
  <1>1. x \in Node \X Node \/ x \in Objs \X RID  BY MixedAssumption
  <1>2. CASE x \in Node \X Node
    BY <1>2, NodesAssumption DEF RID
  <1>3. CASE x \in Objs \X RID
    BY <1>3, NodesAssumption DEF RID
  <1>4. QED  BY <1>1, <1>2, <1>3

LEMMA NamesAreRids ==
  ASSUME NEW rid \in RID
  PROVE  /\ \A m \in NamedBy(rid) : m \in RID /\ (m = rid \/ <<rid, m>> \in Mixed)
         /\ \A r \in GoesBy(rid) : r \in RID /\ (r = rid \/ <<r, rid>> \in Mixed)
  <1>1. ASSUME NEW m \in NamedBy(rid), m # rid
        PROVE  m \in RID /\ <<rid, m>> \in Mixed
    <2>1. PICK x \in Mixed : x[1] = rid /\ m = x[2]  BY <1>1 DEF NamedBy
    <2>2. QED  BY <2>1, MixedRids
  <1>2. ASSUME NEW r \in GoesBy(rid), r # rid
        PROVE  r \in RID /\ <<r, rid>> \in Mixed
    <2>1. PICK x \in Mixed : x[2] = rid /\ r = x[1]  BY <1>2 DEF GoesBy
    <2>2. QED  BY <2>1, MixedRids
  <1>3. QED  BY <1>1, <1>2

(* The manifest of an edge names the edge.                                 *)
LEMMA KObjRids ==
  ASSUME NEW k \in KObj
  PROVE  /\ k.rid \in RID /\ k.mrid \in RID
         /\ k.rid \in EdgeRid => k.mrid = k.rid
         /\ k.man \in Bundles(k.mrid) \union {None}
  <1>1. k.mrid = k.rid \/ <<k.rid, k.mrid>> \in Mixed  BY DEF KObj
  <1>2. <<k.rid, k.mrid>> \in Mixed => k.rid \notin EdgeRid
    <2>1. <<k.rid, k.mrid>>[1] = k.rid  OBVIOUS
    <2>2. QED  BY <2>1, MixedRids
  <1>3. QED  BY <1>1, <1>2 DEF KObj

(* A knowledge object made from well-typed parts is well-typed.            *)
LEMMA NewKObjType ==
  ASSUME NEW rid \in RID, NEW man \in Bundles(rid) \union {None}, NEW full \in BOOLEAN,
         NEW ev \in EventType \union {None}, NEW src \in Peers \union {None}
  PROVE  NewKObj(rid, man, full, ev, src) \in KObj
  <1>1. man \in AnyBundle \union {None}  BY TypesOfRids
  <1>2. QED  BY <1>1 DEF NewKObj, FromEvent, KObj

(* So is one that Bundle.generate makes.                                   *)
LEMMA GeneratedType ==
  ASSUME now \in Nat, NEW rid \in RID, NEW body \in BodyOf(rid),
         NEW ev \in EventType \union {None}
  PROVE  Generated(rid, body, ev) \in KObj
  <1>1. [ts |-> now + 1, body |-> body] \in Bundles(rid)  BY DEF Bundles
  <1>2. QED  BY <1>1, NewKObjType DEF Generated

(* It has a manifest, and comes from the node itself.                      *)
LEMMA GeneratedFields ==
  ASSUME now \in Nat, NEW rid \in RID, NEW body \in BodyOf(rid), NEW ev
  PROVE  LET k == Generated(rid, body, ev)
         IN  /\ k.rid = rid /\ k.mrid = rid /\ k.ev = ev /\ k.src = None
             /\ k.man # None /\ k.man.body = body
  <1>1. [ts |-> now + 1, body |-> body] \in AnyBundle  BY TypesOfRids DEF Bundles
  <1>2. [ts |-> now + 1, body |-> body] # None  BY <1>1, NoneAssumption
  <1>3. QED  BY <1>2 DEF Generated, NewKObj, FromEvent

(* Edges and nodes are finitely many, and a listing of a finite set is a   *)
(* sequence over it.                                                       *)
LEMMA FiniteRids == IsFiniteSet(EdgeRid) /\ IsFiniteSet(RID)
  <1>1. IsFiniteSet(Node)
    BY NodesAssumption, FS_Singleton, FS_Union DEF Node
  <1>2. IsFiniteSet(Node \X Node)  BY <1>1, FS_Product
  <1>3. IsFiniteSet(EdgeRid)  BY <1>2, FS_Subset DEF EdgeRid
  <1>4. QED  BY <1>1, <1>3, NodesAssumption, FS_Union DEF RID

(* Orders(S) holds sequences of elements of S.                             *)
LEMMA OrdersType ==
  ASSUME NEW S, IsFiniteSet(S), NEW q \in Orders(S)
  PROVE  q \in Seq(S) /\ DOMAIN q = 1..Len(q)
  <1>1. Cardinality(S) \in Nat  BY FS_CardinalityType
  <1>2. q \in [1..Cardinality(S) -> S]  BY DEF Orders
  <1>3. QED  BY <1>1, <1>2

(* Queueing a listing of RIDs keeps the queue well-typed.                  *)
LEMMA PushListing ==
  ASSUME queue \in Seq(KObj), NEW S \in SUBSET RID, NEW q \in Orders(S),
         NEW ev \in EventType \union {None}, NEW src \in Peers \union {None}
  PROVE  queue \o [i \in DOMAIN q |-> NewKObj(q[i], None, FALSE, ev, src)] \in Seq(KObj)
  <1>1. IsFiniteSet(S)  BY FiniteRids, FS_Subset
  <1>2. q \in Seq(S) /\ DOMAIN q = 1..Len(q)  BY <1>1, OrdersType
  <1>3. ASSUME NEW i \in DOMAIN q  PROVE  NewKObj(q[i], None, FALSE, ev, src) \in KObj
    <2>1. q[i] \in RID  BY <1>2
    <2>2. QED  BY <2>1, NewKObjType
  <1>4. [i \in DOMAIN q |-> NewKObj(q[i], None, FALSE, ev, src)] \in Seq(KObj)
    <2> DEFINE f == [i \in DOMAIN q |-> NewKObj(q[i], None, FALSE, ev, src)]
    <2>1. f \in [1..Len(q) -> KObj]  BY <1>2, <1>3
    <2>2. Len(q) \in Nat  BY <1>2
    <2> HIDE DEF f
    <2>3. f \in Seq(KObj)  BY <2>1, <2>2
    <2>4. QED  BY <2>3 DEF f
  <1>5. QED  BY <1>4

(* The graph of a cache is a graph, and depends on nodes and edges only.   *)
LEMMA GraphOfType ==
  ASSUME NEW c PROVE GraphOf(c) \in [nodes : SUBSET Node, edges : SUBSET EdgeRid]
  BY DEF GraphOf

(* What is neither a node nor an edge does not show in the graph.          *)
LEMMA GraphOfSame ==
  ASSUME NEW c, NEW d, \A r \in Node \union EdgeRid : c[r] = d[r]
  PROVE  GraphOf(c) = GraphOf(d)
  BY DEF GraphOf, EdgeRid

(* What a peer may answer or send is typed like the RID it is about.       *)
LEMMA PeerBundlesType ==
  ASSUME now \in Nat, NEW rid \in RID, NEW bndl \in PeerBundles(rid)
  PROVE  bndl \in Bundles(rid)
  BY InputAssumption DEF PeerBundles, PeerTime, Bundles

-----------------------------------------------------------------------------
(* Type correctness                                                        *)

(* An item from outside keeps the types of what Input changes.             *)
LEMMA InputType ==
  ASSUME TypeOK, NEW k \in KObj, Input(k), now' \in Nat, profiled' \in BOOLEAN
  PROVE  TypeOK'
  BY DEF TypeOK, Input

(* So does what a peer sends.                                              *)
Sends(k) ==
  \/ \E w \in World, p \in Peers, ev \in InEvents : k = NewKObj(w[1], None, FALSE, ev, p)
  \/ \E w \in World, p \in Peers, ev \in InEvents, t \in PeerTime, full \in BOOLEAN :
       \E r \in GoesBy(w[1]) :
         k = FromEvent(r, w[1], [ts |-> t, body |-> w[2]], full, ev, p)

LEMMA ReceivedIsSent ==
  ASSUME ReceiveKnowledge
  PROVE  \E k : Sends(k) /\ Input(k) /\ now' = now
  <1>1. PICK p \in Peers, w \in World, ev \in InEvents, f \in Forms, t \in PeerTime :
          \E r \in (IF ev = None THEN {w[1]} ELSE GoesBy(w[1])) :
            /\ Listening
            /\ Input(IF f = "rid" THEN NewKObj(w[1], None, FALSE, ev, p)
                     ELSE FromEvent(r, w[1], [ts |-> t, body |-> w[2]], f = "bundle", ev, p))
            /\ UNCHANGED now
    BY Zenon DEF ReceiveKnowledge
  <1>2. PICK r \in GoesBy(w[1]) :
            /\ Input(IF f = "rid" THEN NewKObj(w[1], None, FALSE, ev, p)
                     ELSE FromEvent(r, w[1], [ts |-> t, body |-> w[2]], f = "bundle", ev, p))
            /\ UNCHANGED now
    <2>1. w[1] \in GoesBy(w[1])  BY InputAssumption DEF GoesBy
    <2>2. QED  BY <1>1, <2>1
  <1>3. Sends(NewKObj(w[1], None, FALSE, ev, p))  BY DEF Sends
  <1>4. Sends(FromEvent(r, w[1], [ts |-> t, body |-> w[2]], f = "bundle", ev, p))
    BY <1>2 DEF Sends
  <1>5. QED  BY <1>2, <1>3, <1>4

LEMMA SentType ==
  ASSUME now \in Nat, NEW k, Sends(k)
  PROVE  /\ k \in KObj /\ k.src \in Peers
         /\ k.man # None => \E w \in World : w[1] = k.mrid /\ w[2] = k.man.body
  <1>1. \A ev \in InEvents : ev \in EventType \union {None}
    BY InputAssumption DEF EventType
  <1>2. CASE \E w \in World, p \in Peers, ev \in InEvents :
               k = NewKObj(w[1], None, FALSE, ev, p)
    <2>1. PICK w \in World, p \in Peers, ev \in InEvents :
               k = NewKObj(w[1], None, FALSE, ev, p)
      BY <1>2
    <2>2. k \in KObj  BY <1>1, <2>1, InputAssumption, NewKObjType
    <2>3. QED  BY <2>1, <2>2 DEF NewKObj, FromEvent
  <1>3. CASE \E w \in World, p \in Peers, ev \in InEvents, t \in PeerTime, full \in BOOLEAN :
               \E r \in GoesBy(w[1]) :
                 k = FromEvent(r, w[1], [ts |-> t, body |-> w[2]], full, ev, p)
    <2>1. PICK w \in World, p \in Peers, ev \in InEvents, t \in PeerTime, full \in BOOLEAN :
               \E r \in GoesBy(w[1]) :
                 k = FromEvent(r, w[1], [ts |-> t, body |-> w[2]], full, ev, p)
      BY <1>3
    <2>2. PICK r \in GoesBy(w[1]) :
                 k = FromEvent(r, w[1], [ts |-> t, body |-> w[2]], full, ev, p)
      BY <2>1
    <2> DEFINE b == [ts |-> t, body |-> w[2]]
    <2>3. w[1] \in RID /\ b \in Bundles(w[1]) /\ b.body = w[2]
      BY InputAssumption DEF Bundles, PeerTime
    <2>4. k = FromEvent(r, w[1], b, full, ev, p)  BY <2>2
    <2> HIDE DEF b
    <2>5. b \in AnyBundle  BY <2>3, TypesOfRids
    <2>6. r \in RID /\ (r = w[1] \/ <<r, w[1]>> \in Mixed)  BY <2>3, NamesAreRids
    <2>7. k \in KObj  BY <1>1, <2>3, <2>4, <2>5, <2>6 DEF FromEvent, KObj
    <2>8. k.src = p /\ k.mrid = w[1] /\ k.man = b  BY <2>4 DEF FromEvent
    <2>9. QED  BY <2>3, <2>7, <2>8
  <1>4. QED  BY <1>2, <1>3 DEF Sends

(* What the steps outside the worker leave alone.                          *)
Entry == ProcessProfile \/ ReceiveKnowledge \/ ReceiveForget \/ ForgetUnreachable
           \/ PublishLocal

LEMMA EntryFrame ==
  ASSUME Entry
  PROVE  /\ UNCHANGED <<cache, graph, cur, pc, mixed, restarts>> /\ out' = {}
         /\ \E x : queue' = Append(queue, x)
  <1>1. ASSUME NEW k, Input(k)
        PROVE  /\ UNCHANGED <<cache, graph, cur, pc, mixed, restarts>> /\ out' = {}
               /\ \E x : queue' = Append(queue, x)
    BY <1>1 DEF Input
  <1>2. CASE ProcessProfile
    BY <1>2 DEF ProcessProfile
  <1>3. CASE ReceiveKnowledge
    BY <1>1, <1>3, ReceivedIsSent
  <1>4. CASE ReceiveForget \/ ForgetUnreachable \/ PublishLocal
    BY <1>1, <1>4 DEF ReceiveForget, ForgetUnreachable, PublishLocal
  <1>5. QED  BY <1>2, <1>3, <1>4 DEF Entry

(* What the worker holds while it is busy.                                 *)
LEMMA CurType ==
  ASSUME TypeOK, pc \notin {"idle", "dead"}
  PROVE  /\ cur \in KObj /\ cur.rid \in RID /\ cur.mrid \in RID
         /\ cur.man \in Bundles(cur.mrid) \union {None}
         /\ cur.src \in Peers \union {None} /\ cur.targets \subseteq Node
         /\ cur.norm \in EventType \union {None}
  <1>1. cur \in KObj  BY NoneAssumption DEF TypeOK
  <1>2. QED  BY <1>1 DEF KObj

(* Taking the bundle to be deleted from the cache keeps a knowledge object *)
(* well-typed, and so does a manifest or a bundle that was fetched.        *)
Deleting == [cur EXCEPT !.norm = "FORGET", !.mrid = cur.rid,
                        !.man = cache[cur.rid], !.full = TRUE]

LEMMA DeletingType ==
  ASSUME TypeOK, pc = "rid"
  PROVE  /\ Deleting \in KObj /\ Deleting.rid = cur.rid /\ Deleting.mrid = cur.rid
         /\ Deleting.man = cache[cur.rid] /\ Deleting.norm = "FORGET"
         /\ Deleting.ev = cur.ev
  <1>1. cur \in KObj /\ cur.rid \in RID  BY CurType
  <1>2. cache[cur.rid] \in Bundles(cur.rid) \union {None}  BY <1>1 DEF TypeOK
  <1>3. cache[cur.rid] \in AnyBundle \union {None}  BY <1>1, <1>2, TypesOfRids
  <1>4. QED  BY <1>1, <1>2, <1>3 DEF Deleting, KObj, EventType

LEMMA FetchedType ==
  ASSUME TypeOK, pc \notin {"idle", "dead"}, NEW m \in NamedBy(cur.rid),
         NEW b \in PeerBundles(m), NEW k \in {WithManifest(cur, m, b), WithBundle(cur, m, b)}
  PROVE  /\ k \in KObj /\ k.rid = cur.rid /\ k.mrid = m /\ k.man = b
         /\ k.norm = cur.norm /\ k.ev = cur.ev /\ b # None
         /\ k = WithBundle(cur, m, b) => (k.warned \/ (b = cur.man /\ m = cur.mrid))
  <1>1. cur \in KObj /\ cur.rid \in RID  BY CurType
  <1>2. m \in RID /\ (m = cur.rid \/ <<cur.rid, m>> \in Mixed)  BY <1>1, NamesAreRids
  <1>3. b \in Bundles(m) /\ b \in AnyBundle
    BY <1>2, PeerBundlesType, TypesOfRids DEF TypeOK
  <1>4. CASE k = WithManifest(cur, m, b) /\ k # WithBundle(cur, m, b)
    <2>1. k \in KObj  BY <1>1, <1>2, <1>3, <1>4 DEF WithManifest, KObj
    <2>2. QED  BY <1>1, <1>3, <1>4, <2>1, NoneAssumption DEF WithManifest, KObj
  <1>5. CASE k = WithBundle(cur, m, b)
    <2> DEFINE w == (m # cur.mrid \/ b # cur.man)
    <2>1. w \in BOOLEAN /\ (w \/ (b = cur.man /\ m = cur.mrid))  OBVIOUS
    <2>2. k = [cur EXCEPT !.mrid = m, !.man = b, !.full = TRUE, !.warned = w]
      BY <1>5 DEF WithBundle
    <2> HIDE DEF w
    <2>3. k \in KObj  BY <1>1, <1>2, <1>3, <2>1, <2>2 DEF KObj
    <2>4. k.warned = w /\ k.rid = cur.rid /\ k.mrid = m /\ k.man = b
          /\ k.norm = cur.norm /\ k.ev = cur.ev
      BY <1>1, <2>2 DEF KObj
    <2>5. QED  BY <1>3, <2>1, <2>3, <2>4, NoneAssumption
  <1>6. QED  BY <1>4, <1>5

(* The messages the pipeline pushes to the event queue are well-typed.     *)
LEMMA MessageType ==
  ASSUME NEW k \in KObj, k.norm \in EventType, NEW n \in Node
  PROVE  NormalizedEvent(k, n) \in Message
  BY TypesOfRids DEF NormalizedEvent, Message, KObj

(* A refusal is a message without a manifest.                              *)
LEMMA RefusalType ==
  ASSUME NEW k \in KObj, k.rid \in EdgeRid
  PROVE  Refusal(k) \in Message
  <1>1. k.rid[2] \in Node  BY DEF EdgeRid
  <1>2. QED  BY <1>1 DEF Refusal, Message, EventType, KObj

(* The targets of an event are nodes.                                      *)
LEMMA TargetsType ==
  ASSUME NEW k \in KObj
  PROVE  NetworkTargets(k) \in SUBSET Node
  <1>1. \A e \in EdgeRid : OtherEnd(e) \in Node  BY DEF OtherEnd, EdgeRid
  <1>2. GetNeighbors(TypeOf(k.rid)) \subseteq Node  BY TypesOfRids DEF GetNeighbors
  <1>3. InvolvesSelf(k) /\ k.rid # Self => k.rid \in EdgeRid  BY DEF InvolvesSelf
  <1>4. QED  BY <1>1, <1>2, <1>3 DEF NetworkTargets

(* The approval of a proposal is an edge.                                  *)
LEMMA ApprovalType ==
  ASSUME now \in Nat, NEW k \in KObj, k.rid \in EdgeRid, k.man # None
  PROVE  Approval(k) \in KObj
  <1>1. k.man.body \in EdgeBody
    <2>1. k.man \in Bundles(k.rid) /\ BodyOf(k.rid) = EdgeBody  BY KObjRids, TypesOfRids
    <2>2. QED  BY <2>1 DEF Bundles
  <1>2. [k.man.body EXCEPT !.st = "APPROVED"] \in EdgeBody  BY <1>1 DEF EdgeBody
  <1>3. k.rid \in RID /\ [k.man.body EXCEPT !.st = "APPROVED"] \in BodyOf(k.rid)
    BY <1>2, TypesOfRids
  <1>4. QED  BY <1>3, GeneratedType DEF Approval, EventType

(* The edge proposed to a provider is an edge.                             *)
ProposedEdge(k) ==
  LET e == <<k.rid, Self>>
  IN  [st |-> "PROPOSED", rts |-> Available(k),
       et |-> IF e \in graph.edges THEN cache[e].body.et
              ELSE IF SelfProfile.nt = "FULL" THEN "WEBHOOK" ELSE "POLL"]

LEMMA ProposalType ==
  ASSUME TypeOK, NEW k \in KObj, k.rid \in Peers, k.man # None,
         \A e \in graph.edges : cache[e] # None
  PROVE  /\ <<k.rid, Self>> \in EdgeRid
         /\ ProposedEdge(k) \in BodyOf(<<k.rid, Self>>)
         /\ Proposal(k) = Generated(<<k.rid, Self>>, ProposedEdge(k), None)
         /\ Proposal(k) \in KObj
  <1> DEFINE e == <<k.rid, Self>>
  <1>1. e \in EdgeRid  BY NodesAssumption DEF EdgeRid, Node
  <1>2. Available(k) \subseteq RidTypes  BY ProfileAssumption DEF Available
  <1>3. e \in graph.edges => cache[e].body.et \in {"WEBHOOK", "POLL"}
    <2>1. e \in graph.edges => cache[e] \in Bundles(e)  BY <1>1, TypesOfRids DEF TypeOK
    <2>2. BodyOf(e) = EdgeBody  BY <1>1, TypesOfRids
    <2> HIDE DEF e
    <2>3. e \in graph.edges => cache[e].body \in EdgeBody  BY <2>1, <2>2 DEF Bundles
    <2>4. QED  BY <2>3 DEF EdgeBody
  <1>4. ProposedEdge(k) \in BodyOf(e)
    BY <1>1, <1>2, <1>3, TypesOfRids DEF EdgeBody, ProposedEdge
  <1>5. e \in RID /\ now \in Nat  BY <1>1, TypesOfRids DEF TypeOK
  <1>6. Proposal(k) = Generated(e, ProposedEdge(k), None)  BY DEF Proposal, ProposedEdge
  <1> HIDE DEF e
  <1>7. Proposal(k) \in KObj  BY <1>4, <1>5, <1>6, GeneratedType
  <1>8. QED  BY <1>1, <1>4, <1>6, <1>7 DEF e

(* The inductive invariant: a well-typed state, a graph that matches the   *)
(* cache, and edges of the graph that can be read from the cache, whatever *)
(* was written under other RIDs since.                                     *)
GraphEdgesHeld == pc # "graph" => \A e \in graph.edges : cache[e] # None

IInv == TypeOK /\ GraphMatchesCache /\ GraphEdgesHeld

LEMMA GraphEdgesCached ==
  ASSUME IInv, pc # "graph"
  PROVE  \A e \in graph.edges : e \in EdgeRid /\ cache[e] # None
  BY DEF IInv, TypeOK, GraphEdgesHeld

(* The invariant holds in the initial states.                              *)
LEMMA InitIInv == Init => IInv
  <1> SUFFICES ASSUME Init PROVE IInv
    OBVIOUS
  <1>1. cache \in [RID -> AnyBundle \union {None}]  BY DEF Init
  <1>2. \A r \in RID : cache[r] = None  BY DEF Init
  <1>3. graph \in [nodes : SUBSET Node, edges : SUBSET EdgeRid]
    BY GraphOfType DEF Init
  <1>4. queue \in Seq(KObj) /\ pc \in Stages /\ cur = None /\ pc = "idle" /\ out = {}
    BY DEF Init, Stages
  <1>5. now \in Nat /\ inputs \in Nat /\ restarts \in Nat /\ profiled \in BOOLEAN
        /\ mixed \in BOOLEAN
    BY DEF Init
  <1>6. TypeOK  BY <1>1, <1>2, <1>3, <1>4, <1>5 DEF TypeOK
  <1>7. QED  BY <1>6 DEF Init, IInv, GraphMatchesCache, GraphEdgesHeld, GraphOf

(* Every step keeps the types.                                             *)
LEMMA TypeStep == IInv /\ [Next]_vars => TypeOK'
  <1> SUFFICES ASSUME IInv, [Next]_vars PROVE TypeOK'
    OBVIOUS
  <1> USE DEF IInv
  <1>1. CASE ProcessProfile
    <2>1. SelfProfile \in BodyOf(Self) /\ Self \in RID
      BY ProfileAssumption, TypesOfRids DEF Node
    <2>2. Generated(Self, SelfProfile, None) \in KObj
      BY <2>1, GeneratedType DEF TypeOK
    <2>3. QED  BY <1>1, <2>2 DEF ProcessProfile, TypeOK
  <1>2. CASE ReceiveKnowledge
    <2>1. PICK k : Sends(k) /\ Input(k) /\ now' = now  BY <1>2, ReceivedIsSent
    <2>2. k \in KObj  BY <2>1, SentType DEF TypeOK
    <2>3. now' \in Nat /\ profiled' \in BOOLEAN  BY <2>1 DEF TypeOK, Input
    <2>4. QED  BY <2>1, <2>2, <2>3, InputType
  <1>3. CASE ReceiveForget
    <2>1. PICK p \in Peers, r \in Forgettable :
            Input(NewKObj(r, None, FALSE, "FORGET", p)) /\ UNCHANGED now
      BY <1>3 DEF ReceiveForget
    <2>2. NewKObj(r, None, FALSE, "FORGET", p) \in KObj
      BY InputAssumption, NewKObjType DEF EventType
    <2>3. now' \in Nat /\ profiled' \in BOOLEAN  BY <2>1 DEF TypeOK, Input
    <2>4. QED  BY <2>1, <2>2, <2>3, InputType
  <1>4. CASE ForgetUnreachable
    <2>1. PICK p \in Peers :
            Input(NewKObj(p, None, FALSE, "FORGET", None)) /\ UNCHANGED now
      BY <1>4 DEF ForgetUnreachable
    <2>2. NewKObj(p, None, FALSE, "FORGET", None) \in KObj
      BY TypesOfRids, NewKObjType DEF EventType
    <2>3. now' \in Nat /\ profiled' \in BOOLEAN  BY <2>1 DEF TypeOK, Input
    <2>4. QED  BY <2>1, <2>2, <2>3, InputType
  <1>5. CASE PublishLocal
    <2>1. PICK w \in World : Input(Generated(w[1], w[2], None)) /\ now' = now + 1
      BY <1>5 DEF PublishLocal
    <2>2. Generated(w[1], w[2], None) \in KObj
      BY InputAssumption, GeneratedType DEF TypeOK
    <2>3. now' \in Nat /\ profiled' \in BOOLEAN  BY <2>1 DEF TypeOK, Input
    <2>4. QED  BY <2>1, <2>2, <2>3, InputType
  <1>6. CASE Restart
    <2>1. graph' \in [nodes : SUBSET Node, edges : SUBSET EdgeRid]
      BY <1>6, GraphOfType DEF Restart
    <2>2. queue' \in Seq(KObj)  BY <1>6 DEF Restart
    <2>3. pc' \in Stages /\ cur' = None /\ pc' = "idle" /\ out' = {}
      BY <1>6 DEF Restart, Stages
    <2>4. /\ cache' = cache /\ now' = now /\ inputs' = inputs
          /\ restarts' \in Nat /\ profiled' = FALSE /\ mixed' = FALSE
      BY <1>6 DEF Restart, TypeOK
    <2>5. QED  BY <2>1, <2>2, <2>3, <2>4 DEF TypeOK
  <1>7. CASE Dequeue
    <2>1. Head(queue) \in KObj /\ Tail(queue) \in Seq(KObj)
      BY <1>7 DEF Dequeue, TypeOK
    <2>2. Head(queue) # None  BY <2>1, NoneAssumption
    <2>3. QED  BY <1>7, <2>1, <2>2 DEF Dequeue, TypeOK, Stages
  <1>8. CASE RidChain
    <2>1. pc = "rid" /\ out' = {}
          /\ UNCHANGED <<cache, graph, queue, now, profiled, inputs, restarts, mixed>>
      BY <1>8 DEF RidChain
    <2>4. CASE Exit
      BY <2>1, <2>4 DEF Exit, TypeOK, Stages
    <2>5. CASE cur' = Deleting /\ pc' = "bundle" /\ Cached(cur.rid)
      <3>1. cur' \in KObj /\ cur' # None
        BY <2>1, <2>5, DeletingType, NoneAssumption
      <3>2. cur'.man # None /\ cur'.norm # None
        BY <2>1, <2>5, DeletingType, NoneAssumption DEF Cached, EventType
      <3>3. QED  BY <2>1, <2>5, <3>1, <3>2 DEF TypeOK, Stages
    <2>6. CASE pc' = "fetchManifest" /\ UNCHANGED cur
      BY <2>1, <2>6 DEF TypeOK, Stages
    <2>7. CASE pc' = "manifest" /\ UNCHANGED cur /\ cur.man # None
      BY <2>1, <2>7 DEF TypeOK, Stages
    <2>8. QED  BY <1>8, <2>4, <2>5, <2>6, <2>7 DEF RidChain, Deleting
  <1>9. CASE FetchManifest
    <2>1. pc = "fetchManifest" /\ out' = {}
          /\ UNCHANGED <<cache, graph, queue, now, profiled, inputs, restarts, mixed>>
      BY <1>9 DEF FetchManifest
    <2>2. CASE Exit \/ Die
      BY <2>1, <2>2 DEF Exit, Die, TypeOK, Stages
    <2>3. CASE /\ \E m \in NamedBy(cur.rid) : \E b \in PeerBundles(m) :
                    cur' = WithManifest(cur, m, b)
               /\ pc' = "manifest"
      <3>0. PICK m \in NamedBy(cur.rid) : \E b \in PeerBundles(m) : cur' = WithManifest(cur, m, b)
        BY <2>3
      <3>1. PICK b \in PeerBundles(m) : cur' = WithManifest(cur, m, b)
        BY <3>0
      <3>2. cur' \in KObj /\ cur'.man # None  BY <2>1, <3>1, FetchedType
      <3>3. cur' # None  BY <3>2, NoneAssumption
      <3>4. QED  BY <2>1, <2>3, <3>2, <3>3 DEF TypeOK, Stages
    <2>4. QED  BY <1>9, <2>2, <2>3 DEF FetchManifest
  <1>10. CASE ManifestChain
    <2>1. pc = "manifest" /\ out' = {}
          /\ UNCHANGED <<cache, graph, queue, now, profiled, inputs, restarts, mixed>>
      BY <1>10 DEF ManifestChain
    <2>2. cur \in KObj /\ cur.man # None  BY <2>1, CurType DEF TypeOK
    <2>3. CASE Exit
      BY <2>1, <2>3 DEF Exit, TypeOK, Stages
    <2>4. CASE /\ cur' = [cur EXCEPT !.norm = Decision(cur)]
               /\ pc' \in {"bundle", "fetchBundle"}
      <3>1. Decision(cur) \in EventType  BY DEF Decision, EventType
      <3>2. cur' \in KObj
        BY <2>2, <2>4, <3>1 DEF KObj
      <3>3. cur'.man = cur.man /\ cur'.norm = Decision(cur)  BY <2>2, <2>4 DEF KObj
      <3>4. cur' # None /\ cur'.norm # None  BY <3>1, <3>2, <3>3, NoneAssumption
      <3>5. QED  BY <2>1, <2>2, <2>4, <3>2, <3>3, <3>4 DEF TypeOK, Stages
    <2>5. QED  BY <1>10, <2>3, <2>4 DEF ManifestChain
  <1>11. CASE FetchBundle
    <2>1. pc = "fetchBundle" /\ out' = {}
          /\ UNCHANGED <<cache, graph, queue, now, profiled, inputs, restarts, mixed>>
      BY <1>11 DEF FetchBundle
    <2>2. cur.norm # None  BY <2>1 DEF TypeOK
    <2>3. CASE Exit \/ Die
      BY <2>1, <2>3 DEF Exit, Die, TypeOK, Stages
    <2>4. CASE /\ \E m \in NamedBy(cur.rid) : \E b \in PeerBundles(m) :
                    cur' = WithBundle(cur, m, b)
               /\ pc' = "bundle"
      <3>0. PICK m \in NamedBy(cur.rid) : \E b \in PeerBundles(m) : cur' = WithBundle(cur, m, b)
        BY <2>4
      <3>1. PICK b \in PeerBundles(m) : cur' = WithBundle(cur, m, b)
        BY <3>0
      <3>2. cur' \in KObj /\ cur'.man # None /\ cur'.norm = cur.norm
        BY <2>1, <3>1, FetchedType
      <3>3. cur' # None  BY <3>2, NoneAssumption
      <3>4. QED  BY <2>1, <2>2, <2>4, <3>2, <3>3 DEF TypeOK, Stages
    <2>5. QED  BY <1>11, <2>3, <2>4 DEF FetchBundle
  <1>12. CASE BundleChain
    <2>1. pc = "bundle" /\ UNCHANGED <<cache, graph, profiled, inputs, restarts, mixed>>
      BY <1>12 DEF BundleChain
    <2>2. cur \in KObj /\ cur.man # None /\ cur.norm # None /\ cur # None
      BY <2>1, CurType, NoneAssumption DEF TypeOK
    <2>3. CASE Exit /\ out' = {} /\ UNCHANGED <<queue, now>>
      BY <2>1, <2>3 DEF Exit, TypeOK, Stages
    <2>4. CASE cur.rid \in EdgeRid /\ Exit /\ out' = {Refusal(cur)} /\ UNCHANGED <<queue, now>>
      <3>1. out' \subseteq Message  BY <2>2, <2>4, RefusalType
      <3>2. QED  BY <2>1, <2>4, <3>1 DEF Exit, TypeOK, Stages
    <2>5. CASE /\ cur.rid \in EdgeRid /\ queue' = Append(queue, Approval(cur))
               /\ now' = now + 1 /\ pc' = "commit" /\ out' = {} /\ UNCHANGED cur
      <3>1. Approval(cur) \in KObj  BY <2>2, <2>5, ApprovalType DEF TypeOK
      <3>2. QED  BY <2>1, <2>2, <2>5, <3>1 DEF TypeOK, Stages
    <2>6. CASE pc' = "commit" /\ out' = {} /\ UNCHANGED <<cur, queue, now>>
      BY <2>1, <2>2, <2>6 DEF TypeOK, Stages
    <2>7. QED  BY <1>12, <2>3, <2>4, <2>5, <2>6 DEF BundleChain, IsProposalToSelf
  <1>13. CASE Commit
    <2>1. /\ pc = "commit" /\ out' = {} /\ pc' \in {"graph", "network"}
          /\ cache' = CacheAfter(cur)
          /\ mixed' \in BOOLEAN /\ UNCHANGED <<graph, queue, cur, now, profiled, inputs, restarts>>
      BY <1>13 DEF Commit, TypeOK
    <2>2. /\ cur \in KObj /\ cur.man \in Bundles(cur.mrid) \union {None}
          /\ cur.man # None /\ cur.norm # None /\ cur # None /\ cur.rid \in RID
          /\ cur.mrid \in RID
      BY <2>1, CurType, NoneAssumption DEF TypeOK
    <2>3. Bundles(cur.mrid) \subseteq AnyBundle  BY <2>2, TypesOfRids
    <2>4. /\ cache' \in [RID -> AnyBundle \union {None}]
          /\ \A r \in RID : cache'[r] \in Bundles(r) \union {None}
      BY <2>1, <2>2, <2>3 DEF CacheAfter, TypeOK
    <2>5. QED  BY <2>1, <2>2, <2>4 DEF TypeOK, Stages
  <1>14. CASE Generate
    <2>1. graph' \in [nodes : SUBSET Node, edges : SUBSET EdgeRid]
      BY <1>14, GraphOfType DEF Generate
    <2>2. pc = "graph" /\ pc' = "network" /\ out' = {}
          /\ mixed' = FALSE /\ UNCHANGED <<cache, queue, cur, now, profiled, inputs, restarts>>
      BY <1>14 DEF Generate
    <2>3. QED  BY <2>1, <2>2 DEF TypeOK, Stages
  <1>15. CASE NetworkChain
    <2>1. pc = "network" /\ out' = {}
          /\ UNCHANGED <<cache, graph, profiled, inputs, restarts, mixed>>
      BY <1>15 DEF NetworkChain
    <2>2. cur \in KObj /\ cur.man # None /\ cur.norm # None
      BY <2>1, CurType DEF TypeOK
    <2>3. CASE Die /\ UNCHANGED <<queue, now>>
      BY <2>1, <2>3 DEF Die, TypeOK, Stages
    <2>4. CASE cur' = [cur EXCEPT !.targets = NetworkTargets(cur)]
      <3>1. cur' \in KObj  BY <2>2, <2>4, TargetsType DEF KObj
      <3>2. cur'.man = cur.man /\ cur'.norm = cur.norm  BY <2>2, <2>4 DEF KObj
      <3>3. cur' # None  BY <3>1, NoneAssumption
      <3>4. CASE Contacts(cur) /\ queue' = Append(queue, Proposal(cur)) /\ now' = now + 1
                   /\ pc' = "contact"
        <4>1. \A e \in graph.edges : cache[e] # None  BY <2>1, GraphEdgesCached
        <4>2. Proposal(cur) \in KObj
          BY <2>2, <3>4, <4>1, ProposalType DEF Contacts
        <4>3. cur'.rid \in Peers  BY <2>2, <2>4, <3>4 DEF Contacts, KObj
        <4>4. QED  BY <2>1, <2>2, <3>1, <3>2, <3>3, <3>4, <4>2, <4>3 DEF TypeOK, Stages
      <3>5. CASE UNCHANGED <<queue, now>> /\ pc' = "publish"
        BY <2>1, <2>2, <3>1, <3>2, <3>3, <3>5 DEF TypeOK, Stages
      <3>6. QED  BY <1>15, <2>1, <2>3, <3>4, <3>5 DEF NetworkChain
    <2>5. QED  BY <1>15, <2>3, <2>4 DEF NetworkChain
  <1>16. CASE FetchRids
    <2>1. /\ pc = "contact" /\ out' = {}
          /\ (pc' = "publish" /\ cur' = cur) \/ (pc' = "dead" /\ cur' = None)
          /\ UNCHANGED <<cache, graph, now, profiled, inputs, restarts, mixed>>
      BY <1>16 DEF FetchRids, Die
    <2>2. cur \in KObj /\ cur.man # None /\ cur.norm # None /\ cur # None
      BY <2>1, CurType, NoneAssumption DEF TypeOK
    <2>3. queue' \in Seq(KObj)
      <3>1. CASE UNCHANGED queue  BY <3>1 DEF TypeOK
      <3>2. CASE \E S \in SUBSET Unknown(cur) : \E q \in Orders(S) :
             queue' = queue \o [i \in DOMAIN q |-> NewKObj(q[i], None, FALSE, None, cur.rid)]
        <4>0. PICK S \in SUBSET Unknown(cur) : \E q \in Orders(S) :
             queue' = queue \o [i \in DOMAIN q |-> NewKObj(q[i], None, FALSE, None, cur.rid)]
          BY <3>2
        <4>1. PICK q \in Orders(S) :
             queue' = queue \o [i \in DOMAIN q |-> NewKObj(q[i], None, FALSE, None, cur.rid)]
          BY <4>0
        <4>2. S \subseteq RID  BY InputAssumption DEF Unknown
        <4>3. cur.rid \in Peers  BY <2>1 DEF TypeOK
        <4>4. queue \o [i \in DOMAIN q |-> NewKObj(q[i], None, FALSE, None, cur.rid)] \in Seq(KObj)
          <5>1. queue \in Seq(KObj)  BY DEF TypeOK
          <5>2. S \in SUBSET RID /\ cur.rid \in Peers \union {None}  BY <4>2, <4>3
          <5>3. QED  BY <5>1, <5>2, PushListing
        <4>5. QED  BY <4>1, <4>4
      <3>3. QED  BY <1>16, <3>1, <3>2 DEF FetchRids
    <2>4. QED  BY <2>1, <2>2, <2>3 DEF TypeOK, Stages
  <1>17. CASE Publish
    <2>1. /\ pc = "publish" /\ pc' = "final"
          /\ out' = {NormalizedEvent(cur, n) : n \in cur.targets}
          /\ UNCHANGED <<cache, graph, queue, cur, now, profiled, inputs, restarts, mixed>>
      BY <1>17 DEF Publish
    <2>2. /\ cur \in KObj /\ cur.man # None /\ cur.norm # None /\ cur # None
          /\ cur.targets \subseteq Node /\ cur.norm \in EventType
      BY <2>1, CurType, NoneAssumption DEF TypeOK
    <2>3. out' \subseteq Message  BY <2>1, <2>2, MessageType
    <2>4. QED  BY <2>1, <2>2, <2>3 DEF TypeOK, Stages
  <1>18. CASE FinalChain
    <2>1. pc = "final" /\ Exit /\ out' = {}
          /\ UNCHANGED <<cache, graph, now, profiled, inputs, restarts, mixed>>
      BY <1>18 DEF FinalChain
    <2>2. queue' \in Seq(KObj)
      <3>1. CASE UNCHANGED queue  BY <3>1 DEF TypeOK
      <3>2. CASE \E q \in Orders(EdgesOf(cur.rid)) :
             queue' = queue \o [i \in DOMAIN q |-> NewKObj(q[i], None, FALSE, "FORGET", None)]
        <4>1. PICK q \in Orders(EdgesOf(cur.rid)) :
             queue' = queue \o [i \in DOMAIN q |-> NewKObj(q[i], None, FALSE, "FORGET", None)]
          BY <3>2
        <4>2. EdgesOf(cur.rid) \subseteq RID  BY TypesOfRids DEF EdgesOf
        <4>3. queue \o [i \in DOMAIN q |-> NewKObj(q[i], None, FALSE, "FORGET", None)] \in Seq(KObj)
          <5>1. queue \in Seq(KObj)  BY DEF TypeOK
          <5>2. EdgesOf(cur.rid) \in SUBSET RID /\ "FORGET" \in EventType \union {None}
            BY <4>2 DEF EventType
          <5>3. QED  BY <5>1, <5>2, PushListing
        <4>4. QED  BY <4>1, <4>3
      <3>3. QED  BY <1>18, <3>1, <3>2 DEF FinalChain
    <2>3. QED  BY <2>1, <2>2 DEF Exit, TypeOK, Stages
  <1>19. CASE UNCHANGED vars
    BY <1>19 DEF vars, TypeOK
  <1>20. QED
    BY <1>1, <1>2, <1>3, <1>4, <1>5, <1>6, <1>7, <1>8, <1>9, <1>10, <1>11, <1>12,
       <1>13, <1>14, <1>15, <1>16, <1>17, <1>18, <1>19
    DEF Next, Worker, Process, Environment, Entry

-----------------------------------------------------------------------------
(* The graph                                                               *)

(* The steps that leave cache and graph alone, and do not enter or leave   *)
(* the stage between them.                                                 *)
LEMMA GraphFrame ==
  ASSUME GraphMatchesCache, GraphEdgesHeld, UNCHANGED <<cache, graph, mixed>>,
         pc' = "graph" <=> pc = "graph"
  PROVE  GraphMatchesCache' /\ GraphEdgesHeld'
  BY DEF GraphMatchesCache, GraphEdgesHeld

(* Every step keeps the graph equal to that of the cache, outside "graph". *)
LEMMA GraphStep == IInv /\ [Next]_vars => GraphMatchesCache' /\ GraphEdgesHeld'
  <1> SUFFICES ASSUME IInv, [Next]_vars PROVE GraphMatchesCache' /\ GraphEdgesHeld'
    OBVIOUS
  <1> USE DEF IInv
  <1>1. CASE Restart
    BY <1>1 DEF Restart, GraphMatchesCache, GraphEdgesHeld, GraphOf
  <1>2. CASE Commit
    <2>1. CASE ChangesGraph(cur)
      BY <1>2, <2>1 DEF Commit, GraphMatchesCache, GraphEdgesHeld
    <2>2. CASE ~ChangesGraph(cur)
      <3>1. /\ pc = "commit" /\ graph' = graph /\ cache' = CacheAfter(cur)
            /\ mixed' = (mixed \/ cur.mrid # cur.rid)
        BY <1>2 DEF Commit
      <3>2. cur.rid \in RID /\ cur.mrid \in RID /\ cur.man # None
        BY <3>1, CurType DEF TypeOK
      <3>3. \A r \in Node \union EdgeRid : r # cur.rid /\ r \in RID
        BY <2>2, TypesOfRids DEF ChangesGraph
      <3>4. \A r \in Node \union EdgeRid :
              cache'[r] = cache[r] \/ (r = cur.mrid /\ cache'[r] = cur.man)
        BY <3>1, <3>2, <3>3 DEF CacheAfter, TypeOK
      <3>5. ~mixed' => GraphOf(cache') = GraphOf(cache)
        BY <3>1, <3>3, <3>4, GraphOfSame
      <3>6. \A e \in graph.edges : e \in EdgeRid /\ cache[e] # None
        BY <3>1, GraphEdgesCached
      <3>7. GraphMatchesCache'  BY <3>1, <3>5 DEF GraphMatchesCache
      <3>8. GraphEdgesHeld'  BY <3>1, <3>2, <3>4, <3>6 DEF GraphEdgesHeld
      <3>9. QED  BY <3>7, <3>8
    <2>3. QED  BY <2>1, <2>2
  <1>3. CASE Generate
    BY <1>3 DEF Generate, GraphMatchesCache, GraphEdgesHeld, GraphOf
  <1>4. CASE Environment /\ ~Restart
    <2>1. UNCHANGED <<cache, graph, pc, mixed>>
      BY <1>4, EntryFrame DEF Environment, Entry
    <2>2. QED  BY <2>1, GraphFrame
  <1>5. CASE Dequeue \/ RidChain \/ FetchManifest \/ ManifestChain \/ FetchBundle
    <2>1. UNCHANGED <<cache, graph, mixed>> /\ pc # "graph" /\ pc' # "graph"
      BY <1>5 DEF Dequeue, RidChain, FetchManifest, ManifestChain, FetchBundle, Exit, Die
    <2>2. QED  BY <2>1, GraphFrame
  <1>6. CASE BundleChain \/ NetworkChain \/ FetchRids \/ Publish \/ FinalChain
    <2>1. UNCHANGED <<cache, graph, mixed>> /\ pc # "graph" /\ pc' # "graph"
      BY <1>6 DEF BundleChain, NetworkChain, FetchRids, Publish, FinalChain, Exit, Die
    <2>2. QED  BY <2>1, GraphFrame
  <1>7. CASE UNCHANGED vars
    BY <1>7 DEF vars, GraphMatchesCache, GraphEdgesHeld
  <1>8. QED
    BY <1>1, <1>2, <1>3, <1>4, <1>5, <1>6, <1>7 DEF Next, Worker, Process

(* Every state of every behaviour is well-typed, and in every state the    *)
(* graph is the graph of the cache, except between a write and generate,   *)
(* or after a write under the RID of another object's manifest.            *)
THEOREM Invariance == Spec => []IInv
  <1>1. IInv /\ [Next]_vars => IInv'  BY TypeStep, GraphStep DEF IInv
  <1>2. QED  BY InitIInv, <1>1, PTL DEF Spec

(* Every variable always has its type (TypeOK of the runs).                *)
THEOREM TypeInvariant == Spec => []TypeOK
  <1>1. IInv => TypeOK  BY DEF IInv
  <1>2. QED  BY Invariance, <1>1, PTL

(* Whatever is consulted outside the step that regenerates it, the graph   *)
(* shows the nodes and edges the cache holds: pipeline.process never       *)
(* leaves a write of a node or an edge without graph.generate behind it,   *)
(* unless the manifest names another RID than the object it came with.     *)
THEOREM GraphInvariant == Spec => []GraphMatchesCache
  <1>1. IInv => GraphMatchesCache  BY DEF IInv
  <1>2. QED  BY Invariance, <1>1, PTL

-----------------------------------------------------------------------------
(* Decisions                                                               *)

(* The stages between a decision and the cache action it is about.         *)
Decided == {"fetchBundle", "bundle", "commit"}

(* The steps outside the stages of a decision, which write nothing.        *)
LEMMA UndecidedSteps ==
  ASSUME TypeOK, Environment \/ Dequeue \/ FetchManifest \/ Generate \/ NetworkChain
                   \/ FetchRids \/ Publish \/ FinalChain \/ UNCHANGED vars
  PROVE  /\ cache' = cache
         /\ pc' \in Decided => pc' = pc /\ cur' = cur
  <1>1. CASE Entry
    BY <1>1, EntryFrame
  <1>2. CASE Restart \/ Dequeue \/ FetchManifest \/ Generate
    BY <1>2 DEF Restart, Dequeue, FetchManifest, Generate, Exit, Die, Decided
  <1>3. CASE NetworkChain \/ FetchRids \/ Publish \/ FinalChain
    BY <1>3 DEF NetworkChain, FetchRids, Publish, FinalChain, Exit, Die, Decided
  <1>4. CASE UNCHANGED vars
    BY <1>4 DEF vars
  <1>5. QED  BY <1>1, <1>2, <1>3, <1>4 DEF Environment, Entry

(* How the other steps lead to a decision, keep it and carry it out.       *)
LEMMA DecidingSteps ==
  ASSUME TypeOK, pc' \in Decided, RidChain \/ ManifestChain \/ FetchBundle \/ BundleChain
  PROVE  /\ cache' = cache /\ cur' \in KObj /\ cur'.rid = cur.rid
         /\ \/ cur'.norm = "FORGET" /\ Cached(cur.rid)
            \/ /\ cur'.norm = Decision(cur) /\ NewerThanCache(cur)
               /\ cur'.man = cur.man
            \/ pc = "bundle" /\ cur' = cur
            \/ /\ pc = "fetchBundle" /\ pc' = "bundle" /\ cur'.norm = cur.norm
               /\ cur'.warned \/ cur'.man = cur.man
  <1>1. CASE RidChain
    <2>1. cur \in KObj /\ cache' = cache /\ pc = "rid"  BY <1>1, CurType DEF RidChain
    <2>2. cur' = Deleting /\ Cached(cur.rid)
      BY <1>1, <2>1 DEF RidChain, Exit, Decided, Deleting
    <2>3. QED  BY <2>1, <2>2, DeletingType
  <1>2. CASE ManifestChain
    <2>1. cur \in KObj /\ cache' = cache  BY <1>2, CurType DEF ManifestChain
    <2>2. cur' = [cur EXCEPT !.norm = Decision(cur)] /\ NewerThanCache(cur)
      BY <1>2 DEF ManifestChain, Exit, Decided
    <2>3. cur' \in KObj /\ cur'.rid = cur.rid /\ cur'.norm = Decision(cur)
          /\ cur'.man = cur.man
      BY <2>1, <2>2 DEF KObj, Decision, EventType
    <2>4. QED  BY <2>1, <2>2, <2>3
  <1>3. CASE FetchBundle
    <2>1. cur \in KObj /\ cur.rid \in RID /\ pc = "fetchBundle" /\ cache' = cache
      BY <1>3, CurType DEF FetchBundle
    <2>2. pc' = "bundle" /\ \E m \in NamedBy(cur.rid) : \E b \in PeerBundles(m) :
                                cur' = WithBundle(cur, m, b)
      BY <1>3 DEF FetchBundle, Exit, Die, Decided
    <2>0. PICK m \in NamedBy(cur.rid) : \E b \in PeerBundles(m) : cur' = WithBundle(cur, m, b)
      BY <2>2
    <2>3. PICK b \in PeerBundles(m) : cur' = WithBundle(cur, m, b)
      BY <2>0
    <2>4. /\ cur' \in KObj /\ cur'.rid = cur.rid /\ cur'.norm = cur.norm
          /\ cur'.warned \/ cur'.man = cur.man
      BY <2>1, <2>3, FetchedType
    <2>5. QED  BY <2>1, <2>2, <2>4
  <1>4. CASE BundleChain
    <2>1. cur \in KObj /\ pc = "bundle" /\ cache' = cache  BY <1>4, CurType DEF BundleChain
    <2>2. cur' = cur  BY <1>4 DEF BundleChain, Exit, Decided
    <2>3. QED  BY <2>1, <2>2
  <1>5. QED  BY <1>1, <1>2, <1>3, <1>4

(* After a cache action nothing is decided.                                *)
LEMMA CommitStep == Commit => pc' \notin Decided
  BY DEF Commit, Decided

(* Every step keeps the decision in agreement with the cache.              *)
LEMMA DecisionStep == TypeOK /\ DecisionHolds /\ [Next]_vars => DecisionHolds'
  <1> SUFFICES ASSUME TypeOK, DecisionHolds, [Next]_vars, pc' \in Decided
               PROVE  (cache'[cur'.rid] # None) <=> cur'.norm \in {"UPDATE", "FORGET"}
    BY DEF DecisionHolds, Decided, Cached
  <1>1. CASE RidChain \/ ManifestChain \/ FetchBundle \/ BundleChain
    BY <1>1, DecidingSteps DEF DecisionHolds, Decided, Decision, Cached
  <1>2. CASE Commit
    BY <1>2, CommitStep
  <1>3. CASE Environment \/ Dequeue \/ FetchManifest \/ Generate \/ NetworkChain
               \/ FetchRids \/ Publish \/ FinalChain \/ UNCHANGED vars
    BY <1>3, UndecidedSteps DEF DecisionHolds, Decided, Cached
  <1>4. QED  BY <1>1, <1>2, <1>3 DEF Next, Worker, Process

(* The decision of the chains still agrees with the cache when it is       *)
(* carried out, however long the fetches before it took.                   *)
THEOREM DecisionInvariant == Spec => []DecisionHolds
  <1>1. Init => DecisionHolds  BY DEF Init, DecisionHolds
  <1>2. QED  BY TypeInvariant, <1>1, DecisionStep, PTL DEF Spec

(* What is about to replace a cached bundle is newer and has other         *)
(* contents, unless what was fetched is not what was announced.            *)
IsNewer(man, old) == man.ts > old.ts /\ man.body # old.body

UpdateIsNewer ==
  pc \in Decided /\ cur.norm = "UPDATE" =>
    IsNewer(cur.man, cache[cur.rid]) \/ (cur.warned /\ pc # "fetchBundle")

LEMMA NewerStep ==
  ASSUME TypeOK, UpdateIsNewer, [Next]_vars
  PROVE  UpdateIsNewer'
  <1> SUFFICES ASSUME pc' \in Decided, cur'.norm = "UPDATE"
               PROVE  IsNewer(cur'.man, cache'[cur'.rid]) \/ (cur'.warned /\ pc' # "fetchBundle")
    BY DEF UpdateIsNewer
  <1>1. CASE RidChain \/ ManifestChain \/ FetchBundle \/ BundleChain
    <2>1. CASE cur'.norm = Decision(cur) /\ NewerThanCache(cur) /\ cur'.man = cur.man
      BY <1>1, <2>1, DecidingSteps DEF Decision, NewerThanCache, IsNewer
    <2>2. CASE pc = "bundle" /\ cur' = cur
      <3>1. cache' = cache  BY <1>1, DecidingSteps
      <3>2. pc' # "fetchBundle"
        BY <1>1, <2>2 DEF RidChain, ManifestChain, FetchBundle, BundleChain, Exit
      <3>3. QED  BY <2>2, <3>1, <3>2 DEF UpdateIsNewer, Decided
    <2>3. CASE /\ pc = "fetchBundle" /\ pc' = "bundle" /\ cur'.norm = cur.norm
               /\ cur'.warned \/ cur'.man = cur.man
      <3>1. cur'.rid = cur.rid /\ cache' = cache  BY <1>1, DecidingSteps
      <3>2. IsNewer(cur.man, cache[cur.rid])  BY <2>3 DEF UpdateIsNewer, Decided
      <3>3. QED  BY <2>3, <3>1, <3>2
    <2>4. QED  BY <1>1, <2>1, <2>2, <2>3, DecidingSteps
  <1>2. CASE Commit
    BY <1>2, CommitStep
  <1>3. CASE Environment \/ Dequeue \/ FetchManifest \/ Generate \/ NetworkChain
               \/ FetchRids \/ Publish \/ FinalChain \/ UNCHANGED vars
    BY <1>3, UndecidedSteps DEF UpdateIsNewer
  <1>4. QED  BY <1>1, <1>2, <1>3 DEF Next, Worker, Process

(* No step replaces a bundle by one that is not newer, but for the two     *)
(* exceptions.                                                             *)
LEMMA ReplacedByNewer ==
  ASSUME TypeOK, DecisionHolds, UpdateIsNewer, [Next]_vars
  PROVE  \A r \in RID : (cache[r] # None /\ cache'[r] # None /\ cache'[r] # cache[r])
                          => \/ IsNewer(cache'[r], cache[r])
                             \/ cur.warned \/ cur.mrid # cur.rid
  <1>1. CASE Commit
    <2> SUFFICES ASSUME ~cur.warned, cur.mrid = cur.rid, NEW r \in RID, cache[r] # None,
                        cache'[r] # None, cache'[r] # cache[r]
                 PROVE  IsNewer(cache'[r], cache[r])
      OBVIOUS
    <2>1. pc = "commit" /\ cache' = CacheAfter(cur)  BY <1>1 DEF Commit
    <2>2. cur.rid \in RID /\ cur.norm \in EventType \union {None} /\ cur.norm # None
      BY <2>1, CurType DEF TypeOK
    <2>3. r = cur.rid /\ cur.norm # "FORGET" /\ cache'[r] = cur.man
      BY <2>1, <2>2 DEF CacheAfter, TypeOK
    <2>4. cur.norm # "NEW"  BY <2>1, <2>3 DEF DecisionHolds, Cached
    <2>5. cur.norm = "UPDATE"  BY <2>2, <2>3, <2>4 DEF EventType
    <2>6. QED  BY <2>1, <2>3, <2>5 DEF UpdateIsNewer, Decided
  <1>2. CASE RidChain \/ ManifestChain \/ FetchBundle \/ BundleChain
    BY <1>2 DEF RidChain, ManifestChain, FetchBundle, BundleChain
  <1>3. CASE Environment \/ Dequeue \/ FetchManifest \/ Generate \/ NetworkChain
               \/ FetchRids \/ Publish \/ FinalChain \/ UNCHANGED vars
    BY <1>3, UndecidedSteps
  <1>4. QED  BY <1>1, <1>2, <1>3 DEF Next, Worker, Process

(* "Stops processing for manifests which have the same hash, or aren't     *)
(* newer than the cached version": a cached bundle is replaced only by a   *)
(* newer one with other contents, unless the pipeline has warned that the  *)
(* bundle is not the one announced, or writes it under a RID that it did   *)
(* not compare with.                                                       *)
THEOREM NewerWinsTheorem == Spec => NewerWins
  <1>1. Init => UpdateIsNewer  BY DEF Init, UpdateIsNewer, Decided
  <1>2. TypeOK /\ UpdateIsNewer /\ [Next]_vars => UpdateIsNewer'
    BY NewerStep
  <1>3. TypeOK /\ DecisionHolds /\ UpdateIsNewer /\ [Next]_vars =>
          [\A r \in RID : (cache[r] # None /\ cache'[r] # None /\ cache'[r] # cache[r])
              => \/ cache'[r].ts > cache[r].ts /\ cache'[r].body # cache[r].body
                 \/ cur.warned \/ cur.mrid # cur.rid]_vars
    BY ReplacedByNewer DEF IsNewer
  <1>4. QED
    BY TypeInvariant, DecisionInvariant, <1>1, <1>2, <1>3, PTL DEF Spec, NewerWins

-----------------------------------------------------------------------------
(* Where knowledge comes from                                              *)

(* What peers send, or what RIDs they list.                                *)
FromPeer(k) ==
  /\ k.src \in Peers
  /\ k.man # None => \E w \in World : w[1] = k.mrid /\ w[2] = k.man.body

(* What ProfileMonitor queues.                                             *)
OwnProfile(k) == k.rid = Self /\ k.ev = None /\ k.man # None /\ k.man.body = SelfProfile

(* What the error handler and ForgetNodeHandler queue.                     *)
OwnForget(k) == k.rid # Self /\ k.ev = "FORGET" /\ k.man = None

(* An approval or a proposal.                                              *)
OwnEdge(k) ==
  /\ k.rid \in EdgeRid /\ k.man # None
  /\ k.man.body.st = "APPROVED" => k.man.body.rts \subseteq Provided

(* All that ever enters the queue.                                         *)
Entering(k) ==
  \/ FromPeer(k)
  \/ /\ k.src = None /\ k.mrid = k.rid
     /\ OwnProfile(k) \/ OwnForget(k) \/ OwnEdge(k) \/ k.rid \in Objs

Origin == {k \in KObj : Entering(k)}

(* The queue holds nothing else, nor does the worker when it begins.       *)
Provenance == queue \in Seq(Origin) /\ (pc = "rid" => cur \in Origin)

(* A FORGET of another RID, and the RIDs a peer lists.                     *)
LEMMA ForgetEnters ==
  ASSUME NEW r \in RID, r # Self
  PROVE  NewKObj(r, None, FALSE, "FORGET", None) \in Origin
  <1>1. NewKObj(r, None, FALSE, "FORGET", None) \in KObj  BY NewKObjType DEF EventType
  <1> DEFINE k == NewKObj(r, None, FALSE, "FORGET", None)
  <1>2. k.rid = r /\ k.mrid = r /\ k.man = None /\ k.ev = "FORGET" /\ k.src = None
    BY DEF NewKObj, FromEvent
  <1> HIDE DEF k
  <1>3. k \in Origin  BY <1>1, <1>2 DEF Origin, Entering, OwnForget, k
  <1>4. QED  BY <1>3 DEF k

LEMMA ListedEnters ==
  ASSUME NEW r \in RID, NEW ev \in EventType \union {None}, NEW p \in Peers
  PROVE  NewKObj(r, None, FALSE, ev, p) \in Origin
  <1>1. NewKObj(r, None, FALSE, ev, p) \in KObj  BY NewKObjType
  <1> DEFINE k == NewKObj(r, None, FALSE, ev, p)
  <1>2. k.man = None /\ k.src = p  BY DEF NewKObj, FromEvent
  <1> HIDE DEF k
  <1>3. k \in Origin  BY <1>1, <1>2 DEF Origin, Entering, FromPeer, k
  <1>4. QED  BY <1>3 DEF k

(* A listing of such objects, queued.                                      *)
LEMMA ListingEnters ==
  ASSUME queue \in Seq(Origin), NEW S \in SUBSET RID, NEW q \in Orders(S), NEW ev, NEW src,
         \A r \in S : NewKObj(r, None, FALSE, ev, src) \in Origin
  PROVE  queue \o [i \in DOMAIN q |-> NewKObj(q[i], None, FALSE, ev, src)] \in Seq(Origin)
  <1>1. IsFiniteSet(S)  BY FiniteRids, FS_Subset
  <1>2. q \in Seq(S) /\ DOMAIN q = 1..Len(q)  BY <1>1, OrdersType
  <1>3. ASSUME NEW i \in DOMAIN q  PROVE  NewKObj(q[i], None, FALSE, ev, src) \in Origin
    <2>1. q[i] \in S  BY <1>2
    <2>2. QED  BY <2>1
  <1> DEFINE f == [i \in DOMAIN q |-> NewKObj(q[i], None, FALSE, ev, src)]
  <1>4. f \in [DOMAIN q -> Origin]  BY <1>3
  <1> HIDE DEF f
  <1>5. f \in Seq(Origin)
    <2>1. Len(q) \in Nat  BY <1>2, LenProperties
    <2>2. QED  BY <1>2, <1>4, <2>1
  <1>6. \A s \in Seq(Origin), t \in Seq(Origin) : s \o t \in Seq(Origin)
    OBVIOUS
  <1>7. queue \o f \in Seq(Origin)  BY <1>5, <1>6
  <1>8. QED  BY <1>7 DEF f

(* One object, queued.                                                     *)
LEMMA OneEnters ==
  ASSUME queue \in Seq(Origin), NEW k \in Origin
  PROVE  Append(queue, k) \in Seq(Origin)
  OBVIOUS

(* What other threads and the peers put in the queue.                      *)
LEMMA InputEnters ==
  ASSUME TypeOK, queue \in Seq(Origin), ProcessProfile \/ ReceiveKnowledge \/ ReceiveForget
                                          \/ ForgetUnreachable \/ PublishLocal
  PROVE  queue' \in Seq(Origin) /\ pc' = pc /\ cur' = cur
  <1>1. CASE ProcessProfile
    <2> DEFINE k == Generated(Self, SelfProfile, None)
    <2>1. SelfProfile \in BodyOf(Self) /\ Self \in RID
      BY ProfileAssumption, TypesOfRids DEF Node
    <2>2. k \in KObj  BY <2>1, GeneratedType DEF TypeOK
    <2>3. /\ k.rid = Self /\ k.mrid = Self /\ k.ev = None /\ k.src = None
          /\ k.man # None /\ k.man.body = SelfProfile
      BY <2>1, GeneratedFields DEF TypeOK
    <2>4. queue' = Append(queue, k) /\ pc' = pc /\ cur' = cur  BY <1>1 DEF ProcessProfile
    <2> HIDE DEF k
    <2>5. k \in Origin  BY <2>2, <2>3 DEF Origin, Entering, OwnProfile
    <2>6. QED  BY <2>4, <2>5, OneEnters
  <1>2. CASE ReceiveKnowledge
    <2>1. PICK k : Sends(k) /\ Input(k)  BY <1>2, ReceivedIsSent
    <2>2. k \in Origin  BY <2>1, SentType DEF TypeOK, Origin, Entering, FromPeer
    <2>3. QED  BY <2>1, <2>2, OneEnters DEF Input
  <1>3. CASE ReceiveForget
    <2>1. PICK p \in Peers, r \in Forgettable : Input(NewKObj(r, None, FALSE, "FORGET", p))
      BY <1>3 DEF ReceiveForget
    <2>2. NewKObj(r, None, FALSE, "FORGET", p) \in Origin
      BY InputAssumption, ListedEnters DEF EventType
    <2>3. QED  BY <2>1, <2>2, OneEnters DEF Input
  <1>4. CASE ForgetUnreachable
    <2>1. PICK p \in Peers : Input(NewKObj(p, None, FALSE, "FORGET", None))
      BY <1>4 DEF ForgetUnreachable
    <2>2. p \in RID /\ p # Self  BY TypesOfRids, NodesAssumption
    <2>3. QED  BY <2>1, <2>2, ForgetEnters, OneEnters DEF Input
  <1>5. CASE PublishLocal
    <2>1. PICK w \in World : w[1] \in Objs /\ Input(Generated(w[1], w[2], None))
      BY <1>5 DEF PublishLocal
    <2> DEFINE k == Generated(w[1], w[2], None)
    <2>2. k \in KObj  BY InputAssumption, GeneratedType DEF TypeOK
    <2>3. k.rid = w[1] /\ k.mrid = w[1] /\ k.src = None  BY DEF Generated, NewKObj, FromEvent
    <2>4. queue' = Append(queue, k) /\ pc' = pc /\ cur' = cur  BY <2>1 DEF Input
    <2> HIDE DEF k
    <2>5. k \in Origin  BY <2>1, <2>2, <2>3 DEF Origin, Entering
    <2>6. QED  BY <2>4, <2>5, OneEnters
  <1>6. QED  BY <1>1, <1>2, <1>3, <1>4, <1>5

(* What the chains put in the queue.                                       *)
LEMMA ApprovalEnters ==
  ASSUME TypeOK, NEW k \in KObj, IsProposalToSelf(k), k.man # None,
         Acceptable(k.man.body, cache[k.rid[2]].body)
  PROVE  Approval(k) \in Origin
  <1> DEFINE a == Approval(k)
             b == [k.man.body EXCEPT !.st = "APPROVED"]
  <1>1. k.rid \in EdgeRid /\ k.rid \in RID  BY TypesOfRids DEF IsProposalToSelf
  <1>2. a \in KObj  BY <1>1, ApprovalType DEF TypeOK
  <1>3. k.man.body \in EdgeBody /\ k.man.body.rts \subseteq Provided
    <2>1. k.man \in Bundles(k.rid) /\ BodyOf(k.rid) = EdgeBody  BY <1>1, KObjRids, TypesOfRids
    <2>2. QED  BY <2>1 DEF Bundles, Acceptable
  <1>4. b \in EdgeBody /\ b.rts \subseteq Provided  BY <1>3 DEF EdgeBody
  <1>5. a = Generated(k.rid, b, "UPDATE")  BY DEF Approval
  <1>6. b \in BodyOf(k.rid)  BY <1>1, <1>4, TypesOfRids
  <1> HIDE DEF a, b
  <1>7. a.rid = k.rid /\ a.mrid = k.rid /\ a.src = None /\ a.man # None /\ a.man.body = b
    BY <1>1, <1>5, <1>6, GeneratedFields DEF TypeOK
  <1>8. a \in Origin  BY <1>1, <1>2, <1>4, <1>7 DEF Origin, Entering, OwnEdge
  <1>9. QED  BY <1>8 DEF a

LEMMA ProposalEnters ==
  ASSUME TypeOK, NEW k \in KObj, k.rid \in Peers, k.man # None,
         \A e \in graph.edges : cache[e] # None
  PROVE  Proposal(k) \in Origin
  <1> DEFINE a == Proposal(k)
             e == <<k.rid, Self>>
  <1>1. a \in KObj /\ e \in EdgeRid /\ e \in RID  BY ProposalType, TypesOfRids
  <1>2. ProposedEdge(k) \in BodyOf(e) /\ a = Generated(e, ProposedEdge(k), None)
    BY ProposalType
  <1>3. ProposedEdge(k).st = "PROPOSED"  BY DEF ProposedEdge
  <1> HIDE DEF a, e
  <1>4. a.rid = e /\ a.mrid = e /\ a.src = None /\ a.man # None /\ a.man.body = ProposedEdge(k)
    BY <1>1, <1>2, GeneratedFields DEF TypeOK
  <1>5. a \in Origin  BY <1>1, <1>3, <1>4 DEF Origin, Entering, OwnEdge
  <1>6. QED  BY <1>5 DEF a

LEMMA ProvenanceStep == IInv /\ Provenance /\ [Next]_vars => Provenance'
  <1> SUFFICES ASSUME IInv, Provenance, [Next]_vars PROVE Provenance'
    OBVIOUS
  <1> USE DEF IInv
  <1>1. queue \in Seq(Origin)  BY DEF Provenance
  <1>2. CASE ProcessProfile \/ ReceiveKnowledge \/ ReceiveForget \/ ForgetUnreachable
               \/ PublishLocal
    BY <1>1, <1>2, InputEnters DEF Provenance
  <1>3. CASE Restart
    BY <1>3 DEF Restart, Provenance
  <1>4. CASE Dequeue
    <2>1. Head(queue) \in Origin /\ Tail(queue) \in Seq(Origin)
      BY <1>1, <1>4 DEF Dequeue
    <2>2. QED  BY <1>4, <2>1 DEF Dequeue, Provenance
  <1>5. CASE RidChain \/ FetchManifest \/ ManifestChain \/ FetchBundle \/ Commit
               \/ Generate \/ Publish
    <2>1. queue' = queue /\ pc' # "rid"
      BY <1>5 DEF RidChain, FetchManifest, ManifestChain, FetchBundle, Commit, Generate,
                  Publish, Exit, Die
    <2>2. QED  BY <1>1, <2>1 DEF Provenance
  <1>6. CASE BundleChain
    <2>1. pc = "bundle" /\ pc' # "rid"  BY <1>6 DEF BundleChain, Exit
    <2>2. cur \in KObj /\ cur.man # None  BY <2>1, CurType DEF TypeOK
    <2>3. queue' = queue \/ (/\ queue' = Append(queue, Approval(cur)) /\ IsProposalToSelf(cur)
                             /\ Acceptable(cur.man.body, cache[cur.rid[2]].body))
      BY <1>6 DEF BundleChain
    <2>4. QED  BY <1>1, <2>1, <2>2, <2>3, ApprovalEnters, OneEnters DEF Provenance
  <1>7. CASE NetworkChain
    <2>1. pc = "network" /\ pc' # "rid"  BY <1>7 DEF NetworkChain, Die
    <2>2. cur \in KObj /\ cur.man # None  BY <2>1, CurType DEF TypeOK
    <2>3. queue' = queue \/ (queue' = Append(queue, Proposal(cur)) /\ cur.rid \in Peers)
      BY <1>7 DEF NetworkChain, Contacts
    <2>4. \A e \in graph.edges : cache[e] # None  BY <2>1, GraphEdgesCached
    <2>5. QED  BY <1>1, <2>1, <2>2, <2>3, <2>4, ProposalEnters, OneEnters DEF Provenance
  <1>8. CASE FetchRids
    <2>1. pc = "contact" /\ pc' # "rid"  BY <1>8 DEF FetchRids, Die
    <2>2. cur.rid \in Peers  BY <2>1 DEF TypeOK
    <2>3. CASE queue' = queue
      BY <1>1, <2>1, <2>3 DEF Provenance
    <2>4. CASE \E S \in SUBSET Unknown(cur) : \E q \in Orders(S) :
             queue' = queue \o [i \in DOMAIN q |-> NewKObj(q[i], None, FALSE, None, cur.rid)]
      <3>1. PICK S \in SUBSET Unknown(cur) : \E q \in Orders(S) :
             queue' = queue \o [i \in DOMAIN q |-> NewKObj(q[i], None, FALSE, None, cur.rid)]
        BY <2>4
      <3>2. PICK q \in Orders(S) :
             queue' = queue \o [i \in DOMAIN q |-> NewKObj(q[i], None, FALSE, None, cur.rid)]
        BY <3>1
      <3>3. S \in SUBSET RID  BY InputAssumption DEF Unknown
      <3>4. \A r \in S : NewKObj(r, None, FALSE, None, cur.rid) \in Origin
        BY <2>2, <3>3, ListedEnters
      <3>5. queue' \in Seq(Origin)  BY <1>1, <3>2, <3>3, <3>4, ListingEnters
      <3>6. QED  BY <2>1, <3>5 DEF Provenance
    <2>5. QED  BY <1>8, <2>3, <2>4 DEF FetchRids
  <1>9. CASE FinalChain
    <2>1. pc' # "rid"  BY <1>9 DEF FinalChain, Exit
    <2>2. CASE queue' = queue
      BY <1>1, <2>1, <2>2 DEF Provenance
    <2>3. CASE \E q \in Orders(EdgesOf(cur.rid)) :
             queue' = queue \o [i \in DOMAIN q |-> NewKObj(q[i], None, FALSE, "FORGET", None)]
      <3>1. PICK q \in Orders(EdgesOf(cur.rid)) :
             queue' = queue \o [i \in DOMAIN q |-> NewKObj(q[i], None, FALSE, "FORGET", None)]
        BY <2>3
      <3>2. EdgesOf(cur.rid) \in SUBSET RID /\ \A r \in EdgesOf(cur.rid) : r # Self
        BY TypesOfRids DEF EdgesOf, Node
      <3>3. \A r \in EdgesOf(cur.rid) : NewKObj(r, None, FALSE, "FORGET", None) \in Origin
        BY <3>2, ForgetEnters
      <3>4. queue' \in Seq(Origin)  BY <1>1, <3>1, <3>2, <3>3, ListingEnters
      <3>5. QED  BY <2>1, <3>4 DEF Provenance
    <2>4. QED  BY <1>9, <2>2, <2>3 DEF FinalChain
  <1>10. CASE UNCHANGED vars
    BY <1>10 DEF vars, Provenance
  <1>11. QED
    BY <1>2, <1>3, <1>4, <1>5, <1>6, <1>7, <1>8, <1>9, <1>10
    DEF Next, Worker, Process, Environment, Entry

(* All that the node ever works on was sent by a peer, or is one of the    *)
(* few things its own threads and handlers make.                           *)
THEOREM ProvenanceInvariant == Spec => []Provenance
  <1>1. Init => Provenance  BY DEF Init, Provenance
  <1>2. QED  BY Invariance, ProvenanceStep, <1>1, PTL DEF Spec

-----------------------------------------------------------------------------
(* The node's own profile                                                  *)

(* What is about this node and in the worker's hands past the RID chain is *)
(* the node's own profile, and not about to be deleted or fetched.         *)
OwnProfileHeld(k, l) ==
  /\ l \notin {"fetchManifest", "fetchBundle"}
  /\ k.src = None /\ k.mrid = Self /\ k.man.body = SelfProfile
  /\ l # "manifest" => k.norm # "FORGET"

IdentityHeld ==
  pc \notin {"idle", "dead", "rid"} /\ cur.rid = Self => OwnProfileHeld(cur, pc)

(* What is queued about this node, past the check for other sources, is    *)
(* its profile, and no FORGET.                                             *)
LEMMA OwnOrigin ==
  ASSUME NEW k \in Origin, k.rid = Self, ~BlockedIdentity(k)
  PROVE  /\ k.src = None /\ k.mrid = Self /\ k.ev # "FORGET"
         /\ k.man # None /\ k.man.body = SelfProfile
  <1>1. k.src = None  BY DEF BlockedIdentity
  <1>2. ~FromPeer(k)  BY <1>1, NoneAssumption DEF FromPeer, Node
  <1>3. Self \notin EdgeRid /\ Self \notin Objs  BY NodesAssumption DEF Node
  <1>4. OwnProfile(k) /\ k.mrid = Self  BY <1>2, <1>3 DEF Origin, Entering, OwnForget, OwnEdge
  <1>5. None # "FORGET"  BY NoneAssumption DEF EventType
  <1>6. QED  BY <1>1, <1>4, <1>5 DEF OwnProfile

LEMMA IdentityStep == IInv /\ Provenance /\ IdentityHeld /\ [Next]_vars => IdentityHeld'
  <1> SUFFICES ASSUME IInv, Provenance, IdentityHeld, [Next]_vars PROVE IdentityHeld'
    OBVIOUS
  <1> USE DEF IInv
  <1>1. CASE Entry \/ UNCHANGED vars
    <2>1. UNCHANGED <<cache, pc, cur>>
      BY <1>1, EntryFrame DEF vars
    <2>2. QED  BY <2>1 DEF IdentityHeld
  <1>2. CASE Dequeue \/ FinalChain \/ Restart
    <2>1. cache' = cache /\ pc' \in {"idle", "rid"}
      BY <1>2 DEF Dequeue, FinalChain, Restart, Exit
    <2>2. QED  BY <2>1 DEF IdentityHeld
  <1>3. CASE RidChain
    <2>1. pc = "rid" /\ cache' = cache  BY <1>3 DEF RidChain
    <2>2. cur \in KObj /\ cur \in Origin  BY <2>1, CurType DEF Provenance
    <2>3. SUFFICES ASSUME pc' # "idle", cur'.rid = Self PROVE OwnProfileHeld(cur', pc')
      BY <2>1 DEF IdentityHeld
    <2>4. cur'.rid = cur.rid /\ ~BlockedIdentity(cur)
      BY <1>3, <2>1, <2>3, DeletingType DEF RidChain, Exit, Deleting
    <2>5. /\ cur.src = None /\ cur.mrid = Self /\ cur.ev # "FORGET"
          /\ cur.man # None /\ cur.man.body = SelfProfile
      BY <2>2, <2>3, <2>4, OwnOrigin
    <2>6. pc' = "manifest" /\ cur' = cur  BY <1>3, <2>3, <2>5 DEF RidChain, Exit
    <2>7. QED  BY <2>5, <2>6 DEF OwnProfileHeld
  <1>4. CASE ManifestChain
    <2>1. pc = "manifest" /\ cache' = cache  BY <1>4 DEF ManifestChain
    <2>2. cur \in KObj  BY <2>1, CurType
    <2>3. SUFFICES ASSUME pc' # "idle", cur'.rid = Self PROVE OwnProfileHeld(cur', pc')
      BY <2>1 DEF IdentityHeld
    <2>4. /\ cur' = [cur EXCEPT !.norm = Decision(cur)]
          /\ ~(~HasContents(cur) /\ cur.src = None)
          /\ pc' = IF HasContents(cur) THEN "bundle" ELSE "fetchBundle"
      BY <1>4, <2>3 DEF ManifestChain, Exit
    <2>5. /\ cur'.rid = cur.rid /\ cur'.src = cur.src /\ cur'.man = cur.man
          /\ cur'.mrid = cur.mrid /\ cur'.norm \in {"NEW", "UPDATE"}
      BY <2>2, <2>4 DEF KObj, Decision
    <2>6. OwnProfileHeld(cur, pc)  BY <2>1, <2>3, <2>5 DEF IdentityHeld
    <2>7. cur.src = None /\ cur.mrid = Self /\ cur.man.body = SelfProfile
      BY <2>6 DEF OwnProfileHeld
    <2>8. QED  BY <2>4, <2>5, <2>7 DEF OwnProfileHeld
  <1>5. CASE FetchManifest \/ FetchBundle
    <2>1. cache' = cache /\ pc \in {"fetchManifest", "fetchBundle"}
      BY <1>5 DEF FetchManifest, FetchBundle
    <2>2. cur \in KObj /\ cur.rid # Self
      BY <2>1, CurType DEF IdentityHeld, OwnProfileHeld
    <2>3. pc' \notin {"idle", "dead"} => cur'.rid = cur.rid
      <3>1. pc' \notin {"idle", "dead"} =>
              \E m \in NamedBy(cur.rid) : \E b \in PeerBundles(m) :
                cur' \in {WithManifest(cur, m, b), WithBundle(cur, m, b)}
        BY <1>5 DEF FetchManifest, FetchBundle, Exit, Die
      <3>2. QED  BY <2>1, <3>1, FetchedType
    <2>4. QED  BY <2>1, <2>2, <2>3 DEF IdentityHeld
  <1>6. CASE BundleChain \/ Generate \/ FetchRids \/ Publish
    <2>1. /\ cache' = cache /\ pc \in {"bundle", "graph", "contact", "publish"}
          /\ \/ pc' \in {"idle", "dead"}
             \/ cur' = cur /\ pc' \in {"commit", "network", "publish", "final"}
      BY <1>6 DEF BundleChain, Generate, FetchRids, Publish, Exit, Die
    <2>2. QED  BY <2>1 DEF IdentityHeld, OwnProfileHeld
  <1>7. CASE Commit
    <2>1. /\ pc = "commit" /\ cur' = cur /\ pc' \in {"graph", "network"}
          /\ cache' = CacheAfter(cur)
      BY <1>7 DEF Commit
    <2>2. QED  BY <2>1 DEF IdentityHeld, OwnProfileHeld
  <1>8. CASE NetworkChain
    <2>1. /\ cache' = cache /\ pc = "network"
          /\ \/ pc' = "dead"
             \/ /\ pc' \in {"contact", "publish"}
                /\ cur' = [cur EXCEPT !.targets = NetworkTargets(cur)]
      BY <1>8 DEF NetworkChain, Die
    <2>2. cur \in KObj  BY <2>1, CurType
    <2>3. QED  BY <2>1, <2>2 DEF IdentityHeld, OwnProfileHeld, KObj
  <1>9. QED
    BY <1>1, <1>2, <1>3, <1>4, <1>5, <1>6, <1>7, <1>8 DEF Next, Worker, Process, Environment, Entry

(* No step takes the profile out of the cache, and one step puts another   *)
(* in: the cache action of an object whose manifest names this node.       *)
LEMMA ProfileStays ==
  ASSUME IInv, IdentityHeld, [Next]_vars, cache[Self] # None
  PROVE  /\ cache'[Self] # None
         /\ \/ cache'[Self] = cache[Self]
            \/ cache'[Self].body = SelfProfile
            \/ pc = "commit" /\ cur.rid # Self /\ cur.mrid = Self
  <1>1. CASE Commit
    <2>1. pc = "commit" /\ cache' = CacheAfter(cur)  BY <1>1 DEF Commit
    <2>2. cur.man # None /\ Self \in RID /\ cache \in [RID -> AnyBundle \union {None}]
      BY <2>1, TypesOfRids DEF IInv, TypeOK
    <2>3. CASE cur.rid = Self
      <3>1. cur.norm # "FORGET" /\ cur.mrid = Self /\ cur.man.body = SelfProfile
        BY <2>1, <2>3 DEF IdentityHeld, OwnProfileHeld
      <3>2. cache'[Self] = cur.man  BY <2>1, <2>2, <3>1 DEF CacheAfter
      <3>3. QED  BY <2>2, <3>1, <3>2
    <2>4. CASE cur.rid # Self
      BY <2>1, <2>2, <2>4 DEF CacheAfter
    <2>5. QED  BY <2>3, <2>4
  <1>2. CASE ~Commit
    <2>1. CASE RidChain \/ ManifestChain \/ FetchBundle \/ BundleChain
      BY <2>1 DEF RidChain, ManifestChain, FetchBundle, BundleChain
    <2>2. CASE Environment \/ Dequeue \/ FetchManifest \/ Generate \/ NetworkChain
                 \/ FetchRids \/ Publish \/ FinalChain \/ UNCHANGED vars
      BY <2>2, UndecidedSteps DEF IInv
    <2>3. QED  BY <1>2, <2>1, <2>2 DEF Next, Worker, Process
  <1>3. QED  BY <1>1, <1>2

(* "Blocks external events about this node" (basic_rid_handler.py): the    *)
(* node's own profile, once cached, stays there and is replaced only by    *)
(* its own, whatever peers send, forget or answer and whenever the node    *)
(* restarts.  What the handler does not see is the RID in the manifest of  *)
(* an object of another RID: that write is the one exception.              *)
THEOREM IdentityTheorem == Spec => IdentityStays
  <1>1. Init => IdentityHeld  BY DEF Init, IdentityHeld
  <1>2. IInv /\ IdentityHeld /\ [Next]_vars =>
          [cache[Self] # None =>
             /\ cache'[Self] # None
             /\ \/ cache'[Self] = cache[Self]
                \/ cache'[Self].body = SelfProfile
                \/ pc = "commit" /\ cur.rid # Self /\ cur.mrid = Self]_vars
    BY ProfileStays
  <1>3. QED
    BY Invariance, ProvenanceInvariant, <1>1, IdentityStep, <1>2, PTL DEF Spec, IdentityStays

-----------------------------------------------------------------------------
(* Approvals                                                               *)

(* A subscription to this node, if approved, is to what it provides.       *)
Servable(r, man) ==
  r \in EdgeRid /\ r[1] = Self /\ man # None /\ man.body.st = "APPROVED"
    => man.body.rts \subseteq Provided

(* Peers have the approvals they hold from this node, and invent none.     *)
PeersInventNoApproval ==
  \A w \in World : (w[1] \in EdgeRid /\ w[1][1] = Self /\ w[2].st = "APPROVED")
                     => w[2].rts \subseteq Provided

OnlyServable ==
  /\ \A r \in RID : Servable(r, cache[r])
  /\ cur # None => Servable(cur.mrid, cur.man)

LEMMA OriginServable ==
  ASSUME PeersInventNoApproval, NEW k \in Origin
  PROVE  Servable(k.mrid, k.man)
  <1> SUFFICES ASSUME k.mrid \in EdgeRid, k.mrid[1] = Self, k.man # None,
                      k.man.body.st = "APPROVED"
               PROVE  k.man.body.rts \subseteq Provided
    BY DEF Servable
  <1>1. CASE FromPeer(k)
    BY <1>1 DEF FromPeer, PeersInventNoApproval
  <1>2. CASE OwnEdge(k)
    BY <1>2 DEF OwnEdge
  <1>3. k.mrid # Self /\ k.mrid \notin Objs  BY NodesAssumption DEF Node
  <1>4. QED  BY <1>1, <1>2, <1>3 DEF Origin, Entering, OwnProfile, OwnForget

LEMMA FetchedServable ==
  ASSUME PeersInventNoApproval, NEW r \in RID, NEW b \in PeerBundles(r)
  PROVE  Servable(r, b)
  BY DEF PeersInventNoApproval, PeerBundles, Servable

LEMMA ServableStep ==
  ASSUME PeersInventNoApproval, IInv, Provenance, OnlyServable, [Next]_vars
  PROVE  OnlyServable'
  <1> USE DEF IInv
  <1>1. CASE Entry \/ UNCHANGED vars
    <2>1. UNCHANGED <<cache, cur>>
      BY <1>1, EntryFrame DEF vars
    <2>2. QED  BY <2>1 DEF OnlyServable
  <1>2. CASE cache' = cache /\ cur' = None
    BY <1>2 DEF OnlyServable
  <1>3. CASE Dequeue
    <2>1. cur' \in Origin /\ cache' = cache  BY <1>3 DEF Dequeue, Provenance
    <2>2. QED  BY <2>1, OriginServable DEF OnlyServable
  <1>4. CASE RidChain
    <2>1. pc = "rid" /\ cache' = cache  BY <1>4 DEF RidChain
    <2>2. cur \in KObj /\ cur.rid \in RID  BY <2>1, CurType
    <2>3. CASE cur' = cur \/ cur' = None
      BY <2>1, <2>3 DEF OnlyServable
    <2>4. CASE cur' = Deleting
      <3>1. cur'.mrid = cur.rid /\ cur'.man = cache[cur.rid]  BY <2>1, <2>4, DeletingType
      <3>2. QED  BY <2>1, <2>2, <3>1 DEF OnlyServable
    <2>5. QED  BY <1>4, <2>3, <2>4 DEF RidChain, Exit, Deleting
  <1>5. CASE FetchManifest \/ FetchBundle
    <2>1. cache' = cache /\ pc \in {"fetchManifest", "fetchBundle"}
      BY <1>5 DEF FetchManifest, FetchBundle
    <2>2. cur \in KObj /\ cur.rid \in RID  BY <2>1, CurType
    <2>3. CASE cur' = None
      BY <1>2, <2>1, <2>3
    <2>4. CASE \E m \in NamedBy(cur.rid) : \E b \in PeerBundles(m) :
                 cur' \in {WithManifest(cur, m, b), WithBundle(cur, m, b)}
      <3>0. PICK m \in NamedBy(cur.rid) : \E b \in PeerBundles(m) :
              cur' \in {WithManifest(cur, m, b), WithBundle(cur, m, b)}
        BY <2>4
      <3>1. PICK b \in PeerBundles(m) : cur' \in {WithManifest(cur, m, b), WithBundle(cur, m, b)}
        BY <3>0
      <3>2. cur'.mrid = m /\ cur'.man = b  BY <2>1, <3>1, FetchedType
      <3>3. Servable(m, b)  BY <2>2, <3>1, NamesAreRids, FetchedServable
      <3>4. QED  BY <2>1, <3>2, <3>3 DEF OnlyServable
    <2>5. QED
      BY <1>5, <2>3, <2>4 DEF FetchManifest, FetchBundle, Exit, Die
  <1>6. CASE ManifestChain \/ BundleChain \/ NetworkChain
    <2>1. cache' = cache /\ pc \in {"manifest", "bundle", "network"}
      BY <1>6 DEF ManifestChain, BundleChain, NetworkChain
    <2>2. cur \in KObj  BY <2>1, CurType
    <2>3. \/ cur' = None \/ cur' = cur
          \/ cur' = [cur EXCEPT !.norm = Decision(cur)]
          \/ cur' = [cur EXCEPT !.targets = NetworkTargets(cur)]
      BY <1>6 DEF ManifestChain, BundleChain, NetworkChain, Exit, Die
    <2>4. cur' = None \/ (cur'.mrid = cur.mrid /\ cur'.man = cur.man)
      BY <2>2, <2>3 DEF KObj
    <2>5. cur # None  BY <2>1 DEF TypeOK
    <2>6. QED  BY <2>1, <2>4, <2>5 DEF OnlyServable
  <1>7. CASE Commit
    <2>1. pc = "commit" /\ cur' = cur /\ cache' = CacheAfter(cur)  BY <1>7 DEF Commit
    <2>2. cur.rid \in RID /\ cur.mrid \in RID /\ cur # None  BY <2>1, CurType DEF TypeOK
    <2>3. \A r \in RID : cache'[r] = cache[r] \/ cache'[r] = None
                           \/ (r = cur.mrid /\ cache'[r] = cur.man)
      BY <2>1, <2>2 DEF CacheAfter, TypeOK
    <2>4. ASSUME NEW r \in RID PROVE Servable(r, cache'[r])
      BY <2>2, <2>3 DEF OnlyServable, Servable
    <2>5. QED  BY <2>1, <2>2, <2>4 DEF OnlyServable
  <1>8. CASE Generate \/ FetchRids \/ Publish
    <2>1. cache' = cache /\ (cur' = cur \/ cur' = None)
      BY <1>8 DEF Generate, FetchRids, Publish, Die
    <2>2. QED  BY <1>2, <2>1 DEF OnlyServable
  <1>9. CASE FinalChain \/ Restart
    BY <1>2, <1>9 DEF FinalChain, Restart, Exit
  <1>10. QED
    BY <1>1, <1>3, <1>4, <1>5, <1>6, <1>7, <1>8, <1>9 DEF Next, Worker, Process, Environment, Entry

(* Every subscription in the cache that is approved asks for what the node *)
(* provides, however its proposals, approvals and deletions are interleaved *)
(* in the queue, provided that peers invent no approvals of this node.     *)
THEOREM ApprovedTheorem ==
  ASSUME PeersInventNoApproval
  PROVE  Spec => []ApprovedIsProvided
  <1>1. Init => OnlyServable
    <2>1. SUFFICES ASSUME Init PROVE OnlyServable
      OBVIOUS
    <2>2. cur = None /\ \A r \in RID : cache[r] = None  BY <2>1 DEF Init
    <2>3. ASSUME NEW r \in RID PROVE Servable(r, cache[r])
      BY <2>2 DEF Servable
    <2>4. QED  BY <2>2, <2>3 DEF OnlyServable
  <1>2. IInv /\ Provenance /\ OnlyServable /\ [Next]_vars => OnlyServable'
    BY ServableStep
  <1>3. OnlyServable => ApprovedIsProvided
    <2>1. SUFFICES ASSUME OnlyServable, NEW p \in Peers, Cached(<<Self, p>>),
                          cache[<<Self, p>>].body.st = "APPROVED"
                   PROVE  cache[<<Self, p>>].body.rts \subseteq Provided
      BY DEF ApprovedIsProvided
    <2> DEFINE e == <<Self, p>>
    <2>2. e \in EdgeRid /\ e \in RID /\ e[1] = Self
      BY NodesAssumption, TypesOfRids DEF EdgeRid, Node
    <2>3. cache[e] # None /\ cache[e].body.st = "APPROVED"  BY <2>1 DEF Cached
    <2> HIDE DEF e
    <2>4. cache[e].body.rts \subseteq Provided  BY <2>1, <2>2, <2>3 DEF OnlyServable, Servable
    <2>5. QED  BY <2>4 DEF e
  <1>4. QED  BY Invariance, ProvenanceInvariant, <1>1, <1>2, <1>3, PTL DEF Spec

-----------------------------------------------------------------------------
(* Announcements                                                           *)

(* The stages after the cache action.                                      *)
Written == {"graph", "network", "contact", "publish", "final"}

(* The cache is still as the action has left it, and the targets chosen    *)
(* are neither the node itself nor the source.                             *)
CarriedOut ==
  /\ pc \in Written =>
       IF cur.norm = "FORGET" THEN cache[cur.rid] = None ELSE cache[cur.mrid] = cur.man
  /\ pc \in {"contact", "publish"} => Self \notin cur.targets /\ cur.src \notin cur.targets

(* An edge does not lead from a node to itself, so that its other end is   *)
(* another node.                                                           *)
LEMMA TargetsOthers ==
  ASSUME NEW k \in KObj
  PROVE  Self \notin NetworkTargets(k) /\ k.src \notin NetworkTargets(k)
  <1>1. \A e \in EdgeRid : Self \in {e[1], e[2]} => OtherEnd(e) # Self
    BY DEF OtherEnd, EdgeRid
  <1>2. InvolvesSelf(k) /\ k.rid # Self => OtherEnd(k.rid) # Self
    BY <1>1 DEF InvolvesSelf
  <1>3. Self \notin GetNeighbors(TypeOf(k.rid))  BY NodesAssumption DEF GetNeighbors
  <1>4. QED  BY <1>2, <1>3 DEF NetworkTargets

LEMMA CarriedStep == IInv /\ CarriedOut /\ [Next]_vars => CarriedOut'
  <1> SUFFICES ASSUME IInv, CarriedOut, [Next]_vars PROVE CarriedOut'
    OBVIOUS
  <1> USE DEF IInv
  <1>1. CASE Entry \/ UNCHANGED vars
    <2>1. UNCHANGED <<cache, pc, cur>>
      BY <1>1, EntryFrame DEF vars
    <2>2. QED  BY <2>1 DEF CarriedOut
  <1>2. CASE Restart \/ Dequeue \/ RidChain \/ FetchManifest \/ ManifestChain
               \/ FetchBundle \/ BundleChain \/ FinalChain
    <2>1. pc' \notin Written
      BY <1>2 DEF Restart, Dequeue, RidChain, FetchManifest, ManifestChain, FetchBundle,
                  BundleChain, FinalChain, Exit, Die, Written
    <2>2. QED  BY <2>1 DEF CarriedOut, Written
  <1>3. CASE Commit
    <2>1. /\ pc = "commit" /\ cur' = cur /\ pc' \in {"graph", "network"}
          /\ cache' = CacheAfter(cur)
      BY <1>3 DEF Commit
    <2>2. cur.rid \in RID /\ cur.mrid \in RID  BY <2>1, CurType
    <2>3. IF cur.norm = "FORGET" THEN cache'[cur.rid] = None ELSE cache'[cur.mrid] = cur.man
      BY <2>1, <2>2 DEF CacheAfter, TypeOK
    <2>4. QED  BY <2>1, <2>3 DEF CarriedOut
  <1>4. CASE Generate \/ FetchRids \/ Publish
    <2>1. /\ cache' = cache /\ pc \in {"graph", "contact", "publish"}
          /\ \/ pc' = "dead"
             \/ /\ pc' \in {"network", "publish", "final"} /\ cur' = cur
                /\ pc' = "publish" => pc = "contact"
      BY <1>4 DEF Generate, FetchRids, Publish, Die
    <2>2. QED  BY <2>1 DEF CarriedOut, Written
  <1>5. CASE NetworkChain
    <2>1. /\ cache' = cache /\ pc = "network"
          /\ \/ pc' = "dead"
             \/ /\ pc' \in {"contact", "publish"}
                /\ cur' = [cur EXCEPT !.targets = NetworkTargets(cur)]
      BY <1>5 DEF NetworkChain, Die
    <2>2. cur \in KObj  BY <2>1, CurType
    <2>3. CASE pc' = "dead"
      BY <2>3 DEF CarriedOut, Written
    <2>4. CASE cur' = [cur EXCEPT !.targets = NetworkTargets(cur)]
      <3>1. /\ cur'.rid = cur.rid /\ cur'.norm = cur.norm /\ cur'.man = cur.man
            /\ cur'.src = cur.src /\ cur'.targets = NetworkTargets(cur)
            /\ cur'.mrid = cur.mrid
        BY <2>2, <2>4 DEF KObj
      <3>2. IF cur.norm = "FORGET" THEN cache[cur.rid] = None ELSE cache[cur.mrid] = cur.man
        BY <2>1 DEF CarriedOut, Written
      <3>3. QED  BY <2>1, <2>2, <3>1, <3>2, TargetsOthers DEF CarriedOut
    <2>5. QED  BY <2>1, <2>3, <2>4
  <1>6. QED
    BY <1>1, <1>2, <1>3, <1>4, <1>5 DEF Next, Worker, Process, Environment, Entry

(* The step that announces, and the states in which something is announced. *)
LEMMA AnnouncedStep ==
  ASSUME IInv, CarriedOut, [Next]_vars, AnnouncedIsHeld
  PROVE  AnnouncedIsHeld'
  <1> USE DEF IInv
  <1>1. CASE Publish
    <2>1. /\ pc = "publish" /\ UNCHANGED <<cache, cur>>
          /\ out' = {NormalizedEvent(cur, n) : n \in cur.targets}
      BY <1>1 DEF Publish
    <2>2. /\ cur \in KObj /\ cur.man # None
          /\ Self \notin cur.targets /\ cur.src \notin cur.targets
          /\ IF cur.norm = "FORGET" THEN cache[cur.rid] = None ELSE cache[cur.mrid] = cur.man
      BY <2>1, CurType DEF TypeOK, CarriedOut, Written
    <2>3. ASSUME NEW m \in out'
          PROVE  /\ m.to \notin {Self, cur.src} /\ m.man = cache[m.mrid]
                 /\ (m.type = "FORGET") <=> (m.man = None)
      <3>1. PICK n \in cur.targets : m = NormalizedEvent(cur, n)  BY <2>1, <2>3
      <3>2. /\ m.type = cur.norm /\ m.to = n
            /\ IF cur.norm = "FORGET" THEN m.mrid = cur.rid /\ m.man = None
               ELSE m.mrid = cur.mrid /\ m.man = cur.man
        BY <3>1 DEF NormalizedEvent
      <3>3. QED  BY <2>2, <3>2
    <2>4. QED  BY <2>1, <2>3 DEF AnnouncedIsHeld
  <1>2. CASE UNCHANGED vars
    BY <1>2 DEF vars, AnnouncedIsHeld
  <1>3. CASE Environment
    <2>1. out' = {}
      BY <1>3, EntryFrame DEF Environment, Entry, Restart
    <2>2. QED  BY <2>1 DEF AnnouncedIsHeld
  <1>4. CASE Worker /\ ~Publish
    <2>1. pc' # "final"
      BY <1>4 DEF Worker, Process, Dequeue, RidChain, FetchManifest, ManifestChain,
                  FetchBundle, BundleChain, Commit, Generate, NetworkChain, FetchRids,
                  FinalChain, Exit, Die
    <2>2. QED  BY <2>1 DEF AnnouncedIsHeld
  <1>5. QED  BY <1>1, <1>2, <1>3, <1>4 DEF Next

(* What the node announces is what it holds: an event about a change is    *)
(* pushed while the cache is in the state the event describes, and to      *)
(* neither the node itself nor the peer the change came from.              *)
THEOREM AnnouncedTheorem == Spec => []AnnouncedIsHeld
  <1>1. Init => CarriedOut /\ AnnouncedIsHeld
    BY DEF Init, CarriedOut, AnnouncedIsHeld, Written
  <1>2. IInv /\ CarriedOut /\ AnnouncedIsHeld /\ [Next]_vars => AnnouncedIsHeld'
    BY AnnouncedStep
  <1>3. QED  BY Invariance, CarriedStep, <1>1, <1>2, PTL DEF Spec

-----------------------------------------------------------------------------
(* Edges of forgotten nodes                                                *)

(* A FORGET that has passed the RID chain deletes.                         *)
ForgetHeld ==
  (cur # None /\ cur.ev = "FORGET") =>
     pc = "rid" \/ (pc \in {"bundle", "commit"} \union Written /\ cur.norm = "FORGET")

LEMMA ForgetHeldStep == IInv /\ ForgetHeld /\ [Next]_vars => ForgetHeld'
  <1> SUFFICES ASSUME IInv, ForgetHeld, [Next]_vars PROVE ForgetHeld'
    OBVIOUS
  <1> USE DEF IInv
  <1>1. CASE Entry \/ UNCHANGED vars
    <2>1. UNCHANGED <<pc, cur>>
      BY <1>1, EntryFrame DEF vars
    <2>2. QED  BY <2>1 DEF ForgetHeld
  <1>2. CASE Restart \/ Dequeue \/ FinalChain
    <2>1. pc' = "rid" \/ cur' = None
      BY <1>2 DEF Restart, Dequeue, FinalChain, Exit
    <2>2. QED  BY <2>1 DEF ForgetHeld
  <1>3. CASE RidChain
    <2>1. /\ pc = "rid"
          /\ \/ cur' = None
             \/ cur' = Deleting /\ pc' = "bundle"
             \/ cur' = cur /\ cur.ev # "FORGET"
      BY <1>3 DEF RidChain, Exit, Deleting
    <2>2. Deleting.norm = "FORGET"  BY <2>1, DeletingType
    <2>3. QED  BY <2>1, <2>2 DEF ForgetHeld
  <1>4. CASE FetchManifest \/ ManifestChain \/ FetchBundle
    <2>1. /\ pc \in {"fetchManifest", "manifest", "fetchBundle"}
          /\ \/ cur' = None
             \/ cur' = [cur EXCEPT !.norm = Decision(cur)]
             \/ \E m \in NamedBy(cur.rid) : \E b \in PeerBundles(m) :
                  cur' \in {WithManifest(cur, m, b), WithBundle(cur, m, b)}
      BY <1>4 DEF FetchManifest, ManifestChain, FetchBundle, Exit, Die
    <2>2. cur \in KObj /\ cur # None  BY <2>1, CurType DEF TypeOK
    <2>3. cur.ev # "FORGET"  BY <2>1, <2>2 DEF ForgetHeld, Written
    <2>4. cur' = None \/ cur'.ev = cur.ev
      <3>1. CASE cur' = [cur EXCEPT !.norm = Decision(cur)]
        BY <2>2, <3>1 DEF KObj
      <3>2. CASE \E m \in NamedBy(cur.rid) : \E b \in PeerBundles(m) :
                   cur' \in {WithManifest(cur, m, b), WithBundle(cur, m, b)}
        BY <2>1, <3>2, FetchedType
      <3>3. QED  BY <2>1, <3>1, <3>2
    <2>5. QED  BY <2>3, <2>4 DEF ForgetHeld
  <1>5. CASE BundleChain \/ Commit \/ Generate \/ FetchRids \/ Publish
    <2>1. cur' = None \/ (cur' = cur /\ pc \notin {"rid"} /\ pc' \in {"commit"} \union Written)
      BY <1>5 DEF BundleChain, Commit, Generate, FetchRids, Publish, Exit, Die, Written
    <2>2. QED  BY <2>1 DEF ForgetHeld
  <1>6. CASE NetworkChain
    <2>1. /\ pc = "network"
          /\ \/ cur' = None
             \/ /\ pc' \in {"contact", "publish"}
                /\ cur' = [cur EXCEPT !.targets = NetworkTargets(cur)]
      BY <1>6 DEF NetworkChain, Die
    <2>2. cur \in KObj /\ cur # None  BY <2>1, CurType DEF TypeOK
    <2>3. [cur EXCEPT !.targets = NetworkTargets(cur)].ev = cur.ev
          /\ [cur EXCEPT !.targets = NetworkTargets(cur)].norm = cur.norm
      BY <2>2 DEF KObj
    <2>4. QED  BY <2>1, <2>2, <2>3 DEF ForgetHeld, Written
  <1>7. QED
    BY <1>1, <1>2, <1>3, <1>4, <1>5, <1>6 DEF Next, Worker, Process, Environment, Entry

(* What waits in the queue goes on waiting when something is queued.       *)
LEMMA PushKeeps ==
  ASSUME NEW S, NEW T, NEW s \in Seq(S), NEW t \in Seq(T)
  PROVE  /\ \A i \in DOMAIN s : i \in DOMAIN (s \o t) /\ (s \o t)[i] = s[i]
         /\ \A i \in DOMAIN t : \E j \in DOMAIN (s \o t) : (s \o t)[j] = t[i]
  <1>1. PICK m \in Nat : m = Len(s) /\ DOMAIN s = 1..m  OBVIOUS
  <1>2. PICK n \in Nat : n = Len(t) /\ DOMAIN t = 1..n  OBVIOUS
  <1>3. /\ DOMAIN (s \o t) = 1..(m + n)
        /\ \A i \in 1..m : (s \o t)[i] = s[i]
        /\ \A i \in 1..n : (s \o t)[m + i] = t[i]
    BY <1>1, <1>2
  <1>4. \A i \in 1..n : m + i \in 1..(m + n)  BY <1>1, <1>2
  <1>5. \A i \in 1..m : i \in 1..(m + n)  BY <1>1, <1>2
  <1>6. QED  BY <1>1, <1>2, <1>3, <1>4, <1>5

LEMMA AppendKeeps ==
  ASSUME NEW S, NEW s \in Seq(S), NEW x
  PROVE  \A i \in DOMAIN s : i \in DOMAIN Append(s, x) /\ Append(s, x)[i] = s[i]
  <1>1. s \in Seq(S \union {x})  OBVIOUS
  <1>2. PICK m \in Nat : m = Len(s) /\ DOMAIN s = 1..m  OBVIOUS
  <1>3. DOMAIN Append(s, x) = 1..(m + 1) /\ \A i \in 1..m : Append(s, x)[i] = s[i]
    BY <1>1, <1>2
  <1>4. QED  BY <1>2, <1>3

(* The items queued for a listing are a sequence.                          *)
LEMMA ListingIsSeq ==
  ASSUME NEW q, DOMAIN q = 1..Len(q), Len(q) \in Nat, NEW t, DOMAIN t = DOMAIN q,
         t = [i \in DOMAIN t |-> t[i]]
  PROVE  t \in Seq({t[i] : i \in DOMAIN t})
  <1>1. t \in [1..Len(q) -> {t[i] : i \in DOMAIN t}]  OBVIOUS
  <1>2. QED  BY <1>1

(* An edge that is on its way out stays so until it is deleted or written. *)
LEMMA EdgesStep ==
  ASSUME IInv, CarriedOut, ForgetHeld, [Next]_vars, NEW e \in EdgeRid, NEW n \in {e[1], e[2]},
         IsLeftOver(e, n)', ~IsLeftOver(e, n), pc' # "dead", restarts' = restarts
  PROVE  pc = "commit" /\ cur.mrid = e
  <1> USE DEF IInv
  <1> DEFINE Waits == \E i \in DOMAIN queue : IsForget(queue[i], e)
  <1>1. /\ n \in Node /\ e \in RID /\ n \in RID /\ e # Self /\ e # n /\ e \notin Node
        /\ queue \in Seq(KObj)
    <2>1. e[1] \in Node /\ e[2] \in Node  BY DEF EdgeRid
    <2>2. QED  BY <2>1, NodesAssumption DEF TypeOK, RID, Node
  <1>2. cache'[e] # None /\ cache'[n] = None /\ ~Waits' /\ ~HasLeft(n)'
        /\ ~(cur' # None /\ IsForget(cur', e))
    BY DEF IsLeftOver, OnItsWayOut, Cached
  <1>3. ASSUME cache[e] = cache'[e], cache[n] = cache'[n]
        PROVE  Waits \/ (cur # None /\ IsForget(cur, e)) \/ HasLeft(n)
    BY <1>2, <1>3 DEF IsLeftOver, OnItsWayOut, Cached
  <1>4. ASSUME NEW x, queue' = queue \/ queue' = Append(queue, x)
        PROVE  ~Waits
    <2>1. \A i \in DOMAIN queue : i \in DOMAIN queue' /\ queue'[i] = queue[i]
      BY <1>1, <1>4, AppendKeeps
    <2>2. QED  BY <1>2, <2>1
  <1>5. ASSUME NEW T, NEW t \in Seq(T), queue' = queue \o t
        PROVE  ~Waits /\ \A i \in DOMAIN t : ~IsForget(t[i], e)
    <2>1. /\ \A i \in DOMAIN queue : i \in DOMAIN queue' /\ queue'[i] = queue[i]
          /\ \A i \in DOMAIN t : \E j \in DOMAIN queue' : queue'[j] = t[i]
      BY <1>1, <1>5, PushKeeps
    <2>2. QED  BY <1>2, <2>1
  <1> HIDE DEF Waits
  <1>6. CASE Entry \/ UNCHANGED vars
    <2>1. /\ UNCHANGED <<cache, pc, cur>>
          /\ queue' = queue \/ \E x : queue' = Append(queue, x)
      BY <1>6, EntryFrame DEF vars
    <2>2. ~Waits  BY <1>4, <2>1
    <2>3. QED  BY <1>2, <1>3, <2>1, <2>2 DEF HasLeft
  <1>7. CASE Restart
    <2>1. restarts' = restarts + 1 /\ restarts \in Nat  BY <1>7 DEF Restart, TypeOK
    <2>2. QED  BY <2>1
  <1>8. CASE Dequeue
    <2>1. /\ pc = "idle" /\ queue # <<>> /\ cur' = Head(queue) /\ queue' = Tail(queue)
          /\ cache' = cache
      BY <1>8 DEF Dequeue
    <2>2. Waits  BY <1>3, <2>1 DEF HasLeft, TypeOK
    <2>3. PICK i \in DOMAIN queue : IsForget(queue[i], e)  BY <2>2 DEF Waits
    <2>4. PICK m \in Nat : m = Len(queue) /\ DOMAIN queue = 1..m  BY <1>1
    <2>5. /\ Head(queue) = queue[1] /\ DOMAIN Tail(queue) = 1..(m - 1)
          /\ \A j \in 1..(m - 1) : Tail(queue)[j] = queue[j + 1]
          /\ queue[1] \in KObj
      BY <1>1, <2>1, <2>4
    <2>6. CASE i = 1
      BY <1>2, <2>1, <2>3, <2>5, <2>6, NoneAssumption
    <2>7. CASE i # 1
      <3>1. i - 1 \in 1..(m - 1) /\ (i - 1) + 1 = i  BY <2>4, <2>7
      <3>2. Tail(queue)[i - 1] = queue[i]  BY <2>5, <3>1
      <3>3. QED  BY <1>2, <2>1, <2>3, <2>5, <3>1, <3>2 DEF Waits
    <2>8. QED  BY <2>6, <2>7
  <1>9. CASE RidChain
    <2>1. pc = "rid" /\ cache' = cache /\ queue' = queue  BY <1>9 DEF RidChain
    <2>2. cur \in KObj /\ IsForget(cur, e)
      BY <1>3, <1>4, <2>1, CurType DEF HasLeft
    <2>3. ~BlockedIdentity(cur) /\ Cached(cur.rid) /\ cur.ev = "FORGET"
      BY <1>1, <1>2, <2>1, <2>2 DEF BlockedIdentity, IsForget, Cached
    <2>4. cur' = Deleting
      BY <1>9, <2>3 DEF RidChain, Deleting
    <2>5. cur'.rid = e /\ cur'.ev = "FORGET" /\ cur' # None
      <3>1. cur'.rid = cur.rid /\ cur'.ev = cur.ev /\ pc' = "bundle"
        BY <1>9, <2>1, <2>3, <2>4, DeletingType DEF RidChain
      <3>2. TypeOK'  BY TypeStep
      <3>3. QED  BY <2>2, <3>1, <3>2 DEF TypeOK, IsForget
    <2>6. QED  BY <1>2, <2>5 DEF IsForget
  <1>10. CASE FetchManifest \/ ManifestChain \/ FetchBundle
    <2>1. pc \in {"fetchManifest", "manifest", "fetchBundle"} /\ cache' = cache /\ queue' = queue
      BY <1>10 DEF FetchManifest, ManifestChain, FetchBundle
    <2>2. ~(cur # None /\ IsForget(cur, e)) /\ ~HasLeft(n)
      BY <2>1 DEF ForgetHeld, Written, HasLeft, IsForget
    <2>3. QED  BY <1>3, <1>4, <2>1, <2>2
  <1>11. CASE BundleChain
    <2>1. /\ pc = "bundle" /\ cache' = cache
          /\ queue' = queue \/ \E x : queue' = Append(queue, x)
      BY <1>11 DEF BundleChain
    <2>2. cur # None /\ IsForget(cur, e)
      BY <1>3, <1>4, <2>1 DEF HasLeft
    <2>3. ~ClaimsOwnUrl(cur) /\ ~IsProposalToSelf(cur)
      BY <2>2 DEF ClaimsOwnUrl, IsProposalToSelf, IsNews, IsForget
    <2>4. cur' = cur  BY <1>11, <2>3 DEF BundleChain
    <2>5. QED  BY <1>2, <2>2, <2>4
  <1>12. CASE Commit
    <2>1. /\ pc = "commit" /\ cache' = CacheAfter(cur) /\ queue' = queue /\ cur' = cur
          /\ pc' = IF ChangesGraph(cur) THEN "graph" ELSE "network"
      BY <1>12 DEF Commit
    <2>2. SUFFICES ASSUME cur.mrid # e PROVE FALSE
      BY <2>1
    <2>3. cur.man # None /\ cache \in [RID -> AnyBundle \union {None}]  BY <2>1 DEF TypeOK
    <2>4. cache'[e] = cache[e]
      <3>1. cur.norm = "FORGET" => cur.rid # e  BY <1>1, <1>2, <2>1, <2>3 DEF CacheAfter
      <3>2. QED  BY <1>1, <2>1, <2>2, <2>3, <3>1 DEF CacheAfter
    <2>5. CASE cur.norm = "FORGET" /\ cur.rid = n
      BY <1>1, <1>2, <2>1, <2>5 DEF HasLeft, ChangesGraph
    <2>6. CASE ~(cur.norm = "FORGET" /\ cur.rid = n)
      <3>1. cur.norm # "FORGET" => cur.mrid # n  BY <1>1, <1>2, <2>1, <2>3 DEF CacheAfter
      <3>2. cache'[n] = cache[n]  BY <1>1, <2>1, <2>3, <2>6, <3>1 DEF CacheAfter
      <3>3. QED  BY <1>2, <1>3, <1>4, <2>1, <2>4, <3>2 DEF HasLeft
    <2>7. QED  BY <2>5, <2>6
  <1>13. CASE Generate \/ Publish
    <2>1. /\ UNCHANGED <<cache, queue, cur>> /\ pc' \in {"network", "final"}
      BY <1>13 DEF Generate, Publish
    <2>2. QED  BY <1>2, <1>3, <1>4, <2>1 DEF HasLeft
  <1>14. CASE NetworkChain
    <2>1. /\ pc = "network" /\ cache' = cache /\ pc' \in {"contact", "publish"}
          /\ cur' = [cur EXCEPT !.targets = NetworkTargets(cur)]
          /\ queue' = queue \/ \E x : queue' = Append(queue, x)
      BY <1>14 DEF NetworkChain, Die
    <2>2. cur \in KObj /\ cur # None  BY <2>1, CurType DEF TypeOK
    <2>3. cur'.rid = cur.rid /\ cur'.ev = cur.ev /\ cur'.norm = cur.norm
      BY <2>1, <2>2 DEF KObj
    <2>4. cur' # None
      <3>1. TypeOK'  BY TypeStep
      <3>2. QED  BY <2>1, <3>1 DEF TypeOK
    <2>5. ~Waits  BY <1>4, <2>1
    <2>6. QED  BY <1>2, <1>3, <2>1, <2>3, <2>4, <2>5 DEF HasLeft, IsForget
  <1>15. CASE FetchRids
    <2>1. pc = "contact" /\ pc' = "publish" /\ UNCHANGED <<cache, cur>>
      BY <1>15 DEF FetchRids, Die
    <2>2. ~Waits
      <3>1. CASE queue' = queue  BY <1>4, <3>1
      <3>2. CASE queue' # queue
        <4>1. PICK S \in SUBSET Unknown(cur) : \E q \in Orders(S) :
                queue' = queue \o [i \in DOMAIN q |-> NewKObj(q[i], None, FALSE, None, cur.rid)]
          BY <1>15, <3>2 DEF FetchRids
        <4>2. S \in SUBSET RID  BY InputAssumption DEF Unknown
        <4>3. PICK q \in Orders(S) :
                queue' = queue \o [i \in DOMAIN q |-> NewKObj(q[i], None, FALSE, None, cur.rid)]
          BY <4>1
        <4>4. q \in Seq(S) /\ DOMAIN q = 1..Len(q)
          BY <4>2, <4>3, FiniteRids, FS_Subset, OrdersType
        <4> DEFINE t == [i \in DOMAIN q |-> NewKObj(q[i], None, FALSE, None, cur.rid)]
        <4>5. DOMAIN t = DOMAIN q /\ t = [i \in DOMAIN t |-> t[i]] /\ Len(q) \in Nat
          BY <4>4
        <4>6. queue' = queue \o t  BY <4>3
        <4> HIDE DEF t
        <4>7. t \in Seq({t[i] : i \in DOMAIN t})  BY <4>4, <4>5, ListingIsSeq
        <4>8. QED  BY <1>5, <4>6, <4>7
      <3>3. QED  BY <3>1, <3>2
    <2>3. QED  BY <1>2, <1>3, <2>1, <2>2 DEF HasLeft
  <1>16. CASE FinalChain
    <2>1. /\ pc = "final" /\ cache' = cache
          /\ IF cur.rid \in Node /\ cur.norm = "FORGET"
             THEN \E q \in Orders(EdgesOf(cur.rid)) :
                    queue' = queue \o [i \in DOMAIN q |-> NewKObj(q[i], None, FALSE, "FORGET", None)]
             ELSE queue' = queue
      BY <1>16 DEF FinalChain
    <2>2. ~(cur # None /\ IsForget(cur, e))
      BY <1>2, <2>1 DEF ForgetHeld, CarriedOut, Written, IsForget
    <2>3. cur.rid \in Node /\ cur.norm = "FORGET"
      BY <1>1, <1>3, <1>4, <2>1, <2>2 DEF HasLeft
    <2>4. PICK q \in Orders(EdgesOf(cur.rid)) :
            queue' = queue \o [i \in DOMAIN q |-> NewKObj(q[i], None, FALSE, "FORGET", None)]
      BY <2>1, <2>3
    <2>5. IsFiniteSet(EdgesOf(cur.rid))
      BY FiniteRids, FS_Subset DEF EdgesOf
    <2>6. q \in Seq(EdgesOf(cur.rid)) /\ DOMAIN q = 1..Len(q)
          /\ \A x \in EdgesOf(cur.rid) : \E i \in DOMAIN q : q[i] = x
      BY <2>5, OrdersType DEF Orders
    <2> DEFINE t == [i \in DOMAIN q |-> NewKObj(q[i], None, FALSE, "FORGET", None)]
    <2>7. \A i \in DOMAIN q : t[i].rid = q[i] /\ t[i].ev = "FORGET"
      BY DEF NewKObj, FromEvent
    <2>8. /\ DOMAIN t = DOMAIN q /\ t = [i \in DOMAIN t |-> t[i]] /\ Len(q) \in Nat
          /\ queue' = queue \o t
      BY <2>4, <2>6
    <2> HIDE DEF t
    <2>9. t \in Seq({t[i] : i \in DOMAIN t})
      <3>1. DOMAIN q = 1..Len(q)  BY <2>6
      <3>2. DOMAIN t = DOMAIN q /\ t = [i \in DOMAIN t |-> t[i]] /\ Len(q) \in Nat
        BY <2>8
      <3>3. QED  BY <3>1, <3>2, ListingIsSeq
    <2>10. ~Waits /\ \A i \in DOMAIN q : ~IsForget(t[i], e)
      BY <1>5, <2>8, <2>9
    <2>11. HasLeft(n)  BY <1>3, <2>1, <2>2, <2>10
    <2>12. e \in EdgesOf(cur.rid)
      BY <1>2, <2>1, <2>11 DEF HasLeft, EdgesOf, Cached
    <2>13. QED  BY <2>6, <2>7, <2>10, <2>12 DEF IsForget
  <1>17. QED
    BY <1>6, <1>7, <1>8, <1>9, <1>10, <1>11, <1>12, <1>13, <1>14, <1>15, <1>16
       DEF Next, Worker, Process, Environment, Entry

(* Forgetting a node leaves none of its edges behind: an edge of a node    *)
(* that is not known, whose removal is not under way, has been written     *)
(* since, by an approval or a proposal that came late.                     *)
THEOREM EdgesTheorem == Spec => EdgesFollow
  <1>1. Init => CarriedOut /\ ForgetHeld
    BY DEF Init, CarriedOut, ForgetHeld, Written
  <1>2. ASSUME IInv, CarriedOut, ForgetHeld, [Next]_vars
        PROVE  [\A e \in EdgeRid : \A n \in {e[1], e[2]} :
                  (IsLeftOver(e, n)' /\ ~IsLeftOver(e, n))
                    => \/ pc = "commit" /\ cur.mrid = e
                       \/ pc' = "dead" \/ restarts' # restarts]_vars
    BY <1>2, EdgesStep
  <1>3. QED
    BY Invariance, CarriedStep, ForgetHeldStep, <1>1, <1>2, PTL DEF Spec, EdgesFollow

====
