------------------------- MODULE KnowledgePipeline -------------------------
(***************************************************************************)
(* The knowledge pipeline of one KOI-net node: the queue of knowledge      *)
(* objects, the worker thread that drains it, the handler chains that      *)
(* decide what happens to each object, the cache, the network graph that   *)
(* mirrors it, and the events the node publishes.                          *)
(*                                                                         *)
(* One node, Self, is modelled in full.  Its peers are the environment:    *)
(* they send events and answer (or fail to answer) the fetches the         *)
(* pipeline makes.  The worker is the only thread that writes the cache    *)
(* and the graph; every other thread reaches it through kobj_queue.        *)
(***************************************************************************)
EXTENDS Naturals, Sequences, FiniteSets

CONSTANTS
  Self,           \* this node's RID (identity.rid)
  Peers,          \* RIDs of the other nodes
  Objs,           \* RIDs of every other kind of knowledge
  ObjBody,        \* contents such knowledge may have
  EmptyContents,  \* the contents {}, which Python's truth test calls missing
  None,           \* Python's None
  SelfProfile,    \* identity.profile: [nt, prov, url]
  Interest,       \* rid_types_of_interest (its None is the set of all types)
  World,          \* <<rid, body>>: the knowledge peers may send or hold
  Forgettable,    \* RIDs that peers may send a FORGET event about
  InEvents,       \* event types, other than FORGET, of incoming knowledge
  Forms,          \* how much of the knowledge an incoming item carries
  Mixed,          \* <<rid, RID of its manifest>> that peers mix up
  FirstContact,   \* first_contact.rid: its URL is configured (None: no one's)
  Replies,        \* how the pipeline's fetches may end
  Urls,           \* base URLs (None: a partial node has none)
  Skew,           \* how far a peer's clock may be ahead of this node's
  Lag,            \* bound: how far behind this node's clock a bundle may be
  MaxInputs,      \* bound: items entering the queue from outside the worker
  MaxRestarts     \* bound: crashes followed by a restart

Node    == {Self} \union Peers
EdgeRid == {e \in Node \X Node : e[1] # e[2]}
RID     == Node \union EdgeRid \union Objs

RidTypes == {"node", "edge", "obj"}

\* type(rid)
TypeOf(r) == IF r \in Node THEN "node" ELSE IF r \in EdgeRid THEN "edge" ELSE "obj"

NodeBody == [nt : {"FULL", "PARTIAL"}, prov : SUBSET RidTypes, url : Urls]
EdgeBody == [st : {"PROPOSED", "APPROVED"}, rts : SUBSET RidTypes,
             et : {"WEBHOOK", "POLL"}]

BodyOf(r) == IF r \in Node THEN NodeBody
             ELSE IF r \in EdgeRid THEN EdgeBody ELSE ObjBody

(* A bundle is its manifest (timestamp and hash) and its contents.  Hashes *)
(* are compared for equality only, so the contents stand for their hash    *)
(* and a manifest on its own is a bundle whose contents are not used.      *)
Bundles(r) == [ts : Nat, body : BodyOf(r)]
AnyBundle  == [ts : Nat, body : NodeBody \union EdgeBody \union ObjBody]

EventType == {"NEW", "UPDATE", "FORGET"}

(* A knowledge object.  man: its manifest, or None; mrid: the RID in that  *)
(* manifest, which nothing compares with rid; full: whether contents came  *)
(* with it; ev: event_type; norm: normalized_event_type; src: source;      *)
(* targets: network_targets; warned: the bundle fetched for it was not the *)
(* one its manifest announced, which the pipeline logs and accepts.        *)
KObj == {k \in [rid : RID, mrid : RID, man : AnyBundle \union {None},
                full : BOOLEAN, warned : BOOLEAN,
                ev : EventType \union {None}, norm : EventType \union {None},
                src : Peers \union {None}, targets : SUBSET Node] :
           /\ k.mrid = k.rid \/ <<k.rid, k.mrid>> \in Mixed
           /\ k.man \in Bundles(k.mrid) \union {None}}

(* An event pushed to the event queue for one target node.                 *)
Message == [rid : RID, mrid : RID, type : EventType, man : AnyBundle \union {None},
            to : Node]

Stages == {"idle", "rid", "fetchManifest", "manifest", "fetchBundle", "bundle",
           "commit", "graph", "network", "contact", "publish", "final", "dead"}

ASSUME NodesAssumption ==
  /\ IsFiniteSet(Peers) /\ IsFiniteSet(Objs)
  /\ Self \notin Peers
  /\ Node \intersect EdgeRid = {} /\ Node \intersect Objs = {}
  /\ EdgeRid \intersect Objs = {}

ASSUME NoneAssumption ==
  /\ None \notin Node \union Objs \union EdgeRid \union EventType
  /\ None \notin AnyBundle /\ None \notin KObj

ASSUME ProfileAssumption ==
  /\ SelfProfile \in NodeBody /\ Interest \subseteq RidTypes

ASSUME InputAssumption ==
  /\ \A w \in World : w[1] \in RID /\ w[2] \in BodyOf(w[1])
  /\ Forgettable \subseteq RID
  /\ InEvents \subseteq {"NEW", "UPDATE", None}
  /\ Forms \subseteq {"rid", "manifest", "bundle"}
  /\ Replies \subseteq {"found", "missing", "error", "invalid"}
  /\ FirstContact \in Peers \union {None}
  /\ Skew \in Nat /\ Lag \in Nat /\ MaxInputs \in Nat /\ MaxRestarts \in Nat

(* A manifest of another RID: contents of the kind the RID itself has, as  *)
(* the handlers of that kind read them, or an RID no handler looks into.   *)
ASSUME MixedAssumption ==
  Mixed \subseteq (Node \X Node) \union (Objs \X RID)

VARIABLES
  cache,     \* the bundles on disk: RID -> bundle or None
  graph,     \* graph.dg: the nodes and the edges of the network graph
  queue,     \* kobj_queue.q
  cur,       \* the knowledge object the worker processes, or None
  pc,        \* how far pipeline.process has come with it
  out,       \* the events the last step pushed to the event queue
  now,       \* this node's clock
  profiled,  \* ProfileMonitor has queued this node's profile since the start
  inputs,    \* items that entered the queue from outside, so far
  restarts,  \* restarts so far
  mixed      \* something was written under another RID since graph.generate

vars == <<cache, graph, queue, cur, pc, out, now, profiled, inputs, restarts, mixed>>

-----------------------------------------------------------------------------
(* Helpers                                                                 *)

(* KnowledgeObject.from_event; the other ways to make one take the RID     *)
(* from the manifest or have no manifest.                                  *)
FromEvent(rid, mrid, man, full, ev, src) ==
  [rid |-> rid, mrid |-> mrid, man |-> man, full |-> full, warned |-> FALSE,
   ev |-> ev, norm |-> None, src |-> src, targets |-> {}]

NewKObj(rid, man, full, ev, src) == FromEvent(rid, rid, man, full, ev, src)

(* Bundle.generate: the contents stamped with the current time.  The clock *)
(* moves on with every bundle generated.                                   *)
Generated(rid, body, ev) ==
  NewKObj(rid, [ts |-> now + 1, body |-> body], TRUE, ev, None)

Cached(r) == cache[r] # None

(* NetworkGraph.generate reads the graph off the cache; networkx adds the  *)
(* ends of an edge as nodes.                                               *)
GraphOf(c) ==
  LET es == {e \in EdgeRid : c[e] # None}
  IN  [nodes |-> {n \in Node : c[n] # None \/ \E e \in es : n \in {e[1], e[2]}},
       edges |-> es]

Orders(S) == {q \in [1..Cardinality(S) -> S] : \A x \in S : \E i \in DOMAIN q : q[i] = x}

(* The peers that subscribe to rid type t: get_neighbors(direction="out",  *)
(* allowed_type=t).  The edge's status is not looked at.                   *)
GetNeighbors(t) ==
  {p \in Peers : /\ <<Self, p>> \in graph.edges
                 /\ Cached(<<Self, p>>)
                 /\ t \in cache[<<Self, p>>].body.rts}

(* networkx raises for the edges of a node that is not in a graph that has *)
(* some edge; an empty graph is never asked.                               *)
NeighborsRaise == graph.edges # {} /\ Self \notin graph.nodes

(* The timestamps a peer's bundle may carry.                               *)
PeerTime == {t \in 0 .. now + Skew : t + Lag >= now}

PeerBundles(rid) ==
  {[ts |-> t, body |-> w[2]] : t \in PeerTime, w \in {x \in World : x[1] = rid}}

(* The RIDs a manifest that peers give for rid may name, and the RIDs that *)
(* peers may send a manifest naming rid under.                             *)
NamedBy(rid) == {rid} \union {m[2] : m \in {n \in Mixed : n[1] = rid}}
GoesBy(rid)  == {rid} \union {m[1] : m \in {n \in Mixed : n[2] = rid}}

Exit == pc' = "idle" /\ cur' = None
Die  == pc' = "dead" /\ cur' = None

-----------------------------------------------------------------------------
Init ==
  /\ cache \in [RID -> {None}]
  /\ graph = GraphOf(cache)
  /\ queue = <<>> /\ cur = None /\ pc = "idle" /\ out = {}
  /\ now = 1 /\ profiled = FALSE /\ inputs = 0 /\ restarts = 0
  /\ mixed = FALSE

-----------------------------------------------------------------------------
(* What other threads put in the queue                                     *)

(* A partial node polls only after its profile was queued; a full node     *)
(* may be called from the moment its server listens.                       *)
Listening == SelfProfile.nt = "FULL" \/ profiled

Input(k) ==
  /\ inputs < MaxInputs
  /\ queue' = Append(queue, k)
  /\ inputs' = inputs + 1
  /\ out' = {}
  /\ UNCHANGED <<cache, graph, cur, pc, profiled, restarts, mixed>>

(* ResponseHandler.broadcast_events_handler, NodePoller.poll and           *)
(* SyncManager.catch_up_with: knowledge from peer p, as an event that      *)
(* carries a bundle, or as a manifest or a RID still to be fetched.  An    *)
(* event has an RID of its own beside the one in its manifest.             *)
ReceiveKnowledge ==
  \E p \in Peers, w \in World, ev \in InEvents, f \in Forms, t \in PeerTime :
    \E r \in (IF ev = None THEN {w[1]} ELSE GoesBy(w[1])) :
      /\ Listening
      /\ Input(IF f = "rid" THEN NewKObj(w[1], None, FALSE, ev, p)
               ELSE FromEvent(r, w[1], [ts |-> t, body |-> w[2]], f = "bundle", ev, p))
      /\ UNCHANGED now

ReceiveForget ==
  \E p \in Peers, r \in Forgettable :
    /\ Listening
    /\ Input(NewKObj(r, None, FALSE, "FORGET", p))
    /\ UNCHANGED now

(* ErrorHandler.handle_connection_error gives up on a peer.                *)
ForgetUnreachable ==
  \E p \in Peers \intersect Forgettable :
    /\ Input(NewKObj(p, None, FALSE, "FORGET", None))
    /\ UNCHANGED now

(* The node's own code publishes knowledge through kobj_queue.push.        *)
PublishLocal ==
  \E w \in World :
    /\ w[1] \in Objs
    /\ Input(Generated(w[1], w[2], None))
    /\ now' = now + 1

(* ProfileMonitor.start queues this node's profile.  The order of start-up *)
(* does not put it before the server's, which may already receive events.  *)
ProcessProfile ==
  /\ ~profiled /\ profiled' = TRUE
  /\ queue' = Append(queue, Generated(Self, SelfProfile, None))
  /\ now' = now + 1 /\ out' = {}
  /\ UNCHANGED <<cache, graph, cur, pc, inputs, restarts, mixed>>

(* The process dies and is started again.  Only the cache survives:        *)
(* graph.start regenerates the graph.                                      *)
Restart ==
  /\ restarts < MaxRestarts
  /\ restarts' = restarts + 1
  /\ graph' = GraphOf(cache)
  /\ queue' = <<>> /\ cur' = None /\ pc' = "idle" /\ out' = {}
  /\ profiled' = FALSE /\ mixed' = FALSE
  /\ UNCHANGED <<cache, now, inputs>>

-----------------------------------------------------------------------------
(* KnowledgeProcessingWorker.run                                           *)

Dequeue ==
  /\ pc = "idle" /\ queue # <<>>
  /\ cur' = Head(queue) /\ queue' = Tail(queue)
  /\ pc' = "rid" /\ out' = {}
  /\ UNCHANGED <<cache, graph, now, profiled, inputs, restarts, mixed>>

\* fault: a FORGET is approved before the identity is looked at
BlockedUnlessForget(k) == k.rid = Self /\ k.src # None /\ k.ev # "FORGET"

(* BasicRidHandler stops external knowledge about this node's identity.    *)
BlockedIdentity(k) == k.rid = Self /\ k.src # None

(* The RID chain; a FORGET takes the bundle to be deleted from the cache.  *)
RidChain ==
  /\ pc = "rid" /\ out' = {}
  /\ UNCHANGED <<cache, graph, queue, now, profiled, inputs, restarts, mixed>>
  /\ \/ /\ BlockedIdentity(cur)
        /\ Exit
     \/ /\ ~BlockedIdentity(cur) /\ cur.ev = "FORGET"
        /\ IF Cached(cur.rid)
           THEN /\ cur' = [cur EXCEPT !.norm = "FORGET", !.mrid = cur.rid,
                                      !.man = cache[cur.rid], !.full = TRUE]
                /\ pc' = "bundle"
           ELSE Exit
     \/ /\ ~BlockedIdentity(cur) /\ cur.ev # "FORGET" /\ cur.man = None
        /\ IF cur.src = None THEN Exit
           ELSE pc' = "fetchManifest" /\ UNCHANGED cur
     \/ /\ ~BlockedIdentity(cur) /\ cur.ev # "FORGET" /\ cur.man # None
        /\ pc' = "manifest" /\ UNCHANGED cur

(* RequestHandler.make_request to s: the URL is in the cached profile of a *)
(* full node, or it is the first contact's.                                *)
HasUrl(s) == IF Cached(s) THEN cache[s].body.nt = "FULL" ELSE s = FirstContact

(* PartialNodeQueryError, NodeNotFoundError, and every failed transport or *)
(* error response: a RequestError, which callers catch.                    *)
RequestFails(s) == ~HasUrl(s) \/ "error" \in Replies

(* validate_envelope refuses the answer, always that of a node without a   *)
(* cached profile: a ProtocolError, which nobody catches.                  *)
AnswerRaises(s) ==
  /\ HasUrl(s)
  /\ IF Cached(s) THEN "invalid" \in Replies ELSE Replies # {"error"}

Answers(s, reply) == Cached(s) /\ HasUrl(s) /\ reply \in Replies

WithManifest(k, m, b) == [k EXCEPT !.mrid = m, !.man = b]

(* fetch_manifests; an answer that lists the RID as not found has an empty *)
(* list, which the code indexes.                                           *)
FetchManifest ==
  /\ pc = "fetchManifest" /\ out' = {}
  /\ UNCHANGED <<cache, graph, queue, now, profiled, inputs, restarts, mixed>>
  /\ \/ /\ Answers(cur.src, "found")
        /\ \E m \in NamedBy(cur.rid) : \E b \in PeerBundles(m) :
             cur' = WithManifest(cur, m, b)
        /\ pc' = "manifest"
     \/ RequestFails(cur.src) /\ Exit
     \/ Answers(cur.src, "missing") /\ Die
     \/ AnswerRaises(cur.src) /\ Die

\* fault: an equal timestamp counts as newer
NotOlderThanCache(k) ==
  Cached(k.rid) => /\ k.man.body # cache[k.rid].body
                   /\ k.man.ts >= cache[k.rid].ts

(* BasicManifestHandler lets through what is new or newer than the cache.  *)
NewerThanCache(k) ==
  Cached(k.rid) => /\ k.man.body # cache[k.rid].body
                   /\ k.man.ts > cache[k.rid].ts

(* `not kobj.contents`: None and {} alike.                                 *)
HasContents(k) == k.full /\ k.man.body # EmptyContents

\* fault: the sender's event type decides
DecisionByEvent(k) == IF k.ev = "UPDATE" THEN "UPDATE" ELSE "NEW"

Decision(k) == IF Cached(k.rid) THEN "UPDATE" ELSE "NEW"

ManifestChain ==
  /\ pc = "manifest" /\ out' = {}
  /\ UNCHANGED <<cache, graph, queue, now, profiled, inputs, restarts, mixed>>
  /\ IF ~NewerThanCache(cur) \/ (~HasContents(cur) /\ cur.src = None) THEN Exit
     ELSE /\ cur' = [cur EXCEPT !.norm = Decision(cur)]
          /\ pc' = IF HasContents(cur) THEN "bundle" ELSE "fetchBundle"

WithBundle(k, m, b) == [k EXCEPT !.mrid = m, !.man = b, !.full = TRUE,
                                 !.warned = (m # k.mrid \/ b # k.man)]

(* fetch_bundles: the bundle fetched replaces the manifest, and neither is *)
(* compared with the cache again, nor its RID with the one asked for.      *)
FetchBundle ==
  /\ pc = "fetchBundle" /\ out' = {}
  /\ UNCHANGED <<cache, graph, queue, now, profiled, inputs, restarts, mixed>>
  /\ \/ /\ Answers(cur.src, "found")
        /\ \E m \in NamedBy(cur.rid) : \E b \in PeerBundles(m) :
             cur' = WithBundle(cur, m, b)
        /\ pc' = "bundle"
     \/ RequestFails(cur.src) /\ Exit
     \/ Answers(cur.src, "missing") /\ Die
     \/ AnswerRaises(cur.src) /\ Die

-----------------------------------------------------------------------------
(* The Bundle chain                                                        *)

IsNews(k) == k.ev \in {"NEW", "UPDATE"}

(* SecureProfileHandler ignores a peer that claims this node's base URL.   *)
ClaimsOwnUrl(k) ==
  /\ k.rid \in Node /\ IsNews(k)
  /\ k.rid # Self /\ k.man.body.url = SelfProfile.url

(* EdgeNegotiationHandler answers a proposal to subscribe to this node.    *)
IsProposalToSelf(k) ==
  /\ k.rid \in EdgeRid /\ IsNews(k) /\ k.src # None
  /\ k.rid[1] = Self /\ k.man.body.st = "PROPOSED"

Provided == SelfProfile.prov \union {"node", "edge"}

\* fault: the requested types are not compared with the provided ones
AcceptableByType(edge, peer) == ~(edge.et = "WEBHOOK" /\ peer.nt = "PARTIAL")

Acceptable(edge, peer) ==
  /\ ~(edge.et = "WEBHOOK" /\ peer.nt = "PARTIAL")
  /\ edge.rts \subseteq Provided

\* fault: the approval reuses the manifest of the proposal
ApprovalSameTime(k) ==
  NewKObj(k.rid, [k.man EXCEPT !.body.st = "APPROVED"], TRUE, "UPDATE", None)

(* The approval is queued as an internal update, behind what is queued     *)
(* already; the proposal itself goes on to be cached.                      *)
Approval(k) ==
  Generated(k.rid, [k.man.body EXCEPT !.st = "APPROVED"], "UPDATE")

Refusal(k) == [rid |-> k.rid, mrid |-> k.rid, type |-> "FORGET", man |-> None,
               to |-> k.rid[2]]

BundleChain ==
  /\ pc = "bundle"
  /\ UNCHANGED <<cache, graph, profiled, inputs, restarts, mixed>>
  /\ \/ /\ ClaimsOwnUrl(cur)
        /\ Exit /\ out' = {}
        /\ UNCHANGED <<queue, now>>
     \/ /\ IsProposalToSelf(cur)
        /\ IF ~Cached(cur.rid[2])
           THEN Exit /\ out' = {} /\ UNCHANGED <<queue, now>>
           ELSE IF ~Acceptable(cur.man.body, cache[cur.rid[2]].body)
           THEN Exit /\ out' = {Refusal(cur)} /\ UNCHANGED <<queue, now>>
           ELSE /\ queue' = Append(queue, Approval(cur))
                /\ now' = now + 1
                /\ pc' = "commit" /\ out' = {} /\ UNCHANGED cur
     \/ /\ ~ClaimsOwnUrl(cur) /\ ~IsProposalToSelf(cur)
        /\ pc' = "commit" /\ out' = {}
        /\ UNCHANGED <<cur, queue, now>>

\* fault: an update is announced but not written
CacheAfterNewOnly(k) ==
  IF k.norm = "FORGET" THEN [cache EXCEPT ![k.rid] = None]
  ELSE IF k.norm = "NEW" THEN [cache EXCEPT ![k.mrid] = k.man] ELSE cache

(* Cache action: NEW and UPDATE write the bundle under the RID its         *)
(* manifest names, FORGET deletes the object's own.                        *)
CacheAfter(k) ==
  IF k.norm = "FORGET" THEN [cache EXCEPT ![k.rid] = None]
  ELSE [cache EXCEPT ![k.mrid] = k.man]

\* fault: only nodes count
ChangesNode(k) == k.rid \in Node

ChangesGraph(k) == k.rid \in Node \union EdgeRid

Commit ==
  /\ pc = "commit" /\ out' = {}
  /\ cache' = CacheAfter(cur)
  /\ pc' = IF ChangesGraph(cur) THEN "graph" ELSE "network"
  /\ mixed' = (mixed \/ cur.mrid # cur.rid)
  /\ UNCHANGED <<graph, queue, cur, now, profiled, inputs, restarts>>

Generate ==
  /\ pc = "graph" /\ out' = {}
  /\ graph' = GraphOf(cache) /\ mixed' = FALSE
  /\ pc' = "network"
  /\ UNCHANGED <<cache, queue, cur, now, profiled, inputs, restarts>>

-----------------------------------------------------------------------------
(* The Network chain                                                       *)

(* BasicNetworkOutputFilter                                                *)
OtherEnd(e) == IF e[1] = Self THEN e[2] ELSE e[1]

InvolvesSelf(k) ==
  /\ k.src = None
  /\ k.rid = Self \/ (k.rid \in EdgeRid /\ Self \in {k.rid[1], k.rid[2]})

AsksNeighbors(k) == TypeOf(k.rid) \in SelfProfile.prov \/ InvolvesSelf(k)

NetworkTargets(k) ==
  LET ends == IF InvolvesSelf(k) /\ k.rid # Self THEN {OtherEnd(k.rid)} ELSE {}
      subs == IF AsksNeighbors(k) THEN GetNeighbors(TypeOf(k.rid)) ELSE {}
  IN  (ends \union subs) \ {k.src}

(* NodeContactHandler.process_node, called for every change of a node: for *)
(* its NEW and UPDATE, and for its FORGET as well.                         *)
Available(k) == Interest \intersect k.man.body.prov

Contacts(k) ==
  /\ k.rid \in Peers
  /\ k.man.body.nt = "FULL"
  /\ Available(k) # {}
  /\ <<k.rid, Self>> \in graph.edges =>
       cache[<<k.rid, Self>>].body.rts # Available(k)

\* fault: the node type is used as the edge type
ProposalNodeType(k) ==
  Generated(<<k.rid, Self>>, [st |-> "PROPOSED", rts |-> Available(k),
                              et |-> SelfProfile.nt], None)

Proposal(k) ==
  LET e == <<k.rid, Self>>
  IN  Generated(e, [st |-> "PROPOSED", rts |-> Available(k),
                    et |-> IF e \in graph.edges THEN cache[e].body.et
                           ELSE IF SelfProfile.nt = "FULL" THEN "WEBHOOK" ELSE "POLL"],
                None)

NetworkChain ==
  /\ pc = "network" /\ out' = {}
  /\ UNCHANGED <<cache, graph, profiled, inputs, restarts, mixed>>
  /\ IF AsksNeighbors(cur) /\ NeighborsRaise
     THEN Die /\ UNCHANGED <<queue, now>>
     ELSE /\ cur' = [cur EXCEPT !.targets = NetworkTargets(cur)]
          /\ IF Contacts(cur)
             THEN queue' = Append(queue, Proposal(cur)) /\ now' = now + 1 /\ pc' = "contact"
             ELSE UNCHANGED <<queue, now>> /\ pc' = "publish"

(* fetch_rids: the RIDs the provider holds that this node does not.        *)
Unknown(k) ==
  {r \in {w[1] : w \in World} : TypeOf(r) \in Available(k) /\ r # Self /\ ~Cached(r)}

FetchRids ==
  /\ pc = "contact" /\ out' = {}
  /\ UNCHANGED <<cache, graph, now, profiled, inputs, restarts, mixed>>
  /\ \/ /\ RequestFails(cur.rid) \/ Answers(cur.rid, "missing")
        /\ pc' = "publish" /\ UNCHANGED <<queue, cur>>
     \/ /\ Answers(cur.rid, "found")
        /\ \E S \in SUBSET Unknown(cur) : \E q \in Orders(S) :
             queue' = queue \o [i \in DOMAIN q |-> NewKObj(q[i], None, FALSE, None, cur.rid)]
        /\ pc' = "publish" /\ UNCHANGED cur
     \/ AnswerRaises(cur.rid) /\ Die /\ UNCHANGED queue

(* normalized_event, pushed once for every target.                         *)
NormalizedEvent(k, p) ==
  IF k.norm = "FORGET"
  THEN [rid |-> k.rid, mrid |-> k.rid, type |-> "FORGET", man |-> None, to |-> p]
  ELSE [rid |-> k.rid, mrid |-> k.mrid, type |-> k.norm, man |-> k.man, to |-> p]

Publish ==
  /\ pc = "publish"
  /\ out' = {NormalizedEvent(cur, p) : p \in cur.targets}
  /\ pc' = "final"
  /\ UNCHANGED <<cache, graph, queue, cur, now, profiled, inputs, restarts, mixed>>

\* fault: only the edges out of the node
EdgesOutOf(n) == {e \in EdgeRid : Cached(e) /\ n = e[1]}

(* The Final chain.  ForgetNodeHandler queues a FORGET for every cached    *)
(* edge of a forgotten node.                                               *)
EdgesOf(n) == {e \in EdgeRid : Cached(e) /\ n \in {e[1], e[2]}}

FinalChain ==
  /\ pc = "final" /\ out' = {}
  /\ IF cur.rid \in Node /\ cur.norm = "FORGET"
     THEN \E q \in Orders(EdgesOf(cur.rid)) :
            queue' = queue \o [i \in DOMAIN q |-> NewKObj(q[i], None, FALSE, "FORGET", None)]
     ELSE UNCHANGED queue
  /\ Exit
  /\ UNCHANGED <<cache, graph, now, profiled, inputs, restarts, mixed>>

-----------------------------------------------------------------------------
Process == RidChain \/ FetchManifest \/ ManifestChain \/ FetchBundle \/ BundleChain
             \/ Commit \/ Generate \/ NetworkChain \/ FetchRids \/ Publish \/ FinalChain

Worker == Dequeue \/ Process

Environment == ProcessProfile \/ ReceiveKnowledge \/ ReceiveForget
                 \/ ForgetUnreachable \/ PublishLocal \/ Restart

Next == Worker \/ Environment

Spec == Init /\ [][Next]_vars

(* The worker thread is never starved: its loop runs until it is told to   *)
(* stop, and every request it makes ends (answer, error or timeout).       *)
FairSpec == Spec /\ WF_vars(Worker)

-----------------------------------------------------------------------------
(* Properties                                                              *)

(* Every variable has its type; in particular the knowledge under a RID,   *)
(* in the cache, the queue and in the worker's hands, has the shape that   *)
(* RID's type requires.                                                    *)
TypeOK ==
  /\ cache \in [RID -> AnyBundle \union {None}]
  /\ \A r \in RID : cache[r] \in Bundles(r) \union {None}
  /\ graph \in [nodes : SUBSET Node, edges : SUBSET EdgeRid]
  /\ queue \in Seq(KObj)
  /\ cur \in KObj \union {None}
  /\ pc \in Stages
  /\ (pc \in {"idle", "dead"}) <=> (cur = None)
  /\ pc \notin {"idle", "dead", "rid", "fetchManifest"} => cur.man # None
  /\ pc \notin {"idle", "dead", "rid", "fetchManifest", "manifest"} => cur.norm # None
  /\ pc = "contact" => cur.rid \in Peers
  /\ out \subseteq Message
  /\ now \in Nat /\ inputs \in Nat /\ restarts \in Nat
  /\ profiled \in BOOLEAN /\ mixed \in BOOLEAN

(* The network graph is the graph of the cache whenever the worker is not  *)
(* between a cache action and graph.generate: whatever chain, reader or    *)
(* later knowledge object consults it sees the edges and nodes the cache   *)
(* holds, after any sequence of writes, deletions and restarts.  Knowledge *)
(* written under the RID of another object's manifest is the exception:    *)
(* the pipeline looks at the object's own RID to see if the graph changes. *)
GraphMatchesCache == (pc # "graph" /\ ~mixed) => graph = GraphOf(cache)

(* The decision of the RID and Manifest chains (NEW, UPDATE, FORGET) still *)
(* agrees with the cache when the cache action is taken, after a fetch     *)
(* that may have blocked and while other threads fill the queue.           *)
DecisionHolds ==
  pc \in {"fetchBundle", "bundle", "commit"} =>
    (Cached(cur.rid) <=> cur.norm \in {"UPDATE", "FORGET"})

(* Knowledge only moves forward: a bundle that replaces another one in the *)
(* cache is newer and has other contents, unless the pipeline has warned   *)
(* that it is not the bundle announced, or is told to write it under       *)
(* another RID than the one it compared.                                   *)
NewerWins ==
  [][\A r \in RID :
       (cache[r] # None /\ cache'[r] # None /\ cache'[r] # cache[r])
         => \/ cache'[r].ts > cache[r].ts /\ cache'[r].body # cache[r].body
            \/ cur.warned \/ cur.mrid # cur.rid]_vars

(* What the node announces is what it holds: when the events about a       *)
(* change have been pushed, the cache is in the state they describe.       *)
(* Nothing is sent to the node itself or back to where it came from.       *)
AnnouncedIsHeld ==
  pc = "final" =>
    \A m \in out : /\ m.to \notin {Self, cur.src}
                   /\ m.man = cache[m.mrid]
                   /\ (m.type = "FORGET") <=> (m.man = None)

(* The node's own profile is never lost when peers forget it, and what     *)
(* replaces it is its own again: handshaker and server read it             *)
(* unconditionally.  The one way round BasicRidHandler is an object of     *)
(* another RID whose manifest names this node's.                           *)
IdentityStays ==
  [][cache[Self] # None =>
       /\ cache'[Self] # None
       /\ \/ cache'[Self] = cache[Self]
          \/ cache'[Self].body = SelfProfile
          \/ pc = "commit" /\ cur.rid # Self /\ cur.mrid = Self]_vars

(* A subscription the node approved is one it can serve, however often the *)
(* edge was proposed again while the approval waited in the queue.         *)
ApprovedIsProvided ==
  \A p \in Peers :
    (Cached(<<Self, p>>) /\ cache[<<Self, p>>].body.st = "APPROVED")
      => cache[<<Self, p>>].body.rts \subseteq Provided

(* "Removes edges connected to forgotten nodes" (forget_node_handler.py):  *)
(* an edge is on its way out if its FORGET waits or is worked on, or if    *)
(* one of its nodes was deleted and the Final chain has not run yet.       *)
IsForget(k, r) == k.rid = r /\ k.ev = "FORGET"

HasLeft(n) == /\ pc \in {"graph", "network", "contact", "publish", "final"}
              /\ cur.rid = n /\ cur.norm = "FORGET"

OnItsWayOut(e, n) == \/ \E i \in DOMAIN queue : IsForget(queue[i], e)
                     \/ cur # None /\ IsForget(cur, e)
                     \/ HasLeft(n)

IsLeftOver(e, n) == Cached(e) /\ ~Cached(n) /\ ~OnItsWayOut(e, n)

(* An edge of an unknown node is never left over by the node's FORGET,     *)
(* whatever is queued meanwhile: if nothing is going to remove it, it was  *)
(* written after the node was deleted.  A crash loses the queue.           *)
EdgesFollow ==
  [][\A e \in EdgeRid : \A n \in {e[1], e[2]} :
       (IsLeftOver(e, n)' /\ ~IsLeftOver(e, n))
         => \/ pc = "commit" /\ cur.mrid = e
            \/ pc' = "dead" \/ restarts' # restarts]_vars

(* "Automatically approves proposed edges" (edge_negotiation_handler.py):  *)
(* a cached proposal that a known peer may make does not stay a proposal.  *)
IsOpenProposal(e) ==
  /\ Cached(e) /\ cache[e].body.st = "PROPOSED"
  /\ Cached(e[2]) /\ Acceptable(cache[e].body, cache[e[2]].body)

ProposalsSettle ==
  \A p \in Peers : IsOpenProposal(<<Self, p>>) ~> (pc = "dead" \/ ~IsOpenProposal(<<Self, p>>))

(* "If the manifest cannot be found or fetched from the source node, the   *)
(* pipeline will exit", and the same for the bundle (pipeline.py): the     *)
(* worker goes on with the next knowledge object.                          *)
WorkerSurvives == pc # "dead"

====
