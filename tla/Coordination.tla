---------------------------- MODULE Coordination ----------------------------
(***************************************************************************)
(* A member node M and the coordinator C, its first contact, from the      *)
(* handshake to two approved edges: each with its cache, its knowledge     *)
(* queue, its event queue and the buffer towards the other.  M introduces  *)
(* itself, C answers with its own profile and proposes an edge, M proposes *)
(* one of its own, each approves the other's.  Requests and answers are    *)
(* lost, nodes stop or crash and start again, and M may lose its cache.    *)
(*                                                                         *)
(* One knowledge object is processed in one step (KnowledgePipeline takes  *)
(* it apart), the graph is that of the cache, and each node's own profile  *)
(* is cached and does not change.                                          *)
(***************************************************************************)
EXTENDS Naturals, Sequences, FiniteSets

CONSTANTS
  C, M,          \* RIDs of the coordinator and of the member
  Full,          \* whether M is a full node; a partial one polls: the choices
  None,
  MaxFaults,     \* bound: shutdowns, crashes, requests or answers lost
  MaxWipes       \* bound: times the cache of M is wiped

Node == {C, M}
Peer(n) == IF n = C THEN M ELSE C

(* <<M, C>>: C subscribes to M.  <<C, M>>: M subscribes to C.              *)
Edge == {<<M, C>>, <<C, M>>}
RID  == Node \union Edge

(* Of a bundle, its timestamp and the part of the contents that changes.   *)
Bundle  == [st : {"PROFILE", "PROPOSED", "APPROVED"}, ts : Nat]
Profile == [st |-> "PROFILE", ts |-> 0]
EdgeBundle(st, ts) == [st |-> st, ts |-> ts]

ASSUME CoordinationAssumption ==
  /\ C # M /\ Node \intersect Edge = {} /\ Full \subseteq BOOLEAN
  /\ None \notin RID \union Bundle /\ None \notin {"NEW", "UPDATE", "FORGET"}
  /\ MaxFaults \in Nat /\ MaxWipes \in Nat

VARIABLES
  full,     \* whether M is a full node
  up,       \* "down", "boot", "greeted" (past the handshaker), "run", "stopping"
  cache,    \* cache[n][rid]: bundle or None
  kq,       \* kobj_queue.q of each node
  evq,      \* event_queue.q of each node
  buf,      \* the buffer of each node for the other
  timed,    \* whether that buffer has a start time
  now,      \* the clock, common to both
  lapsed,   \* history, a set: work or events were "lost", a negotiation was
            \* "skipped", events were under way to a cache that was wiped, "stale"
  faults, wipes    \* counters of the bounds

vars == <<full, up, cache, kq, evq, buf, timed, now, lapsed, faults, wipes>>

Note(b, what) == IF b THEN lapsed \union {what} ELSE lapsed

Fault == faults < MaxFaults /\ faults' = faults + 1

-----------------------------------------------------------------------------
Item(rid, ev, man, src) == [rid |-> rid, ev |-> ev, man |-> man, src |-> src]
Event(rid, ev, man) == [rid |-> rid, ev |-> ev, man |-> man]

Cached(n, r) == cache[n][r] # None

Init ==
  /\ full \in Full
  /\ up = [n \in Node |-> IF n = C THEN "run" ELSE "down"]
  /\ cache = [n \in Node |-> [r \in RID |-> IF r = n THEN Profile ELSE None]]
  /\ kq = [n \in Node |-> <<>>] /\ evq = [n \in Node |-> <<>>]
  /\ buf = [n \in Node |-> <<>>] /\ timed = [n \in Node |-> FALSE]
  /\ now = 0 /\ lapsed = {}
  /\ faults = 0 /\ wipes = 0

(* A node listens from its server's start to the shutdown.                 *)
Listens(n) == up[n] \in {"boot", "greeted", "run"}

Phase(n, ph) == up' = [up EXCEPT ![n] = ph]

-----------------------------------------------------------------------------
(* Knowledge processing                                                    *)

Blocked(n, k) == k.rid = n /\ k.src # None

(* BasicManifestHandler; what is to be forgotten must be cached.           *)
Relevant(n, k) ==
  IF k.ev = "FORGET" THEN Cached(n, k.rid)
  ELSE Cached(n, k.rid) => /\ k.man.st # cache[n][k.rid].st
                           /\ k.man.ts > cache[n][k.rid].ts

IsProposal(n, k) ==
  /\ k.rid \in Edge /\ k.rid[1] = n /\ k.src # None
  /\ k.ev \in {"NEW", "UPDATE"} /\ k.man.st = "PROPOSED"

Accepts(n, k) ==
  /\ ~Blocked(n, k) /\ Relevant(n, k)
  /\ IsProposal(n, k) => Cached(n, k.rid[2])

CacheAfter(n, k) == [cache[n] EXCEPT ![k.rid] = IF k.ev = "FORGET" THEN None ELSE k.man]

(* A proposal learned by catching up has no event type: the handler that   *)
(* negotiates is not called.                                               *)
Unnegotiated(n, k) ==
  k.rid \in Edge /\ k.rid[1] = n /\ k.src # None /\ k.ev = None /\ k.man.st = "PROPOSED"

(* EdgeNegotiationHandler: both edges ask for what their source provides.  *)
Approval(n, k) ==
  IF IsProposal(n, k)
  THEN <<Item(k.rid, "UPDATE", EdgeBundle("APPROVED", now + 1), None)>> ELSE <<>>

(* NodeContactHandler: C provides what M is interested in, M provides      *)
(* nothing to C.                                                           *)
Contact(n, rid, cached) ==
  IF n = M /\ rid = C /\ cached[<<C, M>>] = None
  THEN <<Item(<<C, M>>, None, EdgeBundle("PROPOSED", now + 1), None)>> ELSE <<>>

(* HandshakeHandler of the coordinator.                                    *)
Greets(n, k) == n = C /\ k.rid = M /\ k.ev = "NEW" /\ k.src = M

Greeting(n, k) ==
  IF Greets(n, k)
  THEN <<Item(<<M, C>>, "FORGET", None, None),
         Item(<<M, C>>, None, EdgeBundle("PROPOSED", now + 1), None)>> ELSE <<>>

Orders(S) == {q \in [1..Cardinality(S) -> S] : \A x \in S : \E i \in DOMAIN q : q[i] = x}

(* ForgetNodeHandler: the edges of a forgotten node, in any order.         *)
Orphans(n, k, cached) ==
  IF k.rid = Peer(n) /\ k.ev = "FORGET"
  THEN {[i \in DOMAIN q |-> Item(q[i], "FORGET", None, None)] :
          q \in Orders({e \in Edge : cached[e] # None})}
  ELSE {<<>>}

\* fault: events about edges, too, go to subscribers only
ToSubscribers(n, k, cached) == k.src = None /\ n = C /\ cached[<<C, M>>] # None

(* BasicNetworkOutputFilter: the other end of an edge hears of what this   *)
(* node says about it; M, as a subscriber, of what C says about nodes.     *)
Targeted(n, k, cached) ==
  /\ k.src = None
  /\ k.rid \in Edge \/ (n = C /\ k.rid = M /\ cached[<<C, M>>] # None)

\* fault: a FORGET is labelled by the state of the cache, too
LabelledByCache(n, k) == IF Cached(n, k.rid) THEN "UPDATE" ELSE "NEW"

Normalized(n, k) ==
  IF k.ev = "FORGET" THEN "FORGET" ELSE IF Cached(n, k.rid) THEN "UPDATE" ELSE "NEW"

Events(n, k, cached) ==
  IF Greets(n, k) THEN <<Event(C, "NEW", Profile)>>
  ELSE IF Targeted(n, k, cached)
  THEN <<Event(k.rid, Normalized(n, k), IF k.ev = "FORGET" THEN None ELSE k.man)>>
  ELSE <<>>

(* Accepted knowledge is written and followed up.                          *)
Commit(n, k) ==
  LET cached == CacheAfter(n, k)
      pushed == Approval(n, k) \o Contact(n, k.rid, cached) \o Greeting(n, k)
  IN  /\ cache' = [cache EXCEPT ![n] = cached]
      /\ \E q \in Orphans(n, k, cached) : kq' = [kq EXCEPT ![n] = Tail(@) \o pushed \o q]
      /\ evq' = [evq EXCEPT ![n] = @ \o Events(n, k, cached)]
      /\ now' = IF pushed = <<>> THEN now ELSE now + 1
      /\ lapsed' = Note(Unnegotiated(n, k), "skipped")
      /\ UNCHANGED <<up, faults>>

Drop(n) ==
  kq' = [kq EXCEPT ![n] = Tail(@)] /\ UNCHANGED <<up, cache, evq, now, lapsed>>

(* payload.bundles[0] of an empty answer: the worker dies, the node stops. *)
Dies(n) ==
  /\ kq' = [kq EXCEPT ![n] = <<>>] /\ Phase(n, "stopping") /\ lapsed' = Note(TRUE, "lost")
  /\ UNCHANGED <<cache, evq, now, faults>>

(* What C has caught up with is a manifest. Its bundle is fetched when it  *)
(* is processed, the one that M has then, if M can be asked and answers.   *)
Bare(k) == k.ev = None /\ k.src # None

Answers == full /\ Listens(M) /\ Cached(C, M) /\ Cached(M, C)

(* KnowledgePipeline.process.                                              *)
Process(n) ==
  /\ up[n] # "down" /\ kq[n] # <<>>
  /\ LET k == Head(kq[n]) IN
     \/ ~Accepts(n, k) /\ Drop(n) /\ UNCHANGED faults
     \/ Accepts(n, k) /\ ~Bare(k) /\ Commit(n, k)
     \/ /\ Accepts(n, k) /\ Bare(k)
        /\ \/ Drop(n) /\ ((~Answers /\ UNCHANGED faults) \/ Fault)
           \/ Answers /\ Cached(M, k.rid) /\ Commit(n, [k EXCEPT !.man = cache[M][k.rid]])
           \/ Answers /\ ~Cached(M, k.rid) /\ Dies(n)
  /\ UNCHANGED <<full, wipes, buf, timed>>

-----------------------------------------------------------------------------
(* Delivery                                                                *)

(* EventProcessingWorker: an event for a node that is neither known nor    *)
(* the first contact is dropped.                                           *)
Route(n) ==
  /\ up[n] # "down" /\ evq[n] # <<>>
  /\ evq' = [evq EXCEPT ![n] = Tail(@)]
  /\ IF Cached(n, Peer(n)) \/ n = M
     THEN /\ buf' = [buf EXCEPT ![n] = Append(@, Head(evq[n]))]
          /\ timed' = [timed EXCEPT ![n] = TRUE]
     ELSE UNCHANGED <<buf, timed>>
  /\ UNCHANGED <<full, wipes, up, cache, kq, now, lapsed, faults>>

\* fault: an unknown sender is accepted with any events
AnyoneTrusted(n, events) == TRUE

(* validate_envelope at n of events from the other node: it is known, or   *)
(* the events introduce it (handle_unknown_node).                          *)
Trusted(n, events) ==
  \/ Cached(n, Peer(n))
  \/ \E i \in DOMAIN events : events[i].rid = Peer(n) /\ events[i].ev = "NEW"

Received(n, events) ==
  kq[n] \o [i \in DOMAIN events |->
              Item(events[i].rid, events[i].ev, events[i].man, Peer(n))]

Takes(n, events) == Listens(n) /\ Trusted(n, events)

(* Whether the events for the other node are broadcast, not polled; and    *)
(* whether its address is known.                                           *)
Broadcasts(n) == n = M \/ full
Sends(n) == Broadcasts(n) /\ (Cached(n, Peer(n)) \/ n = M)

(* flush_and_broadcast, when the buffer's time is over.  A failed request  *)
(* leaves the events in the buffer, without a start time.                  *)
Flush(n) ==
  LET p == Peer(n) IN
  /\ Broadcasts(n) /\ up[n] # "down" /\ buf[n] # <<>> /\ timed[n]
  /\ timed' = [timed EXCEPT ![n] = FALSE]
  /\ \/ /\ Sends(n) /\ Takes(p, buf[n])
        /\ kq' = [kq EXCEPT ![p] = Received(p, buf[n])]
        /\ \/ buf' = [buf EXCEPT ![n] = <<>>] /\ UNCHANGED faults
           \/ UNCHANGED buf /\ Fault
     \/ /\ Sends(n) /\ UNCHANGED <<kq, buf>>
        /\ (~Listens(p) /\ UNCHANGED faults) \/ Fault
     \/ /\ ~Sends(n) \/ (Listens(p) /\ ~Trusted(p, buf[n]))
        /\ UNCHANGED <<kq, buf, faults>>
  /\ UNCHANGED <<full, wipes, up, cache, evq, now, lapsed>>

(* NodePoller: M asks C, its neighbor or at least its first contact.  The  *)
(* buffer is empty afterwards, whether or not the answer arrives, and M    *)
(* refuses an answer from a node it does not know.                         *)
Poll ==
  /\ ~full /\ Listens(M) /\ Listens(C)
  /\ Cached(C, M) /\ buf[C] # <<>>
  /\ buf' = [buf EXCEPT ![C] = <<>>]
  /\ \/ /\ Trusted(M, buf[C])
        /\ kq' = [kq EXCEPT ![M] = Received(M, buf[C])]
        /\ UNCHANGED <<faults, lapsed>>
     \/ ~Trusted(M, buf[C]) /\ lapsed' = Note(TRUE, "lost") /\ UNCHANGED <<kq, faults>>
     \/ Fault /\ lapsed' = Note(TRUE, "lost") /\ UNCHANGED kq
  /\ UNCHANGED <<full, wipes, up, cache, evq, timed, now>>

-----------------------------------------------------------------------------
(* Start-up, shutdown, crash                                               *)

Busy(n) == kq[n] # <<>> \/ evq[n] # <<>> \/ buf[n] # <<>>

Boot(n) ==
  /\ up[n] = "down" /\ Phase(n, "boot")
  /\ UNCHANGED <<full, wipes, cache, kq, evq, buf, timed, now, lapsed, faults>>

Crash(n) ==
  /\ up[n] # "down" /\ Phase(n, "down") /\ Fault
  /\ kq' = [kq EXCEPT ![n] = <<>>] /\ evq' = [evq EXCEPT ![n] = <<>>]
  /\ buf' = [buf EXCEPT ![n] = <<>>] /\ timed' = [timed EXCEPT ![n] = FALSE]
  /\ lapsed' = Note(Busy(n), "lost")
  /\ UNCHANGED <<full, wipes, cache, now>>

Stop(n) ==
  /\ up[n] = "run" /\ Phase(n, "stopping") /\ Fault
  /\ UNCHANGED <<full, wipes, cache, kq, evq, buf, timed, now, lapsed>>

(* The end of the shutdown: both queues are worked off. Of a buffer that   *)
(* is to be broadcast one event is sent, force_flush being taken as the    *)
(* limit of safe_flush; what else is buffered is lost with the process.    *)
Halt(n) ==
  LET p == Peer(n)
      sent == SubSeq(buf[n], 1, 1)
  IN
  /\ up[n] = "stopping" /\ kq[n] = <<>> /\ evq[n] = <<>> /\ Phase(n, "down")
  /\ buf' = [buf EXCEPT ![n] = <<>>] /\ timed' = [timed EXCEPT ![n] = FALSE]
  /\ \/ /\ buf[n] # <<>> /\ Sends(n) /\ Takes(p, sent)
        /\ kq' = [kq EXCEPT ![p] = Received(p, sent)]
        /\ lapsed' = Note(Len(buf[n]) > 1, "lost") /\ UNCHANGED faults
     \/ /\ lapsed' = Note(buf[n] # <<>>, "lost") /\ UNCHANGED kq
        /\ IF buf[n] # <<>> /\ Sends(n) /\ Takes(p, sent) THEN Fault ELSE UNCHANGED faults
  /\ UNCHANGED <<full, wipes, cache, evq, now>>

(* The cache directory of M is deleted between two runs.  What C still has *)
(* under way then is about edges that M no longer holds.                   *)
Wipe ==
  /\ up[M] = "down" /\ wipes < MaxWipes /\ wipes' = wipes + 1
  /\ cache' = [cache EXCEPT ![M] = [r \in RID |-> IF r = M THEN Profile ELSE None]]
  /\ lapsed' = Note(Busy(C), "stale")
  /\ UNCHANGED <<full, faults, up, kq, evq, buf, timed, now>>

\* fault: the profile is sent without forgetting the old one
OnlyNew == <<Event(M, "NEW", Profile)>>

(* Handshaker.handshake_with.                                              *)
Introduction == <<Event(M, "FORGET", None), Event(M, "NEW", Profile)>>

(* The handshake is made unless the first contact is known or there is an  *)
(* edge to subscribe through.                                              *)
MustGreet(n) == n = M /\ ~Cached(M, C) /\ ~Cached(M, <<C, M>>)

(* Handshaker.start.  A RequestError is not caught: the node stops.        *)
Handshake(n) ==
  /\ up[n] = "boot"
  /\ \/ ~MustGreet(n) /\ Phase(n, "greeted") /\ UNCHANGED <<kq, faults>>
     \/ /\ MustGreet(n) /\ Listens(C)
        /\ kq' = [kq EXCEPT ![C] = Received(C, Introduction)]
        /\ \/ Phase(n, "greeted") /\ UNCHANGED faults
           \/ Phase(n, "stopping") /\ Fault
     \/ /\ MustGreet(n) /\ Phase(n, "stopping") /\ UNCHANGED kq
        /\ (~Listens(C) /\ UNCHANGED faults) \/ Fault
  /\ UNCHANGED <<full, wipes, cache, evq, buf, timed, now, lapsed>>

(* SyncManager: the sources of edges to this node are looked up, and one   *)
(* that is not cached makes the start fail.                                *)
CannotSync(n) == Cached(n, <<Peer(n), n>>) /\ ~Cached(n, Peer(n))

(* C catches up with the edges M holds: with their manifests, as knowledge *)
(* without an event.                                                       *)
CatchesUp(n) == n = C /\ Cached(C, <<M, C>>) /\ Answers

CaughtUp(n) ==
  IF CatchesUp(n)
  THEN {[i \in DOMAIN q |-> Item(q[i], None, cache[M][q[i]], M)] :
          q \in Orders({e \in Edge : Cached(M, e)})}
  ELSE {<<>>}

(* NodeContactHandler.start and SyncManager.start.                         *)
FinishStart(n) ==
  LET contact == IF Cached(n, Peer(n)) THEN Contact(n, Peer(n), cache[n]) ELSE <<>>
      learned(q) == kq' = [kq EXCEPT ![n] = @ \o contact \o q]
  IN
  /\ up[n] = "greeted"
  /\ now' = now + Len(contact)
  /\ \/ CannotSync(n) /\ Phase(n, "stopping") /\ learned(<<>>) /\ UNCHANGED faults
     \/ /\ ~CannotSync(n) /\ Phase(n, "run")
        /\ \/ \E q \in CaughtUp(n) : learned(q) /\ UNCHANGED faults
           \/ CatchesUp(n) /\ learned(<<>>) /\ Fault
  /\ UNCHANGED <<full, wipes, cache, evq, buf, timed, lapsed>>

-----------------------------------------------------------------------------
Work(n) == Process(n) \/ Route(n) \/ Flush(n) \/ Handshake(n) \/ FinishStart(n)

Next ==
  \/ \E n \in Node : Work(n) \/ Boot(n) \/ Stop(n) \/ Halt(n) \/ Crash(n)
  \/ Poll \/ Wipe

Spec == Init /\ [][Next]_vars

FairSpec == Spec /\ WF_vars(Poll)
                 /\ \A n \in Node : /\ WF_vars(Process(n)) /\ WF_vars(Route(n))
                                    /\ WF_vars(Flush(n))
                                    /\ WF_vars(Handshake(n) \/ FinishStart(n))

-----------------------------------------------------------------------------
(* Properties                                                              *)

Man == Bundle \union {None}

(* Well-formed state; a node's own profile stays in its cache, and what is *)
(* to be processed carries its manifest unless it is to be forgotten.      *)
TypeOK ==
  /\ full \in BOOLEAN /\ lapsed \subseteq {"lost", "skipped", "stale"}
  /\ up \in [Node -> {"down", "boot", "greeted", "run", "stopping"}]
  /\ cache \in [Node -> [RID -> Man]]
  /\ \A n \in Node : /\ cache[n][n] = Profile
                     /\ \A i \in DOMAIN kq[n] : kq[n][i].ev # "FORGET" => kq[n][i].man # None

Joined ==
  \A n \in Node : /\ Cached(n, Peer(n))
                 /\ \A e \in Edge : Cached(n, e) /\ cache[n][e].st = "APPROVED"

Running == \A n \in Node : up[n] = "run"
Quiet == \A n \in Node : kq[n] = <<>> /\ evq[n] = <<>> /\ buf[n] = <<>>

(* When both nodes run, have nothing to do, and nothing lapsed on the way, *)
(* they know each other and hold the same two edges, both approved:        *)
(* whatever the order of starts, retried handshakes, wipes and duplicates. *)
QuietAgreement == (Running /\ Quiet /\ lapsed = {}) => Joined

(* A node with nothing to do can start again: no edge is left at a node    *)
(* that does not know the other end, which SyncManager would fail on.      *)
StartsAgain == \A n \in Node : (Quiet /\ "lost" \notin lapsed) => ~CannotSync(n)

(* Events of a failed broadcast wait for the next one.                     *)
Stuck == \E n \in Node : Broadcasts(n) /\ buf[n] # <<>> /\ ~timed[n]

(* Two running nodes join, unless one stops or something lapses.           *)
Joins == Running ~> (Joined \/ lapsed # {} \/ Stuck \/ ~Running)

=============================================================================
