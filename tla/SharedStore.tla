---------------------------- MODULE SharedStore ----------------------------
(***************************************************************************)
(* The cache directory and the network graph of one node as its threads    *)
(* see them.  The knowledge worker writes files in two steps (open cuts    *)
(* the file off, write fills it) and rebuilds the graph piece by piece;    *)
(* meanwhile other threads list, read and walk both without a lock: the    *)
(* poller, the catch-up at start, the server's fetch handlers and callers  *)
(* of Effector.deref.  A crash leaves files cut off and loses the rest.    *)
(*                                                                         *)
(* What the worker decides about an object is KnowledgePipeline's subject; *)
(* here it is told by the versions of a bundle, a larger one being newer.  *)
(***************************************************************************)
EXTENDS Naturals, Sequences, FiniteSets

CONSTANTS
  Self,          \* this node's RID
  Peers,         \* RIDs of other nodes
  Links,         \* RIDs of edges, pairs <<source, target>> of nodes
  Objs,          \* RIDs of other knowledge
  Full,          \* the peers whose profile says FULL
  Providers,     \* the full peers that provide the objects' type
  FirstContact,  \* config.koi_net.first_contact.rid
  Versions,      \* the versions of a bundle, as numbers
  None,          \* no file; no bundle
  Torn,          \* a file that does not hold a whole bundle
  Start,         \* sets of RIDs that may be cached when the model begins
  Items,         \* <<rid, version>> the worker may be given; None: a FORGET
  Kinds,         \* calls that other threads may make
  MaxInputs,     \* bound: items given to the worker and calls of deref
  MaxCrashes     \* bound: crashes

Nodes == {Self} \union Peers
RID   == Nodes \union Links \union Objs

ASSUME StoreAssumption ==
  /\ Self \notin Peers /\ Links \subseteq {e \in Nodes \X Nodes : e[1] # e[2]}
  /\ Nodes \intersect Links = {} /\ Objs \intersect (Nodes \union Links) = {}
  /\ Providers \subseteq Full /\ Full \subseteq Peers
  /\ FirstContact \in Peers \union {None}
  /\ Versions \subseteq Nat \ {0} /\ 1 \in Versions
  /\ {None, Torn} \intersect Versions = {} /\ None # Torn /\ None \notin Peers
  /\ Items \subseteq (RID \ {Self}) \X (Versions \union {None})
  /\ Kinds \subseteq {"poll", "catchup", "deref", "serve"}
  /\ MaxInputs \in Nat /\ MaxCrashes \in Nat

ASSUME StartAssumption == Start \subseteq SUBSET (RID \ {Self})

VARIABLES
  files,     \* the cache directory: RID -> version, Torn or None
  dg,        \* graph.dg
  queue,     \* kobj_queue.q
  pc, item,  \* the worker: how far it is with which item
  todo,      \* the files generate has listed and not yet added
  profiled,  \* ProfileMonitor has seen the queue empty: start-up goes on
  call,      \* what the other thread is doing
  seen,      \* history: what the files held since that call began
  inputs, crashes

vars == <<files, dg, queue, pc, item, todo, profiled, call, seen, inputs, crashes>>

worker == <<dg, queue, pc, item, todo, profiled>>

-----------------------------------------------------------------------------
Readable(r) == files[r] \in Versions

(* What generate makes of file r: a node for its name, an edge for its     *)
(* contents; networkx adds the ends of an edge as nodes.                   *)
Added(g, r) ==
  IF r \in Nodes THEN [g EXCEPT !.nodes = @ \union {r}]
  ELSE IF ~Readable(r) THEN g
  ELSE [nodes |-> g.nodes \union {r[1], r[2]}, edges |-> g.edges \union {r}]

\* fault: generate does not look at the type of a RID
ListedAll == {r \in RID : files[r] # None}

Listed == {r \in Nodes \union Links : files[r] # None}

GraphOf ==
  LET es == {e \in Links : Readable(e)}
  IN  [nodes |-> {n \in Nodes : files[n] # None} \union {e[1] : e \in es}
                   \union {e[2] : e \in es},
       edges |-> es]

NoGraph == [nodes |-> {}, edges |-> {}]

NoCall == [kind |-> None, pc |-> "none", todo |-> {}, got |-> {}, at |-> None]

(* The worker has failed; the last item stays in the model's hands.        *)
Down == {"failed", "dead", "stopped"}

FailedOn(r) == pc \in Down /\ item[1] = r

(* generate is not at work, and no failure has kept it from its end.       *)
Settled == pc \in {"idle", "rest"} \/ (pc \in Down /\ item[1] \in Objs)

(* seen.files: every state of every file during the call; seen.gone: the   *)
(* RIDs deleted; seen.calm: neither files nor graph were changing or left  *)
(* half done.                                                              *)
Now(fs) == {<<r, fs[r]>> : r \in RID}

Fresh == [files |-> Now(files), gone |-> {}, calm |-> Settled]

Unseen == [files |-> {}, gone |-> {}, calm |-> TRUE]

(* Every step that changes a file or the graph is noted while a call runs. *)
Noted(fs, gone) ==
  seen' = IF call = NoCall THEN Unseen
          ELSE [files |-> seen.files \union Now(fs),
                gone |-> seen.gone \union gone, calm |-> FALSE]

-----------------------------------------------------------------------------
(* The node has started before, with any of its knowledge cached.          *)
Init ==
  /\ \E S \in Start :
       files = [r \in RID |-> IF r \in S \union {Self} THEN 1 ELSE None]
  /\ dg = GraphOf
  /\ queue = <<<<Self, 1>>>> /\ pc = "idle" /\ item = None /\ todo = {}
  /\ profiled = FALSE /\ call = NoCall /\ seen = Unseen
  /\ inputs = 0 /\ crashes = 0

(* Knowledge from the server, the poller, handlers or the application.     *)
Push ==
  /\ inputs < MaxInputs /\ inputs' = inputs + 1
  /\ \E i \in Items : queue' = Append(queue, i)
  /\ UNCHANGED <<files, dg, pc, item, todo, profiled, call, seen, crashes>>

(* The process ends at any moment and is started again: graph.start runs   *)
(* before the threads, ProfileMonitor queues the profile.                  *)
Crash ==
  /\ crashes < MaxCrashes /\ crashes' = crashes + 1
  /\ dg' = GraphOf
  /\ queue' = <<<<Self, 1>>>> /\ pc' = "idle" /\ item' = None /\ todo' = {}
  /\ profiled' = FALSE /\ call' = NoCall /\ seen' = Unseen
  /\ UNCHANGED <<files, inputs>>

-----------------------------------------------------------------------------
(* The knowledge worker                                                    *)

(* A FORGET of what cannot be read, and knowledge that is not newer than   *)
(* what can be read, go no further.                                        *)
Accepted(i) ==
  IF i[2] = None THEN Readable(i[1]) ELSE Readable(i[1]) => i[2] > files[i[1]]

(* Cache.delete *)
Deleted(r) == [files EXCEPT ![r] = None]

AfterFile(r) == IF r \in Objs THEN "rest" ELSE "clear"

(* The chains up to the cache action, and the first half of a write: open  *)
(* with mode "w" truncates the file.  Deleting is one step.                *)
Open ==
  /\ pc = "idle" /\ queue # <<>>
  /\ item' = Head(queue) /\ queue' = Tail(queue)
  /\ LET r == item'[1]
     IN  \/ /\ ~Accepted(item')
            /\ pc' = "rest" /\ UNCHANGED <<files, seen>>
         \/ /\ Accepted(item') /\ item'[2] # None
            /\ files' = [files EXCEPT ![r] = Torn]
            /\ pc' = "write" /\ Noted(files', {})
         \/ /\ Accepted(item') /\ item'[2] = None
            /\ files' = Deleted(r)
            /\ pc' = AfterFile(r) /\ Noted(files', {r})
  /\ UNCHANGED <<dg, todo, profiled, call, inputs, crashes>>

Write ==
  /\ pc = "write"
  /\ files' = [files EXCEPT ![item[1]] = item[2]]
  /\ pc' = AfterFile(item[1]) /\ Noted(files', {})
  /\ UNCHANGED <<dg, queue, item, todo, profiled, call, inputs, crashes>>

\* fault: the graph is not cleared before it is generated
NotCleared == dg

Cleared == NoGraph

(* generate: dg.clear() and list_rids(); no other thread changes files.    *)
Clear ==
  /\ pc = "clear"
  /\ dg' = Cleared /\ todo' = Listed /\ pc' = "add" /\ Noted(files, {})
  /\ UNCHANGED <<files, queue, item, profiled, call, inputs, crashes>>

(* One file at a time, in the order the directory lists them: any.         *)
Add ==
  /\ pc = "add"
  /\ \/ \E r \in todo :
          dg' = Added(dg, r) /\ todo' = todo \ {r} /\ Noted(files, {}) /\ UNCHANGED pc
     \/ todo = {} /\ pc' = "rest" /\ UNCHANGED <<dg, todo, seen>>
  /\ UNCHANGED <<files, queue, item, profiled, call, inputs, crashes>>

(* The network and final chains, and task_done.                            *)
TaskDone ==
  /\ pc = "rest" /\ pc' = "idle" /\ item' = None
  /\ UNCHANGED <<files, dg, queue, todo, profiled, call, seen, inputs, crashes>>

(* Something raises: a handler or the file's open or remove before anything *)
(* is changed, the write, generate, or a handler after it.  The finally    *)
(* clause marks the item as done; the thread has not told anybody yet.     *)
WorkerFails ==
  /\ crashes < MaxCrashes /\ pc' = "failed"
  /\ \/ pc = "idle" /\ queue # <<>> /\ item' = Head(queue) /\ queue' = Tail(queue)
     \/ pc \in {"write", "clear", "add", "rest"} /\ UNCHANGED <<item, queue>>
  /\ UNCHANGED <<files, dg, todo, profiled, call, seen, inputs, crashes>>

(* ThreadedComponent._run has caught it: shutdown_signal.set().            *)
RaiseSignal ==
  /\ pc = "failed" /\ pc' = "dead"
  /\ UNCHANGED <<files, dg, queue, item, todo, profiled, call, seen, inputs, crashes>>

(* The lifecycle's thread has stopped every component, left the worker's   *)
(* sentinel in the queue and cleared the signal.                           *)
ShutdownEnds ==
  /\ pc = "dead" /\ pc' = "stopped"
  /\ UNCHANGED <<files, dg, queue, item, todo, profiled, call, seen, inputs, crashes>>

\* fault: items taken from the queue count as finished
NothingQueued == queue = <<>>

(* unfinished_tasks = 0: nothing queued and nothing in the worker's hands. *)
QueueEmpty == queue = <<>> /\ pc \in {"idle", "failed", "dead"}

(* ProfileMonitor.process_profile returns from kobj_queue.wait; it raises  *)
(* when it sees the signal.                                                *)
ProfileDone ==
  /\ ~profiled /\ QueueEmpty /\ pc # "dead" /\ profiled' = TRUE
  /\ UNCHANGED <<files, dg, queue, pc, item, todo, call, seen, inputs, crashes>>

-----------------------------------------------------------------------------
(* The calls of another thread                                             *)

Reader == UNCHANGED <<files, worker, inputs, crashes>>

FirstStep == [poll |-> {"out"}, catchup |-> {"in"}, serve |-> {"list"},
              deref |-> {"cache", "handler"}]

(* The server answers as soon as it runs; the other threads start after    *)
(* the profile was processed.  A shutdown stops the server and the poller, *)
(* not the callers of deref.                                               *)
MayCall(k) == /\ k = "serve" \/ profiled
              /\ pc \in {"dead", "stopped"} => k = "deref"

(* With refresh_cache, deref begins at its handlers.  It may queue a       *)
(* bundle, and so counts as an input.                                      *)
Call ==
  /\ call = NoCall
  /\ \E k \in Kinds : \E s \in FirstStep[k] :
       /\ MayCall(k) /\ call' = [NoCall EXCEPT !.kind = k, !.pc = s]
       /\ inputs' = IF k = "deref" THEN inputs + 1 ELSE inputs
  /\ inputs' <= MaxInputs
  /\ seen' = Fresh
  /\ UNCHANGED <<files, worker, crashes>>

At(s) == call.pc = s /\ Reader

Raises == call' = [call EXCEPT !.pc = "raised", !.todo = {}, !.got = {}, !.at = None]
Ends(s, result) == call' = [call EXCEPT !.pc = s, !.todo = {}, !.got = result, !.at = None]

(* for x in ...: each element adds what Result finds, or makes the call    *)
(* fail; what was found is what the next step goes through.                *)
Each(s, next, Result(_), Fails(_)) ==
  /\ At(s) /\ UNCHANGED seen
  /\ \/ \E x \in call.todo :
          LET found == call.got \union Result(x)
          IN  IF Fails(x) THEN Raises
              ELSE IF call.todo = {x}
              THEN call' = [call EXCEPT !.pc = next, !.todo = found, !.got = {}]
              ELSE call' = [call EXCEPT !.todo = @ \ {x}, !.got = found]
     \/ call.todo = {} /\ call' = [call EXCEPT !.pc = next]

Never(x) == FALSE

(* get_edges: networkx raises for the edges of a node that is not in the   *)
(* graph; a graph without edges is not asked.                              *)
EdgesOf(end, next) ==
  IF dg.edges # {} /\ Self \notin dg.nodes THEN Raises
  ELSE call' = [call EXCEPT !.pc = next,
                            !.todo = @ \union {e \in dg.edges : e[end] = Self}]

OutEdges == At("out") /\ EdgesOf(1, "in")   /\ UNCHANGED seen
InEdges  == At("in")  /\ EdgesOf(2, "data") /\ UNCHANGED seen

(* get_edge_data answers None for an edge that is gone.                    *)
EdgeData == Each("data", "links", LAMBDA e : {e} \intersect dg.edges, Never)

\* fault: the edge's file is not needed to name the neighbor
NeighborInGraph(e) == {IF e[2] = Self THEN e[1] ELSE e[2]}

(* get_neighbors reads the profile of each edge.                           *)
NeighborBy(e) ==
  IF Readable(e) THEN {IF e[2] = Self THEN e[1] ELSE e[2]} ELSE {}

ReadEdges == Each("links", "profiles", NeighborBy, Never)

\* fault: the nodes are taken from the graph
KnownByGraph == dg.nodes \ {Self}

(* list_rids: the other nodes that have a file.                            *)
KnownNodes == {n \in Peers : files[n] # None}

ListNodes ==
  /\ At("nodes") /\ UNCHANGED seen
  /\ call' = [call EXCEPT !.pc = "profiles", !.todo = KnownNodes]

Wanted == IF call.kind = "deref" THEN Providers ELSE Full

(* The node profiles: poll_neighbors skips one that cannot be read,        *)
(* get_state_providers uses it without a look.                             *)
ReadProfiles ==
  /\ call.kind # "catchup"
  /\ Each("profiles", "fetch",
          LAMBDA n : IF Readable(n) /\ n \in Wanted THEN {n} ELSE {},
          LAMBDA n : call.kind # "poll" /\ ~Readable(n))

(* catch_up_with reads a profile when it comes to that node, without a     *)
(* look, and asks full nodes before it reads the next.                     *)
NextProfile ==
  /\ At("profiles") /\ UNCHANGED seen
  /\ call.kind = "catchup"
  /\ \/ \E n \in call.todo :
          IF ~Readable(n) THEN Raises
          ELSE IF n \in Wanted
          THEN call' = [call EXCEPT !.pc = "ask", !.todo = @ \ {n}, !.got = @ \union {n},
                                    !.at = n]
          ELSE call' = [call EXCEPT !.todo = @ \ {n}]
     \/ call.todo = {} /\ Ends("missed", call.got)

(* poll_neighbors falls back on the first contact.  What the polls return  *)
(* enters the queue by Push.                                               *)
ChoosePolled ==
  /\ At("fetch") /\ UNCHANGED seen
  /\ call.kind = "poll"
  /\ Ends("polled", IF call.todo = {} THEN {FirstContact} \ {None} ELSE call.todo)

(* A request: get_base_url reads the profile (again), and raises the       *)
(* NodeNotFoundError its callers pass over, or needs a first contact.      *)
HasUrl(n) == Readable(n) \/ n = FirstContact

Request ==
  /\ At("fetch") /\ UNCHANGED seen
  /\ call.kind = "deref" /\ call.at = None
  /\ \/ \E n \in call.todo :
          call' = [call EXCEPT !.todo = @ \ {n},
                               !.got = @ \union {n},
                               !.at = IF HasUrl(n) THEN n ELSE None]
     \/ call.todo = {} /\ Ends("missed", call.got)

Ask ==
  /\ At("ask") /\ UNCHANGED seen
  /\ call' = IF HasUrl(call.at) THEN [call EXCEPT !.pc = "fetch"]
             ELSE [call EXCEPT !.pc = "profiles", !.at = None]

(* validate_envelope reads the profile again, when the answer is there; an *)
(* UnknownNodeError is no RequestError and is not caught by these callers. *)
Response ==
  /\ At("fetch") /\ UNCHANGED seen
  /\ call.at # None
  /\ \/ call.kind = "deref" /\ call' = [call EXCEPT !.at = None]
     \/ call.kind = "catchup" /\ call' = [call EXCEPT !.pc = "profiles", !.at = None]
     \/ ~Readable(call.at) /\ Raises
     \/ /\ Readable(call.at) /\ call.kind = "deref"
        /\ \E v \in Versions : call' = [call EXCEPT !.pc = "push", !.todo = {v}, !.at = None]

(* The request names a type: at is the RIDs of that type.                  *)
ListFiles ==
  /\ At("list") /\ UNCHANGED seen
  /\ \E T \in {Nodes, Links, Objs} :
       call' = [call EXCEPT !.pc = "read", !.todo = {r \in T : files[r] # None},
                            !.at = T]

\* fault: a listed RID counts as found
FoundIfListed(r) == {<<r, files[r]>>}

(* fetch_manifests_handler: what cannot be read is reported as not found.  *)
Found(r) == {<<r, IF Readable(r) THEN files[r] ELSE None>>}

ReadFiles == Each("read", "answer", Found, Never)

-----------------------------------------------------------------------------
(* Effector.deref of an object, with the network                           *)

TryCache ==
  /\ At("cache") /\ UNCHANGED seen
  /\ \E x \in Objs :
       IF Readable(x) THEN Ends("hit", {}) ELSE call' = [call EXCEPT !.pc = "handler"]

(* A dereference handler finds a bundle, finds none, or raises (an HTTP    *)
(* error is not caught).                                                   *)
TryHandler ==
  /\ At("handler") /\ UNCHANGED seen
  /\ \/ \E v \in Versions : call' = [call EXCEPT !.pc = "push", !.todo = {v}]
     \/ call' = [call EXCEPT !.pc = "nodes"]
     \/ Ends("failed", {})

(* The bundle is queued; history starts again.                             *)
PushResult ==
  /\ call.pc = "push"
  /\ \E x \in Objs, v \in call.todo :
       /\ queue' = Append(queue, <<x, v>>)
       /\ \/ Ends("queued", {<<x, v>>})
          \/ call' = [call EXCEPT !.pc = "wait", !.todo = {<<x, v>>}, !.got = {}]
  /\ seen' = Fresh
  /\ UNCHANGED <<files, dg, pc, item, todo, profiled, inputs, crashes>>

\* fault: wait is a plain join
NeverShutDown == FALSE

ShutDown == pc = "dead"

(* KobjQueue.wait: until nothing is unfinished, or until the shutdown;     *)
(* what was not yet looked at when the shutdown has ended is not seen.     *)
Wait ==
  /\ At("wait") /\ UNCHANGED seen
  /\ \/ ShutDown /\ Ends("failed", {})
     \/ QueueEmpty /\ Ends("written", call.todo)

Over == {"polled", "missed", "raised", "answer", "hit", "failed", "queued", "written"}

Return ==
  /\ call.pc \in Over /\ call' = NoCall /\ seen' = Unseen
  /\ Reader

-----------------------------------------------------------------------------
Worker == Open \/ Write \/ Clear \/ Add \/ TaskDone \/ RaiseSignal \/ ProfileDone

Reading ==
  \/ OutEdges \/ InEdges \/ EdgeData \/ ReadEdges \/ ListNodes \/ ReadProfiles \/ NextProfile
  \/ ChoosePolled \/ Request \/ Ask \/ Response \/ ListFiles \/ ReadFiles
  \/ TryCache \/ TryHandler \/ PushResult \/ Wait \/ Return

Next == Push \/ Crash \/ Worker \/ WorkerFails \/ ShutdownEnds \/ Call \/ Reading

Spec == Init /\ [][Next]_vars

(* The worker's loop and a call go on; requests end by their time limit.   *)
FairSpec == Spec /\ WF_vars(Worker) /\ WF_vars(Reading)

-----------------------------------------------------------------------------
(* Properties                                                              *)

CallStages == {"none", "out", "in", "data", "links", "nodes", "profiles", "ask", "fetch",
               "list", "read", "cache", "handler", "push", "wait"} \union Over

Given == RID \X (Versions \union {None})

(* TypeOK: the shape of the state.                                         *)
TypeOK ==
  /\ files \in [RID -> Versions \union {None, Torn}]
  /\ dg \in [nodes : SUBSET Nodes, edges : SUBSET Links]
  /\ queue \in Seq(Given) /\ (pc # "idle" => item \in Given)
  /\ pc \in {"idle", "write", "clear", "add", "rest"} \union Down
  /\ todo \subseteq Nodes \union Links
  /\ call.pc \in CallStages

(* GraphCatchesUp: whenever generate is not at work the graph shows the    *)
(* files as they are: nodes by name, edges that can be read, after writes, *)
(* deletions and crashes that leave files cut off.  A worker that failed   *)
(* on a node or an edge may have left it undone.  (graph.py generate.)     *)
GraphCatchesUp == Settled => dg = GraphOf

Held(r) == \E v \in Versions : <<r, v>> \in seen.files
Missing(r) == \E v \in {None, Torn} : <<r, v>> \in seen.files

Linked(n) == \E e \in Links : Held(e) /\ Self \in {e[1], e[2]} /\ n \in {e[1], e[2]}

(* PollSees: the poller asks nodes that were full neighbors at some time   *)
(* during its walk; all of them when nothing changed; and it fails only    *)
(* when the graph changed under it or a failure had left it unfinished.    *)
(* (resolver.py poll_neighbors.)                                           *)
PollSees ==
  call.kind = "poll" =>
    /\ call.pc = "polled" =>
         /\ \A n \in call.got \ {FirstContact} : Linked(n) /\ Held(n)
         /\ seen.calm =>
              \A n \in Full : (Linked(n) /\ Held(n)) => n \in call.got
    /\ call.pc = "raised" => ~seen.calm

(* LookupSees: a lookup of providers asks only nodes that were cached      *)
(* during it, asks all of them before it gives up if nothing changed, and  *)
(* raises only if a profile was cut off or changed under it; a catch-up    *)
(* also raises for an edge whose source is not cached.  (resolver.py       *)
(* get_state_providers, fetch_remote_bundle; sync_manager.py               *)
(* catch_up_with.)                                                         *)
LookupSees ==
  call.kind \in {"deref", "catchup"} =>
    /\ call.pc = "missed" =>
         /\ \A n \in call.got : n \in Wanted /\ Held(n)
         /\ (seen.calm /\ call.kind = "deref") =>
              \A n \in Providers : Held(n) => n \in call.got
    /\ call.pc = "raised" =>
         \/ ~seen.calm
         \/ \E n \in Peers : <<n, Torn>> \in seen.files
         \/ call.kind = "catchup" /\ \E n \in Peers : Missing(n) /\ Linked(n)

(* ServeSees: the manifests of an answer were held at some time while it   *)
(* was put together, and what it reports as not found could then not be    *)
(* read; when nothing changed the answer is exactly what is held.          *)
(* (response_handler.py fetch_manifests_handler.)                          *)
ServeSees ==
  (call.kind = "serve" /\ call.pc = "answer") =>
    /\ \A f \in call.todo :
         IF f[2] = None THEN Missing(f[1]) ELSE f[2] \in Versions /\ f \in seen.files
    /\ seen.calm => \A r \in call.at : Readable(r) => <<r, files[r]>> \in call.todo

(* WriteThrough: a dereference that waited for the queue leaves its result *)
(* or something newer in the cache, unless it was forgotten meanwhile,     *)
(* something newer is just being written, or the worker has failed on that *)
(* very RID: its item is done before the signal is raised, and the wait    *)
(* returns as if it were written.  (effector.py deref, kobj_queue.py wait, *)
(* kobj_worker.py run.)                                                    *)
WriteThrough ==
  call.pc = "written" =>
    \A b \in call.got : \/ b[1] \in seen.gone
                        \/ Readable(b[1]) /\ files[b[1]] >= b[2]
                        \/ pc = "write" /\ item[1] = b[1] /\ item[2] > b[2]
                        \/ FailedOn(b[1])

(* CallsReturn: every call comes back, whatever the worker does, dies of   *)
(* or leaves on the disk, except a dereference that waits when a shutdown  *)
(* has ended: there is neither a worker nor a signal any more.             *)
(* (kobj_queue.py wait looks at shutdown_signal; lifecycle.py _shutdown    *)
(* clears it.)                                                             *)
WaitsForNobody == pc = "stopped" /\ call.pc = "wait"

CallsReturn == (call # NoCall) ~> (call = NoCall \/ WaitsForNobody)

=============================================================================
