------------------------------ MODULE Assembly ------------------------------
(***************************************************************************)
(* Assembling a node: BuildArtifact sorts the components three times (the  *)
(* order of construction, of start and of stop) and the Assembler          *)
(* constructs them.  Components name what they depend on in the signature  *)
(* of their constructor and in the @depends_on decorators of their start   *)
(* and stop methods; the decorators' sets belong to the functions, so all  *)
(* the assemblies that one process builds share them.                      *)
(***************************************************************************)
EXTENDS Integers, Sequences, FiniteSets, Functions

CONSTANTS
  Comp,             \* the names of components that classes define or refer to
  DefinitionOrder,  \* the order in which comp_dict lists them
  Assemblies,       \* the sets of components that assemblies define
  Designs,          \* what is known of the components: see Design
  None,             \* Python's None
  MaxBuilds         \* bound: assemblies built by one process

(* objects: components passed as they are; starters, stoppers: those with  *)
(* a start or stop method; params: the parameters of the constructor;      *)
(* startDeps, stopDeps: the decorators (None: the method has none, which   *)
(* for start means the same as an empty set).                              *)
Design == [objects : SUBSET Comp, starters : SUBSET Comp, stoppers : SUBSET Comp,
           params : [Comp -> SUBSET Comp], startDeps : [Comp -> SUBSET Comp],
           stopDeps : [Comp -> {None} \union SUBSET Comp]]

ASSUME CompAssumption ==
  /\ IsFiniteSet(Comp)
  /\ DefinitionOrder \in Seq(Comp) /\ DefinitionOrder # <<>>
  /\ Range(DefinitionOrder) = Comp /\ IsInjective(DefinitionOrder)

ASSUME DesignAssumption ==
  /\ Assemblies \subseteq SUBSET Comp
  /\ Designs \subseteq Design
  /\ MaxBuilds \in Nat

Sorts == {"init", "start", "stop"}

VARIABLES
  design,    \* the component classes
  declared,  \* the sets the decorators left on the start and stop methods
  asm,       \* comp_dict: the components of this assembly
  graphs,    \* init_graph, start_graph, stop_graph
  orders,    \* init_order, start_order, stop_order; None before the sort
  sort,      \* which of them is made
  pc,        \* how far the build has come
  deg,       \* topo_sort: out_degree
  idx,       \* topo_sort, _build_components: position of the loop
  queue,     \* topo_sort: queue
  todo,      \* topo_sort: what is left of r_adj[n]
  ordering,  \* topo_sort: ordering
  made,      \* the components constructed
  builds     \* builds so far

kahn == <<deg, idx, queue, todo, ordering>>
vars == <<design, declared, asm, graphs, orders, sort, pc, kahn, made, builds>>

graph == graphs[sort]

NoGraph == [c \in {} |-> {}]

Init ==
  /\ design \in Designs
  /\ declared = [start |-> design.startDeps, stop |-> design.stopDeps]
  /\ asm = {}
  /\ graphs = [s \in Sorts |-> NoGraph] /\ orders = [s \in Sorts |-> None]
  /\ sort = "init" /\ pc = "idle"
  /\ deg = NoGraph /\ idx = 1 /\ queue = <<>> /\ todo = {} /\ ordering = <<>>
  /\ made = {} /\ builds = 0

-----------------------------------------------------------------------------
(* The dependency graphs: component -> the components it depends on        *)

Singletons == asm \ design.objects

(* collect_components; the sorts and the construction of Assembler.__new__ *)
(* follow.  A process may assemble several nodes.                          *)
Collect ==
  /\ pc \in {"idle", "assembled", "cycle", "missing"}
  /\ builds < MaxBuilds /\ builds' = builds + 1
  /\ asm' \in Assemblies
  /\ graphs' = [s \in Sorts |-> NoGraph] /\ orders' = [s \in Sorts |-> None]
  /\ sort' = "init" /\ pc' = "graph" /\ made' = {}
  /\ UNCHANGED <<design, declared, kahn>>

(* reverse_adj_list, read at one node: the nodes that depend on n.         *)
Dependents(g, n) == {m \in DOMAIN g : n \in g[m]}

InitGraph == [c \in asm |-> IF c \in design.objects THEN {} ELSE design.params[c] \intersect asm]

\* fault: dependencies without a start method are kept
StartDepsUnfiltered(c) == declared.start[c]

(* Dependencies without a start method are ignored.                        *)
StartDeps(c) == declared.start[c] \intersect (design.starters \intersect asm)

StartGraph == [c \in Singletons \intersect design.starters |-> StartDeps(c)]

\* fault: a component stops after what depends on its start
DefaultStopDepsForward(c) ==
  IF c \in DOMAIN graphs["start"] THEN graphs["start"][c] ELSE {}

(* Without a decorator, a component stops after those that depend on its   *)
(* start have stopped.                                                     *)
DefaultStopDeps(c) == Dependents(graphs["start"], c)

StopDeps(c) ==
  (IF declared.stop[c] = None THEN DefaultStopDeps(c) ELSE declared.stop[c])
     \intersect (design.stoppers \intersect asm)

StopGraph == [c \in Singletons \intersect design.stoppers |-> StopDeps(c)]

GraphToSort ==
  CASE sort = "init" -> InitGraph [] sort = "start" -> StartGraph [] sort = "stop" -> StopGraph

(* `-=` works in place: the ignored names are gone from the decorator.     *)
Pruned ==
  [start |-> [c \in Comp |-> IF sort = "start" /\ c \in DOMAIN StartGraph
                             THEN StartGraph[c] ELSE declared.start[c]],
   stop  |-> [c \in Comp |-> IF /\ sort = "stop" /\ c \in DOMAIN StopGraph
                                /\ declared.stop[c] # None
                             THEN StopGraph[c] ELSE declared.stop[c]]]

\* fault: incoming edges are counted
InDegree(g) == [c \in DOMAIN g |-> Cardinality(Dependents(g, c))]

\* fault: notes whether there are dependencies, not how many
HasDependencies(g) == [c \in DOMAIN g |-> IF g[c] = {} THEN 0 ELSE 1]

OutDegree(g) == [c \in DOMAIN g |-> Cardinality(g[c])]

BuildGraph ==
  /\ pc = "graph" /\ pc' = "fill"
  /\ graphs' = [graphs EXCEPT ![sort] = GraphToSort]
  /\ declared' = Pruned
  /\ deg' = OutDegree(GraphToSort)
  /\ idx' = 1 /\ queue' = <<>> /\ todo' = {} /\ ordering' = <<>>
  /\ UNCHANGED <<design, asm, orders, sort, made, builds>>

-----------------------------------------------------------------------------
(* topo_sort: Kahn's algorithm                                             *)

Fill ==
  LET c == DefinitionOrder[idx]
  IN  /\ pc = "fill"
      /\ queue' = IF c \in DOMAIN graph /\ deg[c] = 0 THEN Append(queue, c) ELSE queue
      /\ idx' = idx + 1
      /\ pc' = IF idx = Len(DefinitionOrder) THEN "sort" ELSE "fill"
      /\ UNCHANGED <<design, declared, asm, graphs, orders, sort, deg, todo, ordering,
                     made, builds>>

\* fault: the neighbours on the wrong side of the edge
Dependencies(g, n) == g[n] \intersect DOMAIN g

Freed(g, n) == Dependents(g, n)

Visit ==
  /\ pc = "sort" /\ todo = {} /\ queue # <<>>
  /\ queue' = Tail(queue)
  /\ ordering' = Append(ordering, Head(queue))
  /\ todo' = Freed(graph, Head(queue))
  /\ UNCHANGED <<design, declared, asm, graphs, orders, sort, pc, deg, idx, made, builds>>

IsFree(d) == d = 0

(* r_adj[n] is a set of strings: the order of the loop is not fixed.       *)
Release ==
  \E m \in todo :
    /\ pc = "sort"
    /\ todo' = todo \ {m}
    /\ deg' = [deg EXCEPT ![m] = @ - 1]
    /\ queue' = IF IsFree(deg[m] - 1) THEN Append(queue, m) ELSE queue
    /\ UNCHANGED <<design, declared, asm, graphs, orders, sort, pc, idx, ordering, made, builds>>

SortEnds ==
  /\ pc = "sort" /\ todo = {} /\ queue = <<>>
  /\ IF Len(ordering) # Cardinality(DOMAIN graph)
     THEN pc' = "cycle" /\ UNCHANGED <<orders, sort, idx>>
     ELSE /\ orders' = [orders EXCEPT ![sort] = ordering]
          /\ sort' = CASE sort = "init" -> "start" [] sort = "start" -> "stop"
                       [] sort = "stop" -> "stop"
          /\ pc' = IF sort = "stop" THEN "construct" ELSE "graph"
          /\ idx' = 1
  /\ UNCHANGED <<design, declared, asm, graphs, deg, queue, todo, ordering, made, builds>>

-----------------------------------------------------------------------------
(* Assembler._build_components                                             *)

Construct ==
  LET o == orders["init"]
  IN  /\ pc = "construct"
      /\ IF idx > Len(o) THEN pc' = "assembled" /\ UNCHANGED <<idx, made>>
         ELSE IF ~(graphs["init"][o[idx]] \subseteq made)
         THEN pc' = "missing" /\ UNCHANGED <<idx, made>>
         ELSE made' = made \union {o[idx]} /\ idx' = idx + 1 /\ pc' = pc
      /\ UNCHANGED <<design, declared, asm, graphs, orders, sort, deg, queue, todo, ordering,
                     builds>>

Next == Collect \/ BuildGraph \/ Fill \/ Visit \/ Release \/ SortEnds \/ Construct

Spec == Init /\ [][Next]_vars

-----------------------------------------------------------------------------
(* Properties                                                              *)

(* Every variable has its type; in particular no graph leads out of the    *)
(* assembly, whatever names the decorators and the constructors mention.   *)
TypeOK ==
  /\ design \in Design
  /\ declared \in [start : [Comp -> SUBSET Comp], stop : [Comp -> {None} \union SUBSET Comp]]
  /\ asm \in SUBSET Comp
  /\ DOMAIN graphs = Sorts
  /\ \A s \in Sorts : /\ graphs[s] \in [DOMAIN graphs[s] -> SUBSET asm]
                       /\ DOMAIN graphs[s] \subseteq asm
  /\ orders \in [Sorts -> {None} \union Seq(Comp)]
  /\ sort \in Sorts
  /\ pc \in {"idle", "graph", "fill", "sort", "construct", "assembled", "cycle", "missing"}
  /\ DOMAIN deg \subseteq Comp /\ \A c \in DOMAIN deg : deg[c] \in Int
  /\ idx \in Nat \ {0}
  /\ pc = "fill" => idx <= Len(DefinitionOrder)
  /\ queue \in Seq(Comp) /\ todo \subseteq Comp /\ ordering \in Seq(Comp)
  /\ made \subseteq Comp /\ builds \in Nat

(* o lists the nodes of g, each once and each after all it depends on.     *)
Linearises(o, g) ==
  /\ Range(o) = DOMAIN g /\ IsInjective(o)
  /\ \A j \in DOMAIN o : \A d \in g[o[j]] : \E i \in 1 .. (j - 1) : o[i] = d

(* Whatever order the sets are iterated in, a sort that ends without an    *)
(* error yields a linear order of its graph (the three orders are read by  *)
(* the assembler and by the lifecycle without another look at the graphs). *)
OrdersLinearise ==
  \A s \in Sorts : orders[s] # None => Linearises(orders[s], graphs[s])

(* "Found cycle in dependency graph" is raised only for a graph that has   *)
(* no linear order: some components wait for each other, or for one that   *)
(* is not a node of the graph.                                             *)
FailsOnlyIfUnsortable ==
  pc = "cycle" =>
    \E S \in SUBSET DOMAIN graph :
      S # {} /\ \A c \in S : \E d \in graph[c] : d \in S \/ d \notin DOMAIN graph

(* "Couldn't find required component" is never raised: what a constructor  *)
(* needs has been constructed before.                                      *)
NothingMissing == pc # "missing"

Before(o, a, b) == \E i, j \in DOMAIN o : i < j /\ o[i] = a /\ o[j] = b

(* Across the two graphs: a component that needs another one to start is   *)
(* stopped before it, unless the other one's stop method says otherwise.   *)
StopMirrorsStart ==
  orders["stop"] # None =>
    \A a, b \in DOMAIN graphs["stop"] :
      (/\ a \in DOMAIN graphs["start"] /\ b \in graphs["start"][a]
       /\ design.stopDeps[b] = None)
        => Before(orders["stop"], a, b)

(* A component "declares the dependencies of a start or stop method in a   *)
(* component class" (component.py): every assembly that has the components *)
(* starts and stops them in the order the classes declare.                 *)
DeclaredOrderKept ==
  \A a, b \in Singletons :
    /\ (/\ orders["start"] # None /\ {a, b} \subseteq design.starters
        /\ b \in design.startDeps[a])
         => Before(orders["start"], b, a)
    /\ (/\ orders["stop"] # None /\ {a, b} \subseteq design.stoppers
        /\ design.stopDeps[a] # None /\ b \in design.stopDeps[a])
         => Before(orders["stop"], b, a)

====
