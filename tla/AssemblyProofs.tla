--------------------------- MODULE AssemblyProofs ---------------------------
(***************************************************************************)
(* Theorems about Assembly: for every set of components, every assembly    *)
(* and every iteration order, the three orders linearise their graphs, a   *)
(* cycle is reported only if there is no such order, and the construction  *)
(* finds what it needs.                                                    *)
(***************************************************************************)
EXTENDS Assembly, FiniteSetTheorems, SequenceTheorems, TLAPS

-----------------------------------------------------------------------------
(* The inductive invariant                                                 *)

Sorting == pc \in {"fill", "sort"}

Placed == Range(ordering)

(* The dependencies of c that its degree still counts: those not placed,   *)
(* and the one placed last as long as c is in what is left of its loop.    *)
Open(c) ==
  (graph[c] \ Placed) \union (IF c \in todo THEN {ordering[Len(ordering)]} ELSE {})

DegreeCounts ==
  Sorting => /\ DOMAIN deg = DOMAIN graph
             /\ \A c \in DOMAIN graph : deg[c] = Cardinality(Open(c))

TodoInv ==
  Sorting => \A c \in todo : /\ c \in DOMAIN graph /\ ordering # <<>>
                             /\ ordering[Len(ordering)] \in graph[c]

(* What waits or is placed is a node, once, with nothing open.             *)
NodesOnce ==
  Sorting => /\ Range(queue) \subseteq DOMAIN graph /\ Placed \subseteq DOMAIN graph
             /\ IsInjective(queue) /\ IsInjective(ordering)
             /\ Range(queue) \intersect Placed = {}
             /\ \A c \in Range(queue) \union Placed : Open(c) = {}

Respects(o, g) ==
  \A j \in DOMAIN o : \A d \in g[o[j]] : \E i \in 1 .. (j - 1) : o[i] = d

OrderingInv == Sorting => Respects(ordering, graph)

(* No node with nothing open is overlooked.                                *)
FreeAreQueued ==
  /\ pc = "fill" =>
       /\ ordering = <<>> /\ todo = {}
       /\ \A c \in Range(queue) : \E k \in 1 .. (idx - 1) : DefinitionOrder[k] = c
       /\ \A k \in 1 .. (idx - 1) :
            (DefinitionOrder[k] \in DOMAIN graph /\ Open(DefinitionOrder[k]) = {})
              => DefinitionOrder[k] \in Range(queue)
  /\ pc = "sort" =>
       \A c \in DOMAIN graph : Open(c) = {} => c \in Range(queue) \union Placed

(* A graph is not changed once it is sorted.                               *)
SortsInTurn ==
  pc \in {"graph", "fill", "sort"} =>
    /\ orders[sort] = None
    /\ sort = "init" => orders["start"] = None
    /\ sort # "stop" => orders["stop"] = None

InitSorted ==
  /\ pc = "construct" \/ (pc \in {"graph", "fill", "sort"} /\ sort # "init")
       => orders["init"] \in Seq(Comp) /\ Linearises(orders["init"], graphs["init"])
  /\ pc = "construct" => \A k \in 1 .. (idx - 1) : k \in DOMAIN orders["init"]
                                                     => orders["init"][k] \in made

KahnInv == DegreeCounts /\ TodoInv /\ NodesOnce /\ OrderingInv /\ FreeAreQueued

ResultInv ==
  /\ SortsInTurn /\ OrdersLinearise /\ InitSorted
  /\ FailsOnlyIfUnsortable /\ NothingMissing

IInv == TypeOK /\ KahnInv /\ ResultInv


-----------------------------------------------------------------------------
(* Sequences without repetition                                            *)

(* Appending an element adds it to the range, and keeps the sequence       *)
(* injective if it was not there.                                          *)
LEMMA AppendFacts ==
  ASSUME NEW S, NEW s \in Seq(S), NEW x \in S
  PROVE  /\ Append(s, x) \in Seq(S)
         /\ Len(Append(s, x)) = Len(s) + 1 /\ Append(s, x)[Len(s) + 1] = x
         /\ \A i \in 1 .. Len(s) : Append(s, x)[i] = s[i]
         /\ Range(Append(s, x)) = Range(s) \union {x}
         /\ (IsInjective(s) /\ x \notin Range(s)) => IsInjective(Append(s, x))
<1>1. /\ Append(s, x) \in Seq(S)
      /\ Len(Append(s, x)) = Len(s) + 1 /\ Append(s, x)[Len(s) + 1] = x
      /\ \A i \in 1 .. Len(s) : Append(s, x)[i] = s[i]
  OBVIOUS
<1>2. DOMAIN s = 1 .. Len(s) /\ DOMAIN Append(s, x) = 1 .. (Len(s) + 1) /\ Len(s) \in Nat
  BY <1>1
<1>3. Range(Append(s, x)) \subseteq Range(s) \union {x}
  BY <1>1, <1>2 DEF Range
<1>4. Range(s) \union {x} \subseteq Range(Append(s, x))
  <2>1. ASSUME NEW i \in DOMAIN s PROVE s[i] \in Range(Append(s, x))
    <3>1. i \in DOMAIN Append(s, x) /\ Append(s, x)[i] = s[i]
      BY <2>1, <1>1, <1>2
    <3>2. QED
      BY <3>1 DEF Range
  <2>2. x \in Range(Append(s, x))
    BY <1>1, <1>2 DEF Range
  <2>3. QED
    BY <2>1, <2>2 DEF Range
<1>5. ASSUME IsInjective(s), x \notin Range(s) PROVE IsInjective(Append(s, x))
  BY <1>1, <1>2, <1>5 DEF IsInjective, Range
<1>6. QED
  BY <1>1, <1>3, <1>4, <1>5

(* Taking the head off an injective sequence takes it out of the range.    *)
LEMMA TailFacts ==
  ASSUME NEW S, NEW s \in Seq(S), s # <<>>, IsInjective(s)
  PROVE  /\ Head(s) \in S /\ Tail(s) \in Seq(S)
         /\ Range(s) = {Head(s)} \union Range(Tail(s))
         /\ Head(s) \notin Range(Tail(s))
         /\ IsInjective(Tail(s))
<1>1. /\ Head(s) \in S /\ Tail(s) \in Seq(S) /\ Head(s) = s[1]
      /\ Len(s) \in Nat \ {0} /\ Len(Tail(s)) = Len(s) - 1
      /\ \A i \in 1 .. Len(Tail(s)) : Tail(s)[i] = s[i + 1]
  BY HeadTailProperties
<1>2. DOMAIN s = 1 .. Len(s) /\ DOMAIN Tail(s) = 1 .. (Len(s) - 1)
  BY <1>1
<1>3. Range(Tail(s)) \subseteq Range(s) /\ Head(s) \in Range(s)
  <2>1. ASSUME NEW i \in DOMAIN Tail(s) PROVE Tail(s)[i] \in Range(s)
    <3>1. i + 1 \in DOMAIN s /\ Tail(s)[i] = s[i + 1]
      BY <1>1, <1>2
    <3>2. QED
      BY <3>1 DEF Range
  <2>2. QED
    BY <2>1, <1>1, <1>2 DEF Range
<1>4. Range(s) \subseteq {Head(s)} \union Range(Tail(s))
  <2>1. ASSUME NEW i \in DOMAIN s, i # 1 PROVE s[i] \in Range(Tail(s))
    <3>1. i - 1 \in DOMAIN Tail(s) /\ Tail(s)[i - 1] = s[i]
      BY <1>1, <1>2, <2>1
    <3>2. QED
      BY <3>1 DEF Range
  <2>2. QED
    BY <2>1, <1>1 DEF Range
<1>5. Head(s) \notin Range(Tail(s))
  BY <1>1, <1>2 DEF Range, IsInjective
<1>6. IsInjective(Tail(s))
  BY <1>1, <1>2 DEF IsInjective
<1>7. QED
  BY <1>1, <1>3, <1>4, <1>5, <1>6

(* An injective sequence is as long as its range is large.                 *)
LEMMA InjectiveLength ==
  ASSUME NEW S, NEW s \in Seq(S), IsInjective(s)
  PROVE  Cardinality(Range(s)) = Len(s)
<1>1. Len(s) \in Nat /\ DOMAIN s = 1 .. Len(s)
  OBVIOUS
<1>2. s \in Bijection(1 .. Len(s), Range(s))
  <2>1. s \in [1 .. Len(s) -> Range(s)]
    BY <1>1, LenProperties DEF Range
  <2>2. \A t \in Range(s) : \E i \in 1 .. Len(s) : s[i] = t
    BY <1>1 DEF Range
  <2>3. QED
    BY <2>1, <2>2 DEF Bijection, Injection, Surjection
<1>3. QED
  BY <1>1, <1>2, FS_CountingElements DEF ExistsBijection

-----------------------------------------------------------------------------
(* Type correctness                                                        *)

(* Each of the three graphs stays within the assembly.                     *)
LEMMA GraphType ==
  ASSUME TypeOK
  PROVE  /\ GraphToSort \in [DOMAIN GraphToSort -> SUBSET asm]
         /\ DOMAIN GraphToSort \subseteq asm
<1>1. /\ InitGraph \in [asm -> SUBSET asm]
      /\ StartGraph \in [Singletons \intersect design.starters -> SUBSET asm]
      /\ StopGraph \in [Singletons \intersect design.stoppers -> SUBSET asm]
  BY DEF InitGraph, StartGraph, StartDeps, StopGraph, StopDeps
<1>2. Singletons \subseteq asm
  BY DEF Singletons
<1>3. sort \in Sorts
  BY DEF TypeOK
<1>4. CASE sort = "init"
  BY <1>1, <1>4 DEF GraphToSort
<1>5. CASE sort = "start"
  <2>1. GraphToSort = StartGraph
    BY <1>5 DEF GraphToSort
  <2>2. QED
    BY <1>1, <1>2, <2>1
<1>6. CASE sort = "stop"
  <2>1. GraphToSort = StopGraph
    BY <1>6 DEF GraphToSort
  <2>2. QED
    BY <1>1, <1>2, <2>1
<1>7. QED
  BY <1>3, <1>4, <1>5, <1>6 DEF Sorts

(* Pruning leaves sets of names on the methods.                            *)
LEMMA PrunedType ==
  ASSUME TypeOK
  PROVE  Pruned \in [start : [Comp -> SUBSET Comp], stop : [Comp -> {None} \union SUBSET Comp]]
<1>1. asm \subseteq Comp
  BY DEF TypeOK
<1>2. ASSUME NEW c \in DOMAIN StartGraph PROVE StartGraph[c] \subseteq Comp
  BY <1>1, <1>2 DEF StartGraph, StartDeps
<1>3. ASSUME NEW c \in DOMAIN StopGraph PROVE StopGraph[c] \subseteq Comp
  BY <1>1, <1>3 DEF StopGraph, StopDeps
<1>4. Pruned.start \in [Comp -> SUBSET Comp]
  BY <1>2 DEF Pruned, TypeOK
<1>5. Pruned.stop \in [Comp -> {None} \union SUBSET Comp]
  BY <1>3 DEF Pruned, TypeOK
<1>6. QED
  BY <1>4, <1>5 DEF Pruned

(* Every step keeps the types.                                             *)
LEMMA TypeStep ==
  ASSUME TypeOK, InitSorted, [Next]_vars
  PROVE  TypeOK'
<1>1. CASE Collect
  BY <1>1, DesignAssumption DEF Collect, TypeOK, Sorts, NoGraph, kahn
<1>2. CASE BuildGraph
  <2>1. declared' \in [start : [Comp -> SUBSET Comp], stop : [Comp -> {None} \union SUBSET Comp]]
    BY <1>2, PrunedType DEF BuildGraph
  <2>2. graphs' = [graphs EXCEPT ![sort] = GraphToSort] /\ asm' = asm
    BY <1>2 DEF BuildGraph
  <2>3. DOMAIN graphs' = Sorts
    BY <2>2 DEF TypeOK
  <2>4. ASSUME NEW s \in Sorts
        PROVE  graphs'[s] \in [DOMAIN graphs'[s] -> SUBSET asm'] /\ DOMAIN graphs'[s] \subseteq asm'
    <3>1. CASE s = sort
      <4>1. graphs'[s] = GraphToSort
        BY <2>2, <3>1 DEF TypeOK
      <4>2. QED
        BY <4>1, <2>2, GraphType
    <3>2. CASE s # sort
      <4>1. graphs'[s] = graphs[s]
        BY <2>2, <3>2 DEF TypeOK
      <4>2. QED
        BY <4>1, <2>2, <2>4 DEF TypeOK
    <3>3. QED
      BY <3>1, <3>2
  <2>5. DOMAIN deg' \subseteq Comp /\ \A c \in DOMAIN deg' : deg'[c] \in Int
    <3>1. deg' = [c \in DOMAIN GraphToSort |-> Cardinality(GraphToSort[c])]
      BY <1>2 DEF BuildGraph, OutDegree
    <3>2. \A c \in DOMAIN GraphToSort : GraphToSort[c] \subseteq Comp
      BY GraphType DEF TypeOK
    <3>3. \A c \in DOMAIN GraphToSort : Cardinality(GraphToSort[c]) \in Nat
      BY <3>2, FS_Subset, FS_CardinalityType, CompAssumption
    <3>4. QED
      BY <3>1, <3>3, GraphType DEF TypeOK
  <2>6. idx' = 1 /\ queue' = <<>> /\ todo' = {} /\ ordering' = <<>> /\ pc' = "fill"
    BY <1>2 DEF BuildGraph
  <2>7. 1 <= Len(DefinitionOrder)
    BY CompAssumption
  <2>8. UNCHANGED <<design, asm, orders, sort, made, builds>>
    BY <1>2 DEF BuildGraph
  <2>9. QED
    BY <2>1, <2>3, <2>4, <2>5, <2>6, <2>7, <2>8 DEF TypeOK
<1>3. CASE Fill
  <2>1. DefinitionOrder[idx] \in Comp /\ idx <= Len(DefinitionOrder)
    BY <1>3, CompAssumption DEF Fill, TypeOK
  <2>2. queue' \in Seq(Comp)
    BY <1>3, <2>1, AppendFacts DEF Fill, TypeOK
  <2>3. idx' \in Nat \ {0} /\ (pc' = "fill" => idx' <= Len(DefinitionOrder))
    BY <1>3, <2>1, CompAssumption DEF Fill, TypeOK
  <2>4. pc' \in {"fill", "sort"}
    BY <1>3 DEF Fill
  <2>5. QED
    BY <1>3, <2>2, <2>3, <2>4 DEF Fill, TypeOK
<1>4. CASE Visit
  <2>1. Head(queue) \in Comp /\ Tail(queue) \in Seq(Comp)
    BY <1>4, HeadTailProperties DEF Visit, TypeOK
  <2>2. ordering' \in Seq(Comp)
    BY <1>4, <2>1, AppendFacts DEF Visit, TypeOK
  <2>3. todo' \subseteq Comp
    BY <1>4 DEF Visit, Freed, Dependents, graph, TypeOK
  <2>4. QED
    BY <1>4, <2>1, <2>2, <2>3 DEF Visit, TypeOK
<1>5. CASE Release
  <2>1. PICK m \in todo :
          /\ todo' = todo \ {m}
          /\ deg' = [deg EXCEPT ![m] = @ - 1]
          /\ queue' = IF IsFree(deg[m] - 1) THEN Append(queue, m) ELSE queue
    BY <1>5 DEF Release
  <2>2. queue' \in Seq(Comp)
    BY <2>1, AppendFacts DEF TypeOK
  <2>3. DOMAIN deg' = DOMAIN deg /\ \A c \in DOMAIN deg' : deg'[c] \in Int
    BY <2>1 DEF TypeOK
  <2>4. UNCHANGED <<design, declared, asm, graphs, orders, sort, pc, idx, ordering, made, builds>>
    BY <1>5 DEF Release
  <2>5. QED
    BY <2>1, <2>2, <2>3, <2>4 DEF TypeOK
<1>6. CASE SortEnds
  <2>1. CASE pc' = "cycle" /\ UNCHANGED <<orders, sort, idx>>
    BY <1>6, <2>1 DEF SortEnds, TypeOK
  <2>2. CASE /\ orders' = [orders EXCEPT ![sort] = ordering]
             /\ sort' \in Sorts /\ pc' \in {"construct", "graph"} /\ idx' = 1
    BY <1>6, <2>2 DEF SortEnds, TypeOK
  <2>3. QED
    BY <1>6, <2>1, <2>2 DEF SortEnds, Sorts, TypeOK
<1>7. CASE Construct
  <2>1. orders["init"] \in Seq(Comp)
    BY <1>7 DEF Construct, InitSorted
  <2>2. idx <= Len(orders["init"]) => orders["init"][idx] \in Comp
    BY <2>1 DEF TypeOK
  <2>3. /\ idx' \in Nat \ {0} /\ made' \subseteq Comp
        /\ pc' \in {"construct", "assembled", "missing"}
    BY <1>7, <2>2 DEF Construct, TypeOK
  <2>4. QED
    BY <1>7, <2>3 DEF Construct, TypeOK
<1>8. CASE UNCHANGED vars
  BY <1>8 DEF vars, kahn, TypeOK
<1>9. QED
  BY <1>1, <1>2, <1>3, <1>4, <1>5, <1>6, <1>7, <1>8 DEF Next

-----------------------------------------------------------------------------
(* Kahn's algorithm, step by step                                          *)

(* What may be open is a finite set of names.                              *)
LEMMA OpenFinite ==
  ASSUME TypeOK, TodoInv, Sorting, NEW c \in DOMAIN graph
  PROVE  graph[c] \subseteq Comp /\ Open(c) \subseteq graph[c] /\ IsFiniteSet(Open(c))
<1>1. sort \in Sorts /\ graph \in [DOMAIN graph -> SUBSET asm] /\ asm \subseteq Comp
  BY DEF TypeOK, graph
<1>2. graph[c] \subseteq Comp
  BY <1>1
<1>3. Open(c) \subseteq graph[c]
  BY DEF Open, TodoInv
<1>4. IsFiniteSet(Open(c))
  BY <1>2, <1>3, FS_Subset, CompAssumption
<1>5. QED
  BY <1>2, <1>3, <1>4

(* A new graph: every dependency is open.                                  *)
LEMMA BuildKahn ==
  ASSUME TypeOK, BuildGraph
  PROVE  KahnInv'
<1>1. /\ pc' = "fill" /\ idx' = 1 /\ queue' = <<>> /\ todo' = {} /\ ordering' = <<>>
      /\ sort' = sort /\ graphs' = [graphs EXCEPT ![sort] = GraphToSort]
      /\ deg' = [c \in DOMAIN GraphToSort |-> Cardinality(GraphToSort[c])]
  BY DEF BuildGraph, OutDegree
<1>2. graph' = GraphToSort
  BY <1>1 DEF graph, TypeOK
<1>3. Range(<<>>) = {} /\ IsInjective(<<>>)
  BY DEF Range, IsInjective
<1>4. \A c : Open(c)' = graph'[c]
  BY <1>1, <1>3 DEF Open, Placed
<1>5. DegreeCounts'
  BY <1>1, <1>2, <1>4 DEF DegreeCounts
<1>6. TodoInv'
  BY <1>1 DEF TodoInv
<1>7. NodesOnce'
  BY <1>1, <1>3 DEF NodesOnce, Placed
<1>8. OrderingInv'
  BY <1>1 DEF OrderingInv, Respects
<1>9. FreeAreQueued'
  BY <1>1, <1>3 DEF FreeAreQueued
<1>10. QED
  BY <1>5, <1>6, <1>7, <1>8, <1>9 DEF KahnInv

(* The loop that fills the queue looks at every node once.                 *)
LEMMA FillKahn ==
  ASSUME TypeOK, KahnInv, Fill
  PROVE  KahnInv'
<1> DEFINE c == DefinitionOrder[idx]
<1>1. /\ pc = "fill" /\ idx' = idx + 1 /\ graph' = graph /\ deg' = deg
      /\ todo' = todo /\ ordering' = ordering /\ todo = {} /\ ordering = <<>>
      /\ pc' = IF idx = Len(DefinitionOrder) THEN "sort" ELSE "fill"
      /\ queue' = IF c \in DOMAIN graph /\ deg[c] = 0 THEN Append(queue, c) ELSE queue
  BY DEF Fill, graph, KahnInv, FreeAreQueued
<1>2. idx \in 1 .. Len(DefinitionOrder) /\ c \in Comp
  BY <1>1, CompAssumption DEF TypeOK
<1>3. \A d : Open(d)' = Open(d)
  BY <1>1 DEF Open, Placed
<1>4. Placed = {} /\ Placed' = {} /\ Sorting
  BY <1>1 DEF Placed, Range, Sorting
<1>5. c \in DOMAIN graph => (deg[c] = 0 <=> Open(c) = {})
  BY <1>1, <1>4, OpenFinite, FS_EmptySet DEF KahnInv, DegreeCounts
<1>6. c \notin Range(queue)
  BY <1>1, <1>2, CompAssumption DEF KahnInv, FreeAreQueued, IsInjective, TypeOK
<1>7. /\ Range(queue') = IF c \in DOMAIN graph /\ deg[c] = 0
                         THEN Range(queue) \union {c} ELSE Range(queue)
      /\ IsInjective(queue')
  <2>1. queue \in Seq(Comp) /\ IsInjective(queue)
    BY <1>4 DEF KahnInv, NodesOnce, TypeOK
  <2>2. /\ Range(Append(queue, c)) = Range(queue) \union {c}
        /\ IsInjective(Append(queue, c))
    BY <1>2, <1>6, <2>1, AppendFacts
  <2>3. QED
    BY <1>1, <2>1, <2>2
<1>8. DegreeCounts' /\ TodoInv' /\ OrderingInv'
  BY <1>1, <1>3, <1>4 DEF KahnInv, DegreeCounts, TodoInv, OrderingInv, Sorting
<1>9. NodesOnce'
  BY <1>1, <1>3, <1>4, <1>5, <1>7 DEF KahnInv, NodesOnce
<1>10. \A k \in 1 .. idx :
         (DefinitionOrder[k] \in DOMAIN graph /\ Open(DefinitionOrder[k]) = {})
            => DefinitionOrder[k] \in Range(queue')
  <2>1. ASSUME NEW k \in 1 .. idx, DefinitionOrder[k] \in DOMAIN graph,
               Open(DefinitionOrder[k]) = {}
        PROVE  DefinitionOrder[k] \in Range(queue')
    <3>1. CASE k = idx
      BY <2>1, <3>1, <1>5, <1>7
    <3>2. CASE k # idx
      <4>1. k \in 1 .. (idx - 1)
        BY <3>2, <1>2
      <4>2. QED
        BY <4>1, <2>1, <1>1, <1>7 DEF KahnInv, FreeAreQueued
    <3>3. QED
      BY <3>1, <3>2
  <2>2. QED
    BY <2>1
<1>11. \A d \in Range(queue') : \E k \in 1 .. idx : DefinitionOrder[k] = d
  BY <1>1, <1>2, <1>7 DEF KahnInv, FreeAreQueued
<1>12. FreeAreQueued'
  <2>1. CASE pc' = "fill"
    <3>1. idx' - 1 = idx
      BY <1>1, <1>2
    <3>2. QED
      BY <2>1, <3>1, <1>1, <1>3, <1>10, <1>11 DEF FreeAreQueued
  <2>2. CASE pc' = "sort"
    <3>1. idx = Len(DefinitionOrder)
      BY <2>2, <1>1
    <3>2. DOMAIN graph \subseteq Comp
      BY DEF TypeOK, graph
    <3>3. \A d \in DOMAIN graph : \E k \in 1 .. idx : DefinitionOrder[k] = d
      BY <3>1, <3>2, CompAssumption DEF Range
    <3>4. QED
      BY <2>2, <3>3, <1>1, <1>3, <1>10 DEF FreeAreQueued
  <2>3. QED
    BY <2>1, <2>2, <1>1
<1>13. QED
  BY <1>8, <1>9, <1>12 DEF KahnInv

(* Placing a node opens or closes nothing yet: it moves from the graph to  *)
(* what is left of the loop.                                               *)
LEMMA VisitKahn ==
  ASSUME TypeOK, KahnInv, Visit
  PROVE  KahnInv'
<1> DEFINE n == Head(queue)
<1>1. /\ pc = "sort" /\ pc' = "sort" /\ todo = {} /\ queue # <<>>
      /\ queue' = Tail(queue) /\ ordering' = Append(ordering, n)
      /\ todo' = {m \in DOMAIN graph : n \in graph[m]}
      /\ graph' = graph /\ deg' = deg
  BY DEF Visit, graph, Freed, Dependents
<1>2. Sorting /\ Sorting'
  BY <1>1 DEF Sorting
<1>3. /\ n \in Comp /\ queue' \in Seq(Comp) /\ IsInjective(queue')
      /\ Range(queue) = {n} \union Range(queue') /\ n \notin Range(queue')
  BY <1>1, <1>2, TailFacts DEF KahnInv, NodesOnce, TypeOK
<1>4. n \in DOMAIN graph /\ n \notin Placed /\ Open(n) = {}
  BY <1>2, <1>3 DEF KahnInv, NodesOnce
<1>5. /\ ordering' \in Seq(Comp) /\ Len(ordering') = Len(ordering) + 1
      /\ ordering'[Len(ordering) + 1] = n
      /\ \A i \in 1 .. Len(ordering) : ordering'[i] = ordering[i]
      /\ Placed' = Placed \union {n} /\ IsInjective(ordering')
  BY <1>1, <1>2, <1>3, <1>4, AppendFacts DEF KahnInv, NodesOnce, Placed, TypeOK
<1>6. Len(ordering) \in Nat
  BY DEF TypeOK
<1>7. ordering'[Len(ordering')] = n /\ ordering' # <<>>
  BY <1>5, <1>6
<1>8. \A c \in DOMAIN graph : Open(c)' = Open(c)
  BY <1>1, <1>4, <1>5, <1>7 DEF Open
<1>9. DegreeCounts'
  BY <1>1, <1>2, <1>8 DEF KahnInv, DegreeCounts
<1>10. TodoInv'
  BY <1>1, <1>7 DEF TodoInv
<1>11. NodesOnce'
  <2>1. Range(queue') \union Placed' = Range(queue) \union Placed
    BY <1>3, <1>5
  <2>2. Range(queue') \intersect Placed' = {}
    BY <1>2, <1>3, <1>5 DEF KahnInv, NodesOnce
  <2>3. QED
    BY <1>1, <1>2, <1>3, <1>5, <1>8, <2>1, <2>2 DEF KahnInv, NodesOnce
<1>12. OrderingInv'
  <2>1. graph[n] \subseteq Placed
    BY <1>1, <1>4 DEF Open
  <2>2. DOMAIN ordering' = 1 .. (Len(ordering) + 1) /\ DOMAIN ordering = 1 .. Len(ordering)
    BY <1>5 DEF TypeOK
  <2>3. ASSUME NEW j \in 1 .. (Len(ordering) + 1), NEW d \in graph[ordering'[j]]
        PROVE  \E i \in 1 .. (j - 1) : ordering'[i] = d
    <3>1. CASE j = Len(ordering) + 1
      <4>1. d \in Placed
        BY <2>1, <2>3, <3>1, <1>5
      <4>2. PICK i \in 1 .. Len(ordering) : ordering[i] = d
        BY <4>1, <2>2 DEF Placed, Range
      <4>3. QED
        BY <4>2, <3>1, <1>5, <1>6
    <3>2. CASE j # Len(ordering) + 1
      <4>1. j \in 1 .. Len(ordering) /\ d \in graph[ordering[j]]
        BY <2>3, <3>2, <1>5, <1>6
      <4>2. PICK i \in 1 .. (j - 1) : ordering[i] = d
        BY <4>1, <2>2, <1>2 DEF KahnInv, OrderingInv, Respects
      <4>3. i \in 1 .. Len(ordering)
        BY <4>1, <4>2, <1>6
      <4>4. QED
        BY <4>2, <4>3, <1>5
    <3>3. QED
      BY <3>1, <3>2
  <2>4. QED
    BY <2>2, <2>3, <1>1 DEF OrderingInv, Respects
<1>13. FreeAreQueued'
  <2>1. Range(queue') \union Placed' = Range(queue) \union Placed
    BY <1>3, <1>5
  <2>2. QED
    BY <1>1, <1>8, <2>1 DEF KahnInv, FreeAreQueued
<1>14. QED
  BY <1>9, <1>10, <1>11, <1>12, <1>13 DEF KahnInv

(* One decrement closes one dependency of one node.                        *)
LEMMA ReleaseKahn ==
  ASSUME TypeOK, KahnInv, Release
  PROVE  KahnInv'
<1>1. PICK m \in todo :
        /\ pc = "sort" /\ pc' = "sort" /\ graph' = graph
        /\ todo' = todo \ {m} /\ ordering' = ordering
        /\ deg' = [deg EXCEPT ![m] = @ - 1]
        /\ queue' = IF deg[m] - 1 = 0 THEN Append(queue, m) ELSE queue
  BY DEF Release, graph, IsFree
<1> DEFINE l == ordering[Len(ordering)]
<1>2. Sorting /\ Sorting' /\ Placed' = Placed
  BY <1>1 DEF Sorting, Placed
<1>3. m \in DOMAIN graph /\ m \in Comp /\ l \in graph[m] /\ ordering # <<>>
  BY <1>1, <1>2 DEF KahnInv, TodoInv, TypeOK
<1>4. l \in Placed
  <2>1. Len(ordering) \in DOMAIN ordering
    BY <1>3 DEF TypeOK
  <2>2. QED
    BY <2>1 DEF Placed, Range
<1>5. l \in Open(m) /\ Open(m)' = Open(m) \ {l}
  BY <1>1, <1>2, <1>4 DEF Open
<1>6. \A c : c # m => Open(c)' = Open(c)
  BY <1>1, <1>2 DEF Open
<1>7. /\ IsFiniteSet(Open(m)) /\ deg[m] = Cardinality(Open(m))
      /\ IsFiniteSet(Open(m)') /\ Cardinality(Open(m)') = deg[m] - 1
  BY <1>2, <1>3, <1>5, OpenFinite, FS_RemoveElement DEF KahnInv, DegreeCounts
<1>8. deg[m] - 1 = 0 <=> Open(m)' = {}
  BY <1>7, FS_EmptySet
<1>9. m \notin Range(queue) /\ m \notin Placed
  BY <1>2, <1>5 DEF KahnInv, NodesOnce
<1>10. /\ Range(queue') = IF deg[m] - 1 = 0 THEN Range(queue) \union {m} ELSE Range(queue)
       /\ IsInjective(queue')
  <2>1. queue \in Seq(Comp) /\ IsInjective(queue)
    BY <1>2 DEF KahnInv, NodesOnce, TypeOK
  <2>2. /\ Range(Append(queue, m)) = Range(queue) \union {m}
        /\ IsInjective(Append(queue, m))
    BY <1>3, <1>9, <2>1, AppendFacts
  <2>3. QED
    BY <1>1, <2>1, <2>2
<1>11. DegreeCounts'
  <2>1. DOMAIN deg' = DOMAIN graph
    BY <1>1, <1>2 DEF KahnInv, DegreeCounts
  <2>2. ASSUME NEW c \in DOMAIN graph PROVE deg'[c] = Cardinality(Open(c)')
    <3>1. CASE c = m
      BY <3>1, <1>1, <1>2, <1>3, <1>7 DEF KahnInv, DegreeCounts
    <3>2. CASE c # m
      BY <3>2, <2>2, <1>1, <1>2, <1>6 DEF KahnInv, DegreeCounts
    <3>3. QED
      BY <3>1, <3>2
  <2>3. QED
    BY <2>1, <2>2, <1>1 DEF DegreeCounts
<1>12. TodoInv'
  BY <1>1, <1>2 DEF KahnInv, TodoInv
<1>13. NodesOnce'
  <2>1. \A c \in Range(queue') \union Placed : Open(c)' = {}
    BY <1>2, <1>6, <1>8, <1>9, <1>10 DEF KahnInv, NodesOnce
  <2>2. QED
    BY <1>1, <1>2, <1>3, <1>9, <1>10, <2>1 DEF KahnInv, NodesOnce
<1>14. OrderingInv'
  BY <1>1, <1>2 DEF KahnInv, OrderingInv, Respects
<1>15. FreeAreQueued'
  BY <1>1, <1>2, <1>6, <1>8, <1>10 DEF KahnInv, FreeAreQueued
<1>16. QED
  BY <1>11, <1>12, <1>13, <1>14, <1>15 DEF KahnInv

-----------------------------------------------------------------------------
(* The results of the sorts                                                *)

(* A sort that has placed every node has a linear order.                   *)
LEMMA FullOrder ==
  ASSUME TypeOK, KahnInv, pc = "sort", todo = {}, queue = <<>>,
         Len(ordering) = Cardinality(DOMAIN graph)
  PROVE  Linearises(ordering, graph)
<1>1. Sorting
  BY DEF Sorting
<1>2. Placed \subseteq DOMAIN graph /\ IsInjective(ordering) /\ ordering \in Seq(Comp)
  BY <1>1 DEF KahnInv, NodesOnce, TypeOK
<1>3. Cardinality(Placed) = Cardinality(DOMAIN graph)
  BY <1>2, InjectiveLength DEF Placed
<1>4. IsFiniteSet(DOMAIN graph)
  <2>1. DOMAIN graph \subseteq Comp
    BY DEF TypeOK, graph
  <2>2. QED
    BY <2>1, FS_Subset, CompAssumption
<1>5. Placed = DOMAIN graph
  BY <1>2, <1>3, <1>4, FS_Subset
<1>6. QED
  BY <1>1, <1>2, <1>5 DEF KahnInv, OrderingInv, Respects, Linearises, Placed

(* A sort that has not placed every node cannot: each of the others waits  *)
(* for one that is not placed.                                             *)
LEMMA StuckNodes ==
  ASSUME TypeOK, KahnInv, pc = "sort", todo = {}, queue = <<>>,
         Len(ordering) # Cardinality(DOMAIN graph)
  PROVE  \E S \in SUBSET DOMAIN graph :
           S # {} /\ \A c \in S : \E d \in graph[c] : d \in S \/ d \notin DOMAIN graph
<1> DEFINE S == DOMAIN graph \ Placed
<1>1. Sorting
  BY DEF Sorting
<1>2. Placed \subseteq DOMAIN graph /\ IsInjective(ordering) /\ ordering \in Seq(Comp)
  BY <1>1 DEF KahnInv, NodesOnce, TypeOK
<1>3. S # {}
  <2>1. SUFFICES ASSUME Placed = DOMAIN graph PROVE FALSE
    BY <1>2
  <2>2. QED
    BY <1>2, <2>1, InjectiveLength DEF Placed
<1>4. Range(queue) = {}
  BY DEF Range
<1>5. ASSUME NEW c \in S
      PROVE  \E d \in graph[c] : d \in S \/ d \notin DOMAIN graph
  <2>1. Open(c) # {}
    BY <1>4, <1>5 DEF KahnInv, FreeAreQueued
  <2>2. PICK d \in graph[c] : d \notin Placed
    BY <2>1 DEF Open
  <2>3. QED
    BY <2>2
<1>6. QED
  BY <1>3, <1>5

(* SortEnds stores a linear order, or reports that there is none.          *)
LEMMA SortEndsResult ==
  ASSUME IInv, SortEnds
  PROVE  ResultInv'
<1> DEFINE sorted == Len(ordering) = Cardinality(DOMAIN graph)
<1>1. /\ pc = "sort" /\ todo = {} /\ queue = <<>>
      /\ graphs' = graphs /\ made' = made /\ TypeOK /\ KahnInv /\ ResultInv
  BY DEF SortEnds, IInv
<1>2. CASE ~sorted
  <2>1. pc' = "cycle" /\ orders' = orders /\ sort' = sort /\ graph' = graph
    BY <1>2 DEF SortEnds, graph
  <2>2. FailsOnlyIfUnsortable'
    BY <1>1, <1>2, <2>1, StuckNodes DEF FailsOnlyIfUnsortable
  <2>3. SortsInTurn' /\ InitSorted' /\ NothingMissing'
    BY <2>1 DEF SortsInTurn, InitSorted, NothingMissing
  <2>4. OrdersLinearise'
    BY <1>1, <2>1 DEF ResultInv, OrdersLinearise
  <2>5. QED
    BY <2>2, <2>3, <2>4 DEF ResultInv
<1>3. CASE sorted
  <2>1. /\ orders' = [orders EXCEPT ![sort] = ordering] /\ idx' = 1
        /\ pc' = IF sort = "stop" THEN "construct" ELSE "graph"
        /\ sort = "init" => sort' = "start"
        /\ sort = "start" => sort' = "stop"
        /\ sort = "stop" => sort' = "stop"
    BY <1>3 DEF SortEnds
  <2>2. Linearises(ordering, graph) /\ ordering \in Seq(Comp)
    BY <1>1, <1>3, FullOrder DEF TypeOK
  <2>3. sort \in {"init", "start", "stop"} /\ DOMAIN orders = {"init", "start", "stop"}
    BY <1>1 DEF TypeOK, Sorts
  <2>4. /\ orders[sort] = None
        /\ sort = "init" => orders["start"] = None
        /\ sort # "stop" => orders["stop"] = None
    BY <1>1 DEF ResultInv, SortsInTurn
  <2>5. orders'[sort] = ordering /\ \A s \in Sorts : s # sort => orders'[s] = orders[s]
    BY <2>1, <2>3 DEF Sorts
  <2>6. OrdersLinearise'
    BY <1>1, <2>2, <2>5 DEF ResultInv, OrdersLinearise, graph
  <2>7. SortsInTurn'
    BY <2>1, <2>3, <2>4, <2>5 DEF SortsInTurn, Sorts
  <2>8. orders'["init"] \in Seq(Comp) /\ Linearises(orders'["init"], graphs'["init"])
    <3>1. CASE sort = "init"
      BY <1>1, <2>2, <2>5, <3>1 DEF graph
    <3>2. CASE sort # "init"
      <4>1. orders'["init"] = orders["init"]
        BY <2>5, <3>2 DEF Sorts
      <4>2. QED
        BY <1>1, <3>2, <4>1 DEF ResultInv, InitSorted
    <3>3. QED
      BY <3>1, <3>2
  <2>9. InitSorted'
    BY <2>1, <2>8 DEF InitSorted
  <2>10. FailsOnlyIfUnsortable' /\ NothingMissing'
    BY <2>1 DEF FailsOnlyIfUnsortable, NothingMissing
  <2>11. QED
    BY <2>6, <2>7, <2>9, <2>10 DEF ResultInv
<1>4. QED
  BY <1>2, <1>3

(* Constructing in init_order finds what each constructor needs.           *)
LEMMA ConstructResult ==
  ASSUME IInv, Construct
  PROVE  ResultInv'
<1> DEFINE o == orders["init"]
<1>1. /\ pc = "construct" /\ graphs' = graphs /\ orders' = orders /\ sort' = sort
      /\ TypeOK /\ ResultInv
  BY DEF Construct, IInv
<1>2. o \in Seq(Comp) /\ Linearises(o, graphs["init"])
  BY <1>1 DEF ResultInv, InitSorted
<1>3. idx \in Nat \ {0} /\ DOMAIN o = 1 .. Len(o) /\ Len(o) \in Nat
  BY <1>1, <1>2 DEF TypeOK
<1>4. \A k \in 1 .. (idx - 1) : k \in DOMAIN o => o[k] \in made
  BY <1>1 DEF ResultInv, InitSorted
<1>5. idx <= Len(o) => graphs["init"][o[idx]] \subseteq made
  <2>1. SUFFICES ASSUME idx <= Len(o), NEW d \in graphs["init"][o[idx]] PROVE d \in made
    OBVIOUS
  <2>2. idx \in DOMAIN o
    BY <1>3, <2>1
  <2>3. \A j \in DOMAIN o : \A c \in graphs["init"][o[j]] : \E i \in 1 .. (j - 1) : o[i] = c
    BY <1>2, Zenon DEF Linearises
  <2>4. \E i \in 1 .. (idx - 1) : o[i] = d
    BY <2>1, <2>2, <2>3, Zenon
  <2>5. PICK i \in 1 .. (idx - 1) : o[i] = d
    BY <2>4
  <2>6. i \in DOMAIN o
    BY <1>3, <2>2
  <2>7. QED
    BY <1>4, <2>5, <2>6
<1>6. \/ pc' = "assembled" /\ UNCHANGED <<idx, made>>
      \/ pc' = "construct" /\ idx <= Len(o) /\ idx' = idx + 1 /\ made' = made \union {o[idx]}
  BY <1>1, <1>3, <1>5 DEF Construct, TypeOK
<1>7. InitSorted'
  <2>1. ASSUME pc' = "construct", NEW k \in 1 .. (idx' - 1), k \in DOMAIN o
        PROVE  o[k] \in made'
    BY <1>3, <1>4, <1>6, <2>1
  <2>2. QED
    BY <1>1, <1>2, <1>6, <2>1 DEF InitSorted
<1>8. SortsInTurn' /\ FailsOnlyIfUnsortable' /\ NothingMissing'
  BY <1>6 DEF SortsInTurn, FailsOnlyIfUnsortable, NothingMissing
<1>9. OrdersLinearise'
  BY <1>1 DEF ResultInv, OrdersLinearise
<1>10. QED
  BY <1>7, <1>8, <1>9 DEF ResultInv

(* Every step keeps the results of the sorts made so far.                  *)
LEMMA ResultStep ==
  ASSUME IInv, [Next]_vars
  PROVE  ResultInv'
<1>1. TypeOK /\ ResultInv
  BY DEF IInv
<1>2. CASE Collect
  <2>1. /\ pc' = "graph" /\ sort' = "init" /\ orders' = [s \in Sorts |-> None]
    BY <1>2 DEF Collect
  <2>2. QED
    BY <2>1 DEF ResultInv, SortsInTurn, OrdersLinearise, InitSorted, FailsOnlyIfUnsortable,
                NothingMissing, Sorts
<1>3. CASE BuildGraph
  <2>1. /\ pc = "graph" /\ pc' = "fill" /\ sort' = sort /\ orders' = orders
        /\ graphs' = [graphs EXCEPT ![sort] = GraphToSort]
    BY <1>3 DEF BuildGraph
  <2>2. orders[sort] = None
    BY <1>1, <2>1 DEF ResultInv, SortsInTurn
  <2>3. \A s \in Sorts : s # sort => graphs'[s] = graphs[s]
    BY <1>1, <2>1 DEF TypeOK
  <2>4. OrdersLinearise'
    BY <1>1, <2>1, <2>2, <2>3 DEF ResultInv, OrdersLinearise
  <2>5. SortsInTurn' /\ FailsOnlyIfUnsortable' /\ NothingMissing'
    BY <1>1, <2>1 DEF ResultInv, SortsInTurn, FailsOnlyIfUnsortable, NothingMissing
  <2>6. InitSorted'
    BY <1>1, <2>1, <2>3 DEF ResultInv, InitSorted, Sorts
  <2>7. QED
    BY <2>4, <2>5, <2>6 DEF ResultInv
<1>4. CASE Fill \/ Visit \/ Release
  <2>1. /\ pc \in {"fill", "sort"} /\ pc' \in {"fill", "sort"}
        /\ UNCHANGED <<graphs, orders, sort>>
    BY <1>4 DEF Fill, Visit, Release
  <2>2. QED
    BY <1>1, <2>1 DEF ResultInv, SortsInTurn, OrdersLinearise, InitSorted,
                      FailsOnlyIfUnsortable, NothingMissing
<1>5. CASE SortEnds
  BY <1>5, SortEndsResult
<1>6. CASE Construct
  BY <1>6, ConstructResult
<1>7. CASE UNCHANGED vars
  BY <1>1, <1>7 DEF vars, kahn, graph, ResultInv, SortsInTurn, OrdersLinearise, InitSorted,
                    FailsOnlyIfUnsortable, NothingMissing
<1>8. QED
  BY <1>2, <1>3, <1>4, <1>5, <1>6, <1>7 DEF Next

(* Every step keeps Kahn's invariant; outside a sort it says nothing.      *)
LEMMA KahnStep ==
  ASSUME IInv, [Next]_vars
  PROVE  KahnInv'
<1>1. TypeOK /\ KahnInv
  BY DEF IInv
<1>2. CASE Collect \/ SortEnds \/ Construct
  <2>1. pc' \notin {"fill", "sort"}
    BY <1>2 DEF Collect, SortEnds, Construct
  <2>2. QED
    BY <2>1 DEF KahnInv, DegreeCounts, TodoInv, NodesOnce, OrderingInv, FreeAreQueued, Sorting
<1>3. CASE BuildGraph
  BY <1>1, <1>3, BuildKahn
<1>4. CASE Fill
  BY <1>1, <1>4, FillKahn
<1>5. CASE Visit
  BY <1>1, <1>5, VisitKahn
<1>6. CASE Release
  BY <1>1, <1>6, ReleaseKahn
<1>7. CASE UNCHANGED vars
  <2>1. UNCHANGED <<pc, deg, idx, queue, todo, ordering, graph>>
    BY <1>7 DEF vars, kahn, graph
  <2>2. \A c : Open(c)' = Open(c)
    BY <2>1 DEF Open, Placed
  <2>3. QED
    BY <1>1, <2>1, <2>2 DEF KahnInv, DegreeCounts, TodoInv, NodesOnce, OrderingInv,
                            FreeAreQueued, Sorting, Placed, Respects
<1>8. QED
  BY <1>2, <1>3, <1>4, <1>5, <1>6, <1>7 DEF Next

-----------------------------------------------------------------------------
(* The theorems                                                            *)

(* The invariant holds in the initial states.                              *)
LEMMA InitIInv == Init => IInv
<1> SUFFICES ASSUME Init PROVE IInv
  OBVIOUS
<1>1. TypeOK
  BY DesignAssumption DEF Init, TypeOK, Design, Sorts, NoGraph
<1>2. KahnInv
  BY DEF Init, KahnInv, DegreeCounts, TodoInv, NodesOnce, OrderingInv, FreeAreQueued, Sorting
<1>3. ResultInv
  BY DEF Init, ResultInv, SortsInTurn, OrdersLinearise, InitSorted, FailsOnlyIfUnsortable,
         NothingMissing, Sorts
<1>4. QED
  BY <1>1, <1>2, <1>3 DEF IInv

(* The invariant is inductive.                                             *)
THEOREM Invariance == Spec => []IInv
<1>1. IInv /\ [Next]_vars => IInv'
  <2> SUFFICES ASSUME IInv, [Next]_vars PROVE IInv'
    OBVIOUS
  <2>1. TypeOK'
    BY TypeStep DEF IInv, ResultInv
  <2>2. KahnInv' /\ ResultInv'
    BY KahnStep, ResultStep
  <2>3. QED
    BY <2>1, <2>2 DEF IInv
<1>2. QED
  BY InitIInv, <1>1, PTL DEF Spec

(* Types, for every set of components and every design: no dependency      *)
(* graph leads out of its assembly.                                        *)
THEOREM TypeInvariant == Spec => []TypeOK
<1>1. IInv => TypeOK
  BY DEF IInv
<1>2. QED
  BY Invariance, <1>1, PTL

(* topo_sort returns a linear order of its graph, for every graph and      *)
(* every order in which the sets are iterated.                             *)
THEOREM OrdersTheorem == Spec => []OrdersLinearise
<1>1. IInv => OrdersLinearise
  BY DEF IInv, ResultInv
<1>2. QED
  BY Invariance, <1>1, PTL

(* topo_sort reports a cycle only for graphs that have no linear order.    *)
THEOREM CycleTheorem == Spec => []FailsOnlyIfUnsortable
<1>1. IInv => FailsOnlyIfUnsortable
  BY DEF IInv, ResultInv
<1>2. QED
  BY Invariance, <1>1, PTL

(* _build_components never lacks a required component.                     *)
THEOREM ConstructionTheorem == Spec => []NothingMissing
<1>1. IInv => NothingMissing
  BY DEF IInv, ResultInv
<1>2. QED
  BY Invariance, <1>1, PTL

-----------------------------------------------------------------------------
(* Two graphs: starting and stopping                                       *)

(* What needs b to start is among what b waits for to stop, if b's stop    *)
(* method declares nothing.                                                *)
StopGraphMirrors ==
  \A a, b \in DOMAIN graphs["stop"] :
    (/\ a \in DOMAIN graphs["start"] /\ b \in graphs["start"][a]
     /\ design.stopDeps[b] = None)
      => a \in graphs["stop"][b]

(* So it is as soon as the stop graph is made; sorting keeps it, and what  *)
(* is left of the decorators still shows which methods have none.          *)
Mirrored ==
  /\ \A c \in Comp : design.stopDeps[c] = None => declared.stop[c] = None
  /\ (Sorting /\ sort = "stop") \/ orders["stop"] # None => StopGraphMirrors

LEMMA MirroredStep ==
  ASSUME IInv, Mirrored, [Next]_vars
  PROVE  Mirrored'
<1>1. TypeOK /\ SortsInTurn
  BY DEF IInv, ResultInv
<1>2. CASE Collect
  <2>1. /\ pc' = "graph" /\ orders' = [s \in Sorts |-> None]
        /\ UNCHANGED <<design, declared>>
    BY <1>2 DEF Collect
  <2>2. QED
    BY <2>1 DEF Mirrored, Sorting, Sorts
<1>3. CASE BuildGraph
  <2>1. /\ pc = "graph" /\ pc' = "fill" /\ declared' = Pruned
        /\ graphs' = [graphs EXCEPT ![sort] = GraphToSort]
        /\ UNCHANGED <<design, sort, orders>>
    BY <1>3 DEF BuildGraph
  <2>2. \A c \in Comp : design.stopDeps[c] = None => declared.stop[c] = None
    BY DEF Mirrored
  <2>3. \A c \in Comp : declared.stop[c] = None => declared'.stop[c] = None
    BY <2>1 DEF Pruned
  <2>4. orders'["stop"] = None
    BY <1>1, <2>1 DEF SortsInTurn
  <2>5. ASSUME sort = "stop" PROVE StopGraphMirrors'
    <3>1. graphs'["stop"] = StopGraph /\ graphs'["start"] = graphs["start"]
      BY <1>1, <2>1, <2>5 DEF TypeOK, GraphToSort, Sorts
    <3>2. DOMAIN StopGraph = Singletons \intersect design.stoppers
      BY DEF StopGraph
    <3>3. ASSUME NEW a \in DOMAIN StopGraph, NEW b \in DOMAIN StopGraph,
                 a \in DOMAIN graphs["start"], b \in graphs["start"][a],
                 design.stopDeps[b] = None
          PROVE  a \in StopGraph[b]
      <4>1. b \in Comp /\ a \in design.stoppers \intersect asm
        BY <1>1, <3>2 DEF Singletons, TypeOK
      <4>2. declared.stop[b] = None
        BY <2>2, <3>3, <4>1
      <4>3. a \in DefaultStopDeps(b)
        BY <3>3 DEF DefaultStopDeps, Dependents
      <4>4. a \in StopDeps(b)
        BY <4>1, <4>2, <4>3 DEF StopDeps
      <4>5. QED
        BY <3>2, <4>4 DEF StopGraph
    <3>4. QED
      BY <2>1, <3>1, <3>3 DEF StopGraphMirrors
  <2>6. QED
    BY <2>1, <2>2, <2>3, <2>4, <2>5 DEF Mirrored
<1>4. CASE Fill \/ Visit \/ Release
  <2>1. pc \in {"fill", "sort"} /\ UNCHANGED <<design, declared, graphs, orders, sort>>
    BY <1>4 DEF Fill, Visit, Release
  <2>2. QED
    BY <2>1 DEF Mirrored, StopGraphMirrors, Sorting
<1>5. CASE SortEnds
  <2>1. /\ pc = "sort" /\ pc' \notin {"fill", "sort"}
        /\ UNCHANGED <<design, declared, graphs>>
        /\ orders' = orders \/ orders' = [orders EXCEPT ![sort] = ordering]
    BY <1>5 DEF SortEnds
  <2>2. orders["stop"] = None /\ (orders'["stop"] # None => sort = "stop")
    BY <1>1, <2>1 DEF SortsInTurn, TypeOK, Sorts
  <2>3. QED
    BY <2>1, <2>2 DEF Mirrored, StopGraphMirrors, Sorting
<1>6. CASE Construct
  <2>1. /\ pc' \notin {"fill", "sort"}
        /\ UNCHANGED <<design, declared, graphs, orders>>
    BY <1>6 DEF Construct
  <2>2. QED
    BY <2>1 DEF Mirrored, StopGraphMirrors, Sorting
<1>7. CASE UNCHANGED vars
  BY <1>7 DEF vars, Mirrored, StopGraphMirrors, Sorting
<1>8. QED
  BY <1>2, <1>3, <1>4, <1>5, <1>6, <1>7 DEF Next

(* In a linear order of such a graph, what needs a component to start      *)
(* comes before it.                                                        *)
LEMMA MirroredOrder ==
  ASSUME IInv, Mirrored
  PROVE  StopMirrorsStart
<1> SUFFICES ASSUME orders["stop"] # None,
                    NEW a \in DOMAIN graphs["stop"], NEW b \in DOMAIN graphs["stop"],
                    a \in DOMAIN graphs["start"], b \in graphs["start"][a],
                    design.stopDeps[b] = None
             PROVE  Before(orders["stop"], a, b)
  BY DEF StopMirrorsStart
<1> DEFINE o == orders["stop"]
           g == graphs["stop"]
<1>1. Linearises(o, g) /\ o \in Seq(Comp)
  BY DEF IInv, ResultInv, OrdersLinearise, TypeOK, Sorts
<1>2. a \in g[b]
  BY DEF Mirrored, StopGraphMirrors
<1> HIDE DEF o, g
<1>3. PICK j \in DOMAIN o : o[j] = b
  BY <1>1 DEF Linearises, Range, g
<1>4. PICK i \in 1 .. (j - 1) : o[i] = a
  BY <1>1, <1>2, <1>3 DEF Linearises
<1>5. i \in DOMAIN o /\ i < j
  <2>1. PICK n \in Nat : DOMAIN o = 1 .. n
    BY <1>1
  <2>2. QED
    BY <1>3, <1>4, <2>1
<1>6. QED
  BY <1>3, <1>4, <1>5 DEF Before, o

(* For every design: a component that needs another one to start is        *)
(* stopped before it, unless the other's stop method declares otherwise.   *)
THEOREM MirrorTheorem == Spec => []StopMirrorsStart
<1>1. Init => Mirrored
  BY DEF Init, Mirrored, Sorting, Sorts
<1>2. IInv /\ Mirrored /\ [Next]_vars => Mirrored'
  BY MirroredStep
<1>3. IInv /\ Mirrored => StopMirrorsStart
  BY MirroredOrder
<1>4. QED
  BY Invariance, <1>1, <1>2, <1>3, PTL DEF Spec

====
