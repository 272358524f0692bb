------------------------- MODULE SharedStoreProofs -------------------------
(***************************************************************************)
(* Proofs about SharedStore: the types of the state; that the graph shows  *)
(* the files whenever generate is not at work; and what a poll, a lookup,  *)
(* an answer of the server and a waiting dereference may conclude from     *)
(* files and a graph that change under them.                               *)
(***************************************************************************)
EXTENDS SharedStore, TLAPS

USE StoreAssumption

-----------------------------------------------------------------------------
(* The call of the other thread: a record, and what push finds in todo.    *)
CallShape(c) ==
  /\ c = [kind |-> c.kind, pc |-> c.pc, todo |-> c.todo, got |-> c.got, at |-> c.at]
  /\ c.pc \in CallStages
  /\ c.pc = "push" => c.todo \subseteq Versions

(* What generate will still add for the files rs.                          *)
LackedEdges(rs) == {l \in rs \intersect Links : Readable(l)}

LackedNodes(rs) ==
  (rs \intersect Nodes) \union {e[1] : e \in LackedEdges(rs)}
                       \union {e[2] : e \in LackedEdges(rs)}

(* How far the graph is.  While generate adds, it lacks what the files     *)
(* still listed will add; in the middle of writing a bundle that is no     *)
(* part of the graph it lacks nothing.                                     *)
GraphProgress ==
  /\ Settled => dg = GraphOf
  /\ (pc = "write" /\ item[1] \in Objs) => dg = GraphOf
  /\ pc \in {"clear", "add"} => item[1] \notin Objs
  /\ pc = "add" =>
       /\ GraphOf.edges = dg.edges \union LackedEdges(todo)
       /\ GraphOf.nodes = dg.nodes \union LackedNodes(todo)

IInv == TypeOK /\ CallShape(call) /\ GraphProgress

-----------------------------------------------------------------------------
(* A step of the other thread changes the call and nothing else, and keeps *)
(* its shape.                                                              *)
LEMMA NoCallShape == CallShape(NoCall)
  BY DEF CallShape, NoCall, CallStages

LEMMA ReaderShape ==
  ASSUME CallShape(call),
         \/ OutEdges \/ InEdges \/ EdgeData \/ ReadEdges \/ ListNodes \/ ReadProfiles \/ NextProfile
         \/ ChoosePolled \/ Request \/ Ask \/ Response \/ ListFiles \/ ReadFiles
         \/ TryCache \/ TryHandler \/ Wait \/ Return
  PROVE  CallShape(call') /\ UNCHANGED <<files, dg, queue, pc, item, todo>>
<1> USE DEF CallShape, CallStages, Over, At, Reader, worker, Raises, Ends
<1>1. CASE OutEdges
  BY <1>1 DEF OutEdges, EdgesOf
<1>2. CASE InEdges
  BY <1>2 DEF InEdges, EdgesOf
<1>3. CASE EdgeData
  BY <1>3 DEF EdgeData, Each
<1>4. CASE ReadEdges
  BY <1>4 DEF ReadEdges, Each
<1>5. CASE ListNodes
  BY <1>5 DEF ListNodes
<1>6. CASE ReadProfiles
  BY <1>6 DEF ReadProfiles, Each
<1>7. CASE ChoosePolled
  BY <1>7, ZenonT(40) DEF ChoosePolled
<1>8. CASE Request
  BY <1>8 DEF Request
<1>9. CASE Response
  <2>1. CASE \E v \in Versions : call' = [call EXCEPT !.pc = "push", !.todo = {v}, !.at = None]
    <3>1. PICK v \in Versions : call' = [call EXCEPT !.pc = "push", !.todo = {v}, !.at = None]
      BY <2>1
    <3>2. {v} \subseteq Versions
      OBVIOUS
    <3> QED
      BY <1>9, <3>1, <3>2 DEF Response
  <2>2. CASE ~\E v \in Versions : call' = [call EXCEPT !.pc = "push", !.todo = {v}, !.at = None]
    BY <1>9, <2>2 DEF Response
  <2> QED
    BY <2>1, <2>2
<1>10. CASE ListFiles
  BY <1>10 DEF ListFiles
<1>11. CASE ReadFiles
  BY <1>11 DEF ReadFiles, Each
<1>12. CASE TryCache
  BY <1>12 DEF TryCache
<1>13. CASE TryHandler
  <2>1. CASE \E v \in Versions : call' = [call EXCEPT !.pc = "push", !.todo = {v}]
    <3>1. PICK v \in Versions : call' = [call EXCEPT !.pc = "push", !.todo = {v}]
      BY <2>1
    <3>2. {v} \subseteq Versions
      OBVIOUS
    <3> QED
      BY <1>13, <3>1, <3>2 DEF TryHandler
  <2>2. CASE ~\E v \in Versions : call' = [call EXCEPT !.pc = "push", !.todo = {v}]
    BY <1>13, <2>2 DEF TryHandler
  <2> QED
    BY <2>1, <2>2
<1>14. CASE Wait
  BY <1>14 DEF Wait
<1>15. CASE Return
  BY <1>15, NoCallShape DEF Return
<1>16. CASE NextProfile
  BY <1>16 DEF NextProfile
<1>17. CASE Ask
  BY <1>17 DEF Ask
<1> QED
  BY <1>16, <1>17, <1>1, <1>2, <1>3, <1>4, <1>5, <1>6, <1>7, <1>8, <1>9, <1>10, <1>11, <1>12, <1>13, <1>14, <1>15

-----------------------------------------------------------------------------
(* The graph of the files                                                  *)

LEMMA LinkEnds == \A e \in Links : e[1] \in Nodes /\ e[2] \in Nodes
  OBVIOUS

LEMMA GraphOfType == GraphOf \in [nodes : SUBSET Nodes, edges : SUBSET Links]
  BY LinkEnds DEF GraphOf

(* Files of other knowledge are no part of the graph.                      *)
LEMMA GraphUnchanged ==
  ASSUME \A r \in Nodes \union Links : files'[r] = files[r]
  PROVE  GraphOf' = GraphOf
  BY DEF GraphOf, Readable

(* When nothing is listed any more, nothing is lacking.                    *)
LEMMA NothingLacks == LackedEdges({}) = {} /\ LackedNodes({}) = {}
  BY DEF LackedEdges, LackedNodes

(* Everything is lacking when the graph has been cleared.                  *)
LEMMA AllLacks ==
  GraphOf.edges = LackedEdges(Listed) /\ GraphOf.nodes = LackedNodes(Listed)
<1>1. \A r : Readable(r) => files[r] # None
  BY DEF Readable
<1>2. LackedEdges(Listed) = {e \in Links : Readable(e)}
  BY <1>1 DEF LackedEdges, Listed
<1>3. Listed \intersect Nodes = {n \in Nodes : files[n] # None}
  BY DEF Listed
<1> QED
  BY <1>2, <1>3 DEF GraphOf, LackedNodes

(* Adding a file makes up for what it lacks.                               *)
LEMMA AddedLacks ==
  ASSUME dg \in [nodes : SUBSET Nodes, edges : SUBSET Links],
         NEW rs \in SUBSET (Nodes \union Links), NEW r \in rs
  PROVE  /\ Added(dg, r) \in [nodes : SUBSET Nodes, edges : SUBSET Links]
         /\ Added(dg, r).edges \union LackedEdges(rs \ {r}) = dg.edges \union LackedEdges(rs)
         /\ Added(dg, r).nodes \union LackedNodes(rs \ {r}) = dg.nodes \union LackedNodes(rs)
<1>1. CASE r \in Nodes
  <2>1. r \notin Links
    BY <1>1
  <2>2. LackedEdges(rs \ {r}) = LackedEdges(rs)
    BY <2>1 DEF LackedEdges
  <2>3. Added(dg, r) = [nodes |-> dg.nodes \union {r}, edges |-> dg.edges]
    BY <1>1 DEF Added
  <2>4. {r} \union LackedNodes(rs \ {r}) = LackedNodes(rs)
    <3>1. rs \intersect Nodes = ((rs \ {r}) \intersect Nodes) \union {r}
      BY <1>1
    <3> QED
      BY <2>2, <3>1 DEF LackedNodes
  <2>5. Added(dg, r).edges = dg.edges /\ Added(dg, r).nodes = dg.nodes \union {r}
    BY <2>3
  <2>6. dg.nodes \union {r} \in SUBSET Nodes
    BY <1>1
  <2>7. Added(dg, r) \in [nodes : SUBSET Nodes, edges : SUBSET Links]
    BY <2>3, <2>6
  <2> QED
    BY <2>2, <2>4, <2>5, <2>7
<1>2. CASE r \notin Nodes /\ ~Readable(r)
  <2>1. LackedEdges(rs \ {r}) = LackedEdges(rs)
    BY <1>2 DEF LackedEdges
  <2>2. LackedNodes(rs \ {r}) = LackedNodes(rs)
    BY <1>2, <2>1 DEF LackedNodes
  <2> QED
    BY <1>2, <2>1, <2>2 DEF Added
<1>3. CASE r \notin Nodes /\ Readable(r)
  <2>1. r \in Links /\ r[1] \in Nodes /\ r[2] \in Nodes
    BY <1>3, LinkEnds
  <2>2. LackedEdges(rs) = LackedEdges(rs \ {r}) \union {r}
    BY <1>3, <2>1 DEF LackedEdges
  <2>3. LackedNodes(rs) = LackedNodes(rs \ {r}) \union {r[1], r[2]}
    <3>1. (rs \ {r}) \intersect Nodes = rs \intersect Nodes
      BY <1>3
    <3>2. {e[1] : e \in LackedEdges(rs)} = {e[1] : e \in LackedEdges(rs \ {r})} \union {r[1]}
      <4>1. \A e : e \in LackedEdges(rs) <=> (e \in LackedEdges(rs \ {r}) \/ e = r)
        BY <2>2
      <4> HIDE <2>2
      <4> QED
        BY <4>1
    <3>3. {e[2] : e \in LackedEdges(rs)} = {e[2] : e \in LackedEdges(rs \ {r})} \union {r[2]}
      BY <2>2
    <3> QED
      BY <3>1, <3>2, <3>3 DEF LackedNodes
  <2>4. Added(dg, r) = [nodes |-> dg.nodes \union {r[1], r[2]}, edges |-> dg.edges \union {r}]
    BY <1>3 DEF Added
  <2> QED
    BY <2>1, <2>2, <2>3, <2>4
<1> QED
  BY <1>1, <1>2, <1>3

-----------------------------------------------------------------------------
(* The invariant                                                           *)

LEMMA InitInv == Init => IInv
<1> SUFFICES ASSUME Init PROVE IInv
  OBVIOUS
<1>1. files \in [RID -> Versions \union {None, Torn}]
  <2>1. PICK S \in Start : files = [r \in RID |-> IF r \in S \union {Self} THEN 1 ELSE None]
    BY DEF Init
  <2> QED
    BY <2>1
<1>2. queue \in Seq(Given)
  <2>1. <<Self, 1>> \in Given
    BY DEF Given, RID, Nodes
  <2> QED
    BY <2>1 DEF Init
<1>3. TypeOK
  BY <1>1, <1>2, GraphOfType DEF Init, TypeOK, NoCall, CallStages
<1>4. CallShape(call)
  BY NoCallShape DEF Init
<1>5. GraphProgress
  BY DEF Init, GraphProgress, Settled, Down
<1> QED
  BY <1>3, <1>4, <1>5 DEF IInv

LEMMA NextInv == IInv /\ [Next]_vars => IInv'
<1> SUFFICES ASSUME IInv, [Next]_vars PROVE IInv'
  OBVIOUS
<1> USE DEF IInv
<1>1. CASE Push
  <2>1. PICK i \in Items : queue' = Append(queue, i)
    BY <1>1 DEF Push
  <2>2. i \in Given
    BY DEF Given
  <2>3. TypeOK'
    BY <1>1, <2>1, <2>2 DEF Push, TypeOK
  <2>4. CallShape(call)'
    BY <1>1 DEF Push
  <2>5. GraphProgress'
    BY <1>1 DEF Push, GraphProgress, Settled, Down, GraphOf, Readable, LackedEdges, LackedNodes
  <2> QED
    BY <2>3, <2>4, <2>5
<1>2. CASE Crash
  <2>1. <<Self, 1>> \in Given
    BY DEF Given, RID, Nodes
  <2>2. TypeOK'
    BY <1>2, <2>1, GraphOfType DEF Crash, TypeOK, NoCall, CallStages
  <2>3. CallShape(call)'
    BY <1>2, NoCallShape DEF Crash
  <2>4. GraphOf' = GraphOf
    BY <1>2, GraphUnchanged DEF Crash
  <2>5. GraphProgress'
    BY <1>2, <2>4 DEF Crash, GraphProgress, Settled, Down
  <2> QED
    BY <2>2, <2>3, <2>5
<1>3. CASE Open
  <2> DEFINE r == item'[1]
  <2>1. item' \in Given /\ queue' \in Seq(Given) /\ r \in RID
    BY <1>3 DEF Open, TypeOK, Given
  <2>2. UNCHANGED <<dg, todo, call>>
    BY <1>3 DEF Open
  <2>3. CASE ~Accepted(item')
    <3>1. pc' = "rest" /\ files' = files
      BY <1>3, <2>3 DEF Open
    <3>2. GraphOf' = GraphOf
      BY <3>1, GraphUnchanged
    <3> QED
      BY <1>3, <2>1, <2>2, <3>1, <3>2 DEF Open, TypeOK, GraphProgress, Settled, Down, CallShape
  <2>4. CASE Accepted(item') /\ item'[2] # None
    <3>1. pc' = "write" /\ files' = [files EXCEPT ![r] = Torn]
      BY <1>3, <2>4 DEF Open
    <3>2. files' \in [RID -> Versions \union {None, Torn}]
      BY <3>1 DEF TypeOK
    <3>3. r \in Objs => GraphOf' = GraphOf
      BY <3>1, GraphUnchanged DEF TypeOK
    <3>4. pc = "idle"
      BY <1>3 DEF Open
    <3> QED
      BY <2>1, <2>2, <3>1, <3>2, <3>3, <3>4 DEF TypeOK, GraphProgress, Settled, Down, CallShape
  <2>5. CASE Accepted(item') /\ item'[2] = None
    <3>1. pc' = AfterFile(r) /\ files' = [files EXCEPT ![r] = None]
      BY <1>3, <2>5 DEF Open, Deleted
    <3>2. files' \in [RID -> Versions \union {None, Torn}]
      BY <3>1 DEF TypeOK
    <3>3. r \in Objs => GraphOf' = GraphOf
      BY <3>1, GraphUnchanged DEF TypeOK
    <3>4. pc = "idle"
      BY <1>3 DEF Open
    <3> QED
      BY <2>1, <2>2, <3>1, <3>2, <3>3, <3>4 DEF TypeOK, GraphProgress, Settled, Down, AfterFile, CallShape
  <2> QED
    BY <2>3, <2>4, <2>5
<1>4. CASE Write
  <2> DEFINE r == item[1]
  <2>1. /\ pc' = AfterFile(r) /\ files' = [files EXCEPT ![r] = item[2]] /\ pc = "write"
        /\ UNCHANGED <<dg, queue, item, todo, call>>
    BY <1>4 DEF Write
  <2>2. r \in RID /\ item[2] \in Versions \union {None}
    BY <2>1 DEF TypeOK, Given
  <2>3. r \in Objs => GraphOf' = GraphOf
    BY <2>1, GraphUnchanged DEF TypeOK
  <2>4. TypeOK'
    BY <2>1, <2>2 DEF TypeOK, AfterFile
  <2>5. GraphProgress'
    BY <2>1, <2>3 DEF GraphProgress, Settled, Down, AfterFile
  <2> QED
    BY <2>1, <2>4, <2>5 DEF CallShape
<1>5. CASE Clear
  <2>1. /\ pc' = "add" /\ pc = "clear" /\ dg' = NoGraph /\ todo' = Listed
        /\ UNCHANGED <<files, queue, item, call>>
    BY <1>5 DEF Clear, Cleared
  <2>2. TypeOK'
    BY <2>1 DEF TypeOK, NoGraph, Listed
  <2>3. GraphOf' = GraphOf /\ LackedEdges(todo') = LackedEdges(todo)'  /\ LackedNodes(todo') = LackedNodes(todo)'
    BY <2>1 DEF GraphOf, Readable, LackedEdges, LackedNodes
  <2>4. GraphProgress'
    BY <2>1, <2>3, AllLacks DEF GraphProgress, Settled, Down, NoGraph
  <2> QED
    BY <2>1, <2>2, <2>4 DEF CallShape
<1>6. CASE Add
  <2>1. pc = "add" /\ UNCHANGED <<files, queue, item, call>>
    BY <1>6 DEF Add
  <2>2. GraphOf' = GraphOf
    BY <2>1, GraphUnchanged
  <2>3. CASE \E r \in todo : dg' = Added(dg, r) /\ todo' = todo \ {r} /\ UNCHANGED pc
    <3>1. PICK r \in todo : dg' = Added(dg, r) /\ todo' = todo \ {r} /\ UNCHANGED pc
      BY <2>3
    <3>2. /\ Added(dg, r) \in [nodes : SUBSET Nodes, edges : SUBSET Links]
          /\ Added(dg, r).edges \union LackedEdges(todo \ {r}) = dg.edges \union LackedEdges(todo)
          /\ Added(dg, r).nodes \union LackedNodes(todo \ {r}) = dg.nodes \union LackedNodes(todo)
      BY AddedLacks DEF TypeOK
    <3>3. LackedEdges(todo)' = LackedEdges(todo \ {r}) /\ LackedNodes(todo)' = LackedNodes(todo \ {r})
      BY <2>1, <3>1 DEF LackedEdges, LackedNodes, Readable
    <3>4. TypeOK'
      BY <2>1, <3>1, <3>2 DEF TypeOK
    <3>5. GraphProgress'
      BY <2>1, <2>2, <3>1, <3>2, <3>3 DEF GraphProgress, Settled, Down
    <3> QED
      BY <2>1, <3>4, <3>5 DEF CallShape
  <2>4. CASE todo = {} /\ pc' = "rest" /\ UNCHANGED <<dg, todo>>
    <3>1. dg.edges = GraphOf.edges /\ dg.nodes = GraphOf.nodes
      BY <2>1, <2>4, NothingLacks DEF GraphProgress, Settled, Down
    <3>2. dg = GraphOf
      BY <3>1, GraphOfType DEF TypeOK
    <3> QED
      BY <2>1, <2>2, <2>4, <3>2 DEF TypeOK, GraphProgress, Settled, Down, CallShape
  <2> QED
    BY <1>6, <2>3, <2>4 DEF Add
<1>7. CASE TaskDone
  <2>1. /\ pc = "rest" /\ pc' = "idle"
        /\ UNCHANGED <<files, dg, queue, todo, call>>
    BY <1>7 DEF TaskDone
  <2>2. GraphOf' = GraphOf
    BY <2>1, GraphUnchanged
  <2> QED
    BY <2>1, <2>2 DEF TypeOK, GraphProgress, Settled, CallShape
<1>11. CASE WorkerFails
  <2>1. pc' = "failed" /\ UNCHANGED <<files, dg, todo, call>>
    BY <1>11 DEF WorkerFails
  <2>2. GraphOf' = GraphOf
    BY <2>1, GraphUnchanged
  <2>3. item' \in Given /\ queue' \in Seq(Given)
    <3>1. CASE queue # <<>> /\ item' = Head(queue) /\ queue' = Tail(queue)
      <4>1. queue \in Seq(Given) /\ Len(queue) > 0
        BY <3>1 DEF TypeOK
      <4>2. Head(queue) = queue[1] /\ queue[1] \in Given /\ Tail(queue) \in Seq(Given)
        BY <4>1
      <4> QED
        BY <3>1, <4>2
    <3>2. CASE pc \in {"write", "clear", "add", "rest"} /\ UNCHANGED <<item, queue>>
      BY <3>2 DEF TypeOK
    <3> QED
      BY <1>11, <3>1, <3>2 DEF WorkerFails
  <2>4. TypeOK'
    BY <2>1, <2>3 DEF TypeOK, Down
  <2>5. pc = "idle" \/ (pc \in {"write", "clear", "add", "rest"} /\ item' = item)
    BY <1>11, Zenon DEF WorkerFails
  <2>6. GraphProgress'
    BY <2>1, <2>2, <2>5 DEF GraphProgress, Settled, Down
  <2> QED
    BY <2>1, <2>4, <2>6 DEF CallShape
<1>12. CASE RaiseSignal \/ ShutdownEnds
  <2>1. pc \in Down /\ pc' \in Down /\ UNCHANGED <<files, dg, queue, item, todo, call>>
    BY <1>12 DEF RaiseSignal, ShutdownEnds, Down
  <2>2. GraphOf' = GraphOf
    BY <2>1, GraphUnchanged
  <2>3. TypeOK'
    BY <2>1 DEF TypeOK, Down
  <2>4. GraphProgress'
    BY <2>1, <2>2 DEF GraphProgress, Settled, Down
  <2> QED
    BY <2>1, <2>3, <2>4 DEF CallShape
<1>8. CASE ProfileDone \/ Call \/ UNCHANGED vars
  <2>1. UNCHANGED <<files, dg, queue, pc, item, todo>>
    BY <1>8 DEF ProfileDone, Call, worker, vars
  <2>2. CallShape(call)'
    <3>1. CASE Call
      <4>1. PICK k \in Kinds : \E s \in FirstStep[k] : call' = [NoCall EXCEPT !.kind = k, !.pc = s]
        BY <3>1 DEF Call
      <4>2. PICK s \in FirstStep[k] : call' = [NoCall EXCEPT !.kind = k, !.pc = s]
        BY <4>1
      <4>3. s \in {"out", "in", "list", "cache", "handler"}
        <5>1. k \in {"poll", "catchup", "deref", "serve"}
          OBVIOUS
        <5> QED
          BY <4>2, <5>1 DEF FirstStep
      <4> QED
        BY <4>2, <4>3 DEF CallShape, NoCall, CallStages
    <3> QED
      BY <1>8, <3>1 DEF ProfileDone, vars, CallShape
  <2>3. GraphProgress'
    BY <2>1 DEF GraphProgress, Settled, Down, GraphOf, Readable, LackedEdges, LackedNodes
  <2> QED
    BY <2>1, <2>2, <2>3 DEF TypeOK, CallShape
<1>9. CASE Reading /\ ~PushResult
  <2>1. CallShape(call') /\ UNCHANGED <<files, dg, queue, pc, item, todo>>
    BY <1>9, ReaderShape DEF Reading
  <2>2. GraphProgress'
    BY <2>1 DEF GraphProgress, Settled, Down, GraphOf, Readable, LackedEdges, LackedNodes
  <2> QED
    BY <2>1, <2>2 DEF TypeOK, CallShape
<1>10. CASE PushResult
  <2>1. PICK x \in Objs, v \in call.todo :
          /\ queue' = Append(queue, <<x, v>>)
          /\ \/ Ends("queued", {<<x, v>>})
             \/ call' = [call EXCEPT !.pc = "wait", !.todo = {<<x, v>>}, !.got = {}]
    BY <1>10 DEF PushResult
  <2>2. <<x, v>> \in Given
    BY <1>10 DEF PushResult, CallShape, Given, RID
  <2>3. CallShape(call')
    BY <2>1 DEF CallShape, Ends, CallStages, Over
  <2>4. UNCHANGED <<files, dg, pc, item, todo>>
    BY <1>10 DEF PushResult
  <2>5. TypeOK'
    BY <2>1, <2>2, <2>3, <2>4 DEF TypeOK, CallShape
  <2>6. GraphProgress'
    BY <2>4 DEF GraphProgress, Settled, Down, GraphOf, Readable, LackedEdges, LackedNodes
  <2> QED
    BY <2>3, <2>5, <2>6 DEF CallShape
<1> QED
  BY <1>1, <1>2, <1>3, <1>4, <1>5, <1>6, <1>7, <1>8, <1>9, <1>10, <1>11, <1>12 DEF Next, Worker

LEMMA InvHolds == Spec => []IInv
  BY InitInv, NextInv, PTL DEF Spec

(* TypeOK, for every network, knowledge and bound.                         *)
THEOREM TypeInvariant == Spec => []TypeOK
<1>1. IInv => TypeOK
  BY DEF IInv
<1> QED
  BY <1>1, InvHolds, PTL

(* GraphCatchesUp: whatever is written, deleted, cut off by a crash, or    *)
(* read meanwhile, the graph that generate leaves is that of the files.    *)
THEOREM GraphTheorem == Spec => []GraphCatchesUp
<1>1. IInv => GraphCatchesUp
  BY DEF IInv, GraphProgress, Settled, Down, GraphCatchesUp
<1> QED
  BY <1>1, InvHolds, PTL


-----------------------------------------------------------------------------
(* What a call has seen                                                    *)

(* The stages of each kind of call.                                        *)
StagesOf(k) ==
  CASE k = "poll"    -> {"out", "in", "data", "links", "profiles", "fetch", "polled", "raised"}
    [] k = "catchup" -> {"in", "data", "links", "profiles", "ask", "fetch", "missed", "raised"}
    [] k = "deref"   -> {"cache", "handler", "nodes", "profiles", "fetch", "push", "wait",
                         "missed", "raised", "hit", "failed", "queued", "written"}
    [] k = "serve"   -> {"list", "read", "answer"}

Staged(c) ==
  c = NoCall \/ (c.kind \in {"poll", "catchup", "deref", "serve"} /\ c.pc \in StagesOf(c.kind))

(* A loop that has nothing left to do has not begun, and nobody is asked   *)
(* before the nodes are known.                                             *)
Untouched(c) ==
  /\ c.pc \in {"out", "in", "data", "links", "nodes", "profiles", "cache", "handler"} => c.at = None
  /\ c.pc \in {"out", "list", "cache", "handler", "nodes"} => c.todo = {}
  /\ c.pc \in {"out", "in", "list", "cache", "handler", "nodes"} => c.got = {}
  /\ (c.pc \in {"data", "links", "read"} /\ c.todo = {}) => c.got = {}
  /\ (c.pc = "profiles" /\ c.kind # "catchup" /\ c.todo = {}) => c.got = {}
  /\ (c.pc = "fetch" /\ c.kind = "poll") => c.got = {}

(* Nothing the worker is given touches the node's own profile.             *)
SelfFile ==
  /\ files[Self] = 1
  /\ \A i \in 1..Len(queue) : queue[i][1] = Self => queue[i][2] = 1
  /\ pc = "write" => item[1] # Self /\ item[2] \in Versions

(* The history holds the files of the moment, and nothing else as long as  *)
(* nothing has changed; the graph is then that of the files.               *)
History ==
  call # NoCall =>
    /\ Now(files) \subseteq seen.files
    /\ seen.calm => seen.files = Now(files) /\ dg = GraphOf

Own == {e \in Links : Self \in {e[1], e[2]}}

Other(e) == IF e[2] = Self THEN e[1] ELSE e[2]

WantedBy(c) == IF c.kind = "deref" THEN Providers ELSE Full

Manifest(f) == IF f[2] = None THEN Missing(f[1]) ELSE f[2] \in Versions /\ f \in seen.files

(* What a call has found was there, at some time since it began.           *)
Sound(c) ==
  /\ c.pc \in {"out", "in", "data"} => c.todo \union c.got \subseteq Own
  /\ c.pc = "links" => c.todo \subseteq Own /\ \A n \in c.got : n \in Peers /\ Linked(n)
  /\ c.pc \in {"profiles", "ask"} =>
       /\ c.todo \subseteq Peers
       /\ \A n \in c.got : n \in WantedBy(c) /\ Held(n)
       /\ c.kind # "deref" => \A n \in c.todo \union c.got : Linked(n)
  /\ c.pc = "fetch" =>
       /\ c.todo \subseteq Peers
       /\ \A n \in c.got : n \in WantedBy(c) /\ Held(n)
       /\ c.kind # "catchup" => \A n \in c.todo : n \in WantedBy(c) /\ Held(n)
       /\ c.kind = "catchup" => \A n \in c.todo \union c.got : Linked(n)
       /\ c.kind = "poll" => \A n \in c.todo \union c.got : Linked(n)
  /\ (c.pc \in {"ask", "fetch"} /\ c.at # None) => c.at \in c.got
  /\ c.pc = "polled" => \A n \in c.got \ {FirstContact} : Linked(n) /\ Held(n)
  /\ c.pc = "missed" => \A n \in c.got : n \in WantedBy(c) /\ Held(n)
  /\ (c.pc = "raised" /\ c.kind # "poll") =>
         \/ ~seen.calm
         \/ \E n \in Peers : <<n, Torn>> \in seen.files
         \/ c.kind = "catchup" /\ \E n \in Peers : Missing(n) /\ Linked(n)
  /\ c.pc = "read" =>
       /\ c.at \subseteq RID /\ c.todo \subseteq c.at
       /\ \A f \in c.got : Manifest(f)
  /\ c.pc = "answer" => c.at \subseteq RID /\ \A f \in c.todo : Manifest(f)

(* When nothing changed, what is there has been found or will be.          *)
Complete(c) ==
  /\ c.kind = "poll" =>
       /\ c.pc = "in" => \A e \in Own : (Held(e) /\ e[1] = Self) => e \in c.todo
       /\ c.pc = "data" => \A e \in Own : Held(e) => e \in c.todo \union c.got
       /\ c.pc = "links" => \A e \in Own : Held(e) => (e \in c.todo \/ Other(e) \in c.got)
       /\ c.pc = "profiles" =>
            \A n \in Full : (Linked(n) /\ Held(n)) => n \in c.todo \union c.got
       /\ c.pc = "fetch" => \A n \in Full : (Linked(n) /\ Held(n)) => n \in c.todo
       /\ c.pc = "polled" => \A n \in Full : (Linked(n) /\ Held(n)) => n \in c.got
       /\ c.pc # "raised"
  /\ c.kind = "deref" =>
       /\ c.pc = "profiles" => \A n \in c.todo : files[n] # None
       /\ c.pc \in {"profiles", "fetch"} =>
            \A n \in Providers : Held(n) => n \in c.todo \union c.got
       /\ c.pc = "missed" => \A n \in Providers : Held(n) => n \in c.got
  /\ c.pc = "read" => \A r \in c.at : Readable(r) => (r \in c.todo \/ <<r, files[r]>> \in c.got)
  /\ c.pc = "answer" => \A r \in c.at : Readable(r) => <<r, files[r]>> \in c.todo

(* A call, as the files it has seen justify it.                            *)
Justified(c) ==
  Staged(c) /\ Untouched(c) /\ Sound(c) /\ ((c # NoCall /\ seen.calm) => Complete(c))

WInv == IInv /\ SelfFile /\ History /\ Justified(call)

-----------------------------------------------------------------------------
(* The other end of an edge of this node is another node.                  *)
LEMMA OtherEnd ==
  \A e \in Own : /\ Other(e) \in Peers
                 /\ Held(e) => Linked(Other(e))
                 /\ \A n \in Peers : n \in {e[1], e[2]} => n = Other(e)
<1> SUFFICES ASSUME NEW e \in Own
             PROVE  /\ Other(e) \in Peers
                    /\ Held(e) => Linked(Other(e))
                    /\ \A n \in Peers : n \in {e[1], e[2]} => n = Other(e)
  OBVIOUS
<1>1. e \in Links /\ Self \in {e[1], e[2]}
  BY DEF Own
<1>2. e[1] \in Nodes /\ e[2] \in Nodes /\ e[1] # e[2]
  BY <1>1
<1>3. Other(e) \in Peers /\ Other(e) \in {e[1], e[2]}
  BY <1>1, <1>2 DEF Other, Nodes
<1>4. Held(e) => Linked(Other(e))
  BY <1>1, <1>3 DEF Linked
<1>5. \A n \in Peers : n \in {e[1], e[2]} => n = Other(e)
  BY <1>1, <1>2 DEF Other
<1> QED
  BY <1>3, <1>4, <1>5

(* The files of the moment are in the history.                             *)
LEMMA SeenNow ==
  ASSUME TypeOK, History, call # NoCall, NEW r \in RID
  PROVE  /\ <<r, files[r]>> \in seen.files
         /\ Readable(r) => Held(r)
         /\ ~Readable(r) => Missing(r)
<1>1. <<r, files[r]>> \in seen.files
  BY DEF History, Now
<1>2. files[r] \in Versions \union {None, Torn}
  BY DEF TypeOK
<1> QED
  BY <1>1, <1>2 DEF Held, Missing, Readable

(* As long as nothing has changed the history is the moment, and the graph *)
(* is that of the files.                                                   *)
LEMMA CalmNow ==
  ASSUME IInv, SelfFile, History, call # NoCall, seen.calm
  PROVE  /\ \A r \in RID : Held(r) <=> Readable(r)
         /\ \A r \in RID : <<r, files[r]>> \in seen.files
         /\ \A e \in Links : Held(e) <=> e \in dg.edges
         /\ Self \in dg.nodes
<1>1. seen.files = Now(files) /\ dg = GraphOf
  BY DEF History
<1>2. \A r \in RID : <<r, files[r]>> \in seen.files
  BY <1>1 DEF Now
<1>3. ASSUME NEW r \in RID PROVE Held(r) <=> Readable(r)
  <2>1. \A v \in Versions : (<<r, v>> \in seen.files) <=> (v = files[r])
    BY <1>1 DEF Now
  <2> QED
    BY <2>1, Zenon DEF Held, Readable
<1>4. \A e \in Links : Held(e) <=> e \in dg.edges
  BY <1>1, <1>3 DEF GraphOf, RID
<1>5. Self \in dg.nodes
  BY <1>1 DEF GraphOf, SelfFile, Nodes
<1> QED
  BY <1>2, <1>3, <1>4, <1>5

-----------------------------------------------------------------------------
(* A call that is at one of its stages.                                    *)
LEMMA NotNone == \A c : c.pc # "none" => c # NoCall
  BY DEF NoCall

LEMMA AtStage ==
  ASSUME Justified(call), call.pc # "none"
  PROVE  /\ call # NoCall /\ call.pc \in StagesOf(call.kind)
         /\ call.kind \in {"poll", "catchup", "deref", "serve"}
  BY NotNone DEF Justified, Staged

(* The call goes on to stage s, with what it goes through and has found.   *)
Goes(s, t, g) ==
  /\ call'.kind = call.kind /\ call'.pc = s
  /\ call'.todo = t /\ call'.got = g /\ call'.at = call.at

LEMMA Advance ==
  ASSUME CallShape(call), NEW s, NEW t, NEW g
  PROVE  /\ call' = [call EXCEPT !.pc = s, !.todo = t, !.got = g] => Goes(s, t, g)
         /\ call' = [call EXCEPT !.pc = s, !.todo = t] => Goes(s, t, call.got)
         /\ call' = [call EXCEPT !.todo = t, !.got = g] => Goes(call.pc, t, g)
         /\ call' = [call EXCEPT !.pc = s] => Goes(s, call.todo, call.got)
  BY DEF CallShape, Goes

LEMMA Ended ==
  ASSUME CallShape(call), NEW s, NEW g
  PROVE  /\ Ends(s, g) => (call'.kind = call.kind /\ call'.pc = s /\ call'.got = g)
         /\ Raises => (call'.kind = call.kind /\ call'.pc = "raised")
  BY DEF CallShape, Ends, Raises

-----------------------------------------------------------------------------
(* The walk of the edges                                                   *)

LEMMA OutStep ==
  ASSUME WInv, OutEdges PROVE Justified(call')
<1>1. /\ call.pc = "out" /\ call # NoCall /\ call.kind = "poll"
      /\ call.got = {} /\ call.todo = {} /\ call.at = None
  <2>1. call.pc = "out"
    BY DEF OutEdges, At
  <2> QED
    BY <2>1, AtStage DEF WInv, StagesOf, Justified, Untouched
<1>2. CASE dg.edges # {} /\ Self \notin dg.nodes
  <2>1. call'.kind = call.kind /\ call'.pc = "raised"
    BY <1>2, Ended DEF OutEdges, EdgesOf, WInv, IInv
  <2>2. ~seen.calm
    BY <1>1, <1>2, CalmNow DEF WInv
  <2> QED
    BY <1>1, <2>1, <2>2 DEF Justified, Staged, StagesOf, Untouched, Sound
<1>3. CASE ~(dg.edges # {} /\ Self \notin dg.nodes)
  <2> DEFINE es == {e \in dg.edges : e[1] = Self}
  <2>1. Goes("in", call.todo \union es, call.got)
    BY <1>3, Advance DEF OutEdges, EdgesOf, WInv, IInv
  <2>2. es \subseteq Own
    BY DEF WInv, IInv, TypeOK, Own
  <2>3. seen.calm => \A e \in Own : (Held(e) /\ e[1] = Self) => e \in es
    BY <1>1, CalmNow DEF WInv, Own
  <2> HIDE DEF es
  <2>4. Staged(call') /\ Untouched(call')
    BY <1>1, <2>1 DEF Goes, Staged, StagesOf, Untouched
  <2>5. Sound(call')
    BY <1>1, <2>1, <2>2 DEF Goes, Sound
  <2>6. seen.calm => Complete(call')
    BY <1>1, <2>1, <2>3 DEF Goes, Complete
  <2> QED
    BY <2>4, <2>5, <2>6 DEF Justified
<1> QED
  BY <1>2, <1>3

LEMMA InStep ==
  ASSUME WInv, InEdges PROVE Justified(call')
<1>1. /\ call.pc = "in" /\ call # NoCall /\ call.kind \in {"poll", "catchup"}
      /\ call.got = {} /\ call.todo \subseteq Own /\ call.at = None
  <2>1. call.pc = "in"
    BY DEF InEdges, At
  <2> QED
    BY <2>1, AtStage DEF WInv, StagesOf, Justified, Untouched, Sound
<1>2. CASE dg.edges # {} /\ Self \notin dg.nodes
  <2>1. call'.kind = call.kind /\ call'.pc = "raised"
    BY <1>2, Ended DEF InEdges, EdgesOf, WInv, IInv
  <2>2. ~seen.calm
    BY <1>1, <1>2, CalmNow DEF WInv
  <2> QED
    BY <1>1, <2>1, <2>2 DEF Justified, Staged, StagesOf, Untouched, Sound
<1>3. CASE ~(dg.edges # {} /\ Self \notin dg.nodes)
  <2> DEFINE es == {e \in dg.edges : e[2] = Self}
  <2>1. Goes("data", call.todo \union es, call.got)
    BY <1>3, Advance DEF InEdges, EdgesOf, WInv, IInv
  <2>2. es \subseteq Own
    BY DEF WInv, IInv, TypeOK, Own
  <2>3. (seen.calm /\ call.kind = "poll") => \A e \in Own : Held(e) => e \in call.todo \union es
    BY <1>1, CalmNow DEF WInv, Own, Justified, Complete
  <2> HIDE DEF es
  <2>4. Staged(call') /\ Untouched(call')
    BY <1>1, <2>1 DEF Goes, Staged, StagesOf, Untouched
  <2>5. Sound(call')
    BY <1>1, <2>1, <2>2 DEF Goes, Sound
  <2>6. seen.calm => Complete(call')
    BY <1>1, <2>1, <2>3 DEF Goes, Complete
  <2> QED
    BY <2>4, <2>5, <2>6 DEF Justified
<1> QED
  BY <1>2, <1>3

(* One round of the loop over the edges, whose data are asked for.         *)
LEMMA DataStep ==
  ASSUME WInv, EdgeData PROVE Justified(call')
<1>1. call.pc = "data" /\ call # NoCall /\ call.kind \in {"poll", "catchup"}
  <2>1. call.pc = "data"
    BY DEF EdgeData, Each, At
  <2> QED
    BY <2>1, AtStage DEF WInv, StagesOf
<1>2. /\ call.todo \union call.got \subseteq Own /\ call.at = None
      /\ call.todo = {} => call.got = {}
      /\ (call.kind = "poll" /\ seen.calm) => \A e \in Own : Held(e) => e \in call.todo \union call.got
  BY <1>1 DEF WInv, Justified, Untouched, Sound, Complete
<1>3. CASE call.todo = {}
  <2>1. Goes("links", call.todo, call.got)
    BY <1>3, Advance DEF EdgeData, Each, WInv, IInv
  <2> QED
    BY <1>1, <1>2, <1>3, <2>1 DEF Goes, Justified, Staged, StagesOf, Untouched, Sound, Complete
<1>4. CASE call.todo # {}
  <2>1. PICK e \in call.todo :
          LET found == call.got \union ({e} \intersect dg.edges)
          IN  IF call.todo = {e}
              THEN call' = [call EXCEPT !.pc = "links", !.todo = found, !.got = {}]
              ELSE call' = [call EXCEPT !.todo = call.todo \ {e}, !.got = found]
    BY <1>4 DEF EdgeData, Each, Never
  <2> DEFINE found == call.got \union ({e} \intersect dg.edges)
  <2>2. found \subseteq Own
    BY <1>2
  <2>3. (call.kind = "poll" /\ seen.calm) =>
           \A l \in Own : Held(l) => l \in (call.todo \ {e}) \union found
    BY <1>1, <1>2, CalmNow DEF WInv, Own
  <2>4. CASE call.todo = {e}
    <3>1. Goes("links", found, {})
      BY <2>1, <2>4, Advance DEF WInv, IInv
    <3>2. (call.kind = "poll" /\ seen.calm) => \A l \in Own : Held(l) => l \in found
      BY <2>3, <2>4
    <3> HIDE DEF found
    <3> QED
      BY <1>1, <1>2, <2>2, <3>1, <3>2 DEF Goes, Justified, Staged, StagesOf, Untouched, Sound, Complete
  <2>5. CASE call.todo # {e}
    <3>1. Goes("data", call.todo \ {e}, found)
      BY <1>1, <2>1, <2>5, Advance DEF WInv, IInv
    <3>2. call.todo \ {e} # {}
      BY <2>5
    <3> HIDE DEF found
    <3> QED
      BY <1>1, <1>2, <2>2, <2>3, <3>1, <3>2
         DEF Goes, Justified, Staged, StagesOf, Untouched, Sound, Complete
  <2> QED
    BY <2>4, <2>5
<1> QED
  BY <1>3, <1>4

(* One round of the loop over the edges, whose profiles are read.          *)
LEMMA LinksStep ==
  ASSUME WInv, ReadEdges PROVE Justified(call')
<1>1. call.pc = "links" /\ call # NoCall /\ call.kind \in {"poll", "catchup"}
  <2>1. call.pc = "links"
    BY DEF ReadEdges, Each, At
  <2> QED
    BY <2>1, AtStage DEF WInv, StagesOf
<1>2. /\ call.todo \subseteq Own /\ call.at = None
      /\ \A n \in call.got : n \in Peers /\ Linked(n)
      /\ call.todo = {} => call.got = {}
      /\ (call.kind = "poll" /\ seen.calm) =>
           \A e \in Own : Held(e) => (e \in call.todo \/ Other(e) \in call.got)
  BY <1>1 DEF WInv, Justified, Untouched, Sound, Complete
<1>3. CASE call.todo = {}
  <2>1. Goes("profiles", call.todo, call.got)
    BY <1>3, Advance DEF ReadEdges, Each, WInv, IInv
  <2>2. (call.kind = "poll" /\ seen.calm) => \A n \in Peers : ~Linked(n)
    BY <1>2, <1>3 DEF Linked, Own
  <2>3. Full \subseteq Peers
    OBVIOUS
  <2> QED
    BY <1>1, <1>2, <1>3, <2>1, <2>2, <2>3
       DEF Goes, Justified, Staged, StagesOf, Untouched, Sound, Complete
<1>4. CASE call.todo # {}
  <2>1. PICK e \in call.todo :
          LET found == call.got \union NeighborBy(e)
          IN  IF call.todo = {e}
              THEN call' = [call EXCEPT !.pc = "profiles", !.todo = found, !.got = {}]
              ELSE call' = [call EXCEPT !.todo = call.todo \ {e}, !.got = found]
    BY <1>4 DEF ReadEdges, Each, Never
  <2> DEFINE found == call.got \union NeighborBy(e)
  <2>2. e \in Own /\ e \in RID
    BY <1>2 DEF Own, RID
  <2>3. NeighborBy(e) = IF Readable(e) THEN {Other(e)} ELSE {}
    BY DEF NeighborBy, Other
  <2>4. \A n \in found : n \in Peers /\ Linked(n)
    <3>1. Readable(e) => Held(e)
      BY <1>1, <2>2, SeenNow DEF WInv, IInv
    <3> QED
      BY <1>2, <2>2, <2>3, <3>1, OtherEnd
  <2>5. (call.kind = "poll" /\ seen.calm) =>
           \A l \in Own : Held(l) => (l \in call.todo \ {e} \/ Other(l) \in found)
    <3>1. seen.calm => (Held(e) <=> Readable(e))
      BY <1>1, <2>2, CalmNow DEF WInv
    <3> QED
      BY <1>2, <2>3, <3>1
  <2>6. CASE call.todo = {e}
    <3>1. Goes("profiles", found, {})
      BY <2>1, <2>6, Advance DEF WInv, IInv
    <3> HIDE DEF found
    <3>2. (call.kind = "poll" /\ seen.calm) => \A n \in Full : Linked(n) => n \in found
      <4> SUFFICES ASSUME call.kind = "poll", seen.calm, NEW n \in Full, Linked(n)
                   PROVE  n \in found
        OBVIOUS
      <4>1. PICK l \in Links : Held(l) /\ Self \in {l[1], l[2]} /\ n \in {l[1], l[2]}
        BY DEF Linked
      <4>2. l \in Own /\ n \in Peers
        BY <4>1 DEF Own
      <4> QED
        BY <2>5, <2>6, <4>1, <4>2, OtherEnd
    <3>3. Staged(call') /\ Untouched(call')
      BY <1>1, <1>2, <3>1 DEF Goes, Staged, StagesOf, Untouched
    <3>4. Sound(call')
      BY <1>1, <2>4, <3>1 DEF Goes, Sound
    <3>5. seen.calm => Complete(call')
      BY <1>1, <3>1, <3>2 DEF Goes, Complete
    <3> QED
      BY <3>3, <3>4, <3>5 DEF Justified
  <2>7. CASE call.todo # {e}
    <3>1. Goes("links", call.todo \ {e}, found)
      BY <1>1, <2>1, <2>7, Advance DEF WInv, IInv
    <3>2. call.todo \ {e} # {}
      BY <2>7
    <3> HIDE DEF found
    <3> QED
      BY <1>1, <1>2, <2>4, <2>5, <3>1, <3>2
         DEF Goes, Justified, Staged, StagesOf, Untouched, Sound, Complete
  <2> QED
    BY <2>6, <2>7
<1> QED
  BY <1>3, <1>4

LEMMA NodesStep ==
  ASSUME WInv, ListNodes PROVE Justified(call')
<1>1. /\ call.pc = "nodes" /\ call # NoCall /\ call.kind = "deref"
      /\ call.got = {} /\ call.at = None
  <2>1. call.pc = "nodes"
    BY DEF ListNodes, At
  <2> QED
    BY <2>1, AtStage DEF WInv, StagesOf, Justified, Untouched
<1>2. Goes("profiles", KnownNodes, call.got)
  BY Advance DEF ListNodes, WInv, IInv
<1>3. /\ KnownNodes \subseteq Peers
      /\ \A n \in KnownNodes : files[n] # None
  BY DEF KnownNodes
<1>4. seen.calm => \A n \in Providers : Held(n) => n \in KnownNodes
  <2>1. \A n \in Providers : n \in Peers /\ n \in RID
    BY DEF RID, Nodes
  <2> QED
    BY <1>1, <2>1, CalmNow DEF WInv, KnownNodes, Readable
<1> QED
  BY <1>1, <1>2, <1>3, <1>4 DEF Goes, Justified, Staged, StagesOf, Untouched, Sound, Complete

-----------------------------------------------------------------------------
(* The nodes: their profiles are read, then they are asked                 *)

LEMMA WantedPeers == Wanted = WantedBy(call) /\ Wanted \subseteq Peers
  BY DEF Wanted, WantedBy

LEMMA ProfilesStep ==
  ASSUME WInv, ReadProfiles PROVE Justified(call')
<1>1. call.pc = "profiles" /\ call # NoCall /\ call.kind \in {"poll", "deref"}
  <2>1. call.pc = "profiles" /\ call.kind # "catchup"
    BY DEF ReadProfiles, Each, At
  <2> QED
    BY <2>1, AtStage DEF WInv, StagesOf
<1>2. /\ call.todo \subseteq Peers /\ call.at = None
      /\ \A n \in call.got : n \in Wanted /\ Held(n)
      /\ call.kind # "deref" => \A n \in call.todo \union call.got : Linked(n)
      /\ call.todo = {} => call.got = {}
  BY <1>1, WantedPeers DEF WInv, Justified, Untouched, Sound
<1>3. seen.calm =>
        /\ call.kind = "poll" =>
             \A n \in Full : (Linked(n) /\ Held(n)) => n \in call.todo \union call.got
        /\ call.kind = "deref" =>
             /\ \A n \in call.todo : files[n] # None
             /\ \A n \in Providers : Held(n) => n \in call.todo \union call.got
  BY <1>1 DEF WInv, Justified, Complete
<1>4. CASE call.todo = {}
  <2>1. Goes("fetch", call.todo, call.got)
    BY <1>4, Advance DEF ReadProfiles, Each, WInv, IInv
  <2> QED
    BY <1>1, <1>2, <1>3, <1>4, <2>1, WantedPeers
       DEF Goes, Justified, Staged, StagesOf, Untouched, Sound, Complete, WantedBy
<1>5. CASE call.todo # {}
  <2>1. PICK n \in call.todo :
          LET found == call.got \union (IF Readable(n) /\ n \in Wanted THEN {n} ELSE {})
          IN  IF call.kind # "poll" /\ ~Readable(n) THEN Raises
              ELSE IF call.todo = {n}
              THEN call' = [call EXCEPT !.pc = "fetch", !.todo = found, !.got = {}]
              ELSE call' = [call EXCEPT !.todo = call.todo \ {n}, !.got = found]
    BY <1>5 DEF ReadProfiles, Each
  <2>2. n \in Peers /\ n \in RID
    BY <1>2 DEF RID, Nodes
  <2>3. /\ <<n, files[n]>> \in seen.files
        /\ Readable(n) => Held(n)
        /\ ~Readable(n) => Missing(n)
    BY <1>1, <2>2, SeenNow DEF WInv, IInv
  <2>4. CASE call.kind # "poll" /\ ~Readable(n)
    <3>1. call'.kind = call.kind /\ call'.pc = "raised"
      BY <2>1, <2>4, Ended DEF WInv, IInv
    <3>2. seen.calm => <<n, Torn>> \in seen.files
      <4>1. files[n] \in {None, Torn}
        BY <2>2, <2>4 DEF WInv, IInv, TypeOK, Readable
      <4> QED
        BY <1>1, <1>3, <2>3, <2>4, <4>1
    <3> QED
      BY <1>1, <2>2, <2>4, <3>1, <3>2
         DEF Justified, Staged, StagesOf, Untouched, Sound, Complete
  <2>5. CASE ~(call.kind # "poll" /\ ~Readable(n))
    <3> DEFINE found == call.got \union (IF Readable(n) /\ n \in Wanted THEN {n} ELSE {})
    <3>1. \A m \in found : m \in Wanted /\ Held(m)
      BY <1>2, <2>3
    <3>2. call.kind # "deref" => \A m \in found : Linked(m)
      BY <1>2
    <3>3. seen.calm => (Held(n) <=> Readable(n))
      BY <1>1, <2>2, CalmNow DEF WInv
    <3>4. (seen.calm /\ call.kind = "poll") =>
             \A m \in Full : (Linked(m) /\ Held(m)) => m \in (call.todo \ {n}) \union found
      BY <1>3, <3>3 DEF Wanted
    <3>5. (seen.calm /\ call.kind = "deref") =>
             \A m \in Providers : Held(m) => m \in (call.todo \ {n}) \union found
      BY <1>3, <3>3 DEF Wanted
    <3>6. CASE call.todo = {n}
      <4>1. Goes("fetch", found, {})
        BY <2>1, <2>5, <3>6, Advance DEF WInv, IInv
      <4>2. call.todo \ {n} = {}
        BY <3>6
      <4> HIDE DEF found
      <4> QED
        BY <1>1, <1>2, <3>1, <3>2, <3>4, <3>5, <4>1, <4>2, WantedPeers
           DEF Goes, Justified, Staged, StagesOf, Untouched, Sound, Complete, WantedBy
    <3>7. CASE call.todo # {n}
      <4>1. Goes("profiles", call.todo \ {n}, found)
        BY <1>1, <2>1, <2>5, <3>7, Advance DEF WInv, IInv
      <4>2. call.todo \ {n} # {}
        BY <3>7
      <4> HIDE DEF found
      <4> QED
        BY <1>1, <1>2, <1>3, <3>1, <3>2, <3>4, <3>5, <4>1, <4>2, WantedPeers
           DEF Goes, Justified, Staged, StagesOf, Untouched, Sound, Complete, WantedBy
    <3> QED
      BY <3>6, <3>7
  <2> QED
    BY <2>4, <2>5
<1> QED
  BY <1>4, <1>5

(* The catch-up reads a profile, and asks a full node before the next.     *)
LEMMA NextProfileStep ==
  ASSUME WInv, NextProfile PROVE Justified(call')
<1>1. call.pc = "profiles" /\ call # NoCall /\ call.kind = "catchup" /\ Wanted = Full
  <2>1. call.pc = "profiles" /\ call.kind = "catchup"
    BY DEF NextProfile, At
  <2> QED
    BY <2>1, NotNone DEF Wanted
<1>2. /\ call.todo \subseteq Peers /\ call.at = None /\ CallShape(call)
      /\ \A n \in call.got : n \in Full /\ Held(n)
      /\ \A n \in call.todo \union call.got : Linked(n)
  BY <1>1 DEF WInv, IInv, Justified, Untouched, Sound, WantedBy
<1>3. CASE call.todo = {} /\ Ends("missed", call.got)
  <2>1. call'.kind = call.kind /\ call'.pc = "missed" /\ call'.got = call.got
    BY <1>2, <1>3, Ended
  <2> QED
    BY <1>1, <1>2, <2>1 DEF Justified, Staged, StagesOf, Untouched, Sound, Complete, WantedBy
<1>4. CASE \E n \in call.todo :
             IF ~Readable(n) THEN Raises
             ELSE IF n \in Wanted
             THEN call' = [call EXCEPT !.pc = "ask", !.todo = @ \ {n}, !.got = @ \union {n},
                                       !.at = n]
             ELSE call' = [call EXCEPT !.todo = @ \ {n}]
  <2>1. PICK n \in call.todo :
             IF ~Readable(n) THEN Raises
             ELSE IF n \in Wanted
             THEN call' = [call EXCEPT !.pc = "ask", !.todo = @ \ {n}, !.got = @ \union {n},
                                       !.at = n]
             ELSE call' = [call EXCEPT !.todo = @ \ {n}]
    BY <1>4
  <2>2. n \in Peers /\ n \in RID
    BY <1>2 DEF RID, Nodes
  <2>3. (Readable(n) => Held(n)) /\ (~Readable(n) => Missing(n))
    BY <1>1, <2>2, SeenNow DEF WInv, IInv
  <2>4. CASE ~Readable(n)
    <3>1. call'.kind = call.kind /\ call'.pc = "raised"
      BY <1>2, <2>1, <2>4, Ended
    <3> QED
      BY <1>1, <1>2, <2>2, <2>3, <2>4, <3>1
         DEF Justified, Staged, StagesOf, Untouched, Sound, Complete
  <2>5. CASE Readable(n) /\ n \in Wanted
    <3>1. /\ call'.kind = call.kind /\ call'.pc = "ask" /\ call'.todo = call.todo \ {n}
          /\ call'.got = call.got \union {n} /\ call'.at = n
      BY <1>2, <2>1, <2>5 DEF CallShape
    <3> QED
      BY <1>1, <1>2, <2>3, <2>5, <3>1
         DEF Justified, Staged, StagesOf, Untouched, Sound, Complete, WantedBy
  <2>6. CASE Readable(n) /\ n \notin Wanted
    <3>1. /\ call'.kind = call.kind /\ call'.pc = call.pc /\ call'.todo = call.todo \ {n}
          /\ call'.got = call.got /\ call'.at = call.at
      BY <1>2, <2>1, <2>6 DEF CallShape
    <3> QED
      BY <1>1, <1>2, <3>1
         DEF Justified, Staged, StagesOf, Untouched, Sound, Complete, WantedBy
  <2> QED
    BY <2>4, <2>5, <2>6
<1> QED
  BY <1>3, <1>4 DEF NextProfile

LEMMA AskStep ==
  ASSUME WInv, Ask PROVE Justified(call')
<1>1. call.pc = "ask" /\ call # NoCall /\ call.kind = "catchup"
  <2>1. call.pc = "ask"
    BY DEF Ask, At
  <2> QED
    BY <2>1, AtStage DEF WInv, StagesOf
<1>2. /\ call.todo \subseteq Peers /\ CallShape(call)
      /\ \A n \in call.got : n \in Full /\ Held(n)
      /\ \A n \in call.todo \union call.got : Linked(n)
      /\ call.at # None => call.at \in call.got
  BY <1>1 DEF WInv, IInv, Justified, Sound, WantedBy
<1>3. /\ call'.kind = call.kind /\ call'.todo = call.todo /\ call'.got = call.got
      /\ \/ call'.pc = "fetch" /\ call'.at = call.at
         \/ call'.pc = "profiles" /\ call'.at = None
  BY <1>2 DEF Ask, CallShape
<1> QED
  BY <1>1, <1>2, <1>3 DEF Justified, Staged, StagesOf, Untouched, Sound, Complete, WantedBy

LEMMA PolledStep ==
  ASSUME WInv, ChoosePolled PROVE Justified(call')
<1>1. call.pc = "fetch" /\ call # NoCall /\ call.kind = "poll"
  <2>1. call.pc = "fetch" /\ call.kind = "poll"
    BY DEF ChoosePolled, At
  <2> QED
    BY <2>1, NotNone
<1> DEFINE asked == IF call.todo = {} THEN {FirstContact} \ {None} ELSE call.todo
<1>2. call'.kind = call.kind /\ call'.pc = "polled" /\ call'.got = asked
  BY Ended DEF ChoosePolled, WInv, IInv
<1>3. \A n \in asked \ {FirstContact} : Linked(n) /\ Held(n)
  BY <1>1 DEF WInv, Justified, Sound
<1>4. seen.calm => \A n \in Full : (Linked(n) /\ Held(n)) => n \in asked
  BY <1>1 DEF WInv, Justified, Complete
<1> HIDE DEF asked
<1> QED
  BY <1>1, <1>2, <1>3, <1>4 DEF Justified, Staged, StagesOf, Untouched, Sound, Complete

LEMMA RequestStep ==
  ASSUME WInv, Request PROVE Justified(call')
<1>1. call.pc = "fetch" /\ call # NoCall /\ call.kind = "deref" /\ call.at = None
  <2>1. call.pc = "fetch" /\ call.kind = "deref" /\ call.at = None
    BY DEF Request, At
  <2> QED
    BY <2>1, NotNone
<1>2. \A n \in call.todo \union call.got : n \in Wanted /\ Held(n)
  BY <1>1, WantedPeers DEF WInv, Justified, Sound
<1>3. (seen.calm /\ call.kind = "deref") =>
        \A n \in Providers : Held(n) => n \in call.todo \union call.got
  BY <1>1 DEF WInv, Justified, Complete
<1>4. CASE call.todo = {} /\ Ends("missed", call.got)
  <2>1. call'.kind = call.kind /\ call'.pc = "missed" /\ call'.got = call.got
    BY <1>4, Ended DEF WInv, IInv
  <2> QED
    BY <1>1, <1>2, <1>3, <1>4, <2>1, WantedPeers
       DEF Justified, Staged, StagesOf, Untouched, Sound, Complete, WantedBy
<1>5. CASE \E n \in call.todo :
             call' = [call EXCEPT !.todo = @ \ {n},
                                  !.got = @ \union {n},
                                  !.at = IF HasUrl(n) THEN n ELSE None]
  <2>1. PICK n \in call.todo :
             call' = [call EXCEPT !.todo = @ \ {n},
                                  !.got = @ \union {n},
                                  !.at = IF HasUrl(n) THEN n ELSE None]
    BY <1>5
  <2>2. /\ call'.kind = call.kind /\ call'.pc = "fetch" /\ call'.todo = call.todo \ {n}
        /\ call'.got = call.got \union {n} /\ call'.at \in {n, None}
    BY <1>1, <2>1 DEF WInv, IInv, CallShape
  <2> QED
    BY <1>1, <1>2, <1>3, <2>2, WantedPeers
       DEF Justified, Staged, StagesOf, Untouched, Sound, Complete, WantedBy
<1> QED
  BY <1>4, <1>5 DEF Request

LEMMA ResponseStep ==
  ASSUME WInv, Response PROVE Justified(call')
<1>1. /\ call.pc = "fetch" /\ call # NoCall /\ call.at # None
      /\ call.kind \in {"poll", "catchup", "deref"}
  <2>1. call.pc = "fetch" /\ call.at # None
    BY DEF Response, At
  <2> QED
    BY <2>1, AtStage DEF WInv, StagesOf
<1>2. /\ CallShape(call) /\ call.todo \subseteq Peers /\ call.at \in call.got
      /\ \A n \in call.got : n \in Wanted /\ Held(n)
      /\ call.kind # "catchup" => \A n \in call.todo : n \in Wanted /\ Held(n)
      /\ call.kind = "catchup" => \A n \in call.todo \union call.got : Linked(n)
      /\ call.kind = "poll" => call.got = {}
  BY <1>1, WantedPeers DEF WInv, IInv, Justified, Untouched, Sound
<1>3. call.kind # "poll"
  BY <1>2
<1>4. CASE call.kind = "deref" /\ call' = [call EXCEPT !.at = None]
  <2>1. /\ call'.kind = call.kind /\ call'.pc = "fetch"
        /\ call'.todo = call.todo /\ call'.got = call.got /\ call'.at = None
    BY <1>1, <1>2, <1>4 DEF CallShape
  <2>2. seen.calm => \A n \in Providers : Held(n) => n \in call.todo \union call.got
    BY <1>1, <1>4 DEF WInv, Justified, Complete
  <2> QED
    BY <1>1, <1>2, <1>4, <2>1, <2>2, WantedPeers
       DEF Justified, Staged, StagesOf, Untouched, Sound, Complete, WantedBy
<1>5. CASE call.kind = "catchup" /\ call' = [call EXCEPT !.pc = "profiles", !.at = None]
  <2>1. /\ call'.kind = call.kind /\ call'.pc = "profiles"
        /\ call'.todo = call.todo /\ call'.got = call.got /\ call'.at = None
    BY <1>1, <1>2, <1>5 DEF CallShape
  <2> QED
    BY <1>1, <1>2, <1>5, <2>1, WantedPeers
       DEF Justified, Staged, StagesOf, Untouched, Sound, Complete, WantedBy
<1>6. CASE ~Readable(call.at) /\ Raises
  <2>1. call'.kind = call.kind /\ call'.pc = "raised"
    BY <1>2, <1>6, Ended
  <2>2. call.at \in RID /\ Held(call.at)
    BY <1>2, WantedPeers DEF RID, Nodes
  <2>3. ~seen.calm
    BY <1>1, <1>6, <2>2, CalmNow DEF WInv
  <2> QED
    BY <1>1, <1>3, <2>1, <2>3 DEF Justified, Staged, StagesOf, Untouched, Sound
<1>7. CASE /\ call.kind = "deref"
           /\ \E v \in Versions : call' = [call EXCEPT !.pc = "push", !.todo = {v}, !.at = None]
  <2>1. call'.kind = call.kind /\ call'.pc = "push"
    BY <1>2, <1>7 DEF CallShape
  <2> QED
    BY <1>7, <2>1 DEF Justified, Staged, StagesOf, Untouched, Sound, Complete
<1> QED
  BY <1>4, <1>5, <1>6, <1>7 DEF Response

-----------------------------------------------------------------------------
(* The server's list of manifests                                          *)

LEMMA ListStep ==
  ASSUME WInv, ListFiles PROVE Justified(call')
<1>1. call.pc = "list" /\ call # NoCall /\ call.kind = "serve" /\ call.got = {}
  <2>1. call.pc = "list"
    BY DEF ListFiles, At
  <2> QED
    BY <2>1, AtStage DEF WInv, StagesOf, Justified, Untouched
<1>2. PICK T \in {Nodes, Links, Objs} :
        call' = [call EXCEPT !.pc = "read", !.todo = {r \in T : files[r] # None}, !.at = T]
  BY DEF ListFiles
<1> DEFINE rs == {r \in T : files[r] # None}
<1>3. /\ call'.kind = call.kind /\ call'.pc = "read" /\ call'.todo = rs
      /\ call'.got = call.got /\ call'.at = T
  BY <1>2 DEF WInv, IInv, CallShape
<1>4. T \subseteq RID /\ rs \subseteq T
  BY DEF RID
<1>5. \A r \in T : Readable(r) => r \in rs
  BY DEF Readable
<1> HIDE DEF rs
<1> QED
  BY <1>1, <1>3, <1>4, <1>5 DEF Justified, Staged, StagesOf, Untouched, Sound, Complete

LEMMA ReadStep ==
  ASSUME WInv, ReadFiles PROVE Justified(call')
<1>1. call.pc = "read" /\ call # NoCall /\ call.kind = "serve"
  <2>1. call.pc = "read"
    BY DEF ReadFiles, Each, At
  <2> QED
    BY <2>1, AtStage DEF WInv, StagesOf
<1>2. /\ call.at \subseteq RID /\ call.todo \subseteq call.at
      /\ \A f \in call.got : Manifest(f)
      /\ call.todo = {} => call.got = {}
  BY <1>1 DEF WInv, Justified, Untouched, Sound
<1>3. seen.calm =>
        \A r \in call.at : Readable(r) => (r \in call.todo \/ <<r, files[r]>> \in call.got)
  BY <1>1 DEF WInv, Justified, Complete
<1>4. CASE call.todo = {}
  <2>1. Goes("answer", call.todo, call.got)
    BY <1>4, Advance DEF ReadFiles, Each, WInv, IInv
  <2> QED
    BY <1>1, <1>2, <1>3, <1>4, <2>1
       DEF Goes, Justified, Staged, StagesOf, Untouched, Sound, Complete
<1>5. CASE call.todo # {}
  <2>1. PICK r \in call.todo :
          LET found == call.got \union Found(r)
          IN  IF call.todo = {r}
              THEN call' = [call EXCEPT !.pc = "answer", !.todo = found, !.got = {}]
              ELSE call' = [call EXCEPT !.todo = call.todo \ {r}, !.got = found]
    BY <1>5 DEF ReadFiles, Each, Never
  <2> DEFINE found == call.got \union Found(r)
             f == <<r, IF Readable(r) THEN files[r] ELSE None>>
  <2>2. found = call.got \union {f}
    BY DEF Found
  <2>3. Manifest(f)
    <3>1. r \in RID
      BY <1>2
    <3>2. <<r, files[r]>> \in seen.files /\ (~Readable(r) => Missing(r))
      BY <1>1, <3>1, SeenNow DEF WInv, IInv
    <3>3. CASE Readable(r)
      <4>1. f = <<r, files[r]>> /\ files[r] \in Versions /\ files[r] # None
        BY <3>3 DEF Readable
      <4> QED
        BY <3>2, <4>1 DEF Manifest
    <3>4. CASE ~Readable(r)
      BY <3>2, <3>4 DEF Manifest
    <3> QED
      BY <3>3, <3>4
  <2>4. Readable(r) => <<r, files[r]>> \in found
    BY <2>2
  <2>5. \A g \in found : Manifest(g)
    BY <1>2, <2>2, <2>3
  <2>6. seen.calm =>
          \A s \in call.at : Readable(s) => (s \in call.todo \ {r} \/ <<s, files[s]>> \in found)
    BY <1>3, <2>4
  <2>7. CASE call.todo = {r}
    <3>1. Goes("answer", found, {})
      BY <2>1, <2>7, Advance DEF WInv, IInv
    <3> HIDE DEF found
    <3>2. seen.calm => \A s \in call.at : Readable(s) => <<s, files[s]>> \in found
      BY <2>6, <2>7
    <3> QED
      BY <1>1, <1>2, <2>5, <3>1, <3>2
         DEF Goes, Justified, Staged, StagesOf, Untouched, Sound, Complete
  <2>8. CASE call.todo # {r}
    <3>1. Goes("read", call.todo \ {r}, found)
      <4>1. call' = [call EXCEPT !.todo = call.todo \ {r}, !.got = found]
        BY <2>1, <2>8
      <4>2. CallShape(call)
        BY DEF WInv, IInv
      <4> HIDE DEF found
      <4>3. Goes(call.pc, call.todo \ {r}, found)
        BY <4>1, <4>2, Advance
      <4> QED
        BY <1>1, <4>3
    <3> HIDE DEF found
    <3>2. call.todo \ {r} # {}
      BY <2>8
    <3> QED
      BY <1>1, <1>2, <2>5, <2>6, <3>1, <3>2
         DEF Goes, Justified, Staged, StagesOf, Untouched, Sound, Complete
  <2> QED
    BY <2>7, <2>8
<1> QED
  BY <1>4, <1>5

-----------------------------------------------------------------------------
(* Dereferencing an object finds nothing out about the files.              *)
LEMMA DerefStep ==
  ASSUME WInv, TryCache \/ TryHandler \/ Wait PROVE Justified(call')
<1>1. /\ call.pc \in {"cache", "handler", "wait"} /\ call # NoCall /\ call.kind = "deref"
      /\ call.pc # "wait" => (call.todo = {} /\ call.got = {} /\ call.at = None)
  <2>1. call.pc \in {"cache", "handler", "wait"}
    BY DEF TryCache, TryHandler, Wait, At
  <2> QED
    BY <2>1, AtStage DEF WInv, StagesOf, Justified, Untouched
<1>2. \/ /\ call'.kind = call.kind /\ call'.pc \in {"handler", "nodes"}
         /\ call'.todo = {} /\ call'.got = {} /\ call'.at = None
      \/ call'.kind = call.kind /\ call'.pc \in {"hit", "failed", "push", "written"}
  <2>1. CASE TryCache
    BY <1>1, <2>1, Advance, Ended DEF TryCache, At, Goes, WInv, IInv
  <2>2. CASE TryHandler
    <3>1. CASE \E v \in Versions : call' = [call EXCEPT !.pc = "push", !.todo = {v}]
      <4>1. PICK v \in Versions : call' = [call EXCEPT !.pc = "push", !.todo = {v}]
        BY <3>1
      <4>2. Goes("push", {v}, call.got)
        BY <4>1, Advance DEF WInv, IInv
      <4> QED
        BY <4>2 DEF Goes
    <3>2. CASE call' = [call EXCEPT !.pc = "nodes"]
      BY <1>1, <2>2, <3>2, Advance DEF TryHandler, At, Goes, WInv, IInv
    <3>3. CASE Ends("failed", {})
      BY <3>3, Ended DEF WInv, IInv
    <3> QED
      BY <2>2, <3>1, <3>2, <3>3 DEF TryHandler
  <2>3. CASE Wait
    BY <2>3, Ended DEF Wait, WInv, IInv
  <2> QED
    BY <2>1, <2>2, <2>3
<1> QED
  BY <1>1, <1>2 DEF Justified, Staged, StagesOf, Untouched, Sound, Complete

LEMMA PushStep ==
  ASSUME WInv, PushResult PROVE Justified(call)'
<1>1. call.pc = "push" /\ call # NoCall /\ call.kind = "deref"
  <2>1. call.pc = "push"
    BY DEF PushResult
  <2> QED
    BY <2>1, AtStage DEF WInv, StagesOf
<1>2. call'.kind = call.kind /\ call'.pc \in {"queued", "wait"}
  <2>1. PICK x \in Objs, v \in call.todo :
          \/ Ends("queued", {<<x, v>>})
          \/ call' = [call EXCEPT !.pc = "wait", !.todo = {<<x, v>>}, !.got = {}]
    BY DEF PushResult
  <2>2. CASE Ends("queued", {<<x, v>>})
    BY <2>2, Ended DEF WInv, IInv
  <2>3. CASE call' = [call EXCEPT !.pc = "wait", !.todo = {<<x, v>>}, !.got = {}]
    <3>1. Goes("wait", {<<x, v>>}, {})
      BY <2>3, Advance DEF WInv, IInv
    <3> QED
      BY <3>1 DEF Goes
  <2> QED
    BY <2>1, <2>2, <2>3
<1> QED
  BY <1>1, <1>2 DEF Justified, Staged, StagesOf, Untouched, Sound, Complete

LEMMA CallStep ==
  ASSUME WInv, Call PROVE Justified(call)'
<1>1. PICK k \in Kinds : \E s \in FirstStep[k] : call' = [NoCall EXCEPT !.kind = k, !.pc = s]
  BY DEF Call
<1>2. PICK s \in FirstStep[k] : call' = [NoCall EXCEPT !.kind = k, !.pc = s]
  BY <1>1
<1>3. /\ call'.kind = k /\ call'.pc = s
      /\ call'.todo = {} /\ call'.got = {} /\ call'.at = None
  BY <1>2 DEF NoCall
<1>4. \/ k = "poll" /\ s = "out"
      \/ k = "catchup" /\ s = "in"
      \/ k = "serve" /\ s = "list"
      \/ k = "deref" /\ s \in {"cache", "handler"}
  <2>1. k \in {"poll", "catchup", "deref", "serve"}
    OBVIOUS
  <2> QED
    BY <1>2, <2>1 DEF FirstStep
<1>5. Staged(call')
  BY <1>3, <1>4 DEF Staged, StagesOf
<1>6. Untouched(call') /\ Sound(call)' /\ Complete(call)'
  BY <1>3, <1>4 DEF Untouched, Sound, Complete
<1> QED
  BY <1>5, <1>6 DEF Justified, Staged, Untouched

-----------------------------------------------------------------------------
(* The steps that leave the call alone                                     *)

LEMMA Idle == ASSUME call' = NoCall PROVE Justified(call)' /\ History'
<1>1. call'.pc = "none"
  BY DEF NoCall
<1>2. Staged(call)' /\ Untouched(call)' /\ Sound(call)'
  BY <1>1 DEF Staged, Untouched, Sound
<1> QED
  BY <1>2 DEF Justified, History

(* What a call has seen stays seen, and what changes makes it not calm.    *)
LEMMA SeenGrows ==
  ASSUME Justified(call), call # NoCall, call' = call,
         seen.files \subseteq seen'.files,
         seen'.calm => (seen.calm /\ UNCHANGED <<seen, files>>)
  PROVE  Justified(call)'
<1>1. \A r : Held(r) => Held(r)'
  BY DEF Held
<1>2. \A n : Missing(n) => Missing(n)'
  BY DEF Missing
<1>3. \A n : Linked(n) => Linked(n)'
  BY <1>1 DEF Linked
<1>4. \A f : Manifest(f) => Manifest(f)'
  BY <1>2 DEF Manifest
<1>5. Staged(call)' /\ Untouched(call)'
  BY DEF Justified, Staged, Untouched
<1>6. Sound(call)'
  <2>1. Sound(call)
    BY DEF Justified
  <2>2. WantedBy(call)' = WantedBy(call)
    BY DEF WantedBy
  <2>3. ((call.pc = "raised" /\ call.kind # "poll") =>
           \/ ~seen.calm
           \/ \E n \in Peers : <<n, Torn>> \in seen.files
           \/ call.kind = "catchup" /\ \E n \in Peers : Missing(n) /\ Linked(n))'
    BY <1>2, <1>3, <2>1 DEF Sound
  <2> QED
    BY <1>1, <1>3, <1>4, <2>1, <2>2, <2>3 DEF Sound
<1>7. seen'.calm => Complete(call)'
  <2> SUFFICES ASSUME seen'.calm PROVE Complete(call)'
    OBVIOUS
  <2>1. Complete(call) /\ UNCHANGED <<seen, files>>
    BY DEF Justified
  <2>2. \A r : Held(r)' <=> Held(r)
    BY <2>1 DEF Held
  <2>3. \A n : Linked(n)' <=> Linked(n)
    BY <2>2 DEF Linked
  <2>4. \A r : Readable(r)' <=> Readable(r)
    BY <2>1 DEF Readable
  <2> QED
    BY <2>1, <2>2, <2>3, <2>4 DEF Complete
<1> QED
  BY <1>5, <1>6, <1>7 DEF Justified

LEMMA QuietStep ==
  ASSUME WInv, Push \/ Worker \/ WorkerFails \/ ShutdownEnds \/ UNCHANGED vars
  PROVE  History' /\ Justified(call)'
<1>1. call' = call
  BY DEF Push, Worker, Open, Write, Clear, Add, TaskDone, ProfileDone, WorkerFails,
         RaiseSignal, ShutdownEnds, vars
<1>2. CASE call = NoCall
  BY <1>1, <1>2, Idle
<1>3. CASE call # NoCall
  <2> DEFINE Note == /\ seen'.files = seen.files \union Now(files')
                     /\ ~seen'.calm
  <2>1. \A gone : Noted(files', gone) => Note
    BY <1>3 DEF Noted
  <2>2. Now(files') = Now(files)'
    BY DEF Now
  <2>3. \/ Note
        \/ UNCHANGED <<seen, files, dg>>
    <3>1. CASE Push \/ ProfileDone \/ UNCHANGED vars
      BY <3>1 DEF Push, ProfileDone, vars
    <3>2. CASE Open
      BY <2>1, <3>2 DEF Open
    <3>3. CASE Write
      BY <2>1, <3>3 DEF Write
    <3>4. CASE Clear
      BY <2>1, <3>4 DEF Clear
    <3>5. CASE Add
      BY <2>1, <3>5 DEF Add
    <3>6. CASE TaskDone \/ WorkerFails \/ RaiseSignal \/ ShutdownEnds
      BY <3>6 DEF TaskDone, WorkerFails, RaiseSignal, ShutdownEnds
    <3> QED
      BY <3>1, <3>2, <3>3, <3>4, <3>5, <3>6 DEF Worker
  <2>4. CASE Note
    <3>1. History'
      BY <2>2, <2>4 DEF History
    <3>2. Justified(call)'
      BY <1>1, <1>3, <2>4, SeenGrows DEF WInv
    <3> QED
      BY <3>1, <3>2
  <2>5. CASE UNCHANGED <<seen, files, dg>>
    <3>1. History'
      <4>1. GraphOf' = GraphOf
        BY <2>5, GraphUnchanged
      <4> QED
        BY <1>1, <1>3, <2>5, <4>1 DEF WInv, History, Now
    <3>2. Justified(call)'
      BY <1>1, <1>3, <2>5, SeenGrows DEF WInv
    <3> QED
      BY <3>1, <3>2
  <2> QED
    BY <2>3, <2>4, <2>5
<1> QED
  BY <1>2, <1>3

-----------------------------------------------------------------------------
(* The node's own profile                                                  *)
LEMMA SelfStep ==
  ASSUME IInv, SelfFile, [Next]_vars PROVE SelfFile'
<1>1. files \in [RID -> Versions \union {None, Torn}] /\ queue \in Seq(Given) /\ Self \in RID
  BY DEF IInv, TypeOK, RID, Nodes
<1>2. CASE \E i \in Given : /\ i[1] # Self
                            /\ queue' = Append(queue, i) /\ UNCHANGED <<files, pc, item>>
  <2>1. PICK i \in Given : i[1] # Self /\ queue' = Append(queue, i) /\ UNCHANGED <<files, pc, item>>
    BY <1>2
  <2>2. \A j \in 1..Len(queue') : queue'[j] = IF j <= Len(queue) THEN queue[j] ELSE i
    BY <1>1, <2>1
  <2>3. \A j \in 1..Len(queue') : j <= Len(queue) => j \in 1..Len(queue)
    BY <1>1
  <2> QED
    BY <2>1, <2>2, <2>3 DEF SelfFile
<1>3. CASE Push
  <2>1. \A i \in Items : i \in Given /\ i[1] # Self
    BY DEF Given
  <2> QED
    BY <1>2, <1>3, <2>1 DEF Push
<1>4. CASE PushResult
  <2>1. PICK x \in Objs, v \in call.todo : queue' = Append(queue, <<x, v>>)
    BY <1>4 DEF PushResult
  <2>2. <<x, v>> \in Given /\ x # Self
    BY <1>4 DEF PushResult, IInv, CallShape, Given, RID, Nodes
  <2>3. UNCHANGED <<files, pc, item>>
    BY <1>4 DEF PushResult
  <2>4. <<x, v>>[1] # Self
    BY <2>2
  <2> QED
    BY <1>2, <2>1, <2>2, <2>3, <2>4
<1>5. CASE Crash
  BY <1>5 DEF Crash, SelfFile
<1>6. CASE Open
  <2>1. /\ item' = queue[1] /\ item' \in Given
        /\ \A j \in 1..Len(queue') : j + 1 \in 1..Len(queue) /\ queue'[j] = queue[j + 1]
    BY <1>1, <1>6 DEF Open
  <2>2. item'[1] = Self => item'[2] = 1
    BY <1>1, <1>6, <2>1 DEF Open, SelfFile
  <2>3. Accepted(item') => item'[1] # Self
    <3>1. Readable(Self) /\ files[Self] = 1
      BY DEF SelfFile, Readable
    <3>2. 1 # None
      OBVIOUS
    <3> QED
      BY <2>2, <3>1, <3>2 DEF Accepted
  <2>4. /\ \A j \in 1..Len(queue') : queue'[j][1] = Self => queue'[j][2] = 1
    BY <2>1 DEF SelfFile
  <2>5. files'[Self] = 1
    BY <1>1, <1>6, <2>3 DEF Open, Deleted, SelfFile
  <2>6. pc' = "write" => item'[1] # Self /\ item'[2] \in Versions
    <3>1. pc' = "write" => (Accepted(item') /\ item'[2] # None)
      BY <1>6 DEF Open, AfterFile
    <3> QED
      BY <2>1, <2>3, <3>1 DEF Given
  <2> QED
    BY <2>4, <2>5, <2>6 DEF SelfFile
<1>7. CASE Write
  BY <1>1, <1>7 DEF Write, SelfFile, AfterFile
<1>8. CASE Clear \/ Add \/ TaskDone \/ RaiseSignal \/ ShutdownEnds
  <2>1. UNCHANGED <<files, queue>> /\ pc' # "write"
    BY <1>8 DEF Clear, Add, TaskDone, RaiseSignal, ShutdownEnds
  <2> QED
    BY <2>1 DEF SelfFile
<1>10. CASE WorkerFails
  <2>1. UNCHANGED files /\ pc' # "write"
        /\ (queue' = queue \/ (queue # <<>> /\ queue' = Tail(queue)))
    BY <1>10 DEF WorkerFails
  <2>2. CASE queue' = queue
    BY <2>1, <2>2 DEF SelfFile
  <2>3. CASE queue # <<>> /\ queue' = Tail(queue)
    <3>1. \A j \in 1..Len(queue') : j + 1 \in 1..Len(queue) /\ queue'[j] = queue[j + 1]
      BY <1>1, <2>3
    <3> QED
      BY <2>1, <3>1 DEF SelfFile
  <2> QED
    BY <2>1, <2>2, <2>3
<1>9. CASE ProfileDone \/ Call \/ (Reading /\ ~PushResult) \/ UNCHANGED vars
  <2>1. CASE Reading /\ ~PushResult
    <3>1. UNCHANGED <<files, queue, pc, item>>
      BY <2>1, ReaderShape DEF Reading, IInv
    <3> QED
      BY <3>1 DEF SelfFile
  <2>2. CASE ProfileDone \/ Call \/ UNCHANGED vars
    <3>1. UNCHANGED <<files, queue, pc, item>>
      BY <2>2 DEF ProfileDone, Call, worker, vars
    <3> QED
      BY <3>1 DEF SelfFile
  <2> QED
    BY <1>9, <2>1, <2>2
<1> QED
  BY <1>3, <1>4, <1>5, <1>6, <1>7, <1>8, <1>9, <1>10 DEF Next, Worker

-----------------------------------------------------------------------------
LEMMA InitWInv == Init => WInv
<1> SUFFICES ASSUME Init PROVE WInv
  OBVIOUS
<1>1. IInv
  BY InitInv
<1>2. SelfFile
  <2>1. PICK S \in Start : files = [r \in RID |-> IF r \in S \union {Self} THEN 1 ELSE None]
    BY DEF Init
  <2>2. files[Self] = 1
    BY <2>1 DEF RID, Nodes
  <2>3. queue = <<<<Self, 1>>>> /\ pc # "write"
    BY DEF Init
  <2> QED
    BY <2>2, <2>3 DEF SelfFile
<1>3. History /\ Justified(call)
  <2>1. call = NoCall /\ call.pc = "none"
    BY DEF Init, NoCall
  <2>2. Staged(call) /\ Untouched(call) /\ Sound(call)
    BY <2>1 DEF Staged, Untouched, Sound
  <2> QED
    BY <2>1, <2>2 DEF Justified, History
<1> QED
  BY <1>1, <1>2, <1>3 DEF WInv

(* A call begins, and a result is queued, with a history of the moment.    *)
LEMMA FreshHistory ==
  ASSUME IInv, seen' = Fresh, UNCHANGED <<files, dg>>
  PROVE  History'
<1>1. GraphOf' = GraphOf /\ Now(files)' = Now(files)
  BY GraphUnchanged DEF Now
<1>2. Settled => dg = GraphOf
  BY DEF IInv, GraphProgress
<1> QED
  BY <1>1, <1>2 DEF Fresh, History

LEMMA NextWInv == WInv /\ [Next]_vars => WInv'
<1> SUFFICES ASSUME WInv, [Next]_vars PROVE WInv'
  OBVIOUS
<1>1. IInv' /\ SelfFile'
  BY NextInv, SelfStep DEF WInv
<1>2. CASE Push \/ Worker \/ WorkerFails \/ ShutdownEnds \/ UNCHANGED vars
  BY <1>1, <1>2, QuietStep DEF WInv
<1>3. CASE Crash \/ Return
  <2>1. call' = NoCall
    BY <1>3 DEF Crash, Return
  <2> QED
    BY <1>1, <2>1, Idle DEF WInv
<1>4. CASE Call \/ PushResult
  <2>1. seen' = Fresh /\ UNCHANGED <<files, dg>>
    BY <1>4 DEF Call, PushResult, worker
  <2>2. History'
    BY <2>1, FreshHistory DEF WInv
  <2> QED
    BY <1>1, <1>4, <2>2, CallStep, PushStep DEF WInv
<1>5. CASE \/ OutEdges \/ InEdges \/ EdgeData \/ ReadEdges \/ ListNodes \/ ReadProfiles \/ NextProfile
           \/ ChoosePolled \/ Request \/ Ask \/ Response \/ ListFiles \/ ReadFiles
           \/ TryCache \/ TryHandler \/ Wait
  <2>1. Justified(call')
    BY <1>5, OutStep, InStep, DataStep, LinksStep, NodesStep, ProfilesStep, NextProfileStep,
       PolledStep, RequestStep, AskStep, ResponseStep, ListStep, ReadStep, DerefStep
  <2>2. UNCHANGED <<files, dg, queue, pc, item, todo>>
    BY <1>5, ReaderShape DEF WInv, IInv
  <2>3. seen' = seen
    BY <1>5 DEF OutEdges, InEdges, EdgeData, ReadEdges, ListNodes, ReadProfiles, NextProfile,
                ChoosePolled, Request, Ask, Response, ListFiles, ReadFiles, TryCache, TryHandler, Wait, Each
  <2>4. call # NoCall
    <3>1. call.pc # "none"
      BY <1>5 DEF OutEdges, InEdges, EdgeData, ReadEdges, ListNodes, ReadProfiles, NextProfile,
                  ChoosePolled, Request, Ask, Response, ListFiles, ReadFiles, TryCache, TryHandler, Wait, Each, At
    <3> QED
      BY <3>1, NotNone
  <2>5. History'
    <3>1. GraphOf' = GraphOf
      BY <2>2, GraphUnchanged
    <3> QED
      BY <2>2, <2>3, <2>4, <3>1 DEF WInv, History, Now
  <2>6. Justified(call)'
    <3>1. \A r : Held(r)' <=> Held(r)
      BY <2>3 DEF Held
    <3>2. \A n : Linked(n)' <=> Linked(n)
      BY <3>1 DEF Linked
    <3>3. \A n : Missing(n)' <=> Missing(n)
      BY <2>3 DEF Missing
    <3>4. \A f : Manifest(f)' <=> Manifest(f)
      BY <2>3, <3>3 DEF Manifest
    <3>5. \A r : Readable(r)' <=> Readable(r)
      BY <2>2 DEF Readable
    <3>6. Staged(call)' /\ Untouched(call)'
      BY <2>1 DEF Justified, Staged, Untouched
    <3>7. Sound(call)'
      BY <2>1, <2>3, <3>1, <3>2, <3>3, <3>4 DEF Justified, Sound, WantedBy
    <3>8. (call' # NoCall /\ seen'.calm) => Complete(call)'
      BY <2>1, <2>2, <2>3, <3>1, <3>2, <3>5 DEF Justified, Complete
    <3> QED
      BY <3>6, <3>7, <3>8 DEF Justified
  <2> QED
    BY <1>1, <2>5, <2>6 DEF WInv
<1> QED
  BY <1>2, <1>3, <1>4, <1>5 DEF Next, Reading

LEMMA WInvHolds == Spec => []WInv
  BY InitWInv, NextWInv, PTL DEF Spec

(* PollSees: the poller asks only nodes that were full neighbors during    *)
(* its walk, all of them when nothing changed, and fails only when the     *)
(* graph changed under it, for every network and every order of steps.     *)
THEOREM PollTheorem == Spec => []PollSees
<1>1. WInv => PollSees
  <2> SUFFICES ASSUME WInv, call.kind = "poll", call.pc \in {"polled", "raised"}
               PROVE  PollSees
    BY DEF PollSees
  <2>1. call # NoCall /\ Sound(call) /\ (seen.calm => Complete(call))
    BY NotNone DEF WInv, Justified
  <2> QED
    BY <2>1 DEF PollSees, Sound, Complete
<1> QED
  BY <1>1, WInvHolds, PTL

(* LookupSees: a lookup asks only nodes that were cached during it, asks   *)
(* all providers before it gives up if nothing changed, and raises only    *)
(* for a profile that was cut off, changed, or not cached.                 *)
THEOREM LookupTheorem == Spec => []LookupSees
<1>1. WInv => LookupSees
  <2> SUFFICES ASSUME WInv, call.kind \in {"deref", "catchup"}, call.pc \in {"missed", "raised"}
               PROVE  LookupSees
    BY DEF LookupSees
  <2>1. call # NoCall /\ Sound(call) /\ (seen.calm => Complete(call))
    BY NotNone DEF WInv, Justified
  <2> QED
    BY <2>1, WantedPeers DEF LookupSees, Sound, Complete
<1> QED
  BY <1>1, WInvHolds, PTL

(* ServeSees: an answer's manifests were held while it was put together,   *)
(* what it reports as not found could not be read, and it is exactly what  *)
(* is held when nothing changed.                                           *)
THEOREM ServeTheorem == Spec => []ServeSees
<1>1. WInv => ServeSees
  <2> SUFFICES ASSUME WInv, call.kind = "serve", call.pc = "answer"
               PROVE  ServeSees
    BY DEF ServeSees
  <2>1. call # NoCall /\ Sound(call) /\ (seen.calm => Complete(call))
    BY NotNone DEF WInv, Justified
  <2> QED
    BY <2>1 DEF ServeSees, Sound, Complete, Manifest
<1> QED
  BY <1>1, WInvHolds, PTL

-----------------------------------------------------------------------------
(* What a dereference has queued                                           *)

Written(b) ==
  \/ b[1] \in seen.gone
  \/ Readable(b[1]) /\ files[b[1]] >= b[2]
  \/ pc = "write" /\ item[1] = b[1] /\ item[2] > b[2]
  \/ FailedOn(b[1])

InHand(b) == (\E i \in 1..Len(queue) : queue[i] = b) \/ (pc = "write" /\ item = b)

(* While a call waits, its result is queued, in the worker's hands or      *)
(* written; a file that is being written is cut off until it is.           *)
Waiting ==
  /\ pc = "write" => files[item[1]] = Torn
  /\ call.pc = "wait" => \A b \in call.todo : b \in Objs \X Versions /\ (Written(b) \/ InHand(b))
  /\ call.pc = "written" => \A b \in call.got : b \in Objs \X Versions /\ Written(b)

(* A result on its way stays on its way until it is written, and is then   *)
(* replaced by newer ones only.                                            *)
LEMMA OpenKeeps ==
  ASSUME WInv, Waiting, Open, call # NoCall, NEW b \in Objs \X Versions
  PROVE  /\ Written(b) => Written(b)'
         /\ InHand(b) => (Written(b) \/ InHand(b))'
<1> DEFINE i == item'
<1>1. /\ pc = "idle" /\ queue \in Seq(Given) /\ queue # <<>>
      /\ i = queue[1] /\ i \in Given /\ queue' = Tail(queue)
  BY DEF Open, WInv, IInv, TypeOK
<1>2. /\ b[1] \in RID /\ b[2] \in Versions /\ b[2] # None
      /\ Versions \subseteq Nat /\ None \notin Versions /\ Torn \notin Versions
  BY DEF RID
<1>3. files \in [RID -> Versions \union {None, Torn}]
  BY DEF WInv, IInv, TypeOK
<1>4. \/ /\ ~Accepted(i) /\ pc' = "rest" /\ UNCHANGED <<files, seen>>
      \/ /\ Accepted(i) /\ i[2] # None /\ pc' = "write"
         /\ files' = [files EXCEPT ![i[1]] = Torn] /\ Noted(files', {})
      \/ /\ Accepted(i) /\ i[2] = None
         /\ files' = [files EXCEPT ![i[1]] = None] /\ Noted(files', {i[1]})
  BY DEF Open, Deleted
<1>5. \/ seen' = seen
      \/ \E gone \in {{}, {i[1]}} : seen'.gone = seen.gone \union gone
  BY <1>4 DEF Noted
<1>6. i[1] \in RID /\ i[2] \in Versions \union {None}
  BY <1>1 DEF Given
<1>7. Written(b) => Written(b)'
  <2>1. CASE b[1] \in seen.gone
    BY <1>5, <2>1 DEF Written
  <2>2. CASE Readable(b[1]) /\ files[b[1]] >= b[2]
    <3>1. CASE i[1] # b[1] \/ ~Accepted(i)
      <4>1. files'[b[1]] = files[b[1]]
        BY <1>2, <1>3, <1>4, <3>1
      <4> QED
        BY <2>2, <4>1 DEF Written, Readable
    <3>2. CASE i[1] = b[1] /\ Accepted(i) /\ i[2] # None
      <4>1. i[2] > files[b[1]]
        BY <2>2, <3>2 DEF Accepted
      <4>2. i[2] \in Nat /\ files[b[1]] \in Nat /\ b[2] \in Nat
        BY <1>2, <1>6, <2>2, <3>2 DEF Readable
      <4>3. i[2] > b[2]
        BY <2>2, <4>1, <4>2
      <4>4. pc' = "write"
        BY <1>4, <3>2
      <4> QED
        BY <3>2, <4>3, <4>4 DEF Written
    <3>3. CASE i[1] = b[1] /\ Accepted(i) /\ i[2] = None
      <4>1. i[1] \in seen'.gone
        BY <1>4, <3>3 DEF Noted
      <4> QED
        BY <3>3, <4>1 DEF Written
    <3> QED
      BY <3>1, <3>2, <3>3
  <2> QED
    BY <1>1, <2>1, <2>2 DEF Written, FailedOn, Down
<1>8. ASSUME InHand(b) PROVE (Written(b) \/ InHand(b))'
  <2>1. PICK j \in 1..Len(queue) : queue[j] = b
    BY <1>1, <1>8 DEF InHand
  <2>2. CASE j = 1
    <3>1. i = b
      BY <1>1, <2>1, <2>2
    <3>2. CASE Accepted(i)
      <4>1. pc' = "write"
        BY <1>2, <1>4, <3>1, <3>2
      <4> QED
        BY <3>1, <4>1 DEF InHand
    <3>3. CASE ~Accepted(i)
      <4>1. Readable(b[1]) /\ ~(b[2] > files[b[1]]) /\ UNCHANGED files
        BY <1>2, <1>4, <3>1, <3>3 DEF Accepted
      <4>2. files[b[1]] \in Nat /\ b[2] \in Nat
        BY <1>2, <4>1 DEF Readable
      <4>3. files[b[1]] >= b[2]
        BY <4>1, <4>2
      <4> QED
        BY <4>1, <4>3 DEF Written, Readable
    <3> QED
      BY <3>2, <3>3
  <2>3. CASE j # 1
    <3>1. j - 1 \in 1..Len(queue') /\ queue'[j - 1] = queue[j]
      BY <1>1, <2>1, <2>3
    <3> QED
      BY <2>1, <3>1 DEF InHand
  <2> QED
    BY <2>2, <2>3
<1> QED
  BY <1>7, <1>8

LEMMA WriteKeeps ==
  ASSUME WInv, Waiting, Write, call # NoCall, NEW b \in Objs \X Versions
  PROVE  /\ Written(b) => Written(b)'
         /\ InHand(b) => (Written(b) \/ InHand(b))'
<1>1. /\ pc = "write" /\ files' = [files EXCEPT ![item[1]] = item[2]]
      /\ UNCHANGED <<queue, item>> /\ pc' # "write"
      /\ item[2] \in Versions /\ files[item[1]] = Torn
      /\ seen'.gone = seen.gone \union {}
  BY DEF Write, AfterFile, WInv, SelfFile, Waiting, Noted
<1>2. /\ b[1] \in RID /\ b[2] \in Nat /\ item[1] \in RID /\ item[2] \in Nat
      /\ Torn \notin Versions
      /\ files \in [RID -> Versions \union {None, Torn}]
  BY <1>1 DEF WInv, IInv, TypeOK, Given, RID
<1>3. (item[1] = b[1] /\ item[2] >= b[2]) => Written(b)'
  BY <1>1, <1>2 DEF Written, Readable
<1>4. Written(b) => Written(b)'
  <2>1. CASE b[1] \in seen.gone
    BY <1>1, <2>1 DEF Written
  <2>2. CASE Readable(b[1]) /\ files[b[1]] >= b[2]
    <3>1. item[1] # b[1]
      BY <1>1, <1>2, <2>2 DEF Readable
    <3>2. files'[b[1]] = files[b[1]]
      BY <1>1, <1>2, <3>1
    <3> QED
      BY <2>2, <3>2 DEF Written, Readable
  <2>3. CASE item[1] = b[1] /\ item[2] > b[2]
    BY <1>2, <1>3, <2>3
  <2> QED
    BY <1>1, <2>1, <2>2, <2>3 DEF Written, FailedOn, Down
<1>5. InHand(b) => (Written(b) \/ InHand(b))'
  <2>1. CASE item = b
    BY <1>2, <1>3, <2>1
  <2>2. CASE \E j \in 1..Len(queue) : queue[j] = b
    BY <1>1, <2>2 DEF InHand
  <2> QED
    BY <2>1, <2>2 DEF InHand
<1> QED
  BY <1>4, <1>5

(* The other steps change neither files nor what is in the worker's hands. *)
LEMMA OthersKeep ==
  ASSUME TypeOK, NEW b,
         UNCHANGED files, pc' = pc \/ (pc # "write" /\ pc' # "write"),
         UNCHANGED item \/ (pc # "write" /\ pc' # "write"),
         pc \in Down => pc' \in Down /\ item' = item,
         seen.gone \subseteq seen'.gone,
         queue' = queue \/ \E i \in Given : queue' = Append(queue, i)
  PROVE  /\ Written(b) => Written(b)'
         /\ InHand(b) => InHand(b)'
<1>1. Written(b) => Written(b)'
  BY DEF Written, FailedOn, Readable
<1>2. InHand(b) => InHand(b)'
  <2>1. CASE \E j \in 1..Len(queue) : queue[j] = b
    <3>1. PICK j \in 1..Len(queue) : queue[j] = b
      BY <2>1
    <3>2. j \in 1..Len(queue') /\ queue'[j] = b
      BY <3>1 DEF TypeOK
    <3> QED
      BY <3>2 DEF InHand
  <2> QED
    BY <2>1 DEF InHand
<1> QED
  BY <1>1, <1>2

(* A failing worker keeps hold of what it has failed on.                   *)
LEMMA FailKeeps ==
  ASSUME TypeOK, WorkerFails, NEW b
  PROVE  /\ Written(b) => Written(b)'
         /\ InHand(b) => (Written(b) \/ InHand(b))'
<1>1. pc' \in Down /\ pc \notin Down /\ UNCHANGED <<files, seen>>
  BY DEF WorkerFails, Down
<1>2. CASE pc # "idle" /\ UNCHANGED <<item, queue>>
  BY <1>1, <1>2 DEF Written, InHand, FailedOn, Readable
<1>3. CASE pc = "idle" /\ queue # <<>> /\ item' = Head(queue) /\ queue' = Tail(queue)
  <2>1. Written(b) => Written(b)'
    BY <1>1, <1>3 DEF Written, FailedOn, Readable
  <2>2. ASSUME InHand(b) PROVE (Written(b) \/ InHand(b))'
    <3>1. PICK j \in 1..Len(queue) : queue[j] = b
      BY <1>3, <2>2 DEF InHand
    <3>2. CASE j = 1
      BY <1>1, <1>3, <3>1, <3>2 DEF TypeOK, Written, FailedOn
    <3>3. CASE j # 1
      <4>1. j - 1 \in 1..Len(queue') /\ queue'[j - 1] = queue[j]
        BY <1>3, <3>1, <3>3 DEF TypeOK
      <4> QED
        BY <3>1, <4>1 DEF InHand
    <3> QED
      BY <3>2, <3>3
  <2> QED
    BY <2>1, <2>2
<1> QED
  BY <1>2, <1>3 DEF WorkerFails

LEMMA NotWaiting ==
  ASSUME CallShape(call),
         \/ OutEdges \/ InEdges \/ EdgeData \/ ReadEdges \/ ListNodes \/ ReadProfiles \/ NextProfile
         \/ ChoosePolled \/ Request \/ Ask \/ Response \/ ListFiles \/ ReadFiles
         \/ TryCache \/ TryHandler \/ Return \/ Call
  PROVE  call'.pc \notin {"wait", "written"}
<1>1. CASE OutEdges \/ InEdges
  BY <1>1 DEF OutEdges, InEdges, EdgesOf, Raises, CallShape
<1>14. CASE NextProfile
  BY <1>14 DEF NextProfile, At, Raises, Ends, CallShape
<1>15. CASE Ask
  BY <1>15 DEF Ask, At, CallShape
<1>2. CASE EdgeData
  BY <1>2 DEF EdgeData, Each, At, Raises, CallShape
<1>3. CASE ReadEdges
  BY <1>3 DEF ReadEdges, Each, At, Raises, CallShape
<1>4. CASE ReadProfiles
  BY <1>4 DEF ReadProfiles, Each, At, Raises, CallShape
<1>5. CASE ReadFiles
  BY <1>5 DEF ReadFiles, Each, At, Raises, CallShape
<1>6. CASE ListNodes \/ ListFiles
  BY <1>6 DEF ListNodes, ListFiles, CallShape
<1>7. CASE ChoosePolled
  <2> DEFINE asked == IF call.todo = {} THEN {FirstContact} \ {None} ELSE call.todo
  <2>1. Ends("polled", asked)
    BY <1>7 DEF ChoosePolled
  <2> HIDE DEF asked
  <2> QED
    BY <2>1, Ended
<1>8. CASE Request
  BY <1>8 DEF Request, At, Ends, CallShape
<1>9. CASE Response
  BY <1>9 DEF Response, At, Raises, CallShape
<1>10. CASE TryCache
  BY <1>10 DEF TryCache, Ends, CallShape
<1>11. CASE TryHandler
  BY <1>11 DEF TryHandler, Ends, CallShape
<1>12. CASE Return
  BY <1>12 DEF Return, NoCall
<1>13. CASE Call
  <2>1. PICK k \in Kinds : \E s \in FirstStep[k] : call' = [NoCall EXCEPT !.kind = k, !.pc = s]
    BY <1>13 DEF Call
  <2>2. PICK s \in FirstStep[k] : call' = [NoCall EXCEPT !.kind = k, !.pc = s]
    BY <2>1
  <2>3. s \in {"out", "in", "list", "cache", "handler"}
    <3>1. k \in {"poll", "catchup", "deref", "serve"}
      OBVIOUS
    <3> QED
      BY <2>2, <3>1 DEF FirstStep
  <2> QED
    BY <2>2, <2>3 DEF NoCall
<1> QED
  BY <1>1, <1>2, <1>3, <1>4, <1>5, <1>6, <1>7, <1>8, <1>9, <1>10, <1>11, <1>12, <1>13,
     <1>14, <1>15

LEMMA WaitingStep ==
  ASSUME WInv, Waiting, [Next]_vars PROVE Waiting'
<1> USE DEF WInv
<1>1. TypeOK /\ CallShape(call)
  BY DEF IInv
<1>2. (pc = "write" => files[item[1]] = Torn)'
  <2>1. CASE Open
    <3>1. item' \in Given
      BY <1>1, <2>1 DEF Open, TypeOK
    <3> QED
      BY <1>1, <2>1, <3>1 DEF Open, AfterFile, Deleted, TypeOK, Given
  <2>2. CASE Write \/ Clear \/ Add \/ TaskDone \/ WorkerFails \/ RaiseSignal \/ ShutdownEnds \/ Crash
    BY <2>2 DEF Write, AfterFile, Clear, Add, TaskDone, WorkerFails, RaiseSignal, ShutdownEnds, Crash
  <2>3. CASE Push \/ ProfileDone \/ Call \/ PushResult \/ UNCHANGED vars
    BY <2>3 DEF Push, ProfileDone, Call, worker, PushResult, vars, Waiting
  <2>4. CASE Reading /\ ~PushResult
    BY <1>1, <2>4, ReaderShape DEF Reading, Waiting
  <2> QED
    BY <2>1, <2>2, <2>3, <2>4 DEF Next, Worker
<1>3. CASE call'.pc \notin {"wait", "written"}
  BY <1>2, <1>3 DEF Waiting
<1>4. CASE call' = call /\ call # NoCall
             /\ \A b \in Objs \X Versions : /\ Written(b) => Written(b)'
                                            /\ InHand(b) => (Written(b) \/ InHand(b))'
  BY <1>2, <1>4 DEF Waiting
<1>5. CASE Push \/ Worker \/ WorkerFails \/ ShutdownEnds \/ UNCHANGED vars
  <2>1. call' = call
    BY <1>5 DEF Push, Worker, Open, Write, Clear, Add, TaskDone, ProfileDone, WorkerFails,
                RaiseSignal, ShutdownEnds, vars
  <2>2. CASE call = NoCall
    BY <1>3, <2>1, <2>2 DEF NoCall
  <2>3. CASE call # NoCall /\ (Open \/ Write)
    BY <1>4, <2>1, <2>3, OpenKeeps, WriteKeeps
  <2>5. CASE call # NoCall /\ WorkerFails
    BY <1>1, <1>4, <2>1, <2>5, FailKeeps
  <2>4. CASE /\ call # NoCall
             /\ \/ Push \/ ProfileDone \/ Clear \/ Add \/ TaskDone
                \/ RaiseSignal \/ ShutdownEnds \/ UNCHANGED vars
    <3>1. /\ UNCHANGED files /\ (pc' = pc \/ (pc # "write" /\ pc' # "write"))
          /\ pc \in Down => pc' \in Down /\ item' = item
      BY <2>4 DEF Push, ProfileDone, Clear, Add, TaskDone, RaiseSignal, ShutdownEnds, Down, vars
    <3>2. seen.gone \subseteq seen'.gone
      BY <2>4 DEF Push, ProfileDone, Clear, Add, TaskDone, RaiseSignal, ShutdownEnds, vars, Noted
    <3>3. queue' = queue \/ \E i \in Given : queue' = Append(queue, i)
      <4>1. Items \subseteq Given
        BY DEF Given
      <4> QED
        BY <2>4, <4>1 DEF Push, ProfileDone, Clear, Add, TaskDone, RaiseSignal, ShutdownEnds, vars
    <3>4. UNCHANGED item \/ (pc # "write" /\ pc' # "write")
      BY <2>4 DEF Push, ProfileDone, Clear, Add, TaskDone, RaiseSignal, ShutdownEnds, vars
    <3>5. ASSUME NEW b \in Objs \X Versions
          PROVE  (Written(b) => Written(b)') /\ (InHand(b) => InHand(b)')
      BY <1>1, <3>1, <3>2, <3>3, <3>4, OthersKeep
    <3> QED
      BY <1>4, <2>1, <2>4, <3>5
  <2> QED
    BY <1>5, <2>2, <2>3, <2>4, <2>5 DEF Worker
<1>6. CASE Crash
  BY <1>3, <1>6 DEF Crash, NoCall
<1>7. CASE PushResult
  <2>1. PICK x \in Objs, v \in call.todo :
          /\ queue' = Append(queue, <<x, v>>)
          /\ \/ Ends("queued", {<<x, v>>})
             \/ call' = [call EXCEPT !.pc = "wait", !.todo = {<<x, v>>}, !.got = {}]
    BY <1>7 DEF PushResult
  <2>2. v \in Versions /\ <<x, v>> \in Given
    BY <1>1, <1>7 DEF PushResult, CallShape, Given, RID
  <2>3. CASE Ends("queued", {<<x, v>>})
    BY <1>1, <1>3, <2>3, Ended
  <2>4. CASE call' = [call EXCEPT !.pc = "wait", !.todo = {<<x, v>>}, !.got = {}]
    <3>1. Goes("wait", {<<x, v>>}, {})
      BY <1>1, <2>4, Advance
    <3>2. Len(queue) + 1 \in 1..Len(queue') /\ queue'[Len(queue) + 1] = <<x, v>>
      BY <1>1, <2>1, <2>2 DEF TypeOK
    <3>3. InHand(<<x, v>>)'
      BY <3>2 DEF InHand
    <3> QED
      BY <1>2, <2>2, <3>1, <3>3 DEF Goes, Waiting
  <2> QED
    BY <2>1, <2>3, <2>4
<1>8. CASE Wait
  <2>1. CASE Ends("failed", {})
    BY <1>1, <1>3, <2>1, Ended
  <2>2. CASE QueueEmpty /\ Ends("written", call.todo)
    <3>1. /\ call.pc = "wait" /\ call'.pc = "written" /\ call'.got = call.todo
          /\ queue = <<>> /\ pc # "write"
      BY <1>1, <1>8, <2>2, Ended DEF Wait, At, QueueEmpty
    <3>2. UNCHANGED <<files, pc, item, seen>>
      BY <1>1, <1>8, ReaderShape DEF Wait
    <3>3. \A b \in call.todo : b \in Objs \X Versions /\ Written(b)
      BY <3>1 DEF Waiting, InHand
    <3>4. \A b \in call.todo : Written(b)'
      BY <3>2, <3>3 DEF Written, FailedOn, Readable
    <3> QED
      BY <1>2, <3>1, <3>3, <3>4 DEF Waiting
  <2> QED
    BY <1>8, <2>1, <2>2 DEF Wait
<1>9. CASE Call \/ (Reading /\ ~PushResult /\ ~Wait)
  BY <1>1, <1>3, <1>9, NotWaiting DEF Reading
<1> QED
  BY <1>5, <1>6, <1>7, <1>8, <1>9 DEF Next

(* WriteThrough: what a dereference has waited for is in the cache, or     *)
(* something newer is or is just being written, unless it was forgotten:   *)
(* however many items are queued before and after it.                      *)
THEOREM WriteTheorem == Spec => []WriteThrough
<1>1. Init => Waiting
  BY DEF Init, NoCall, Waiting
<1>2. WInv /\ Waiting /\ [Next]_vars => Waiting'
  BY WaitingStep
<1>3. Waiting => WriteThrough
  BY DEF Waiting, WriteThrough, Written
<1> QED
  BY <1>1, <1>2, <1>3, InitWInv, NextWInv, PTL DEF Spec

=============================================================================
