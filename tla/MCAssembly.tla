----------------------------- MODULE MCAssembly -----------------------------
(* Instances of Assembly: every small graph, and the node types of core.py. *)
EXTENDS Assembly

SmallOrder == <<"a", "b", "c">>
Small == {"a", "b", "c"}
SmallAssemblies == {Small, {"a", "c"}}

Nothing == [c \in Comp |-> {}]
NoDeclaration == [c \in Comp |-> None]

(* Every constructor graph, with an object among the components or not.    *)
ConstructorDesigns ==
  {[objects |-> o, starters |-> {}, stoppers |-> {}, params |-> p,
    startDeps |-> Nothing, stopDeps |-> NoDeclaration] :
     o \in {{}, {"b"}}, p \in [Comp -> SUBSET Comp]}

(* Every start graph, with stop methods that are declared or left to the   *)
(* default, a component that has no start method, and an object that has.  *)
LifecycleDesigns ==
  {[objects |-> o, starters |-> s, stoppers |-> t, params |-> Nothing,
    startDeps |-> d, stopDeps |-> e] :
     o \in {{}, {"b"}}, s \in {Comp, {"a", "b"}}, t \in {Comp, {"a", "c"}}, d \in [Comp -> SUBSET Comp],
     e \in {NoDeclaration, [NoDeclaration EXCEPT !["a"] = {"b", "c"}],
            [NoDeclaration EXCEPT !["a"] = {"c"}, !["c"] = {}]}}

SmallDesigns == ConstructorDesigns \union LifecycleDesigns

(* core.py: the components with a start or stop method, as comp_dict lists *)
(* them for a full and for a partial node.                                 *)
NodeOrder ==
  <<"config", "graph", "handshaker", "sync_manager", "kobj_worker", "event_worker",
    "profile_monitor", "node_contact_handler", "server", "port_manager", "poller">>
NodeComp == Range(NodeOrder)
FullNode == NodeComp \ {"poller"}
PartialNode == NodeComp \ {"server", "port_manager"}
NodeAssemblies == {FullNode, PartialNode}

NodeDesigns ==
  {[objects |-> {}, starters |-> Comp,
    stoppers |-> {"kobj_worker", "event_worker", "server", "poller"},
    params |-> Nothing,
    startDeps |->
      [Nothing EXCEPT
         !["handshaker"] = {"graph", "profile_monitor", "server", "event_worker"},
         !["sync_manager"] = {"graph", "kobj_worker", "handshaker"},
         !["profile_monitor"] = {"kobj_worker", "port_manager"},
         !["node_contact_handler"] = {"graph", "kobj_worker", "handshaker"},
         !["server"] = {"port_manager"}, !["port_manager"] = {"config"},
         !["poller"] = {"graph", "profile_monitor"}],
    stopDeps |->
      [NoDeclaration EXCEPT
         !["kobj_worker"] = {"server", "poller"}, !["event_worker"] = {"kobj_worker"}]]}

====
