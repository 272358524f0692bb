------------------------ MODULE MCKnowledgePipeline ------------------------
(* Small networks for TLC: what the peers p and q may know and send.       *)
EXTENDS KnowledgePipeline

CONSTANTS p, q, x, a, b

Full(prov, url) == [nt |-> "FULL", prov |-> prov, url |-> url]
Partial == [nt |-> "PARTIAL", prov |-> {}, url |-> None]

Edge(st, rts, et) == [st |-> st, rts |-> rts, et |-> et]

Allowed == {None, "self", "p"}

(* This node provides node events and wants objects; p provides objects.   *)
NodeProvider == Full({"node"}, "self")
ObjProvider  == Full({"obj"}, "p")

(* A node, an object and a proposal, and a profile that may go by the name *)
(* of this node.                                                           *)
MixedWorld ==
  {<<p, ObjProvider>>, <<Self, ObjProvider>>, <<x, a>>, <<x, b>>,
   <<<<Self, p>>, Edge("PROPOSED", {"node"}, "WEBHOOK")>>}

(* A node's event with the manifest of this node, an object's with the     *)
(* manifest of an edge.                                                    *)
MixedUp == {<<p, Self>>, <<x, <<Self, p>>>>}

(* A subscriber that is a provider, too, and may ask for what this node     *)
(* does not provide, and a partial one that asks for a webhook, which it    *)
(* cannot have.                                                             *)
SubscriberWorld ==
  {<<p, ObjProvider>>, <<q, Partial>>,
   <<<<Self, p>>, Edge("PROPOSED", {"node"}, "WEBHOOK")>>,
   <<<<Self, p>>, Edge("PROPOSED", {"obj"}, "WEBHOOK")>>,
   <<<<Self, q>>, Edge("PROPOSED", {"node"}, "WEBHOOK")>>}

(* A provider and what it provides.                                        *)
ObjectWorld == {<<p, ObjProvider>>, <<x, a>>, <<x, b>>}

====
