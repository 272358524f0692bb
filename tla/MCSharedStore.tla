--------------------------- MODULE MCSharedStore ---------------------------
(* A node with a full provider p and a peer q, edges between them, and an  *)
(* object x.                                                               *)
EXTENDS SharedStore

CONSTANTS p, q, x

Provided == <<p, Self>>
Foreign  == <<p, q>>

MCLinks == {Provided, Foreign}
MCStart == {{Provided}, {p, Provided, Foreign}}
MCItems == {<<p, None>>, <<p, 2>>, <<Provided, None>>, <<Provided, 2>>, <<x, None>>,
            <<x, 2>>}

====
