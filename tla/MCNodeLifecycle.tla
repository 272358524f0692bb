-------------------------- MODULE MCNodeLifecycle --------------------------
(* The components of a full node, in an order its start methods allow.     *)
EXTENDS NodeLifecycle

FullNodeOrder ==
  <<"kobj_worker", "event_worker", "server", "profile_monitor", "handshaker">>

====
