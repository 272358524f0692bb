---------------------------- MODULE FifoChannel ----------------------------
(***************************************************************************)
(* What the broadcast path of a node promises for each target: an          *)
(* at-least-once channel that keeps the order.  Events are accepted one    *)
(* by one; a delivery hands the target a run of events that starts at the  *)
(* first one not yet acknowledged; what is acknowledged is never sent      *)
(* again.  A delivery whose acknowledgement is lost is repeated.           *)
(***************************************************************************)
EXTENDS Naturals, Sequences

CONSTANTS Targets, Event

VARIABLES
  accepted,   \* per target, the events to deliver, in order
  acked,      \* per target, how many of them are acknowledged
  received    \* per target, what it received, repetitions included

chanVars == <<accepted, acked, received>>

ChanInit ==
  /\ accepted = [t \in Targets |-> <<>>]
  /\ acked    = [t \in Targets |-> 0]
  /\ received = [t \in Targets |-> <<>>]

Accept(t, e) ==
  /\ accepted' = [accepted EXCEPT ![t] = Append(@, e)]
  /\ UNCHANGED <<acked, received>>

(* The events up to the k-th reach the target, acknowledged or not.        *)
Deliver(t, k) ==
  /\ k > acked[t] /\ k <= Len(accepted[t])
  /\ received' = [received EXCEPT ![t] = @ \o SubSeq(accepted[t], acked[t] + 1, k)]
  /\ acked' \in {acked, [acked EXCEPT ![t] = k]}
  /\ UNCHANGED accepted

ChanNext ==
  \E t \in Targets : \/ \E e \in Event : Accept(t, e)
                     \/ \E k \in 1..Len(accepted[t]) : Deliver(t, k)

ChanSpec == ChanInit /\ [][ChanNext]_chanVars

====
