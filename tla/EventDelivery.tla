--------------------------- MODULE EventDelivery ---------------------------
(***************************************************************************)
(* How events leave a node: the event queue, the event worker that moves   *)
(* each event to the broadcast buffer (full nodes) or the poll buffer      *)
(* (partial nodes) of its target, the requests that empty a broadcast      *)
(* buffer, with the ways they fail, the polls that empty a poll buffer,    *)
(* the error handler that gives a silent target up, and shutdown.          *)
(*                                                                         *)
(* An event is its number.  Time is kept as the age of each broadcast      *)
(* buffer (now - start_time), which only grows up to the maximal wait.     *)
(***************************************************************************)
EXTENDS Naturals, Sequences, FiniteSets

CONSTANTS
  Targets,       \* nodes that events are for
  FirstContact,  \* first_contact.rid, assumed to be a full node
  None,
  STOP,          \* the STOP_WORKER sentinel
  MaxBufLen,     \* event_worker.max_buf_len
  MaxWait,       \* event_worker.max_wait_time, in ticks
  Outcomes,      \* what may become of a request
  PollOutcomes,  \* what may become of the answer to a poll
  Limits,        \* limits a poll may ask for (0: none)
  MaxEvents,     \* bound: events pushed to the event queue
  MaxFails,      \* bound: requests that fail
  MaxChanges,    \* bound: profiles learned or dropped by the pipeline
  Stops          \* whether the node is shut down

NodeType == {"FULL", "PARTIAL"}
Event    == 1..MaxEvents

(* A batch on its way with the rest of its buffer; a push to a poll buffer *)
(* whose list, if live, is still the one in the dictionary.                *)
Request == [to : Targets, batch : Seq(Event), rest : Seq(Event)]
Hold    == [to : Targets, event : Event, live : BOOLEAN]

ASSUME DeliveryAssumption ==
  /\ None \notin Targets \union NodeType \union Nat
  /\ None \notin Request /\ None \notin Hold
  /\ STOP \notin [event : Event, target : Targets]
  /\ MaxBufLen \in Nat \ {0} /\ MaxWait \in Nat \ {0}
  /\ Outcomes \subseteq {"ok", "lost", "transport", "http"}
  /\ PollOutcomes \subseteq {"ok", "lost"}
  /\ Limits \subseteq Nat
  /\ MaxEvents \in Nat /\ MaxFails \in Nat /\ MaxChanges \in Nat
  /\ Stops \in BOOLEAN

VARIABLES
  q,         \* event_queue.q
  known,     \* the node type in the cached profile of each target, or None
  mode,      \* the event worker: "run", "scan", "send", "stop", "stopped"
  back,      \* the mode to return to when a request is over
  todo,      \* the targets still to be looked at, in "scan" and "stop"
  sending,   \* the request under way: [to, batch, rest], or None
  buffers,   \* broadcast_event_buf.buffers
  age,       \* now - broadcast_event_buf.start_time, None where it is unset
  pollbuf,   \* poll_event_buf.buffers
  timeouts,  \* error_handler.timeout_counter
  dropped,   \* targets whose FORGET the error handler has queued
  routed,    \* history: what was put in each broadcast buffer
  received,  \* history: what each target received by broadcast
  appending, \* the worker's push to a poll buffer, between lookup and append, or None
  flushing,  \* the poll that has copied a buffer and not yet removed it, or None
  posted,    \* history: what was to be put in each poll buffer
  polled,    \* history: what each target received by polling
  crossed,   \* history: events in a lost answer, or whose push a poll of the node crossed
  pushed,    \* events pushed to the event queue, so far
  fails,     \* requests that failed, so far
  changes    \* profile changes, so far

env    == <<pushed, changes>>
worker == <<mode, back, todo, sending>>
broad  == <<buffers, age, routed>>
polls  == <<appending, flushing, posted, polled, crossed>>
vars   == <<q, known, mode, back, todo, sending, buffers, age, pollbuf, timeouts,
            dropped, routed, received, appending, flushing, posted, polled, crossed,
            pushed, fails, changes>>

-----------------------------------------------------------------------------
(* EventBuffer                                                             *)

Item == [event : Event, target : Targets]

Put(buf, t, e) == [buf EXCEPT ![t] = Append(@, e)]

BufferPush(buf, t, e) == Put(buf, t, e)

(* setdefault: a start time that is set stays.                             *)
Started(t) == [age EXCEPT ![t] = IF @ = None THEN 0 ELSE @]

(* flush and safe_flush hand out the whole buffer, or its first limit      *)
(* events if there are more; the rest stays.                               *)
Batch(buf, limit) == IF limit > 0 /\ Len(buf) > limit THEN SubSeq(buf, 1, limit) ELSE buf

Rest(buf, limit) ==
  IF limit > 0 /\ Len(buf) > limit THEN SubSeq(buf, limit + 1, Len(buf)) ELSE <<>>

-----------------------------------------------------------------------------
Init ==
  /\ q = <<>>
  /\ known \in [Targets -> NodeType \union {None}]
  /\ mode = "run" /\ back = "run" /\ todo = {} /\ sending = None
  /\ buffers = [t \in Targets |-> <<>>]
  /\ age = [t \in Targets |-> None]
  /\ pollbuf = [t \in Targets |-> <<>>]
  /\ timeouts = [t \in Targets |-> 0]
  /\ dropped = {}
  /\ routed = [t \in Targets |-> <<>>]
  /\ received = [t \in Targets |-> <<>>]
  /\ posted = [t \in Targets |-> <<>>] /\ polled = [t \in Targets |-> <<>>]
  /\ appending = None /\ flushing = None /\ crossed = {}
  /\ pushed = 0 /\ fails = 0 /\ changes = 0

-----------------------------------------------------------------------------
(* The rest of the node                                                    *)

Stopping == mode = "stopped" \/ \E i \in 1..Len(q) : q[i] = STOP

(* EventQueue.push, by the pipeline; its worker has stopped before this    *)
(* one is told to.                                                         *)
Push(t) ==
  /\ ~Stopping /\ mode # "stop" /\ back # "stop"
  /\ pushed < MaxEvents /\ pushed' = pushed + 1
  /\ q' = Append(q, [event |-> pushed + 1, target |-> t])
  /\ UNCHANGED <<known, worker, broad, pollbuf, timeouts, dropped, received, polls,
                 fails, changes>>

(* The pipeline caches the profile of a node it did not know.              *)
LearnNode(t) ==
  /\ changes < MaxChanges /\ changes' = changes + 1
  /\ known[t] = None
  /\ \E ty \in NodeType : known' = [known EXCEPT ![t] = ty]
  /\ UNCHANGED <<q, worker, broad, pollbuf, timeouts, dropped, received, polls,
                 pushed, fails>>

(* The pipeline processes the FORGET of a node, its own or a peer's.       *)
ForgetNode(t) ==
  /\ \/ t \in dropped /\ UNCHANGED changes
     \/ known[t] # None /\ changes < MaxChanges /\ changes' = changes + 1
  /\ known' = [known EXCEPT ![t] = None]
  /\ dropped' = dropped \ {t}
  /\ UNCHANGED <<q, worker, broad, pollbuf, timeouts, received, polls, pushed, fails>>

\* fault: the buffer is emptied only of what the limit did not cover
PollRestSame(buf, limit) == IF limit > 0 /\ Len(buf) > limit THEN buf ELSE <<>>

PollRest(buf, limit) == Rest(buf, limit)

(* ResponseHandler.poll_events_handler, on the server's thread, which      *)
(* serves one request at a time: EventBuffer.flush copies the list and     *)
(* then replaces or deletes it, before the answer is on its way.           *)
PollCopy(t, limit) ==
  /\ flushing = None
  /\ pollbuf[t] # <<>> \/ (appending # None /\ appending.to = t /\ appending.live)
  /\ flushing' = [to |-> t, batch |-> Batch(pollbuf[t], limit),
                  rest |-> PollRest(pollbuf[t], limit)]
  /\ UNCHANGED <<q, known, worker, broad, pollbuf, timeouts, dropped, received,
                 appending, posted, polled, crossed, env, fails>>

(* A push that has looked the list up holds the one that is gone now.      *)
PollRemove ==
  /\ flushing # None /\ flushing' = None
  /\ LET t == flushing.to IN
     /\ pollbuf' = [pollbuf EXCEPT ![t] = flushing.rest]
     /\ appending' = IF appending # None /\ appending.to = t
                     THEN [appending EXCEPT !.live = FALSE] ELSE appending
     /\ \/ "ok" \in PollOutcomes
           /\ polled' = [polled EXCEPT ![t] = @ \o flushing.batch]
           /\ UNCHANGED <<crossed, fails>>
        \/ "lost" \in PollOutcomes /\ fails < MaxFails /\ fails' = fails + 1
           /\ crossed' = crossed \union {flushing.batch[i] : i \in DOMAIN flushing.batch}
           /\ UNCHANGED polled
  /\ UNCHANGED <<q, known, worker, broad, timeouts, dropped, received, posted, env>>

Tick ==
  /\ mode # "stopped"
  /\ \E t \in Targets : age[t] # None /\ age[t] < MaxWait
  /\ age' = [t \in Targets |-> IF age[t] = None \/ age[t] = MaxWait THEN age[t]
                               ELSE age[t] + 1]
  /\ UNCHANGED <<q, known, worker, buffers, routed, pollbuf, timeouts, dropped,
                 received, polls, env, fails>>

(* EventProcessingWorker.stop                                              *)
Stop ==
  /\ Stops /\ ~Stopping /\ mode # "stop" /\ back # "stop"
  /\ q' = Append(q, STOP)
  /\ UNCHANGED <<known, worker, broad, pollbuf, timeouts, dropped, received, polls,
                 env, fails>>

-----------------------------------------------------------------------------
(* EventProcessingWorker                                                   *)

(* flush_and_broadcast: safe_flush unsets the start time and hands out     *)
(* the events.  Its force_flush argument arrives as safe_flush's limit, so *)
(* that a forced flush (True = 1) sends one event.                         *)
Limit(force) == IF force THEN 1 ELSE 0

Flush(t, buf, force, m) ==
  /\ sending' = [to |-> t, batch |-> Batch(buf, Limit(force)), rest |-> Rest(buf, Limit(force))]
  /\ mode' = "send" /\ back' = m

IsFull(buf) == Len(buf) > MaxBufLen

(* Which buffer an event goes to.                                          *)
IsBroadcast(t) == known[t] = "FULL" \/ (known[t] = None /\ t = FirstContact)

ToBroadcast(t, e) ==
  /\ IsBroadcast(t)
  /\ buffers' = BufferPush(buffers, t, e)
  /\ routed' = Put(routed, t, e)
  /\ IF IsFull(buffers'[t])
     THEN Flush(t, buffers'[t], FALSE, "run") /\ age' = [age EXCEPT ![t] = None]
     ELSE age' = Started(t) /\ UNCHANGED <<mode, back, sending>>
  /\ UNCHANGED <<appending, posted>>

(* The push looks the list up; PushPolled appends to it.                   *)
ToPoll(t, e) ==
  /\ known[t] = "PARTIAL" /\ mode' = "append"
  /\ appending' = [to |-> t, event |-> e, live |-> TRUE]
  /\ posted' = Put(posted, t, e)
  /\ UNCHANGED <<broad, back, sending>>

ToNobody(t) ==
  /\ known[t] = None /\ t # FirstContact
  /\ UNCHANGED <<broad, appending, posted, mode, back, sending>>

RouteEvent ==
  /\ mode = "run" /\ q # <<>> /\ Head(q) # STOP
  /\ q' = Tail(q)
  /\ \/ ToBroadcast(Head(q).target, Head(q).event)
     \/ ToPoll(Head(q).target, Head(q).event)
     \/ ToNobody(Head(q).target)
  /\ UNCHANGED <<known, todo, pollbuf, timeouts, dropped, received, flushing, polled,
                 crossed, env, fails>>

(* The second half of a push to a poll buffer: a list that a poll has      *)
(* removed meanwhile takes the event with it.                              *)
PushPolled ==
  /\ mode = "append" /\ mode' = "run" /\ appending' = None
  /\ LET t == appending.to
         isCrossed == ~appending.live \/ (flushing # None /\ flushing.to = t)
     IN  /\ pollbuf' = IF appending.live THEN Put(pollbuf, t, appending.event) ELSE pollbuf
         /\ crossed' = IF isCrossed THEN crossed \union {appending.event} ELSE crossed
  /\ UNCHANGED <<q, known, back, todo, sending, broad, timeouts, dropped, received,
                 flushing, posted, polled, env, fails>>

NonEmpty == {t \in Targets : buffers[t] # <<>>}

(* The queue stayed empty for queue_timeout: look at every buffer once.    *)
StartScan ==
  /\ mode = "run" /\ q = <<>> /\ NonEmpty # {}
  /\ mode' = "scan" /\ todo' = NonEmpty
  /\ UNCHANGED <<q, known, back, sending, broad, pollbuf, timeouts, dropped, received,
                 polls, env, fails>>

\* fault: the wait must be exceeded
IsOverdue(t) == age[t] # None /\ age[t] > MaxWait

IsDue(t) == age[t] # None /\ age[t] >= MaxWait

Scan ==
  /\ mode = "scan"
  /\ \/ /\ todo = {}
        /\ mode' = "run"
        /\ UNCHANGED <<back, todo, sending, age>>
     \/ \E t \in todo :
          /\ todo' = todo \ {t}
          /\ IF buffers[t] # <<>> /\ IsDue(t)
             THEN Flush(t, buffers[t], FALSE, "scan") /\ age' = [age EXCEPT ![t] = None]
             ELSE UNCHANGED <<mode, back, sending, age>>
  /\ UNCHANGED <<q, known, buffers, routed, pollbuf, timeouts, dropped, received, polls,
                 env, fails>>

(* STOP_WORKER: force a flush of every buffer, then leave.                 *)
DequeueStop ==
  /\ mode = "run" /\ q # <<>> /\ Head(q) = STOP
  /\ q' = Tail(q)
  /\ mode' = "stop" /\ todo' = NonEmpty
  /\ UNCHANGED <<known, back, sending, broad, pollbuf, timeouts, dropped, received,
                 polls, env, fails>>

FlushAll ==
  /\ mode = "stop"
  /\ \/ /\ todo = {}
        /\ mode' = "stopped"
        /\ UNCHANGED <<back, todo, sending, age>>
     \/ \E t \in todo :
          /\ todo' = todo \ {t}
          /\ Flush(t, buffers[t], TRUE, "stop")
          /\ age' = [age EXCEPT ![t] = None]
  /\ UNCHANGED <<q, known, buffers, routed, pollbuf, timeouts, dropped, received, polls,
                 env, fails>>

-----------------------------------------------------------------------------
(* RequestHandler.make_request, for the batch under way                    *)

\* fault: the finished request is not cleared
ReturnKeeping == mode' = back /\ UNCHANGED <<sending, q, known, back, todo, age, routed,
                                             pollbuf, polls, env>>

Return == mode' = back /\ sending' = None /\ UNCHANGED <<q, known, back, todo, age,
                                                        routed, pollbuf, polls, env>>

Receive(t) == received' = [received EXCEPT ![t] = @ \o sending.batch]

(* get_base_url finds no URL: a target forgotten, or now a partial node.   *)
NoUrl ==
  /\ mode = "send" /\ ~IsBroadcast(sending.to)
  /\ Return
  /\ UNCHANGED <<buffers, timeouts, dropped, received, fails>>

\* fault: the buffer is emptied whatever was sent
Emptied(t) == [buffers EXCEPT ![t] = <<>>]

(* safe_flush commits when the request has succeeded.                      *)
Committed(t) == [buffers EXCEPT ![t] = sending.rest]

RequestOk ==
  /\ mode = "send" /\ IsBroadcast(sending.to) /\ "ok" \in Outcomes
  /\ Receive(sending.to)
  /\ timeouts' = [timeouts EXCEPT ![sending.to] = 0]
  /\ buffers' = Committed(sending.to)
  /\ Return
  /\ UNCHANGED <<dropped, fails>>

(* handle_connection_error: more than three give the target up.            *)
ConnectionError(t) ==
  /\ timeouts' = [timeouts EXCEPT ![t] = @ + 1]
  /\ dropped' = IF timeouts'[t] > 3 THEN dropped \union {t} ELSE dropped

\* fault: the buffer is emptied by a failed request, too
RolledBackEmpty(t) == [buffers EXCEPT ![t] = <<>>]

(* safe_flush leaves the buffer as it was when the request fails.          *)
RolledBack(t) == buffers

RequestFails ==
  /\ mode = "send" /\ IsBroadcast(sending.to)
  /\ fails < MaxFails /\ fails' = fails + 1
  /\ \/ "lost" \in Outcomes       \* it arrived, the response did not
        /\ Receive(sending.to) /\ ConnectionError(sending.to)
     \/ "transport" \in Outcomes  \* it did not arrive
        /\ ConnectionError(sending.to) /\ UNCHANGED received
     \/ "http" \in Outcomes       \* the target refused it
        /\ UNCHANGED <<received, timeouts, dropped>>
  /\ buffers' = RolledBack(sending.to)
  /\ Return

-----------------------------------------------------------------------------
WorkerStep == RouteEvent \/ PushPolled \/ StartScan \/ Scan \/ DequeueStop \/ FlushAll
                \/ NoUrl \/ RequestOk \/ RequestFails

Next ==
  \/ WorkerStep
  \/ \E t \in Targets : Push(t) \/ LearnNode(t) \/ ForgetNode(t)
  \/ \E t \in Targets, l \in Limits : PollCopy(t, l)
  \/ PollRemove
  \/ Tick
  \/ Stop

Spec == Init /\ [][Next]_vars

(* Time passes, and the worker's loop is never starved: its get has a      *)
(* timeout, and so have the requests it makes.                             *)
FairSpec == Spec /\ WF_vars(WorkerStep) /\ WF_vars(Tick)

-----------------------------------------------------------------------------
(* Properties                                                              *)

TypeOK ==
  /\ q \in Seq(Item \union {STOP})
  /\ known \in [Targets -> NodeType \union {None}]
  /\ mode \in {"run", "append", "scan", "send", "stop", "stopped"}
  /\ back \in {"run", "scan", "stop"}
  /\ todo \subseteq Targets
  /\ sending \in Request \union {None} /\ flushing \in Request \union {None}
  /\ (mode = "send") <=> (sending # None)
  /\ buffers \in [Targets -> Seq(Event)]
  /\ age \in [Targets -> (0..MaxWait) \union {None}]
  /\ pollbuf \in [Targets -> Seq(Event)]
  /\ timeouts \in [Targets -> Nat]
  /\ dropped \subseteq Targets
  /\ routed \in [Targets -> Seq(Event)]
  /\ received \in [Targets -> Seq(Event)]
  /\ appending \in Hold \union {None}
  /\ (mode = "append") <=> (appending # None)
  /\ posted \in [Targets -> Seq(Event)] /\ polled \in [Targets -> Seq(Event)]
  /\ pushed \in 0..MaxEvents /\ fails \in 0..MaxFails /\ changes \in Nat

(* How many of a target's events have left its buffer for good.            *)
Acked(t) == Len(routed[t]) - Len(buffers[t])

(* Nothing is lost between the queue and the target: the buffer is exactly *)
(* the tail of the accepted events that was not acknowledged, and all that *)
(* left it has reached the target, whatever requests and answers failed.   *)
BufferIsUnacked ==
  \A t \in Targets :
    /\ Len(buffers[t]) <= Len(routed[t])
    /\ buffers[t] = SubSeq(routed[t], Acked(t) + 1, Len(routed[t]))
    /\ \A i \in 1..Acked(t) : \E j \in DOMAIN received[t] : received[t][j] = routed[t][i]

(* The broadcast path implements the at-least-once channel.                *)
Channel == INSTANCE FifoChannel WITH
             accepted <- routed, acked <- [t \in Targets |-> Acked(t)]

ImplementsChannel == Channel!ChanSpec

(* What is handed to polls and what waits for them: every event at most    *)
(* once, in the order of the queue, whatever limits the polls ask for;     *)
(* lost are only the events of an answer that is lost and those whose push *)
(* and a poll of the same node cross.                                      *)
Underway(t) == IF flushing # None /\ flushing.to = t THEN flushing.batch ELSE <<>>
Pending(t) == IF flushing # None /\ flushing.to = t THEN flushing.rest ELSE pollbuf[t]

PolledOnceInOrder ==
  \A t \in Targets :
    LET s == polled[t] \o Underway(t) \o Pending(t)
    IN  /\ \A i, j \in DOMAIN s : i < j => s[i] < s[j]
        /\ \A i \in DOMAIN posted[t] :
             \/ posted[t][i] \in crossed
             \/ mode = "append" /\ appending.event = posted[t][i]
             \/ \E j \in DOMAIN s : s[j] = posted[t][i]

(* A batch waits for a bounded time: a buffer that holds events is emptied *)
(* again, by the maximal length or by the wait, unless its target is       *)
(* forgotten, a request fails or the node is told to stop.                 *)
BatchesLeave ==
  \A t \in Targets :
    buffers[t] # <<>> ~> \/ buffers[t] = <<>> \/ ~IsBroadcast(t)
                        \/ fails > 0 \/ Stopping \/ mode = "stop"

(* "Received 'STOP_WORKER' signal, flushing all buffers" and "Broadcasts   *)
(* all events to target in event buffer" (event_worker.py).                *)
StopFlushesAll ==
  (mode = "stopped" /\ fails = 0) => \A t \in Targets : IsBroadcast(t) => buffers[t] = <<>>

====
