--------------------------- MODULE NodeLifecycle ---------------------------
(***************************************************************************)
(* How a node starts, fails and stops: the threads that call start and     *)
(* stop, the lifecycle thread that starts the components in one order and  *)
(* stops them in another, the two worker threads with their queues, and    *)
(* the signals they share.  A component object, and so its queue, lives on *)
(* from one run of the node to the next.                                   *)
(***************************************************************************)
EXTENDS Naturals, Sequences, FiniteSets

CONSTANTS
  Callers,     \* threads that call start and stop
  Block,       \* the values they pass as block
  StartOrder,  \* artifact.start_order, of the components modelled
  None,
  STOP,        \* the STOP_WORKER sentinels
  MayFail,     \* what may raise: kinds of items, and components
  MaxRuns,     \* bound: lifecycle threads
  MaxInputs,   \* bound: items the server puts in kobj_queue
  MaxEvents,   \* bound: events put in event_queue
  MaxFails     \* bound: exceptions

Workers    == {"kobj_worker", "event_worker"}
Components == Workers \union {"profile_monitor", "server", "handshaker"}
Kinds      == {"profile", "knowledge", "forget", "event"}
Runs       == 1..MaxRuns

ASSUME LifecycleAssumption ==
  /\ StartOrder \in Seq(Components)
  /\ Block \subseteq BOOLEAN
  /\ STOP \notin Kinds /\ None \notin Kinds
  /\ MayFail \subseteq Kinds \union Components
  /\ MaxRuns \in Nat /\ MaxInputs \in Nat /\ MaxEvents \in Nat /\ MaxFails \in Nat

VARIABLES
  state,      \* NodeState
  shutdown,   \* shutdown_signal
  startup,    \* startup_signal
  thread,     \* lifecycle.thread, or None
  life,       \* per lifecycle thread, [pc, i]: where it is, at which component
  call,       \* per caller, where it is in start or stop
  thr,        \* per worker, its thread
  hold,       \* per worker, the item it processes, or None
  q,          \* kobj_queue.q and event_queue.q
  serving,    \* the server accepts requests
  processed,  \* the node's profile was processed, in this process
  inputs, events, fails  \* counters of the bounds

signals == <<state, shutdown, startup>>
workers == <<thr, hold, q>>
bounds  == <<inputs, events, fails>>
vars    == <<state, shutdown, startup, thread, life, call, thr, hold, q, serving,
             processed, inputs, events, fails>>

Alive(w) == thr[w] \in {"run", "busy", "failing"}

(* Queue.unfinished_tasks: queued, or taken and not done.                  *)
Unfinished(w) == Len(q[w]) + (IF thr[w] = "busy" THEN 1 ELSE 0)

Enqueue(w, x) == [q EXCEPT ![w] = Append(@, x)]

Init ==
  /\ state = "IDLE" /\ shutdown = FALSE /\ startup = FALSE
  /\ thread = None
  /\ life = [r \in Runs |-> [pc |-> "none", i |-> 0]]
  /\ call = [c \in Callers |-> "idle"]
  /\ thr = [w \in Workers |-> "dead"]
  /\ hold = [w \in Workers |-> None]
  /\ q = [w \in Workers |-> <<>>]
  /\ serving = FALSE /\ processed = FALSE
  /\ inputs = 0 /\ events = 0 /\ fails = 0

-----------------------------------------------------------------------------
(* NodeLifecycle.start and stop, in the thread of a caller.  The check of  *)
(* the state and what follows are two steps.                               *)

MayStart == state = "IDLE"

CheckStart(c) ==
  /\ call[c] = "idle" /\ MayStart
  /\ Cardinality({r \in Runs : life[r].pc = "none"})
       > Cardinality({d \in Callers : call[d] = "start"})   \* the bound of Runs
  /\ call' = [call EXCEPT ![c] = "start"]
  /\ UNCHANGED <<signals, thread, life, workers, serving, processed, bounds>>

Spawn(c) ==
  /\ call[c] = "start"
  /\ startup' = FALSE
  /\ \E r \in Runs, block \in Block :
       /\ life[r].pc = "none" /\ \A s \in 1..(r - 1) : life[s].pc # "none"
       /\ life' = [life EXCEPT ![r] = [pc |-> "begin", i |-> 1]]
       /\ thread' = r
       /\ call' = [call EXCEPT ![c] = IF block THEN "awaitStartup" ELSE "idle"]
  /\ UNCHANGED <<state, shutdown, workers, serving, processed, bounds>>

CheckStop(c) ==
  /\ call[c] = "idle" /\ state = "RUNNING"
  /\ call' = [call EXCEPT ![c] = "stop"]
  /\ UNCHANGED <<signals, thread, life, workers, serving, processed, bounds>>

SignalStop(c) ==
  /\ call[c] = "stop"
  /\ shutdown' = TRUE
  /\ \E block \in Block :
       call' = [call EXCEPT ![c] = IF block THEN "join" ELSE "idle"]
  /\ UNCHANGED <<state, startup, thread, life, workers, serving, processed, bounds>>

Return(c) ==
  /\ \/ call[c] = "awaitStartup" /\ startup
     \/ call[c] = "join" /\ life[thread].pc = "over"
  /\ call' = [call EXCEPT ![c] = "idle"]
  /\ UNCHANGED <<signals, thread, life, workers, serving, processed, bounds>>

-----------------------------------------------------------------------------
(* NodeLifecycle._run, in lifecycle thread r                               *)

Goto(r, l)    == life' = [life EXCEPT ![r].pc = l]
NextOne(r, l) == life' = [life EXCEPT ![r] = [pc |-> l, i |-> @.i + 1]]

BeginStartup(r) ==
  /\ life[r].pc = "begin"
  /\ state' = "STARTING"
  /\ Goto(r, "start")
  /\ UNCHANGED <<shutdown, startup, thread, call, workers, serving, processed, bounds>>

AtStart(r, c) ==
  /\ life[r].pc = "start" /\ life[r].i <= Len(StartOrder)
  /\ c = StartOrder[life[r].i]

(* ThreadedComponent.start                                                 *)
StartWorker(r, w) ==
  /\ AtStart(r, w)
  /\ thr' = IF Alive(w) THEN thr ELSE [thr EXCEPT ![w] = "run"]
  /\ Goto(r, "started")
  /\ UNCHANGED <<signals, thread, call, hold, q, serving, processed, bounds>>

StartServer(r) ==
  /\ AtStart(r, "server")
  /\ serving' = TRUE
  /\ Goto(r, "started")
  /\ UNCHANGED <<signals, thread, call, workers, processed, bounds>>

StartHandshaker(r) ==
  /\ AtStart(r, "handshaker")
  /\ Goto(r, "started")
  /\ UNCHANGED <<signals, thread, call, workers, serving, processed, bounds>>

(* ProfileMonitor.start queues the profile and waits.                      *)
StartProfile(r) ==
  /\ AtStart(r, "profile_monitor")
  /\ q' = Enqueue("kobj_worker", "profile")
  /\ Goto(r, "profile")
  /\ UNCHANGED <<signals, thread, call, thr, hold, serving, processed, bounds>>

\* fault: returns as soon as the queue is empty
IsEmptied == q["kobj_worker"] = <<>>

IsDone == Unfinished("kobj_worker") = 0

(* KobjQueue.wait: returns when nothing is unfinished, raises when the     *)
(* node shuts down.                                                        *)
Wait(r) ==
  /\ life[r].pc = "profile"
  /\ \/ IsDone /\ UNCHANGED shutdown
     \/ shutdown /\ UNCHANGED shutdown
  /\ Goto(r, "started")
  /\ UNCHANGED <<state, startup, thread, call, workers, serving, processed, bounds>>

(* A component's start raises.  A server that fails does not serve.        *)
StartFails(r) ==
  /\ \E c \in MayFail \intersect Components : AtStart(r, c)
  /\ fails < MaxFails /\ fails' = fails + 1
  /\ shutdown' = TRUE
  /\ Goto(r, "started")
  /\ UNCHANGED <<state, startup, thread, call, workers, serving, processed, inputs, events>>

Started(r) ==
  /\ life[r].pc = "started"
  /\ IF shutdown THEN Goto(r, "signal") ELSE NextOne(r, "start")
  /\ UNCHANGED <<signals, thread, call, workers, serving, processed, bounds>>

EndStartup(r) ==
  /\ life[r].pc = "start" /\ life[r].i > Len(StartOrder)
  /\ state' = "RUNNING"
  /\ Goto(r, "signal")
  /\ UNCHANGED <<shutdown, startup, thread, call, workers, serving, processed, bounds>>

\* fault: the caller of start is woken only if the start succeeded
SignalIfRunning == startup' = (state = "RUNNING")

SignalStartup == startup' = TRUE

Signal(r) ==
  /\ life[r].pc = "signal"
  /\ SignalStartup
  /\ Goto(r, "await")
  /\ UNCHANGED <<state, shutdown, thread, call, workers, serving, processed, bounds>>

BeginShutdown(r) ==
  /\ life[r].pc = "await" /\ shutdown
  /\ state' = "STOPPING"
  /\ life' = [life EXCEPT ![r] = [pc |-> "stop", i |-> 1]]
  /\ UNCHANGED <<shutdown, startup, thread, call, workers, serving, processed, bounds>>

\* fault: the event worker does not wait for the knowledge worker
StopOrderByName == <<"event_worker", "kobj_worker", "server">>

(* artifact.stop_order: the server, then the knowledge worker, then the    *)
(* event worker, as their stop methods depend on each other.               *)
StopOrder == <<"server", "kobj_worker", "event_worker">>

AtStop(r, c) ==
  /\ life[r].pc = "stop" /\ life[r].i <= Len(StopOrder)
  /\ c = StopOrder[life[r].i]

StopServer(r) ==
  /\ AtStop(r, "server")
  /\ serving' = FALSE
  /\ NextOne(r, "stop")
  /\ UNCHANGED <<signals, thread, call, workers, processed, bounds>>

\* fault: the sentinel goes to a worker only if its queue is empty
SentinelIfEmpty(w) == IF q[w] = <<>> THEN Enqueue(w, STOP) ELSE q

(* The sentinel is put whether the worker's thread lives or not.           *)
Sentinel(w) == Enqueue(w, STOP)

StopWorker(r, w) ==
  /\ AtStop(r, w)
  /\ q' = Sentinel(w)
  /\ Goto(r, "join")
  /\ UNCHANGED <<signals, thread, call, thr, hold, serving, processed, bounds>>

IsJoined(w) == ~Alive(w)

Join(r) ==
  /\ life[r].pc = "join" /\ IsJoined(StopOrder[life[r].i])
  /\ NextOne(r, "stop")
  /\ UNCHANGED <<signals, thread, call, workers, serving, processed, bounds>>

EndShutdown(r) ==
  /\ life[r].pc = "stop" /\ life[r].i > Len(StopOrder)
  /\ shutdown' = FALSE /\ state' = "IDLE"
  /\ Goto(r, "over")
  /\ UNCHANGED <<startup, thread, call, workers, serving, processed, bounds>>

-----------------------------------------------------------------------------
(* The workers: ThreadedComponent._run around the loop of run              *)

Take(w) ==
  /\ thr[w] = "run" /\ q[w] # <<>>
  /\ q' = [q EXCEPT ![w] = Tail(@)]
  /\ IF Head(q[w]) = STOP
     THEN thr' = [thr EXCEPT ![w] = "dead"] /\ UNCHANGED hold
     ELSE thr' = [thr EXCEPT ![w] = "busy"] /\ hold' = [hold EXCEPT ![w] = Head(q[w])]
  /\ UNCHANGED <<signals, thread, life, call, serving, processed, bounds>>

\* fault: the item stays the current one
ReleaseHolding(w, l) == thr' = [thr EXCEPT ![w] = l] /\ UNCHANGED hold

Release(w, l) == thr' = [thr EXCEPT ![w] = l] /\ hold' = [hold EXCEPT ![w] = None]

(* The pipeline ends, and may have queued an event.                        *)
ProcessKnowledge ==
  LET w == "kobj_worker"
  IN  /\ thr[w] = "busy"
      /\ Release(w, "run")
      /\ processed' = (processed \/ hold[w] = "profile")
      /\ \/ UNCHANGED <<q, events>>
         \/ /\ events < MaxEvents /\ events' = events + 1
            /\ q' = Enqueue("event_worker", "event")
      /\ UNCHANGED <<signals, thread, life, call, serving, inputs, fails>>

(* The event is buffered or sent.  The error handler may give its target   *)
(* up, which queues a FORGET.                                              *)
ProcessEvent ==
  LET w == "event_worker"
  IN  /\ thr[w] = "busy"
      /\ Release(w, "run")
      /\ \/ UNCHANGED <<q, inputs>>
         \/ /\ inputs < MaxInputs /\ inputs' = inputs + 1
            /\ q' = Enqueue("kobj_worker", "forget")
      /\ UNCHANGED <<signals, thread, life, call, serving, processed, events, fails>>

(* An exception: `finally` marks the item done, before _run signals.       *)
WorkerFails(w) ==
  /\ thr[w] = "busy" /\ hold[w] \in MayFail
  /\ fails < MaxFails /\ fails' = fails + 1
  /\ Release(w, "failing")
  /\ UNCHANGED <<signals, thread, life, call, q, serving, processed, inputs, events>>

\* fault: the exception is queued, the signal is not raised
SignalNothing == UNCHANGED shutdown

SignalShutdown == shutdown' = TRUE

WorkerSignals(w) ==
  /\ thr[w] = "failing"
  /\ SignalShutdown
  /\ thr' = [thr EXCEPT ![w] = "dead"]
  /\ UNCHANGED <<state, startup, thread, life, call, hold, q, serving, processed, bounds>>

(* A request to the server puts knowledge in the queue.                    *)
Receive ==
  /\ serving /\ inputs < MaxInputs /\ inputs' = inputs + 1
  /\ q' = Enqueue("kobj_worker", "knowledge")
  /\ UNCHANGED <<signals, thread, life, call, thr, hold, serving, processed, events, fails>>

-----------------------------------------------------------------------------
Lifecycle(r) ==
  \/ BeginStartup(r) \/ StartServer(r) \/ StartHandshaker(r) \/ StartProfile(r)
  \/ Wait(r) \/ StartFails(r) \/ Started(r) \/ EndStartup(r) \/ Signal(r)
  \/ BeginShutdown(r) \/ StopServer(r) \/ Join(r) \/ EndShutdown(r)
  \/ \E w \in Workers : StartWorker(r, w) \/ StopWorker(r, w)

Work(w) == Take(w) \/ WorkerFails(w) \/ WorkerSignals(w)

Calling(c) == Spawn(c) \/ SignalStop(c) \/ Return(c)

Next ==
  \/ \E c \in Callers : CheckStart(c) \/ CheckStop(c) \/ Calling(c)
  \/ \E r \in Runs : Lifecycle(r)
  \/ \E w \in Workers : Work(w)
  \/ ProcessKnowledge \/ ProcessEvent
  \/ Receive

Spec == Init /\ [][Next]_vars

(* Threads run.  Nobody has to start the node, to stop it or to send to it. *)
FairSpec ==
  /\ Spec
  /\ \A c \in Callers : WF_vars(Calling(c))
  /\ \A r \in Runs : WF_vars(Lifecycle(r))
  /\ WF_vars(Work("kobj_worker") \/ ProcessKnowledge)
  /\ WF_vars(Work("event_worker") \/ ProcessEvent)

-----------------------------------------------------------------------------
(* Properties                                                              *)

TypeOK ==
  /\ state \in {"IDLE", "STARTING", "RUNNING", "STOPPING"}
  /\ shutdown \in BOOLEAN /\ startup \in BOOLEAN
  /\ thread \in Runs \union {None}
  /\ life \in [Runs -> [pc : {"none", "begin", "start", "profile", "started", "signal",
                              "await", "stop", "join", "over"},
                        i : 0..(Len(StartOrder) + Len(StopOrder) + 1)]]
  /\ call \in [Callers -> {"idle", "start", "awaitStartup", "stop", "join"}]
  /\ thr \in [Workers -> {"dead", "run", "busy", "failing"}]
  /\ hold \in [Workers -> Kinds \union {None}]
  /\ \A w \in Workers : (thr[w] = "busy") <=> (hold[w] # None)
  /\ q \in [Workers -> Seq(Kinds \union {STOP})]
  /\ serving \in BOOLEAN /\ processed \in BOOLEAN
  /\ inputs \in 0..MaxInputs /\ events \in 0..MaxEvents /\ fails \in 0..MaxFails

(* The profile is processed before the components that need it in the      *)
(* cache are started (profile_monitor.py: "this waits for the identity     *)
(* bundle to be processed, later components assume this exists").          *)
IdentityFirst == \A r \in Runs : AtStart(r, "handshaker") => processed

(* A shutdown without exceptions loses nothing: all that was received is   *)
(* processed and all that was announced is handed to the event worker; but *)
(* what the event worker itself queues last, for nodes it gives up, waits  *)
(* for the next start.                                                     *)
Drained ==
  (state = "IDLE" /\ fails = 0) =>
    /\ \A i \in 1..Len(q["kobj_worker"]) : q["kobj_worker"][i] = "forget"
    /\ q["event_worker"] = <<>>

(* A stop that was not refused returns, also when a worker fails meanwhile.*)
StopReturns == \A c \in Callers : call[c] = "join" ~> call[c] = "idle"

(* A worker that fails takes the node down, at whatever stage of startup,  *)
(* run or shutdown; no node goes on running with a thread lost.            *)
FailureStopsNode == \A w \in Workers : thr[w] = "failing" ~> state = "IDLE"

(* A start returns: the wait for the profile ends because it is processed  *)
(* or because the node is shut down ("Safe join, prevents deadlock if      *)
(* kobj_worker fails", kobj_queue.py).                                     *)
StartReturns == \A c \in Callers : call[c] = "awaitStartup" ~> call[c] = "idle"

(* The same for a start that finds no sentinel of an earlier run in the    *)
(* queue, whatever fails while the node starts.                            *)
Stale == \E i \in 1..Len(q["kobj_worker"]) : q["kobj_worker"][i] = STOP

FreshStartReturns ==
  \A c \in Callers : (call[c] = "start" /\ ~Stale) ~> call[c] = "idle"

====
