------------------------- MODULE NodeLifecycleProofs -------------------------
(***************************************************************************)
(* Theorems about NodeLifecycle, for a node whose start blocks its only    *)
(* caller, as in the shell and in the command line entry point: a node has *)
(* its identity before it starts the components that need it, whatever     *)
(* fails and however often it is stopped and started again; and if nothing *)
(* fails, a stop leaves nothing unprocessed.                               *)
(***************************************************************************)
EXTENDS NodeLifecycle, SequenceTheorems, TLAPS

(* One caller at a time, and it waits for the start to end.                *)
IsBlocking == Block \subseteq {TRUE} /\ \A c, d \in Callers : c = d

(* The handshaker starts after the profile monitor, on which it depends.   *)
IsOrdered ==
  \A j \in 1..Len(StartOrder) :
    StartOrder[j] = "handshaker" => \E i \in 1..(j - 1) : StartOrder[i] = "profile_monitor"

Locations == {"none", "begin", "start", "profile", "started", "signal", "await",
              "stop", "join", "over"}

-----------------------------------------------------------------------------
(* Queues                                                                  *)

Holds(s, x) == \E i \in 1..Len(s) : s[i] = x

(* What a queue holds after a put.                                         *)
LEMMA PutHolds ==
  ASSUME NEW S, NEW s \in Seq(S), NEW x, NEW y \in S
  PROVE  /\ Append(s, y) \in Seq(S)
         /\ Holds(Append(s, y), y)
         /\ Holds(s, x) => Holds(Append(s, y), x)
<1>1. PICK n \in Nat : n = Len(s)
  BY LenProperties
<1>2. /\ Append(s, y) \in Seq(S) /\ Len(Append(s, y)) = n + 1
      /\ Append(s, y)[n + 1] = y /\ \A i \in 1..n : Append(s, y)[i] = s[i]
  BY <1>1, AppendProperties
<1>3. n + 1 \in 1..(n + 1) /\ \A i \in 1..n : i \in 1..(n + 1)
  OBVIOUS
<1> QED
  BY <1>1, <1>2, <1>3 DEF Holds

(* What it holds after a get: what was got, and the rest.                  *)
LEMMA GetHolds ==
  ASSUME NEW S, NEW s \in Seq(S), s # <<>>, NEW x
  PROVE  /\ Head(s) \in S /\ Tail(s) \in Seq(S)
         /\ Holds(s, x) => Head(s) = x \/ Holds(Tail(s), x)
<1>1. PICK n \in Nat : n = Len(s)
  BY LenProperties
<1>2. n # 0
  BY <1>1, EmptySeq
<1>3. /\ Head(s) \in S /\ Head(s) = s[1] /\ Tail(s) \in Seq(S)
      /\ Len(Tail(s)) = n - 1 /\ \A i \in 1..(n - 1) : Tail(s)[i] = s[i + 1]
  BY <1>1, <1>2, HeadTailProperties
<1>4. ASSUME NEW i \in 1..n, s[i] = x, Head(s) # x PROVE Holds(Tail(s), x)
  <2>1. i # 1 /\ i - 1 \in 1..(n - 1) /\ (i - 1) + 1 = i
    BY <1>3, <1>4
  <2> QED
    BY <1>3, <1>4, <2>1 DEF Holds
<1> QED
  BY <1>1, <1>3, <1>4 DEF Holds

-----------------------------------------------------------------------------
(* Types: each location of a lifecycle thread has its range of components. *)

InRange(l, n) ==
  /\ l \in Locations /\ n \in 0..(Len(StartOrder) + Len(StopOrder) + 1)
  /\ l = "begin" => n = 1
  /\ l = "start" => n \in 1..(Len(StartOrder) + 1)
  /\ l \in {"profile", "started"} => n \in 1..Len(StartOrder)
  /\ l = "stop" => n \in 1..(Len(StopOrder) + 1)
  /\ l = "join" => n \in 1..Len(StopOrder)

LifeOK ==
  /\ life \in [Runs -> [pc : Locations, i : 0..(Len(StartOrder) + Len(StopOrder) + 1)]]
  /\ \A r \in Runs : InRange(life[r].pc, life[r].i)

TypeInv == TypeOK /\ LifeOK

LEMMA Orders ==
  /\ Len(StartOrder) \in Nat /\ Len(StopOrder) = 3
  /\ \A i \in 1..Len(StartOrder) : StartOrder[i] \in Components
BY LifecycleAssumption, LenProperties, ElementOfSeq DEF StopOrder

-----------------------------------------------------------------------------
(* Types: preservation                                                     *)

Items == Kinds \union {STOP}

LEMMA InitType == Init => TypeInv
<1> SUFFICES ASSUME Init PROVE TypeInv
  OBVIOUS
<1>1. 0 \in 0..(Len(StartOrder) + Len(StopOrder) + 1) /\ <<>> \in Seq(Items)
  BY Orders
<1>2. q \in [Workers -> Seq(Kinds \union {STOP})]
  BY <1>1 DEF Init, Items
<1>3. LifeOK
  BY <1>1 DEF Init, LifeOK, InRange, Locations
<1>4. TypeOK
  <2>1. inputs \in 0..MaxInputs /\ events \in 0..MaxEvents /\ fails \in 0..MaxFails
    BY LifecycleAssumption DEF Init
  <2>2. \A w \in Workers : (thr[w] = "busy") <=> (hold[w] # None)
    BY DEF Init
  <2>3. thr \in [Workers -> {"dead", "run", "busy", "failing"}] /\ hold \in [Workers -> Kinds \union {None}]
    BY DEF Init
  <2> QED
    BY <1>2, <1>3, <2>1, <2>2, <2>3 DEF Init, TypeOK, LifeOK, Locations
<1> QED
  BY <1>3, <1>4 DEF TypeInv

(* A move of a lifecycle thread, to a location and a component in range.   *)
LEMMA MoveType ==
  ASSUME LifeOK, NEW r \in Runs, NEW l, NEW n, InRange(l, n),
         life' = [life EXCEPT ![r] = [pc |-> l, i |-> n]]
  PROVE  LifeOK'
BY DEF LifeOK, InRange

LEMMA GotoType ==
  ASSUME LifeOK, NEW r \in Runs, NEW l, InRange(l, life[r].i), Goto(r, l)
  PROVE  /\ LifeOK'
         /\ life' = [life EXCEPT ![r] = [pc |-> l, i |-> life[r].i]]
<1>1. [life[r] EXCEPT !.pc = l] = [pc |-> l, i |-> life[r].i]
  BY DEF LifeOK
<1>2. life' = [life EXCEPT ![r] = [pc |-> l, i |-> life[r].i]]
  BY <1>1 DEF Goto
<1> QED
  BY <1>2, MoveType

LEMMA NextOneType ==
  ASSUME LifeOK, NEW r \in Runs, NEW l, InRange(l, life[r].i + 1), NextOne(r, l)
  PROVE  /\ LifeOK'
         /\ life' = [life EXCEPT ![r] = [pc |-> l, i |-> life[r].i + 1]]
<1>1. life' = [life EXCEPT ![r] = [pc |-> l, i |-> life[r].i + 1]]
  BY DEF NextOne
<1> QED
  BY <1>1, MoveType

(* What a put leaves in the queues.                                        *)
LEMMA EnqueueType ==
  ASSUME TypeOK, NEW w \in Workers, NEW x \in Items
  PROVE  /\ Enqueue(w, x) \in [Workers -> Seq(Items)]
         /\ \A v \in Workers : Enqueue(w, x)[v] = IF v = w THEN Append(q[w], x) ELSE q[v]
<1>1. q \in [Workers -> Seq(Items)]
  BY DEF TypeOK, Items
<1>2. Append(q[w], x) \in Seq(Items)
  BY <1>1, PutHolds
<1> QED
  BY <1>1, <1>2 DEF Enqueue

LEMMA LifecycleType == ASSUME TypeInv, NEW r \in Runs, Lifecycle(r) PROVE TypeInv'
<1> USE Orders DEF TypeInv, signals, workers, bounds
<1>1. ASSUME BeginStartup(r) PROVE TypeInv'
  <2>1. LifeOK'
    BY <1>1, GotoType, NextOneType, SMTT(30) DEF LifeOK, InRange, Locations, BeginStartup
  <2> QED
    BY <1>1, <2>1 DEF TypeOK, LifeOK, Locations, BeginStartup
<1>2. ASSUME StartServer(r) PROVE TypeInv'
  <2>1. LifeOK'
    BY <1>2, GotoType, NextOneType, SMTT(30) DEF LifeOK, InRange, Locations, StartServer, AtStart
  <2> QED
    BY <1>2, <2>1 DEF TypeOK, LifeOK, Locations, StartServer, AtStart
<1>3. ASSUME StartHandshaker(r) PROVE TypeInv'
  <2>1. LifeOK'
    BY <1>3, GotoType, NextOneType, SMTT(30) DEF LifeOK, InRange, Locations, StartHandshaker, AtStart
  <2> QED
    BY <1>3, <2>1 DEF TypeOK, LifeOK, Locations, StartHandshaker, AtStart
<1>4. ASSUME Wait(r) PROVE TypeInv'
  <2>1. LifeOK'
    BY <1>4, GotoType, NextOneType, SMTT(30) DEF LifeOK, InRange, Locations, Wait
  <2> QED
    BY <1>4, <2>1 DEF TypeOK, LifeOK, Locations, Wait
<1>5. ASSUME StartFails(r) PROVE TypeInv'
  <2>1. LifeOK'
    BY <1>5, GotoType, NextOneType, SMTT(30) DEF LifeOK, InRange, Locations, StartFails, AtStart
  <2> QED
    BY <1>5, <2>1, LifecycleAssumption DEF TypeOK, LifeOK, Locations, StartFails, AtStart
<1>6. ASSUME Started(r) PROVE TypeInv'
  <2>1. LifeOK'
    <3>1. InRange("started", life[r].i)
      BY <1>6 DEF LifeOK, Started
    <3>2. InRange("signal", life[r].i) /\ InRange("start", life[r].i + 1)
      BY <3>1 DEF InRange, Locations
    <3> QED
      BY <1>6, <3>2, GotoType, NextOneType DEF Started
  <2> QED
    BY <1>6, <2>1 DEF TypeOK, LifeOK, Locations, Started
<1>7. ASSUME EndStartup(r) PROVE TypeInv'
  <2>1. LifeOK'
    BY <1>7, GotoType, NextOneType, SMTT(30) DEF LifeOK, InRange, Locations, EndStartup
  <2> QED
    BY <1>7, <2>1 DEF TypeOK, LifeOK, Locations, EndStartup
<1>8. ASSUME Signal(r) PROVE TypeInv'
  <2>1. LifeOK'
    BY <1>8, GotoType, NextOneType, SMTT(30) DEF LifeOK, InRange, Locations, Signal, SignalStartup
  <2> QED
    BY <1>8, <2>1 DEF TypeOK, LifeOK, Locations, Signal, SignalStartup
<1>9. ASSUME StopServer(r) PROVE TypeInv'
  <2>1. LifeOK'
    <3>1. InRange("stop", life[r].i) /\ life[r].i <= Len(StopOrder)
      BY <1>9 DEF LifeOK, StopServer, AtStop
    <3>2. InRange("stop", life[r].i + 1)
      BY <3>1 DEF InRange, Locations
    <3> QED
      BY <1>9, <3>2, NextOneType DEF StopServer
  <2> QED
    BY <1>9, <2>1 DEF TypeOK, LifeOK, Locations, StopServer, AtStop
<1>10. ASSUME Join(r) PROVE TypeInv'
  <2>1. LifeOK'
    <3>1. InRange("join", life[r].i)
      BY <1>10 DEF LifeOK, Join
    <3>2. InRange("stop", life[r].i + 1)
      BY <3>1 DEF InRange, Locations
    <3> QED
      BY <1>10, <3>2, NextOneType DEF Join
  <2> QED
    BY <1>10, <2>1 DEF TypeOK, LifeOK, Locations, Join
<1>11. ASSUME EndShutdown(r) PROVE TypeInv'
  <2>1. LifeOK'
    BY <1>11, GotoType, NextOneType, SMTT(30) DEF LifeOK, InRange, Locations, EndShutdown
  <2> QED
    BY <1>11, <2>1 DEF TypeOK, LifeOK, Locations, EndShutdown
<1>12. ASSUME BeginShutdown(r) PROVE TypeInv'
  <2>1. LifeOK'
    BY <1>12, MoveType DEF LifeOK, InRange, Locations, BeginShutdown
  <2> QED
    BY <1>12, <2>1 DEF TypeOK, LifeOK, Locations, BeginShutdown
<1>13. ASSUME StartProfile(r) PROVE TypeInv'
  <2>1. LifeOK'
    BY <1>13, GotoType DEF LifeOK, InRange, Locations, StartProfile, AtStart
  <2>2. Enqueue("kobj_worker", "profile") \in [Workers -> Seq(Items)]
    BY EnqueueType DEF Items, Kinds, Workers
  <2> QED
    BY <1>13, <2>1, <2>2 DEF TypeOK, LifeOK, Locations, Items, StartProfile, AtStart
<1>14. ASSUME NEW w \in Workers, StopWorker(r, w) PROVE TypeInv'
  <2>1. LifeOK'
    BY <1>14, GotoType DEF LifeOK, InRange, Locations, StopWorker, AtStop, Sentinel
  <2>2. Enqueue(w, STOP) \in [Workers -> Seq(Items)]
    BY EnqueueType DEF Items, Kinds, Workers
  <2> QED
    BY <1>14, <2>1, <2>2 DEF TypeOK, LifeOK, Locations, Items, StopWorker, AtStop, Sentinel
<1>15. ASSUME NEW w \in Workers, StartWorker(r, w) PROVE TypeInv'
  <2>1. LifeOK'
    BY <1>15, GotoType DEF LifeOK, InRange, Locations, StartWorker, AtStart
  <2> QED
    BY <1>15, <2>1 DEF TypeOK, LifeOK, Locations, StartWorker, Alive
<1> QED
  BY <1>1, <1>2, <1>3, <1>4, <1>5, <1>6, <1>7, <1>8, <1>9, <1>10, <1>11, <1>12, <1>13, <1>14, <1>15 DEF Lifecycle

LEMMA OthersType == ASSUME TypeInv, [Next]_vars, \A r \in Runs : ~Lifecycle(r) PROVE TypeInv'
<1> USE DEF TypeInv, signals, workers, bounds
<1>1. ASSUME UNCHANGED life PROVE LifeOK'
  BY <1>1 DEF LifeOK
<1>2. ASSUME NEW c \in Callers, CheckStart(c) PROVE TypeInv'
  BY <1>2, <1>1 DEF TypeOK, CheckStart
<1>3. ASSUME NEW c \in Callers, CheckStop(c) PROVE TypeInv'
  BY <1>3, <1>1 DEF TypeOK, CheckStop
<1>4. ASSUME NEW c \in Callers, SignalStop(c) PROVE TypeInv'
  BY <1>4, <1>1 DEF TypeOK, SignalStop
<1>5. ASSUME NEW c \in Callers, Return(c) PROVE TypeInv'
  BY <1>5, <1>1 DEF TypeOK, Return
<1>6. ASSUME NEW c \in Callers, Spawn(c) PROVE TypeInv'
  <2>1. LifeOK'
    <3>1. PICK r \in Runs : life' = [life EXCEPT ![r] = [pc |-> "begin", i |-> 1]]
      BY <1>6 DEF Spawn
    <3>2. InRange("begin", 1)
      BY Orders DEF InRange, Locations
    <3> QED
      BY <3>1, <3>2, MoveType
  <2> QED
    BY <1>6, <2>1 DEF TypeOK, LifeOK, Locations, Spawn
<1>7. ASSUME NEW w \in Workers, Take(w) PROVE TypeInv'
  <2>1. q \in [Workers -> Seq(Items)] /\ q[w] # <<>>
    BY <1>7 DEF TypeOK, Take, Items
  <2>2. Head(q[w]) \in Items /\ Tail(q[w]) \in Seq(Items)
    BY <2>1, GetHolds
  <2>3. q' \in [Workers -> Seq(Items)]
    BY <1>7, <2>1, <2>2 DEF Take
  <2>4. hold' \in [Workers -> Kinds \union {None}] /\ (hold' = hold \/ hold'[w] # None)
        /\ thr' \in [Workers -> {"dead", "run", "busy", "failing"}]
        /\ \A v \in Workers : (thr'[v] = "busy") <=> (hold'[v] # None)
    <3> DEFINE x == Head(q[w])
    <3>1. /\ thr[w] = "run" /\ x \in Items
          /\ \/ x = STOP /\ thr' = [thr EXCEPT ![w] = "dead"] /\ hold' = hold
             \/ /\ x # STOP /\ thr' = [thr EXCEPT ![w] = "busy"]
                /\ hold' = [hold EXCEPT ![w] = x]
      BY <1>7, <2>2 DEF Take
    <3> HIDE DEF x
    <3> QED
      BY <3>1, LifecycleAssumption, ZenonT(40) DEF TypeOK, Items
  <2>5. /\ UNCHANGED <<signals, thread, life, call, serving, processed, bounds>>
        /\ q' \in [Workers -> Seq(Kinds \union {STOP})]
    BY <1>7, <2>3 DEF Take, Items
  <2> QED
    BY <1>1, <2>4, <2>5 DEF TypeOK
<1>8. ASSUME NEW w \in Workers, WorkerFails(w) PROVE TypeInv'
  BY <1>8, <1>1, LifecycleAssumption DEF TypeOK, WorkerFails, Release
<1>9. ASSUME NEW w \in Workers, WorkerSignals(w) PROVE TypeInv'
  BY <1>9, <1>1 DEF TypeOK, WorkerSignals, SignalShutdown
<1>10. ASSUME ProcessKnowledge PROVE TypeInv'
  <2>1. Enqueue("event_worker", "event") \in [Workers -> Seq(Items)]
    BY EnqueueType DEF Items, Kinds, Workers
  <2>2. processed' \in BOOLEAN
    BY <1>10, Zenon DEF TypeOK, ProcessKnowledge
  <2>3. "kobj_worker" \in Workers /\ "event_worker" \in Workers
    BY DEF Workers
  <2>4. /\ thr' \in [Workers -> {"dead", "run", "busy", "failing"}]
        /\ hold' \in [Workers -> Kinds \union {None}]
        /\ \A w \in Workers : (thr'[w] = "busy") <=> (hold'[w] # None)
    BY <1>10, <2>3, LifecycleAssumption DEF TypeOK, ProcessKnowledge, Release
  <2>5. q' \in [Workers -> Seq(Kinds \union {STOP})] /\ events' \in 0..MaxEvents
    BY <1>10, <2>1, LifecycleAssumption DEF TypeOK, ProcessKnowledge, Items
  <2>6. UNCHANGED <<signals, thread, life, call, serving, inputs, fails>>
    BY <1>10 DEF ProcessKnowledge
  <2> QED
    BY <1>1, <2>2, <2>4, <2>5, <2>6 DEF TypeOK
<1>11. ASSUME ProcessEvent PROVE TypeInv'
  <2>1. Enqueue("kobj_worker", "forget") \in [Workers -> Seq(Items)]
    BY EnqueueType DEF Items, Kinds, Workers
  <2>2. processed' \in BOOLEAN
    BY <1>11, Zenon DEF TypeOK, ProcessEvent
  <2>3. "kobj_worker" \in Workers /\ "event_worker" \in Workers
    BY DEF Workers
  <2> QED
    BY <1>11, <1>1, <2>1, <2>2, <2>3, LifecycleAssumption DEF TypeOK, ProcessEvent, Release, Items
<1>12. ASSUME Receive PROVE TypeInv'
  <2>1. Enqueue("kobj_worker", "knowledge") \in [Workers -> Seq(Items)]
    BY EnqueueType DEF Items, Kinds, Workers
  <2> QED
    BY <1>12, <1>1, <2>1, LifecycleAssumption DEF TypeOK, Receive, Items
<1>13. CASE UNCHANGED vars
  BY <1>13, <1>1 DEF TypeOK, vars
<1> QED
  BY <1>2, <1>3, <1>4, <1>5, <1>6, <1>7, <1>8, <1>9, <1>10, <1>11, <1>12, <1>13 DEF Next, Work, Calling

(* TypeOK holds for every start order, every number of callers and runs.   *)
THEOREM TypeInvariant == Spec => []TypeOK
<1>1. TypeInv /\ [Next]_vars => TypeInv'
  BY LifecycleType, OthersType
<1>2. TypeInv => TypeOK
  BY DEF TypeInv
<1> QED
  BY InitType, <1>1, <1>2, PTL DEF Spec

-----------------------------------------------------------------------------
(* At most one lifecycle thread, and the state is that of its location.    *)

Active(r) == life[r].pc \notin {"none", "over"}

OneRun == \A r, s \in Runs : Active(r) /\ Active(s) => r = s

StateFits(r) ==
  /\ life[r].pc \in {"start", "profile", "started"} => state = "STARTING"
  /\ life[r].pc \in {"signal", "await"} => state \in {"STARTING", "RUNNING"}
  /\ life[r].pc \in {"stop", "join"} => state = "STOPPING"

(* A caller that is about to start the node found no thread; until the new *)
(* thread has set the state, the caller waits.                             *)
CallersWait ==
  /\ \A c \in Callers : call[c] = "start" => state = "IDLE" /\ \A r \in Runs : ~Active(r)
  /\ \A r \in Runs : life[r].pc = "begin" =>
       ~startup /\ \E c \in Callers : call[c] = "awaitStartup"

(* The node's profile is processed, or on its way.                         *)
Coming ==
  \/ processed
  \/ hold["kobj_worker"] = "profile"
  \/ Holds(q["kobj_worker"], "profile")

(* The profile monitor is among the first n components.                    *)
Past(n) == \E i \in 1..n : StartOrder[i] = "profile_monitor"

ProfileFirst(r) ==
  /\ life[r].pc = "profile" => Coming
  /\ life[r].pc = "start" /\ Past(life[r].i - 1) => processed
  /\ life[r].pc = "started" /\ Past(life[r].i) => processed \/ shutdown

RunInv == TypeInv /\ OneRun /\ CallersWait /\ \A r \in Runs : StateFits(r)

IInv == RunInv /\ \A r \in Runs : ProfileFirst(r)

-----------------------------------------------------------------------------
(* One lifecycle thread                                                    *)

LEMMA InitInv == Init => IInv
<1> SUFFICES ASSUME Init PROVE IInv
  OBVIOUS
<1>1. \A r \in Runs : life[r].pc = "none"
  BY DEF Init
<1>2. \A c \in Callers : call[c] = "idle"
  BY DEF Init
<1> QED
  BY <1>1, <1>2, InitType
     DEF IInv, RunInv, OneRun, CallersWait, StateFits, ProfileFirst, Active

(* A lifecycle thread that moves leaves the others where they are.         *)
LEMMA Moved ==
  ASSUME LifeOK, NEW r \in Runs, NEW l,
         \/ Goto(r, l)
         \/ NextOne(r, l)
         \/ life' = [life EXCEPT ![r] = [pc |-> l, i |-> 1]]
  PROVE  life'[r].pc = l /\ \A s \in Runs \ {r} : life'[s] = life[s]
BY DEF LifeOK, Goto, NextOne

(* A lifecycle step is one of an active thread, which does not begin anew, *)
(* and sets the state that fits its new location.                          *)
StepsOn(r) ==
  /\ Active(r) /\ life'[r].pc # "begin" /\ UNCHANGED call
  /\ \A s \in Runs \ {r} : life'[s] = life[s]
  /\ StateFits(r)'

LEMMA LifecycleMoves ==
  ASSUME TypeInv, NEW r \in Runs, Lifecycle(r), StateFits(r) PROVE StepsOn(r)
<1> USE Moved DEF TypeInv, StepsOn, Active, StateFits, signals
<1>1. ASSUME BeginStartup(r) PROVE StepsOn(r)
  BY <1>1 DEF BeginStartup
<1>2. ASSUME StartServer(r) PROVE StepsOn(r)
  BY <1>2 DEF StartServer, AtStart
<1>3. ASSUME StartHandshaker(r) PROVE StepsOn(r)
  BY <1>3 DEF StartHandshaker, AtStart
<1>4. ASSUME StartProfile(r) PROVE StepsOn(r)
  BY <1>4 DEF StartProfile, AtStart
<1>5. ASSUME Wait(r) PROVE StepsOn(r)
  BY <1>5 DEF Wait
<1>6. ASSUME StartFails(r) PROVE StepsOn(r)
  BY <1>6 DEF StartFails, AtStart
<1>7. ASSUME Started(r) PROVE StepsOn(r)
  BY <1>7 DEF Started
<1>8. ASSUME EndStartup(r) PROVE StepsOn(r)
  BY <1>8 DEF EndStartup
<1>9. ASSUME Signal(r) PROVE StepsOn(r)
  BY <1>9 DEF Signal
<1>10. ASSUME BeginShutdown(r) PROVE StepsOn(r)
  <2>1. life' = [life EXCEPT ![r] = [pc |-> "stop", i |-> 1]]
    BY <1>10 DEF BeginShutdown
  <2>2. life'[r].pc = "stop" /\ \A s \in Runs \ {r} : life'[s] = life[s]
    BY <2>1, Moved
  <2> QED
    BY <1>10, <2>2 DEF BeginShutdown
<1>11. ASSUME StopServer(r) PROVE StepsOn(r)
  BY <1>11 DEF StopServer, AtStop
<1>12. ASSUME Join(r) PROVE StepsOn(r)
  BY <1>12 DEF Join
<1>13. ASSUME EndShutdown(r) PROVE StepsOn(r)
  BY <1>13 DEF EndShutdown
<1>14. ASSUME NEW w \in Workers, StartWorker(r, w) PROVE StepsOn(r)
  BY <1>14 DEF StartWorker, AtStart
<1>15. ASSUME NEW w \in Workers, StopWorker(r, w) PROVE StepsOn(r)
  BY <1>15 DEF StopWorker, AtStop
<1> QED
  BY <1>1, <1>2, <1>3, <1>4, <1>5, <1>6, <1>7,
     <1>8, <1>9, <1>10, <1>11, <1>12, <1>13, <1>14, <1>15 DEF Lifecycle

(* The steps of the callers.  A caller that checks finds no thread in any  *)
(* location but "begin", whose caller waits; and there is no other caller. *)
LEMMA CallerMoves ==
  ASSUME IsBlocking, RunInv, NEW c \in Callers, CheckStart(c) \/ CheckStop(c) \/ Calling(c)
  PROVE  OneRun' /\ CallersWait' /\ \A r \in Runs : StateFits(r)'
<1> USE DEF RunInv, TypeInv
<1>1. \A d \in Callers : d = c
  BY DEF IsBlocking
<1>2. call \in [Callers -> {"idle", "start", "awaitStartup", "stop", "join"}]
  BY DEF TypeOK
<1>3. ASSUME CheckStart(c) PROVE OneRun' /\ CallersWait' /\ \A r \in Runs : StateFits(r)'
  <2>1. UNCHANGED <<life, state, startup>> /\ state = "IDLE" /\ call[c] = "idle"
    BY <1>3 DEF CheckStart, MayStart, signals
  <2>2. \A r \in Runs : life[r].pc # "begin"
    BY <1>1, <2>1 DEF CallersWait
  <2>3. \A r \in Runs : life[r].pc \in Locations
    BY DEF LifeOK
  <2>4. \A r \in Runs : ~Active(r)
    BY <2>1, <2>2, <2>3 DEF StateFits, Active, Locations
  <2> QED
    BY <2>1, <2>4 DEF OneRun, CallersWait, StateFits, Active
<1>4. ASSUME Spawn(c) PROVE OneRun' /\ CallersWait' /\ \A r \in Runs : StateFits(r)'
  <2>1. /\ \A r \in Runs : ~Active(r)
        /\ startup' = FALSE /\ state' = state
    BY <1>4 DEF Spawn, CallersWait
  <2>2. call' = [call EXCEPT ![c] = "awaitStartup"]
    BY <1>4 DEF Spawn, IsBlocking
  <2>3. call'[c] = "awaitStartup"
    BY <1>2, <2>2
  <2>4. PICK r \in Runs : life' = [life EXCEPT ![r] = [pc |-> "begin", i |-> 1]]
    BY <1>4 DEF Spawn
  <2>5. life'[r].pc = "begin" /\ \A s \in Runs \ {r} : life'[s] = life[s]
    BY <2>4, Moved
  <2> QED
    BY <1>1, <2>1, <2>3, <2>5 DEF OneRun, CallersWait, StateFits, Active
<1>5. ASSUME CheckStop(c) \/ SignalStop(c) \/ Return(c)
      PROVE  OneRun' /\ CallersWait' /\ \A r \in Runs : StateFits(r)'
  <2>1. UNCHANGED <<life, state, startup>> /\ call'[c] # "start"
    BY <1>2, <1>5 DEF CheckStop, SignalStop, Return, signals
  <2>2. call[c] # "awaitStartup" \/ startup
    BY <1>5 DEF CheckStop, SignalStop, Return
  <2>3. \A r \in Runs : life[r].pc # "begin"
    BY <1>1, <2>2 DEF CallersWait
  <2> QED
    BY <1>1, <2>1, <2>3 DEF OneRun, CallersWait, StateFits, Active
<1> QED
  BY <1>3, <1>4, <1>5 DEF Calling

(* Workers and the server leave threads, state and callers alone.          *)
WorkStep ==
  \/ \E w \in Workers : Work(w)
  \/ ProcessKnowledge \/ ProcessEvent \/ Receive
  \/ UNCHANGED vars

LEMMA WorkerMoves == WorkStep => UNCHANGED <<life, state, startup, call>>
BY DEF WorkStep, Work, Take, WorkerFails, WorkerSignals, ProcessKnowledge,
       ProcessEvent, Receive, signals, vars

LEMMA NextRuns == ASSUME IsBlocking, RunInv, [Next]_vars PROVE RunInv'
<1>1. TypeInv'
  BY LifecycleType, OthersType DEF RunInv
<1>2. ASSUME NEW r \in Runs, Lifecycle(r)
      PROVE  OneRun' /\ CallersWait' /\ \A s \in Runs : StateFits(s)'
  <2>1. StepsOn(r)
    BY <1>2, LifecycleMoves DEF RunInv
  <2>2. \A s \in Runs \ {r} : ~Active(s)
    BY <2>1 DEF StepsOn, RunInv, OneRun
  <2>3. \A s \in Runs \ {r} : life'[s].pc \in {"none", "over"}
    BY <2>1, <2>2 DEF StepsOn, Active
  <2>4. \A c \in Callers : call'[c] # "start"
    BY <2>1 DEF StepsOn, RunInv, CallersWait
  <2>5. StateFits(r)' /\ life'[r].pc # "begin"
    BY <2>1 DEF StepsOn
  <2>6. \A s \in Runs : StateFits(s)'
    BY <2>3, <2>5 DEF StateFits
  <2> QED
    BY <2>3, <2>4, <2>5, <2>6 DEF OneRun, CallersWait, Active
<1>3. ASSUME WorkStep PROVE OneRun' /\ CallersWait' /\ \A s \in Runs : StateFits(s)'
  BY <1>3, WorkerMoves DEF RunInv, OneRun, CallersWait, StateFits, Active
<1> QED
  BY <1>1, <1>2, <1>3, CallerMoves DEF Next, WorkStep, RunInv

(* With one caller that waits for the start, at most one lifecycle thread  *)
(* is active, however often the node is started, fails and is stopped.     *)
THEOREM OneRunTheorem == IsBlocking => (Spec => []OneRun)
<1> SUFFICES ASSUME IsBlocking PROVE Spec => []OneRun
  OBVIOUS
<1>1. Init => RunInv
  BY InitInv DEF IInv
<1>2. RunInv /\ [Next]_vars => RunInv'
  BY NextRuns
<1>3. RunInv => OneRun
  BY DEF RunInv
<1> QED
  BY <1>1, <1>2, <1>3, PTL DEF Spec

-----------------------------------------------------------------------------
(* The profile first                                                       *)

(* What is processed stays so, and a profile on its way arrives unless its *)
(* processing fails.                                                       *)
LEMMA StillComing ==
  ASSUME TypeInv, [Next]_vars, "profile" \notin MayFail
  PROVE  (processed => processed') /\ (Coming => Coming')
<1> DEFINE k == "kobj_worker"
<1>1. k \in Workers /\ "event_worker" \in Workers /\ \A w \in Workers : q[w] \in Seq(Items)
  BY DEF TypeInv, TypeOK, Items, Workers
<1>2. ASSUME NEW w \in Workers, NEW x \in Items, q' = Enqueue(w, x), UNCHANGED <<hold, processed>>
      PROVE  Coming => Coming'
  <2>1. q'[k] = IF k = w THEN Append(q[w], x) ELSE q[k]
    BY <1>1, <1>2, EnqueueType DEF TypeInv
  <2>2. Holds(q[k], "profile") => Holds(q'[k], "profile")
    BY <1>1, <2>1, PutHolds
  <2> QED
    BY <1>2, <2>2 DEF Coming
<1>3. ASSUME UNCHANGED <<hold, processed, q>> PROVE Coming => Coming'
  BY <1>3 DEF Coming
<1>4. ASSUME NEW r \in Runs, Lifecycle(r) PROVE (processed => processed') /\ (Coming => Coming')
  <2>1. UNCHANGED <<hold, processed>>
    BY <1>4 DEF Lifecycle, BeginStartup, StartServer, StartHandshaker, StartProfile, Wait,
         StartFails, Started, EndStartup, Signal, BeginShutdown, StopServer, Join,
         EndShutdown, StartWorker, StopWorker, workers
  <2>2. \/ UNCHANGED q
        \/ \E w \in Workers, x \in Items : q' = Enqueue(w, x)
    BY <1>1, <1>4 DEF Lifecycle, BeginStartup, StartServer, StartHandshaker, StartProfile, Wait,
         StartFails, Started, EndStartup, Signal, BeginShutdown, StopServer, Join,
         EndShutdown, StartWorker, StopWorker, workers, Sentinel, Items, Kinds
  <2> QED
    BY <1>2, <1>3, <2>1, <2>2
<1>5. ASSUME NEW c \in Callers, CheckStart(c) \/ CheckStop(c) \/ Calling(c)
      PROVE  (processed => processed') /\ (Coming => Coming')
  BY <1>3, <1>5 DEF CheckStart, CheckStop, Calling, Spawn, SignalStop, Return, workers
<1>6. ASSUME NEW w \in Workers, Take(w) PROVE (processed => processed') /\ (Coming => Coming')
  <2>1. CASE w = k
    <3>1. q[k] # <<>> /\ q'[k] = Tail(q[k]) /\ UNCHANGED processed
      BY <1>6, <2>1 DEF Take, TypeInv, TypeOK
    <3>2. Holds(q[k], "profile") => Head(q[k]) = "profile" \/ Holds(q'[k], "profile")
      BY <1>1, <3>1, GetHolds
    <3>3. STOP # "profile"
      BY LifecycleAssumption DEF Kinds
    <3>4. Head(q[k]) = "profile" => hold'[k] = "profile"
      BY <1>6, <2>1, <3>3 DEF Take, TypeInv, TypeOK
    <3>5. hold[k] # "profile"
      BY <1>6, <2>1, LifecycleAssumption DEF Take, TypeInv, TypeOK, Kinds
    <3> QED
      BY <3>1, <3>2, <3>4, <3>5 DEF Coming
  <2>2. CASE w # k
    <3>1. q'[k] = q[k] /\ hold'[k] = hold[k] /\ UNCHANGED processed
      BY <1>1, <1>6, <2>2 DEF Take, TypeInv, TypeOK
    <3> QED
      BY <3>1 DEF Coming
  <2> QED
    BY <2>1, <2>2
<1>7. ASSUME NEW w \in Workers, WorkerFails(w) PROVE (processed => processed') /\ (Coming => Coming')
  <2>1. UNCHANGED <<q, processed>> /\ (hold[k] = "profile" => hold'[k] = "profile")
    BY <1>1, <1>7 DEF WorkerFails, Release, TypeInv, TypeOK
  <2> QED
    BY <2>1 DEF Coming
<1>8. ASSUME NEW w \in Workers, WorkerSignals(w) PROVE (processed => processed') /\ (Coming => Coming')
  BY <1>3, <1>8 DEF WorkerSignals
<1>9. ASSUME ProcessKnowledge PROVE (processed => processed') /\ (Coming => Coming')
  <2>1. processed \/ hold[k] = "profile" => processed'
    BY <1>9, Zenon DEF ProcessKnowledge
  <2>2. q' = q \/ q' = Enqueue("event_worker", "event")
    BY <1>9 DEF ProcessKnowledge
  <2>3. q'[k] = q[k]
    BY <1>1, <2>2 DEF Enqueue, TypeInv, TypeOK
  <2> QED
    BY <2>1, <2>3 DEF Coming
<1>10. ASSUME ProcessEvent PROVE (processed => processed') /\ (Coming => Coming')
  <2>1. UNCHANGED processed /\ hold'[k] = hold[k]
    BY <1>1, <1>10 DEF ProcessEvent, Release, TypeInv, TypeOK
  <2>2. q' = q \/ q' = Enqueue(k, "forget")
    BY <1>10 DEF ProcessEvent
  <2>3. Holds(q[k], "profile") => Holds(q'[k], "profile")
    <3>1. "forget" \in Items
      BY DEF Items, Kinds
    <3>2. q'[k] = q[k] \/ q'[k] = Append(q[k], "forget")
      BY <1>1, <2>2 DEF Enqueue, TypeInv, TypeOK
    <3>3. Holds(q[k], "profile") => Holds(Append(q[k], "forget"), "profile")
      BY <1>1, <3>1, PutHolds
    <3> QED
      BY <3>2, <3>3
  <2> QED
    BY <2>1, <2>3 DEF Coming
<1>11. ASSUME Receive PROVE (processed => processed') /\ (Coming => Coming')
  BY <1>1, <1>2, <1>11 DEF Receive, Items, Kinds
<1>12. CASE UNCHANGED vars
  BY <1>3, <1>12 DEF vars
<1> QED
  BY <1>4, <1>5, <1>6, <1>7, <1>8, <1>9, <1>10, <1>11, <1>12 DEF Next, Work

(* The step of the thread itself.                                          *)
LEMMA OwnStep ==
  ASSUME TypeInv, NEW r \in Runs, Lifecycle(r), ProfileFirst(r),
         processed => processed', Coming => Coming'
  PROVE  ProfileFirst(r)'
<1> USE DEF TypeInv
<1>1. InRange(life[r].pc, life[r].i)
  BY DEF LifeOK
<1>2. life[r].i \in Nat
  BY <1>1, Orders DEF InRange
<1>3. ASSUME NEW l, Goto(r, l), l \notin {"profile", "start", "started"} PROVE ProfileFirst(r)'
  BY <1>3, Moved DEF ProfileFirst
<1>4. ASSUME NEW n, life'[r] = [pc |-> "stop", i |-> n] PROVE ProfileFirst(r)'
  BY <1>4 DEF ProfileFirst
<1>5. ASSUME NEW l, Goto(r, l) PROVE life'[r] = [pc |-> l, i |-> life[r].i]
  BY <1>5 DEF Goto, LifeOK
<1>6. ASSUME NEW l, NextOne(r, l) PROVE life'[r] = [pc |-> l, i |-> life[r].i + 1]
  BY <1>6 DEF NextOne, LifeOK
<1>7. ASSUME BeginStartup(r) PROVE ProfileFirst(r)'
  <2>1. life[r].i = 1 /\ life'[r] = [pc |-> "start", i |-> 1]
    BY <1>1, <1>5, <1>7 DEF BeginStartup, InRange
  <2>2. ~Past(1 - 1)
    BY DEF Past
  <2> QED
    BY <2>1, <2>2 DEF ProfileFirst
<1>8. ASSUME life[r].pc = "start", life[r].i \in 1..Len(StartOrder),
             StartOrder[life[r].i] # "profile_monitor", Goto(r, "started")
      PROVE  ProfileFirst(r)'
  <2>1. life'[r] = [pc |-> "started", i |-> life[r].i]
    BY <1>5, <1>8
  <2>2. Past(life[r].i) => Past(life[r].i - 1)
    BY <1>8, Orders DEF Past
  <2> QED
    BY <1>8, <2>1, <2>2 DEF ProfileFirst
<1>9. ASSUME NEW c \in Components, AtStart(r, c)
      PROVE  /\ life[r].pc = "start" /\ life[r].i \in 1..Len(StartOrder)
             /\ StartOrder[life[r].i] = c
  BY <1>1, <1>9, Orders DEF AtStart, InRange
<1>10. ASSUME StartServer(r) \/ StartHandshaker(r) PROVE ProfileFirst(r)'
  BY <1>8, <1>9, <1>10 DEF StartServer, StartHandshaker, Components
<1>11. ASSUME NEW w \in Workers, StartWorker(r, w) PROVE ProfileFirst(r)'
  BY <1>8, <1>9, <1>11 DEF StartWorker, Components, Workers
<1>12. ASSUME StartProfile(r) PROVE ProfileFirst(r)'
  <2>1. /\ q' = Enqueue("kobj_worker", "profile") /\ life'[r] = [pc |-> "profile", i |-> life[r].i]
    BY <1>5, <1>12 DEF StartProfile
  <2>2. "kobj_worker" \in Workers /\ "profile" \in Items /\ q["kobj_worker"] \in Seq(Items)
    BY DEF Workers, Items, Kinds, TypeOK
  <2>3. Holds(q'["kobj_worker"], "profile")
    BY <2>1, <2>2, EnqueueType, PutHolds
  <2> QED
    BY <2>1, <2>3 DEF ProfileFirst, Coming
<1>13. ASSUME Wait(r) PROVE ProfileFirst(r)'
  <2>1. life'[r] = [pc |-> "started", i |-> life[r].i] /\ UNCHANGED <<processed, shutdown>>
    BY <1>5, <1>13 DEF Wait
  <2>2. Coming
    BY <1>13 DEF Wait, ProfileFirst
  <2>3. ASSUME IsDone PROVE processed
    <3>1. q["kobj_worker"] \in Seq(Items) /\ thr["kobj_worker"] \in {"dead", "run", "busy", "failing"}
      BY DEF TypeOK, Items, Workers
    <3>2. Len(q["kobj_worker"]) \in Nat
      BY <3>1, LenProperties
    <3>3. Len(q["kobj_worker"]) = 0 /\ thr["kobj_worker"] # "busy"
      <4>1. PICK n \in Nat : n = Len(q["kobj_worker"])
        BY <3>2
      <4>2. n + (IF thr["kobj_worker"] = "busy" THEN 1 ELSE 0) = 0
        BY <2>3, <4>1 DEF IsDone, Unfinished
      <4>3. thr["kobj_worker"] # "busy"
        BY <4>2
      <4> QED
        BY <4>1, <4>2, <4>3
    <3>4. ~Holds(q["kobj_worker"], "profile")
      BY <3>3 DEF Holds
    <3>5. hold["kobj_worker"] # "profile"
      BY <3>3, LifecycleAssumption DEF TypeOK, Workers, Kinds
    <3> QED
      BY <2>2, <3>4, <3>5 DEF Coming
  <2> QED
    BY <1>13, <2>1, <2>3 DEF Wait, ProfileFirst
<1>14. ASSUME StartFails(r) PROVE ProfileFirst(r)'
  <2>1. life'[r] = [pc |-> "started", i |-> life[r].i] /\ shutdown'
    BY <1>5, <1>14 DEF StartFails
  <2> QED
    BY <2>1 DEF ProfileFirst
<1>15. ASSUME Started(r) PROVE ProfileFirst(r)'
  <2>1. CASE shutdown
    BY <1>3, <1>15, <2>1 DEF Started
  <2>2. CASE ~shutdown
    <3>1. life'[r] = [pc |-> "start", i |-> life[r].i + 1] /\ life[r].pc = "started"
      BY <1>6, <1>15, <2>2 DEF Started
    <3>2. (life[r].i + 1) - 1 = life[r].i
      BY <1>2
    <3> QED
      BY <2>2, <3>1, <3>2 DEF ProfileFirst
  <2> QED
    BY <2>1, <2>2
<1>16. ASSUME EndStartup(r) \/ Signal(r) \/ EndShutdown(r) PROVE ProfileFirst(r)'
  BY <1>3, <1>16 DEF EndStartup, Signal, EndShutdown
<1>17. ASSUME BeginShutdown(r) \/ StopServer(r) \/ Join(r) PROVE ProfileFirst(r)'
  <2>1. CASE BeginShutdown(r)
    BY <1>4, <2>1 DEF BeginShutdown, LifeOK
  <2>2. CASE StopServer(r) \/ Join(r)
    BY <1>4, <1>6, <2>2 DEF StopServer, Join
  <2> QED
    BY <1>17, <2>1, <2>2
<1>18. ASSUME NEW w \in Workers, StopWorker(r, w) PROVE ProfileFirst(r)'
  BY <1>3, <1>18 DEF StopWorker
<1> QED
  BY <1>7, <1>10, <1>11, <1>12, <1>13, <1>14, <1>15, <1>16, <1>17, <1>18 DEF Lifecycle

LEMMA NextInv ==
  ASSUME IsBlocking, "profile" \notin MayFail, IInv, [Next]_vars PROVE IInv'
<1>1. RunInv' /\ (processed => processed') /\ (Coming => Coming')
  BY NextRuns, StillComing DEF IInv, RunInv
<1>2. ASSUME NEW r \in Runs PROVE ProfileFirst(r)'
  <2>1. ASSUME UNCHANGED life, shutdown => shutdown' PROVE ProfileFirst(r)'
    BY <1>1, <2>1 DEF IInv, ProfileFirst
  <2>2. ASSUME NEW s \in Runs, Lifecycle(s) PROVE ProfileFirst(r)'
    <3>1. CASE r = s
      BY <1>1, <2>2, <3>1, OwnStep DEF IInv, RunInv
    <3>2. CASE r # s
      <4>1. StepsOn(s)
        BY <2>2, LifecycleMoves DEF IInv, RunInv
      <4>2. ~Active(r) /\ life'[r] = life[r]
        BY <3>2, <4>1 DEF StepsOn, IInv, RunInv, OneRun
      <4> QED
        BY <4>2 DEF Active, ProfileFirst
    <3> QED
      BY <3>1, <3>2
  <2>3. ASSUME NEW c \in Callers, Spawn(c) PROVE ProfileFirst(r)'
    <3>1. PICK s \in Runs : life' = [life EXCEPT ![s] = [pc |-> "begin", i |-> 1]]
      BY <2>3 DEF Spawn
    <3>2. life'[s].pc = "begin" /\ \A t \in Runs \ {s} : life'[t] = life[t]
      BY <3>1, Moved DEF IInv, RunInv, TypeInv
    <3>3. UNCHANGED <<shutdown, processed>>
      BY <2>3 DEF Spawn
    <3> QED
      BY <1>1, <3>2, <3>3 DEF IInv, ProfileFirst
  <2>4. ASSUME NEW c \in Callers, CheckStart(c) \/ CheckStop(c) \/ SignalStop(c) \/ Return(c)
        PROVE  ProfileFirst(r)'
    BY <2>1, <2>4 DEF CheckStart, CheckStop, SignalStop, Return, signals
  <2>5. ASSUME WorkStep PROVE ProfileFirst(r)'
    <3>1. shutdown => shutdown'
      BY <2>5 DEF WorkStep, Work, Take, WorkerFails, WorkerSignals, SignalShutdown,
           ProcessKnowledge, ProcessEvent, Receive, signals, vars
    <3> QED
      BY <2>1, <2>5, <3>1, WorkerMoves
  <2> QED
    BY <2>2, <2>3, <2>4, <2>5 DEF Next, Calling, WorkStep
<1> QED
  BY <1>1, <1>2 DEF IInv

(* IdentityFirst: when the handshaker starts, and whatever else comes      *)
(* after the profile monitor, the node's own profile has been processed,   *)
(* in every run of the node, whatever component fails to start and         *)
(* whatever exceptions the workers raise, if processing the profile itself *)
(* does not.                                                               *)
THEOREM IdentityTheorem ==
  IsBlocking /\ IsOrdered /\ "profile" \notin MayFail => (Spec => []IdentityFirst)
<1> SUFFICES ASSUME IsBlocking, IsOrdered, "profile" \notin MayFail
             PROVE  Spec => []IdentityFirst
  OBVIOUS
<1>1. IInv /\ [Next]_vars => IInv'
  BY NextInv
<1>2. IInv => IdentityFirst
  <2> SUFFICES ASSUME IInv, NEW r \in Runs, AtStart(r, "handshaker") PROVE processed
    BY DEF IdentityFirst
  <2>1. life[r].pc = "start" /\ life[r].i \in 1..Len(StartOrder)
    BY Orders DEF AtStart, IInv, RunInv, TypeInv, LifeOK, InRange
  <2>2. Past(life[r].i - 1)
    BY <2>1 DEF AtStart, IsOrdered, Past
  <2> QED
    BY <2>1, <2>2 DEF IInv, ProfileFirst
<1> QED
  BY InitInv, <1>1, <1>2, PTL DEF Spec

-----------------------------------------------------------------------------
(* What a shutdown leaves in the queues                                    *)

(* Both workers are among the components that are started.                 *)
HasWorkers == \A w \in Workers : \E j \in 1..Len(StartOrder) : StartOrder[j] = w

Only(s, X) == \A i \in 1..Len(s) : s[i] \in X

(* A sentinel is in s, and only members of X after the first one.          *)
Closing(s, X) ==
  \E j \in 1..Len(s) : /\ s[j] = STOP
                       /\ \A i \in 1..Len(s) : i < j => s[i] # STOP
                       /\ \A i \in 1..Len(s) : i > j => s[i] \in X

Live(w)      == thr[w] \in {"run", "busy"}
Awake(w)     == Live(w) /\ ~Holds(q[w], STOP)
Asleep(w, X) == thr[w] = "dead" /\ Only(q[w], X)
Ending(w, X) == (Live(w) /\ Closing(q[w], X)) \/ Asleep(w, X)

Resting ==
  Asleep("kobj_worker", {"forget"}) /\ Asleep("event_worker", {}) /\ ~serving

(* The first n components have been started.                               *)
Begun(n) ==
  \A w \in Workers :
    /\ ~Holds(q[w], STOP)
    /\ IF \E j \in 1..n : StartOrder[j] = w THEN Live(w) ELSE thr[w] = "dead"

(* The stages of a stop: both workers run, the server is off, the knowledge *)
(* worker ends, has ended, the event worker ends.                          *)
Up         == Awake("kobj_worker") /\ Awake("event_worker")
Unserved   == Up /\ ~serving
KobjEnds   == Ending("kobj_worker", {"forget"}) /\ Awake("event_worker") /\ ~serving
KobjEnded  == Asleep("kobj_worker", {"forget"}) /\ Awake("event_worker") /\ ~serving
EventsEnd  == Asleep("kobj_worker", {"forget"}) /\ Ending("event_worker", {}) /\ ~serving

(* Where the workers are when the lifecycle thread is at l, component n.   *)
Stage(l, n) ==
  /\ l = "start" => Begun(n - 1)
  /\ l \in {"profile", "started"} => Begun(n)
  /\ l \in {"signal", "await"} => Up
  /\ l = "stop" => n \in 1..4
  /\ l = "join" => n \in 2..3
  /\ (l = "stop" /\ n = 1) => Up
  /\ (l = "stop" /\ n = 2) => Unserved
  /\ (l = "join" /\ n = 2) => KobjEnds
  /\ (l = "stop" /\ n = 3) => KobjEnded
  /\ (l = "join" /\ n = 3) => EventsEnd
  /\ (l = "stop" /\ n = 4) => Resting

At(r) == Stage(life[r].pc, life[r].i)

(* The thread attribute names the active thread, which has not set the     *)
(* state when it begins, and has completed the start when the node runs.   *)
InTurn ==
  /\ \A r \in Runs : Active(r) => thread = r
  /\ \A r \in Runs : life[r].pc = "begin" => state = "IDLE"
  /\ state = "RUNNING" => \E r \in Runs : life[r].pc \in {"signal", "await"}

(* If nothing fails, only a stop raises the shutdown signal, for a node    *)
(* that runs; its caller waits until the lifecycle thread has taken it     *)
(* down.                                                                   *)
Unfailed ==
  /\ \A w \in Workers : thr[w] # "failing"
  /\ shutdown => /\ \E c \in Callers : call[c] = "join"
                 /\ \E r \in Runs : life[r].pc \in {"signal", "await", "stop", "join"}
  /\ \A c \in Callers : call[c] = "stop" =>
       ~shutdown /\ \E r \in Runs : life[r].pc \in {"signal", "await"}

DrainInv ==
  /\ InTurn
  /\ fails = 0 => Unfailed /\ (\A r \in Runs : At(r)) /\ (state = "IDLE" => Resting)

-----------------------------------------------------------------------------
(* Queues with sentinels                                                   *)

LEMMA PutClosing ==
  ASSUME NEW S, NEW s \in Seq(S), NEW y \in S, NEW X
  PROVE  /\ (Only(s, X) /\ y \in X) => Only(Append(s, y), X)
         /\ (~Holds(s, STOP) /\ y # STOP) => ~Holds(Append(s, y), STOP)
         /\ (Closing(s, X) /\ y \in X) => Closing(Append(s, y), X)
         /\ (~Holds(s, STOP) /\ y = STOP) => Closing(Append(s, y), X)
<1>1. PICK n \in Nat : n = Len(s)
  BY LenProperties
<1> DEFINE t == Append(s, y)
<1>2. /\ t \in Seq(S) /\ Len(t) = n + 1
      /\ t[n + 1] = y /\ \A i \in 1..n : t[i] = s[i]
  BY <1>1, AppendProperties
<1>3. n + 1 \in 1..(n + 1) /\ \A i \in 1..(n + 1) : i \in 1..n \/ i = n + 1
  OBVIOUS
<1> HIDE DEF t
<1>4. (Only(s, X) /\ y \in X) => Only(t, X)
  BY <1>1, <1>2, <1>3 DEF Only
<1>5. (~Holds(s, STOP) /\ y # STOP) => ~Holds(t, STOP)
  BY <1>1, <1>2, <1>3 DEF Holds
<1>6. ASSUME Closing(s, X), y \in X PROVE Closing(t, X)
  <2>1. PICK j \in 1..n : /\ s[j] = STOP
                          /\ \A i \in 1..n : i < j => s[i] # STOP
                          /\ \A i \in 1..n : i > j => s[i] \in X
    BY <1>1, <1>6 DEF Closing
  <2>2. j \in 1..(n + 1) /\ t[j] = STOP
    BY <1>2, <2>1
  <2>3. \A i \in 1..(n + 1) : i < j => t[i] # STOP
    BY <1>2, <2>1
  <2>4. \A i \in 1..(n + 1) : i > j => t[i] \in X
    BY <1>2, <1>3, <1>6, <2>1
  <2> QED
    BY <1>2, <2>2, <2>3, <2>4 DEF Closing
<1>7. ASSUME ~Holds(s, STOP), y = STOP PROVE Closing(t, X)
  <2>1. \A i \in 1..(n + 1) : i < n + 1 => t[i] # STOP
    BY <1>1, <1>2, <1>7 DEF Holds
  <2>2. \A i \in 1..(n + 1) : ~(i > n + 1)
    OBVIOUS
  <2> QED
    BY <1>2, <1>3, <1>7, <2>1, <2>2 DEF Closing
<1> QED
  BY <1>4, <1>5, <1>6, <1>7 DEF t

LEMMA GetClosing ==
  ASSUME NEW S, NEW s \in Seq(S), s # <<>>, NEW X
  PROVE  /\ Only(s, X) => Only(Tail(s), X)
         /\ ~Holds(s, STOP) => (Head(s) # STOP /\ ~Holds(Tail(s), STOP))
         /\ (Closing(s, X) /\ Head(s) = STOP) => Only(Tail(s), X)
         /\ (Closing(s, X) /\ Head(s) # STOP) => Closing(Tail(s), X)
<1>1. PICK n \in Nat : n = Len(s)
  BY LenProperties
<1>2. n # 0
  BY <1>1, EmptySeq
<1> DEFINE t == Tail(s)
           h == Head(s)
<1>3. /\ h = s[1] /\ Len(t) = n - 1 /\ \A i \in 1..(n - 1) : t[i] = s[i + 1]
  BY <1>1, <1>2, HeadTailProperties
<1>4. 1 \in 1..n /\ \A i \in 1..(n - 1) : i + 1 \in 1..n
  BY <1>2
<1> HIDE DEF t, h
<1>5. Only(s, X) => Only(t, X)
  BY <1>1, <1>3, <1>4 DEF Only
<1>6. ~Holds(s, STOP) => (h # STOP /\ ~Holds(t, STOP))
  BY <1>1, <1>3, <1>4 DEF Holds
<1>7. ASSUME Closing(s, X)
      PROVE  (h = STOP => Only(t, X)) /\ (h # STOP => Closing(t, X))
  <2>1. PICK j \in 1..n : /\ s[j] = STOP
                          /\ \A i \in 1..n : i < j => s[i] # STOP
                          /\ \A i \in 1..n : i > j => s[i] \in X
    BY <1>1, <1>7 DEF Closing
  <2>2. CASE j = 1
    <3>1. \A i \in 1..(n - 1) : i + 1 > j
      BY <2>2
    <3>2. h = STOP /\ \A i \in 1..(n - 1) : t[i] \in X
      BY <1>3, <1>4, <2>1, <2>2, <3>1
    <3> QED
      BY <1>3, <3>2 DEF Only
  <2>3. CASE j # 1
    <3>1. 1 < j /\ j - 1 \in 1..(n - 1) /\ (j - 1) + 1 = j
      BY <2>1, <2>3
    <3>2. h # STOP /\ t[j - 1] = STOP
      BY <1>3, <1>4, <2>1, <3>1
    <3>3. \A i \in 1..(n - 1) : (i < j - 1 => i + 1 < j) /\ (i > j - 1 => i + 1 > j)
      BY <2>1
    <3>4. /\ \A i \in 1..(n - 1) : i < j - 1 => t[i] # STOP
          /\ \A i \in 1..(n - 1) : i > j - 1 => t[i] \in X
      BY <1>3, <1>4, <2>1, <3>3
    <3> QED
      BY <1>3, <3>1, <3>2, <3>4 DEF Closing
  <2> QED
    BY <2>2, <2>3
<1> QED
  BY <1>5, <1>6, <1>7 DEF t, h

-----------------------------------------------------------------------------
(* What the workers do to their queues                                     *)

(* A step of a worker or of the server, none of which fails.               *)
Calm ==
  \/ \E w \in Workers : Take(w)
  \/ ProcessKnowledge \/ ProcessEvent \/ Receive
  \/ UNCHANGED vars

LEMMA CalmStep ==
  ASSUME TypeInv, WorkStep, fails = 0, fails' = 0, \A w \in Workers : thr[w] # "failing"
  PROVE  Calm
<1>1. ASSUME NEW w \in Workers, WorkerFails(w) PROVE FALSE
  BY <1>1 DEF WorkerFails
<1>2. ASSUME NEW w \in Workers, WorkerSignals(w) PROVE FALSE
  BY <1>2 DEF WorkerSignals
<1> QED
  BY <1>1, <1>2 DEF WorkStep, Work, Calm

(* A worker that takes an item goes on, or ends with nothing to do.        *)
LEMMA TakeStep ==
  ASSUME TypeInv, NEW w \in Workers, Take(w), NEW v \in Workers
  PROVE  /\ v # w => (thr'[v] = thr[v] /\ q'[v] = q[v])
         /\ (v = w /\ ~Holds(q[v], STOP)) => (thr[v] = "run" /\ thr'[v] = "busy" /\ ~Holds(q'[v], STOP))
         /\ v = w => (thr[v] # "dead")
         /\ \A X : (v = w /\ Closing(q[v], X)) => Ending(v, X)'
<1>1. /\ q \in [Workers -> Seq(Items)] /\ thr \in [Workers -> {"dead", "run", "busy", "failing"}]
  BY DEF TypeInv, TypeOK, Items
<1>2. /\ thr[w] = "run" /\ q[w] # <<>> /\ q' = [q EXCEPT ![w] = Tail(q[w])]
      /\ \/ Head(q[w]) = STOP /\ thr' = [thr EXCEPT ![w] = "dead"]
         \/ Head(q[w]) # STOP /\ thr' = [thr EXCEPT ![w] = "busy"]
  BY DEF Take
<1>3. v # w => (thr'[v] = thr[v] /\ q'[v] = q[v])
  BY <1>1, <1>2
<1>4. q'[w] = Tail(q[w]) /\ q[w] \in Seq(Items)
  BY <1>1, <1>2
<1>5. /\ Head(q[w]) = STOP => thr'[w] = "dead"
      /\ Head(q[w]) # STOP => thr'[w] = "busy"
  BY <1>1, <1>2
<1>6. ~Holds(q[w], STOP) => (thr'[w] = "busy" /\ ~Holds(q'[w], STOP))
  BY <1>2, <1>4, <1>5, GetClosing
<1>7. ASSUME NEW X, Closing(q[w], X) PROVE Ending(w, X)'
  <2>1. CASE Head(q[w]) = STOP
    <3>1. Only(q'[w], X)
      BY <1>2, <1>4, <1>7, <2>1, GetClosing
    <3> QED
      BY <1>5, <2>1, <3>1 DEF Ending, Asleep
  <2>2. CASE Head(q[w]) # STOP
    <3>1. Closing(q'[w], X)
      BY <1>2, <1>4, <1>7, <2>2, GetClosing
    <3> QED
      BY <1>5, <2>2, <3>1 DEF Ending, Live
  <2> QED
    BY <2>1, <2>2
<1> QED
  BY <1>2, <1>3, <1>6, <1>7

(* What else a worker or the server does: it puts an item in a queue.      *)
LEMMA PutStep ==
  ASSUME TypeInv, ProcessKnowledge \/ ProcessEvent \/ Receive \/ UNCHANGED vars, NEW v \in Workers
  PROVE  /\ thr'[v] = thr[v] \/ (thr[v] = "busy" /\ thr'[v] = "run")
         /\ \/ q'[v] = q[v]
            \/ /\ v = "event_worker" /\ thr["kobj_worker"] = "busy"
               /\ q'[v] = Append(q[v], "event")
            \/ v = "kobj_worker" /\ q'[v] = Append(q[v], "forget")
            \/ v = "kobj_worker" /\ serving /\ q'[v] = Append(q[v], "knowledge")
         /\ UNCHANGED <<serving, life, state>>
<1>1. /\ q \in [Workers -> Seq(Items)] /\ thr \in [Workers -> {"dead", "run", "busy", "failing"}]
      /\ v = "kobj_worker" \/ v = "event_worker"
      /\ "kobj_worker" \in Workers /\ "event_worker" \in Workers
  BY DEF TypeInv, TypeOK, Items, Workers
<1>2. CASE ProcessKnowledge
  <2>1. q' = q \/ q' = [q EXCEPT !["event_worker"] = Append(q["event_worker"], "event")]
    BY <1>2 DEF ProcessKnowledge, Enqueue
  <2>2. thr["kobj_worker"] = "busy" /\ thr' = [thr EXCEPT !["kobj_worker"] = "run"]
    BY <1>2 DEF ProcessKnowledge, Release
  <2> QED
    BY <1>1, <1>2, <2>1, <2>2 DEF ProcessKnowledge, signals
<1>3. CASE ProcessEvent
  <2>1. q' = q \/ q' = [q EXCEPT !["kobj_worker"] = Append(q["kobj_worker"], "forget")]
    BY <1>3 DEF ProcessEvent, Enqueue
  <2>2. thr["event_worker"] = "busy" /\ thr' = [thr EXCEPT !["event_worker"] = "run"]
    BY <1>3 DEF ProcessEvent, Release
  <2> QED
    BY <1>1, <1>3, <2>1, <2>2 DEF ProcessEvent, signals
<1>4. CASE Receive
  <2>1. q' = [q EXCEPT !["kobj_worker"] = Append(q["kobj_worker"], "knowledge")]
    BY <1>4 DEF Receive, Enqueue
  <2> QED
    BY <1>1, <1>4, <2>1 DEF Receive, signals
<1>5. CASE UNCHANGED vars
  BY <1>1, <1>5 DEF vars
<1> QED
  BY <1>2, <1>3, <1>4, <1>5

LEMMA CalmFacts ==
  ASSUME TypeInv, Calm
  PROVE  /\ \A w \in Workers : (~Holds(q[w], STOP) /\ thr[w] # "failing") =>
              /\ ~Holds(q[w], STOP)'
              /\ Live(w) => Live(w)'
              /\ thr[w] = "dead" => thr'[w] = "dead"
         /\ (~serving /\ Ending("kobj_worker", {"forget"})) => Ending("kobj_worker", {"forget"})'
         /\ (~serving /\ Asleep("kobj_worker", {"forget"})) =>
              /\ Asleep("kobj_worker", {"forget"})'
              /\ Asleep("event_worker", {}) => Asleep("event_worker", {})'
              /\ Ending("event_worker", {}) => Ending("event_worker", {})'
         /\ UNCHANGED <<serving, life, state>>
<1> DEFINE k == "kobj_worker"
           e == "event_worker"
<1>1. k \in Workers /\ e \in Workers /\ k # e
  BY DEF Workers
<1>2. \A w \in Workers : q[w] \in Seq(Items)
  BY DEF TypeInv, TypeOK, Items
<1>3. ASSUME NEW w \in Workers, Take(w)
      PROVE  /\ \A v \in Workers : (~Holds(q[v], STOP) /\ thr[v] # "failing") =>
                  /\ ~Holds(q[v], STOP)'
                  /\ Live(v) => Live(v)'
                  /\ thr[v] = "dead" => thr'[v] = "dead"
             /\ \A v \in Workers, X \in {{}, {"forget"}} :
                  /\ Ending(v, X) => Ending(v, X)'
                  /\ Asleep(v, X) => Asleep(v, X)'
             /\ UNCHANGED <<serving, life, state>>
  <2>1. \A v \in Workers : (~Holds(q[v], STOP) /\ thr[v] # "failing") =>
                  /\ ~Holds(q[v], STOP)'
                  /\ Live(v) => Live(v)'
                  /\ thr[v] = "dead" => thr'[v] = "dead"
    BY <1>3, TakeStep DEF Live
  <2>2. ASSUME NEW v \in Workers, NEW X
        PROVE  (Ending(v, X) => Ending(v, X)') /\ (Asleep(v, X) => Asleep(v, X)')
    <3>1. CASE v = w
      BY <1>3, <3>1, TakeStep DEF Ending, Asleep
    <3>2. CASE v # w
      BY <1>3, <3>2, TakeStep DEF Ending, Asleep, Live
    <3> QED
      BY <3>1, <3>2
  <2>3. UNCHANGED <<serving, life, state>>
    BY <1>3 DEF Take, signals
  <2> QED
    BY <2>1, <2>2, <2>3
<1>4. CASE ProcessKnowledge \/ ProcessEvent \/ Receive \/ UNCHANGED vars
  <2>1. ASSUME NEW v \in Workers
        PROVE  \/ q'[v] = q[v]
               \/ \E y \in Items : y # STOP /\ q'[v] = Append(q[v], y)
    <3>1. {"event", "forget", "knowledge"} \subseteq Items \ {STOP}
      BY LifecycleAssumption DEF Items, Kinds
    <3> QED
      BY <1>4, <3>1, PutStep
  <2>2. ASSUME NEW v \in Workers PROVE ~Holds(q[v], STOP) => ~Holds(q[v], STOP)'
    BY <1>2, <2>1, <2>2, PutClosing
  <2>3. \A v \in Workers : thr'[v] = thr[v] \/ (thr[v] = "busy" /\ thr'[v] = "run")
    BY <1>4, PutStep
  <2>4. UNCHANGED <<serving, life, state>>
    BY <1>1, <1>4, PutStep
  <2>6. ASSUME NEW v \in Workers, NEW X, NEW y \in Items, y \in X,
               q'[v] = q[v] \/ q'[v] = Append(q[v], y)
        PROVE  (Asleep(v, X) => Asleep(v, X)') /\ (Ending(v, X) => Ending(v, X)')
    <3>1. q[v] \in Seq(Items)
      BY <1>2
    <3>2. /\ Only(q[v], X) => Only(Append(q[v], y), X)
          /\ Closing(q[v], X) => Closing(Append(q[v], y), X)
      BY <2>6, <3>1, PutClosing
    <3>3. /\ Only(q[v], X) => Only(q'[v], X)
          /\ Closing(q[v], X) => Closing(q'[v], X)
      BY <2>6, <3>2
    <3>4. Live(v) => Live(v)'
      BY <2>3 DEF Live
    <3>5. thr[v] = "dead" => thr'[v] = "dead"
      BY <2>3
    <3>6. Asleep(v, X) => Asleep(v, X)'
      BY <3>3, <3>5 DEF Asleep
    <3> QED
      BY <3>3, <3>4, <3>6 DEF Ending
  <2>7. ASSUME ~serving
        PROVE  /\ Asleep("kobj_worker", {"forget"}) => Asleep("kobj_worker", {"forget"})'
               /\ Ending("kobj_worker", {"forget"}) => Ending("kobj_worker", {"forget"})'
    <3>1. "forget" \in Items /\ "forget" \in {"forget"}
      BY DEF Items, Kinds
    <3>2. "kobj_worker" \in Workers
      BY DEF Workers
    <3>3. \/ q'["kobj_worker"] = q["kobj_worker"]
          \/ q'["kobj_worker"] = Append(q["kobj_worker"], "forget")
      BY <1>4, <2>7, <3>2, PutStep
    <3> QED
      BY <2>6, <3>1, <3>2, <3>3
  <2>8. ASSUME thr["kobj_worker"] = "dead"
        PROVE  /\ Asleep("event_worker", {}) => Asleep("event_worker", {})'
               /\ Ending("event_worker", {}) => Ending("event_worker", {})'
    <3>1. "event_worker" \in Workers
      BY DEF Workers
    <3>2. q'["event_worker"] = q["event_worker"]
      BY <1>4, <2>8, <3>1, PutStep
    <3>3. Live("event_worker") => Live("event_worker")'
      BY <2>3, <3>1 DEF Live
    <3>4. thr["event_worker"] = "dead" => thr'["event_worker"] = "dead"
      BY <2>3, <3>1
    <3>5. Asleep("event_worker", {}) => Asleep("event_worker", {})'
      BY <3>2, <3>4 DEF Asleep
    <3> QED
      BY <3>2, <3>3, <3>5 DEF Ending
  <2>9. Asleep("kobj_worker", {"forget"}) => thr["kobj_worker"] = "dead"
    BY DEF Asleep
  <2>10. ASSUME NEW w \in Workers, ~Holds(q[w], STOP), thr[w] # "failing"
         PROVE  /\ ~Holds(q[w], STOP)'
                /\ Live(w) => Live(w)'
                /\ thr[w] = "dead" => thr'[w] = "dead"
    <3>1. ~Holds(q[w], STOP)'
      BY <2>2, <2>10
    <3>2. Live(w) => Live(w)'
      BY <2>3 DEF Live
    <3> QED
      BY <2>3, <3>1, <3>2
  <2> QED
    BY <2>4, <2>7, <2>8, <2>9, <2>10
<1> QED
  BY <1>1, <1>3, <1>4 DEF Calm

LEMMA CalmStages ==
  ASSUME TypeInv, Calm
  PROVE  /\ Up => Up'
         /\ Unserved => Unserved'
         /\ KobjEnds => KobjEnds'
         /\ KobjEnded => KobjEnded'
         /\ EventsEnd => EventsEnd'
         /\ Resting => Resting'
         /\ \A n : Begun(n) => Begun(n)'
<1>1. ASSUME NEW w \in Workers, Awake(w) PROVE Awake(w)'
  <2>1. Live(w) /\ ~Holds(q[w], STOP) /\ thr[w] # "failing"
    BY <1>1 DEF Awake, Live
  <2>2. Live(w)' /\ ~Holds(q[w], STOP)'
    BY <2>1, CalmFacts
  <2> QED
    BY <2>2 DEF Awake
<1>2. "kobj_worker" \in Workers /\ "event_worker" \in Workers
  BY DEF Workers
<1>3. /\ Awake("kobj_worker") => Awake("kobj_worker")'
      /\ Awake("event_worker") => Awake("event_worker")'
  BY <1>1, <1>2
<1>4. ~serving => ~serving'
  BY CalmFacts
<1>5. ASSUME ~serving
      PROVE  /\ Ending("kobj_worker", {"forget"}) => Ending("kobj_worker", {"forget"})'
             /\ Asleep("kobj_worker", {"forget"}) =>
                  /\ Asleep("kobj_worker", {"forget"})'
                  /\ Asleep("event_worker", {}) => Asleep("event_worker", {})'
                  /\ Ending("event_worker", {}) => Ending("event_worker", {})'
  BY <1>5, CalmFacts
<1>6. Up => Up'
  BY <1>3 DEF Up
<1>7. Unserved => Unserved'
  BY <1>4, <1>6 DEF Unserved
<1>8. KobjEnds => KobjEnds'
  BY <1>3, <1>4, <1>5 DEF KobjEnds
<1>9. KobjEnded => KobjEnded'
  BY <1>3, <1>4, <1>5 DEF KobjEnded
<1>10. EventsEnd => EventsEnd'
  BY <1>4, <1>5 DEF EventsEnd
<1>11. Resting => Resting'
  BY <1>4, <1>5 DEF Resting
<1>12. ASSUME NEW n, Begun(n) PROVE Begun(n)'
  <2> DEFINE due(w) == \E j \in 1..n : StartOrder[j] = w
  <2>1. ASSUME NEW w \in Workers
        PROVE  ~Holds(q[w], STOP)' /\ IF due(w) THEN Live(w)' ELSE thr'[w] = "dead"
    <3>1. ~Holds(q[w], STOP) /\ IF due(w) THEN Live(w) ELSE thr[w] = "dead"
      BY <1>12 DEF Begun
    <3>2. thr[w] # "failing"
      BY <3>1 DEF Live
    <3>3. ~Holds(q[w], STOP)' /\ (Live(w) => Live(w)') /\ (thr[w] = "dead" => thr'[w] = "dead")
      BY <3>1, <3>2, CalmFacts
    <3> QED
      BY <3>1, <3>3
  <2> QED
    BY <2>1 DEF Begun
<1> QED
  BY <1>6, <1>7, <1>8, <1>9, <1>10, <1>11, <1>12

(* The stages see the workers, their queues and the server.                *)
LEMMA SameStages ==
  ASSUME UNCHANGED <<thr, q, serving>>
  PROVE  /\ UNCHANGED <<Up, Unserved, KobjEnds, KobjEnded, EventsEnd, Resting>>
         /\ \A n : Begun(n)' = Begun(n)
BY DEF Up, Unserved, KobjEnds, KobjEnded, EventsEnd, Resting, Begun, Awake, Asleep, Ending, Live

LEMMA CalmStage ==
  ASSUME TypeInv, Calm \/ UNCHANGED <<thr, q, serving>>, NEW l, NEW n, Stage(l, n)
  PROVE  Stage(l, n)'
<1>1. /\ Up => Up'
      /\ Unserved => Unserved'
      /\ KobjEnds => KobjEnds'
      /\ KobjEnded => KobjEnded'
      /\ EventsEnd => EventsEnd'
      /\ Resting => Resting'
      /\ Begun(n) => Begun(n)'
      /\ Begun(n - 1) => Begun(n - 1)'
  BY CalmStages, SameStages
<1> QED
  BY <1>1 DEF Stage

-----------------------------------------------------------------------------
(* The stages of the lifecycle thread                                      *)

LEMMA Arrives ==
  ASSUME NEW r \in Runs, NEW l, NEW n, life'[r] = [pc |-> l, i |-> n], Stage(l, n)'
  PROVE  At(r)'
BY DEF At, Stage

(* Only the workers among the components are waited for.                   *)
LEMMA BegunNext ==
  ASSUME NEW n \in 1..Len(StartOrder), NEW w \in Workers
  PROVE  (\E j \in 1..n : StartOrder[j] = w) <=>
           ((\E j \in 1..(n - 1) : StartOrder[j] = w) \/ StartOrder[n] = w)
<1>1. n \in Nat /\ \A j \in 1..n : j \in 1..(n - 1) \/ j = n
  BY Orders
<1>2. n \in 1..n /\ \A j \in 1..(n - 1) : j \in 1..n
  BY <1>1
<1> QED
  BY <1>1, <1>2

LEMMA StartNoWorker ==
  ASSUME NEW n \in 1..Len(StartOrder), StartOrder[n] \notin Workers, Begun(n - 1), UNCHANGED <<thr, q>>
  PROVE  Begun(n)'
<1>1. \A w \in Workers : (\E j \in 1..n : StartOrder[j] = w) <=> (\E j \in 1..(n - 1) : StartOrder[j] = w)
  BY BegunNext
<1> QED
  BY <1>1 DEF Begun, Live

LEMMA StartOneWorker ==
  ASSUME TypeInv, NEW n \in 1..Len(StartOrder), NEW w \in Workers, StartOrder[n] = w, Begun(n - 1),
         thr' = IF Alive(w) THEN thr ELSE [thr EXCEPT ![w] = "run"], UNCHANGED q
  PROVE  Begun(n)'
<1> SUFFICES ASSUME NEW v \in Workers
             PROVE  /\ ~Holds(q[v], STOP)'
                    /\ IF \E j \in 1..n : StartOrder[j] = v THEN Live(v)' ELSE thr'[v] = "dead"
  BY DEF Begun
<1>1. /\ ~Holds(q[v], STOP)
      /\ IF \E j \in 1..(n - 1) : StartOrder[j] = v THEN Live(v) ELSE thr[v] = "dead"
  BY DEF Begun
<1>2. (\E j \in 1..n : StartOrder[j] = v) <=> ((\E j \in 1..(n - 1) : StartOrder[j] = v) \/ v = w)
  BY BegunNext
<1>3. thr'[v] = IF v = w /\ ~Alive(w) THEN "run" ELSE thr[v]
  BY DEF TypeInv, TypeOK
<1>4. CASE v = w
  <2>1. thr[v] = "dead" \/ Live(v)
    BY <1>1
  <2>2. Live(v)'
    BY <1>3, <1>4, <2>1 DEF Live, Alive
  <2> QED
    BY <1>1, <1>2, <1>4, <2>2
<1>5. CASE v # w
  <2>1. thr'[v] = thr[v] /\ (Live(v) => Live(v)')
    BY <1>3, <1>5 DEF Live
  <2> QED
    BY <1>1, <1>2, <1>5, <2>1
<1> QED
  BY <1>4, <1>5

(* A put that is no sentinel.                                              *)
LEMMA PutBegun ==
  ASSUME TypeInv, NEW n, NEW w \in Workers, NEW x \in Items, x # STOP, Begun(n),
         q' = Enqueue(w, x), UNCHANGED thr
  PROVE  Begun(n)'
<1>1. ASSUME NEW v \in Workers PROVE ~Holds(q[v], STOP)'
  <2>1. ~Holds(q[v], STOP) /\ q[v] \in Seq(Items) /\ q[w] \in Seq(Items)
    BY DEF Begun, TypeInv, TypeOK, Items
  <2>2. q'[v] = IF v = w THEN Append(q[w], x) ELSE q[v]
    BY DEF Enqueue, TypeInv, TypeOK
  <2>3. ~Holds(Append(q[v], x), STOP)
    BY <2>1, PutClosing
  <2> QED
    BY <2>1, <2>2, <2>3
<1>2. \A v \in Workers : thr'[v] = thr[v] /\ (Live(v) => Live(v)')
  BY DEF Live
<1> QED
  BY <1>1, <1>2 DEF Begun

LEMMA RestBegun == ASSUME Resting PROVE Begun(0)
<1>1. \A w \in Workers : thr[w] = "dead" /\ \E X : STOP \notin X /\ Only(q[w], X)
  BY LifecycleAssumption DEF Resting, Asleep, Workers, Kinds
<1>2. \A w \in Workers : ~Holds(q[w], STOP)
  BY <1>1 DEF Only, Holds
<1> QED
  BY <1>1, <1>2 DEF Begun

LEMMA AllBegun == ASSUME HasWorkers, Begun(Len(StartOrder)) PROVE Up
BY DEF HasWorkers, Begun, Up, Awake, Workers

LEMMA SentinelPut ==
  ASSUME TypeInv, NEW w \in Workers, Awake(w), q' = Sentinel(w), UNCHANGED thr
  PROVE  /\ \A X : Ending(w, X)'
         /\ \A v \in Workers \ {w} : q'[v] = q[v] /\ thr'[v] = thr[v]
<1>1. q[w] \in Seq(Items) /\ STOP \in Items
  BY DEF TypeInv, TypeOK, Items
<1>2. q'[w] = Append(q[w], STOP) /\ \A v \in Workers \ {w} : q'[v] = q[v]
  BY DEF Sentinel, Enqueue, TypeInv, TypeOK
<1>3. ASSUME NEW X PROVE Ending(w, X)'
  <2>1. ~Holds(q[w], STOP) /\ Live(w)
    BY DEF Awake
  <2>2. Closing(Append(q[w], STOP), X)
    BY <1>1, <2>1, PutClosing
  <2>3. Closing(q'[w], X) /\ Live(w)'
    BY <1>2, <2>1, <2>2 DEF Live
  <2> QED
    BY <2>3 DEF Ending
<1> QED
  BY <1>2, <1>3

LEMMA OwnStage ==
  ASSUME TypeInv, HasWorkers, NEW r \in Runs, Lifecycle(r), fails' = 0, At(r),
         life[r].pc = "begin" => Resting,
         shutdown => life[r].pc \in {"signal", "await", "stop", "join"}
  PROVE  /\ At(r)'
         /\ state' = "IDLE" => state = "IDLE" \/ Resting'
<1>0. PICK n \in Nat : n = life[r].i
  BY Orders DEF TypeInv, LifeOK, InRange
<1>20. Len(StartOrder) \in Nat /\ Len(StopOrder) = 3 /\ InRange(life[r].pc, n)
  BY <1>0, Orders DEF TypeInv, LifeOK
<1> USE <1>0
<1>1. ASSUME NEW l, Goto(r, l) PROVE life'[r] = [pc |-> l, i |-> n]
  BY <1>1 DEF Goto, TypeInv, LifeOK
<1>2. ASSUME NEW l, NextOne(r, l) PROVE life'[r] = [pc |-> l, i |-> n + 1]
  BY <1>2 DEF NextOne, TypeInv, LifeOK
<1>3. ASSUME NEW c \in Components, AtStart(r, c)
      PROVE  n \in 1..Len(StartOrder) /\ StartOrder[n] = c /\ Begun(n - 1)
  BY <1>20, <1>3 DEF AtStart, At, Stage, InRange
<1>4. ASSUME BeginStartup(r) PROVE At(r)' /\ state' # "IDLE"
  <2>1. n = 1 /\ Begun(0) /\ UNCHANGED <<thr, q, serving>>
    BY <1>20, <1>4, RestBegun DEF BeginStartup, InRange, workers
  <2>2. Begun(1 - 1)'
    BY <2>1, SameStages
  <2>3. Stage("start", 1)'
    BY <2>2 DEF Stage
  <2>4. life'[r] = [pc |-> "start", i |-> 1]
    BY <1>1, <1>4, <2>1 DEF BeginStartup
  <2> QED
    BY <1>4, <2>3, <2>4, Arrives DEF BeginStartup
<1>5. ASSUME Begun(n)', Goto(r, "started") \/ Goto(r, "profile") PROVE At(r)'
  <2>1. Stage("started", n)' /\ Stage("profile", n)'
    BY <1>5 DEF Stage
  <2> QED
    BY <1>1, <1>5, <2>1, Arrives
<1>6. ASSUME StartServer(r) \/ StartHandshaker(r) PROVE At(r)' /\ UNCHANGED state
  <2>1. Begun(n)'
    BY <1>3, <1>6, StartNoWorker DEF StartServer, StartHandshaker, Components, Workers, workers
  <2> QED
    BY <1>5, <1>6, <2>1 DEF StartServer, StartHandshaker, signals
<1>7. ASSUME NEW w \in Workers, StartWorker(r, w) PROVE At(r)' /\ UNCHANGED state
  <2>1. Begun(n)'
    BY <1>3, <1>7, StartOneWorker DEF StartWorker, Components
  <2> QED
    BY <1>5, <1>7, <2>1 DEF StartWorker, signals
<1>8. ASSUME StartProfile(r) PROVE At(r)' /\ UNCHANGED state
  <2>1. /\ q' = Enqueue("kobj_worker", "profile") /\ UNCHANGED <<thr, state>>
        /\ Goto(r, "profile") /\ AtStart(r, "profile_monitor")
    BY <1>8 DEF StartProfile, signals
  <2>2. "kobj_worker" \in Workers /\ "profile" \in Items /\ "profile" # STOP
        /\ "profile_monitor" \in Components \ Workers
    BY LifecycleAssumption DEF Workers, Items, Kinds, Components
  <2>3. n \in 1..Len(StartOrder) /\ StartOrder[n] \notin Workers /\ Begun(n - 1)
    BY <1>3, <2>1, <2>2
  <2>4. Begun(n)
    <3>1. \A w \in Workers : (\E j \in 1..n : StartOrder[j] = w) <=> (\E j \in 1..(n - 1) : StartOrder[j] = w)
      BY <2>3, BegunNext
    <3> QED
      BY <2>3, <3>1 DEF Begun
  <2>5. Begun(n)'
    BY <2>1, <2>2, <2>4, PutBegun
  <2> QED
    BY <1>5, <2>1, <2>5
<1>9. ASSUME Wait(r) PROVE At(r)' /\ UNCHANGED state
  <2>1. Begun(n) /\ UNCHANGED <<thr, q, serving, state>> /\ Goto(r, "started")
    BY <1>9 DEF Wait, At, Stage, workers
  <2>2. Begun(n)'
    BY <2>1, SameStages
  <2> QED
    BY <1>5, <2>1, <2>2
<1>10. ~StartFails(r)
  BY DEF StartFails, TypeInv, TypeOK
<1>11. ASSUME Started(r) PROVE At(r)' /\ UNCHANGED state
  <2>1. Begun(n) /\ UNCHANGED <<thr, q, serving, state>> /\ NextOne(r, "start")
    BY <1>11 DEF Started, At, Stage, workers, signals
  <2>2. (n + 1) - 1 = n
    BY <1>20
  <2>3. Begun((n + 1) - 1)'
    BY <2>1, <2>2, SameStages
  <2>4. Stage("start", n + 1)'
    BY <2>3 DEF Stage
  <2> QED
    BY <1>2, <2>1, <2>4, Arrives
<1>12. ASSUME Up', Goto(r, "signal") \/ Goto(r, "await") PROVE At(r)'
  <2>1. Stage("signal", n)' /\ Stage("await", n)'
    BY <1>12 DEF Stage
  <2> QED
    BY <1>1, <1>12, <2>1, Arrives
<1>13. ASSUME EndStartup(r) PROVE At(r)' /\ state' # "IDLE"
  <2>1. n - 1 = Len(StartOrder) /\ Begun(n - 1)
    BY <1>20, <1>13 DEF EndStartup, At, Stage, InRange
  <2>2. Up
    BY <2>1, AllBegun
  <2>3. Up'
    BY <1>13, <2>2, SameStages DEF EndStartup, workers
  <2> QED
    BY <1>12, <1>13, <2>3 DEF EndStartup
<1>14. ASSUME Signal(r) PROVE At(r)' /\ UNCHANGED state
  <2>1. Up'
    BY <1>14, SameStages DEF Signal, At, Stage, workers
  <2> QED
    BY <1>12, <1>14, <2>1 DEF Signal
<1>15. ASSUME BeginShutdown(r) PROVE At(r)' /\ state' # "IDLE"
  <2>1. Up'
    BY <1>15, SameStages DEF BeginShutdown, At, Stage, workers
  <2>2. Stage("stop", 1)'
    BY <2>1 DEF Stage
  <2>3. life'[r] = [pc |-> "stop", i |-> 1]
    BY <1>15 DEF BeginShutdown, TypeInv, LifeOK
  <2> QED
    BY <1>15, <2>2, <2>3, Arrives DEF BeginShutdown
<1>16. ASSUME StopServer(r) PROVE At(r)' /\ UNCHANGED state
  <2>1. life[r].pc = "stop" /\ n = 1
    BY <1>20, <1>16 DEF StopServer, AtStop, StopOrder, InRange
  <2>2. Up /\ UNCHANGED <<thr, q, state>> /\ ~serving' /\ NextOne(r, "stop")
    BY <1>16, <2>1 DEF StopServer, At, Stage, workers, signals
  <2>3. Unserved'
    BY <2>2 DEF Unserved, Up, Awake, Live
  <2>4. Stage("stop", 2)'
    BY <2>3 DEF Stage
  <2>5. life'[r] = [pc |-> "stop", i |-> 2]
    BY <1>2, <2>1, <2>2
  <2> QED
    BY <2>2, <2>4, <2>5, Arrives
<1>17. ASSUME NEW w \in Workers, StopWorker(r, w) PROVE At(r)' /\ UNCHANGED state
  <2>1. /\ life[r].pc = "stop" /\ n \in 1..3 /\ w = StopOrder[n]
        /\ q' = Sentinel(w) /\ UNCHANGED <<thr, serving, state>> /\ Goto(r, "join")
    BY <1>20, <1>17 DEF StopWorker, AtStop, InRange, signals
  <2>2. "kobj_worker" \in Workers /\ "event_worker" \in Workers
    BY DEF Workers
  <2>3. (n = 2 /\ w = "kobj_worker") \/ (n = 3 /\ w = "event_worker")
    BY <2>1 DEF StopOrder, Workers
  <2>4. CASE n = 2 /\ w = "kobj_worker"
    <3>1. Awake("kobj_worker") /\ Awake("event_worker") /\ ~serving
      BY <2>1, <2>4 DEF At, Stage, Unserved, Up
    <3>2. /\ Ending("kobj_worker", {"forget"})'
          /\ q'["event_worker"] = q["event_worker"] /\ thr'["event_worker"] = thr["event_worker"]
      BY <2>1, <2>2, <2>4, <3>1, SentinelPut
    <3>3. Awake("event_worker")'
      BY <3>1, <3>2 DEF Awake, Live
    <3>4. KobjEnds'
      BY <2>1, <3>1, <3>2, <3>3 DEF KobjEnds
    <3>5. Stage("join", 2)'
      BY <3>4 DEF Stage
    <3> QED
      BY <1>1, <2>1, <2>4, <3>5, Arrives
  <2>5. CASE n = 3 /\ w = "event_worker"
    <3>1. Asleep("kobj_worker", {"forget"}) /\ Awake("event_worker") /\ ~serving
      BY <2>1, <2>5 DEF At, Stage, KobjEnded
    <3>2. /\ Ending("event_worker", {})'
          /\ q'["kobj_worker"] = q["kobj_worker"] /\ thr'["kobj_worker"] = thr["kobj_worker"]
      BY <2>1, <2>2, <2>5, <3>1, SentinelPut
    <3>3. Asleep("kobj_worker", {"forget"})'
      BY <3>1, <3>2 DEF Asleep
    <3>4. EventsEnd'
      BY <2>1, <3>1, <3>2, <3>3 DEF EventsEnd
    <3>5. Stage("join", 3)'
      BY <3>4 DEF Stage
    <3> QED
      BY <1>1, <2>1, <2>5, <3>5, Arrives
  <2> QED
    BY <2>3, <2>4, <2>5
<1>18. ASSUME Join(r) PROVE At(r)' /\ UNCHANGED state
  <2>1. /\ life[r].pc = "join" /\ n \in 2..3 /\ ~Live(StopOrder[n])
        /\ UNCHANGED <<thr, q, serving, state>> /\ NextOne(r, "stop")
    BY <1>18 DEF Join, IsJoined, Alive, Live, At, Stage, workers, signals
  <2>2. CASE n = 2
    <3>1. KobjEnds /\ ~Live("kobj_worker")
      BY <2>1, <2>2 DEF At, Stage, StopOrder
    <3>2. KobjEnded
      BY <3>1 DEF KobjEnds, KobjEnded, Ending
    <3>3. KobjEnded'
      BY <2>1, <3>2, SameStages
    <3>4. Stage("stop", 3)'
      BY <3>3 DEF Stage
    <3>5. life'[r] = [pc |-> "stop", i |-> 3]
      BY <1>2, <2>1, <2>2
    <3> QED
      BY <2>1, <3>4, <3>5, Arrives
  <2>3. CASE n = 3
    <3>1. EventsEnd /\ ~Live("event_worker")
      BY <2>1, <2>3 DEF At, Stage, StopOrder
    <3>2. Resting
      BY <3>1 DEF EventsEnd, Resting, Ending
    <3>3. Resting'
      BY <2>1, <3>2, SameStages
    <3>4. Stage("stop", 4)'
      BY <3>3 DEF Stage
    <3>5. life'[r] = [pc |-> "stop", i |-> 4]
      BY <1>2, <2>1, <2>3
    <3> QED
      BY <2>1, <3>4, <3>5, Arrives
  <2> QED
    BY <2>1, <2>2, <2>3
<1>19. ASSUME EndShutdown(r) PROVE At(r)' /\ Resting'
  <2>1. n = 4 /\ life[r].pc = "stop" /\ UNCHANGED <<thr, q, serving>> /\ Goto(r, "over")
    BY <1>20, <1>19 DEF EndShutdown, InRange, workers
  <2>2. Resting'
    BY <2>1, SameStages DEF At, Stage
  <2>3. Stage("over", n)'
    BY DEF Stage
  <2> QED
    BY <1>1, <2>1, <2>2, <2>3, Arrives
<1> QED
  BY <1>4, <1>6, <1>7, <1>8, <1>9, <1>10, <1>11, <1>13, <1>14, <1>15,
     <1>16, <1>17, <1>18, <1>19 DEF Lifecycle

-----------------------------------------------------------------------------
(* The order of a stop                                                     *)

(* How the lifecycle thread moves when nothing has failed.                 *)
Turns(r) ==
  /\ Active(r) /\ UNCHANGED <<thread, call>>
  /\ life'[r].pc \notin {"none", "begin"}
  /\ life'[r].pc = "over" => state' = "IDLE" /\ ~shutdown'
  /\ life[r].pc \in {"signal", "await"} => life'[r].pc \in {"await", "stop"}
  /\ life[r].pc \in {"signal", "await"} /\ ~shutdown => life'[r].pc = "await"
  /\ life[r].pc \in {"stop", "join"} => life'[r].pc \in {"stop", "join", "over"}
  /\ fails' = 0 => (shutdown' => shutdown) /\ \A w \in Workers : thr'[w] = thr[w] \/ thr'[w] = "run"

LEMMA LifecycleTurns ==
  ASSUME TypeInv, NEW r \in Runs, Lifecycle(r) PROVE Turns(r)
<1>0. /\ life \in [Runs -> [pc : Locations, i : 0..(Len(StartOrder) + Len(StopOrder) + 1)]]
      /\ thr \in [Workers -> {"dead", "run", "busy", "failing"}] /\ fails \in Nat
  BY DEF TypeInv, LifeOK, TypeOK
<1>1. ASSUME NEW l, Goto(r, l) \/ NextOne(r, l) PROVE life'[r].pc = l
  BY <1>0, <1>1 DEF Goto, NextOne
<1>2. ASSUME BeginStartup(r) PROVE Turns(r)
  BY <1>1, <1>2 DEF BeginStartup, Turns, Active, workers
<1>3. ASSUME StartServer(r) PROVE Turns(r)
  BY <1>1, <1>3 DEF StartServer, AtStart, Turns, Active, workers, signals
<1>4. ASSUME StartHandshaker(r) PROVE Turns(r)
  BY <1>1, <1>4 DEF StartHandshaker, AtStart, Turns, Active, workers, signals
<1>5. ASSUME StartProfile(r) PROVE Turns(r)
  BY <1>1, <1>5 DEF StartProfile, AtStart, Turns, Active, signals
<1>6. ASSUME Wait(r) PROVE Turns(r)
  BY <1>1, <1>6 DEF Wait, Turns, Active, workers
<1>7. ASSUME StartFails(r) PROVE Turns(r)
  <2>1. fails' # 0
    BY <1>0, <1>7 DEF StartFails
  <2> QED
    BY <1>1, <1>7, <2>1 DEF StartFails, AtStart, Turns, Active
<1>8. ASSUME Started(r) PROVE Turns(r)
  <2>1. Goto(r, "signal") \/ NextOne(r, "start")
    BY <1>8 DEF Started
  <2>2. life'[r].pc = "signal" \/ life'[r].pc = "start"
    BY <1>1, <2>1
  <2> QED
    BY <1>8, <2>2 DEF Started, Turns, Active, workers, signals
<1>9. ASSUME EndStartup(r) PROVE Turns(r)
  BY <1>1, <1>9 DEF EndStartup, Turns, Active, workers
<1>10. ASSUME Signal(r) PROVE Turns(r)
  BY <1>1, <1>10 DEF Signal, Turns, Active, workers
<1>11. ASSUME BeginShutdown(r) PROVE Turns(r)
  <2>1. life'[r].pc = "stop"
    BY <1>0, <1>11 DEF BeginShutdown
  <2> QED
    BY <1>11, <2>1 DEF BeginShutdown, Turns, Active, workers
<1>12. ASSUME StopServer(r) PROVE Turns(r)
  BY <1>1, <1>12 DEF StopServer, AtStop, Turns, Active, workers, signals
<1>13. ASSUME Join(r) PROVE Turns(r)
  BY <1>1, <1>13 DEF Join, Turns, Active, workers, signals
<1>14. ASSUME EndShutdown(r) PROVE Turns(r)
  BY <1>1, <1>14 DEF EndShutdown, Turns, Active, workers
<1>15. ASSUME NEW w \in Workers, StartWorker(r, w) PROVE Turns(r)
  <2>1. \A v \in Workers : thr'[v] = thr[v] \/ thr'[v] = "run"
    BY <1>0, <1>15 DEF StartWorker
  <2>2. life'[r].pc = "started"
    BY <1>1, <1>15 DEF StartWorker
  <2> QED
    BY <1>15, <2>1, <2>2 DEF StartWorker, AtStart, Turns, Active, signals
<1>16. ASSUME NEW w \in Workers, StopWorker(r, w) PROVE Turns(r)
  <2>1. life'[r].pc = "join"
    BY <1>1, <1>16 DEF StopWorker
  <2> QED
    BY <1>16, <2>1 DEF StopWorker, AtStop, Turns, Active, signals
<1> QED
  BY <1>2, <1>3, <1>4, <1>5, <1>6, <1>7, <1>8, <1>9, <1>10, <1>11, <1>12,
     <1>13, <1>14, <1>15, <1>16 DEF Lifecycle

LEMMA FailsGrow == ASSUME TypeInv, [Next]_vars, fails' = 0 PROVE fails = 0
<1>1. fails \in Nat
  BY DEF TypeInv, TypeOK
<1>2. ASSUME NEW r \in Runs, Lifecycle(r) PROVE fails' = fails \/ fails' = fails + 1
  BY <1>2 DEF Lifecycle, BeginStartup, StartServer, StartHandshaker, StartProfile, Wait,
     StartFails, Started, EndStartup, Signal, BeginShutdown, StopServer, Join,
     EndShutdown, StartWorker, StopWorker, bounds
<1>3. ASSUME NEW c \in Callers, CheckStart(c) \/ CheckStop(c) \/ Calling(c) PROVE fails' = fails
  BY <1>3 DEF CheckStart, CheckStop, Calling, Spawn, SignalStop, Return, bounds
<1>4. ASSUME WorkStep PROVE fails' = fails \/ fails' = fails + 1
  BY <1>4 DEF WorkStep, Work, Take, WorkerFails, WorkerSignals, ProcessKnowledge,
     ProcessEvent, Receive, bounds, vars
<1> QED
  BY <1>1, <1>2, <1>3, <1>4 DEF Next, WorkStep

(* The step of the lifecycle thread.                                       *)
LEMMA LifecycleInTurn ==
  ASSUME RunInv, InTurn, NEW r \in Runs, Lifecycle(r)
  PROVE  /\ InTurn'
         /\ Unfailed /\ fails' = 0 => Unfailed'
<1>1. Turns(r) /\ StepsOn(r)
  BY LifecycleTurns, LifecycleMoves DEF RunInv
<1>2. \A s \in Runs \ {r} : life'[s] = life[s] /\ life[s].pc \in {"none", "over"}
  BY <1>1 DEF StepsOn, RunInv, OneRun, Active
<1>3. life'[r].pc \in Locations
  <2>1. LifeOK'
    BY LifecycleType DEF RunInv, TypeInv
  <2> QED
    BY <2>1 DEF LifeOK
<1>4. /\ \A s \in Runs : Active(s)' => thread' = s
      /\ \A s \in Runs : life'[s].pc = "begin" => state' = "IDLE"
  <2>1. thread' = r
    BY <1>1 DEF InTurn, Turns
  <2>2. \A s \in Runs \ {r} : ~(Active(s)') /\ life'[s].pc # "begin"
    BY <1>2 DEF Active
  <2>3. life'[r].pc # "begin"
    BY <1>1 DEF Turns
  <2> QED
    BY <2>1, <2>2, <2>3
<1>5. ASSUME state' = "RUNNING" PROVE life'[r].pc \in {"signal", "await"}
  BY <1>1, <1>3, <1>5 DEF Turns, StepsOn, StateFits, Locations
<1>6. InTurn'
  BY <1>4, <1>5 DEF InTurn
<1>7. ASSUME Unfailed, fails' = 0 PROVE Unfailed'
  <2>1. /\ \A w \in Workers : thr'[w] # "failing"
        /\ UNCHANGED call /\ (shutdown' => shutdown)
    BY <1>1, <1>7 DEF Turns, Unfailed
  <2>2. ASSUME shutdown'
        PROVE  /\ \E c \in Callers : call'[c] = "join"
               /\ life'[r].pc \in {"signal", "await", "stop", "join"}
    <3>1. life[r].pc \in {"signal", "await", "stop", "join"} /\ \E c \in Callers : call[c] = "join"
      BY <1>2, <2>1, <2>2, <1>7 DEF Unfailed
    <3> QED
      BY <1>1, <2>1, <2>2, <3>1 DEF Turns
  <2>3. ASSUME NEW c \in Callers, call'[c] = "stop"
        PROVE  ~shutdown' /\ life'[r].pc \in {"signal", "await"}
    <3>1. ~shutdown /\ life[r].pc \in {"signal", "await"}
      BY <1>2, <2>1, <2>3, <1>7 DEF Unfailed
    <3> QED
      BY <1>1, <2>1, <3>1 DEF Turns
  <2> QED
    BY <2>1, <2>2, <2>3 DEF Unfailed
<1> QED
  BY <1>6, <1>7

(* The steps of the caller.                                                *)
LEMMA CallerInTurn ==
  ASSUME IsBlocking, RunInv, InTurn, NEW c \in Callers, CheckStart(c) \/ CheckStop(c) \/ Calling(c)
  PROVE  /\ InTurn'
         /\ Unfailed => Unfailed'
<1> USE DEF RunInv, TypeInv
<1>0. /\ call \in [Callers -> {"idle", "start", "awaitStartup", "stop", "join"}]
      /\ \A d \in Callers : d = c
  BY DEF TypeOK, IsBlocking
<1>1. ASSUME Spawn(c) PROVE InTurn' /\ (Unfailed => Unfailed')
  <2>1. /\ \A r \in Runs : ~Active(r)
        /\ state' = "IDLE" /\ UNCHANGED <<shutdown, thr>>
    BY <1>1 DEF Spawn, CallersWait, workers
  <2>2. PICK r \in Runs : life' = [life EXCEPT ![r] = [pc |-> "begin", i |-> 1]] /\ thread' = r
    BY <1>1 DEF Spawn
  <2>3. \A s \in Runs \ {r} : life'[s] = life[s]
    BY <2>2, Moved
  <2>4. InTurn'
    BY <2>1, <2>2, <2>3 DEF InTurn, Active
  <2>5. ASSUME Unfailed PROVE Unfailed'
    <3>1. ~shutdown
      BY <2>1, <2>5 DEF Unfailed, Active
    <3>2. call'[c] # "stop"
      BY <1>0, <1>1 DEF Spawn
    <3> QED
      BY <1>0, <2>1, <2>5, <3>1, <3>2 DEF Unfailed
  <2> QED
    BY <2>4, <2>5
<1>2. ASSUME CheckStart(c) \/ CheckStop(c) \/ SignalStop(c) \/ Return(c) PROVE InTurn'
  <2>1. UNCHANGED <<life, state, thread>>
    BY <1>2 DEF CheckStart, CheckStop, SignalStop, Return, signals
  <2> QED
    BY <2>1 DEF InTurn, Active
<1>3. ASSUME Unfailed, CheckStart(c) PROVE Unfailed'
  <2>1. UNCHANGED <<life, shutdown, thr>> /\ call[c] = "idle" /\ call'[c] = "start"
    BY <1>0, <1>3 DEF CheckStart, signals, workers
  <2> QED
    BY <1>0, <1>3, <2>1 DEF Unfailed
<1>4. ASSUME Unfailed, CheckStop(c) PROVE Unfailed'
  <2>1. UNCHANGED <<life, shutdown, thr>> /\ call[c] = "idle" /\ state = "RUNNING"
    BY <1>4 DEF CheckStop, signals, workers
  <2>2. ~shutdown /\ \E r \in Runs : life[r].pc \in {"signal", "await"}
    BY <1>0, <1>4, <2>1 DEF Unfailed, InTurn
  <2> QED
    BY <1>4, <2>1, <2>2 DEF Unfailed
<1>5. ASSUME Unfailed, SignalStop(c) PROVE Unfailed'
  <2>1. UNCHANGED <<life, thr>> /\ call[c] = "stop" /\ call' = [call EXCEPT ![c] = "join"]
    BY <1>5 DEF SignalStop, IsBlocking, workers
  <2>2. call'[c] = "join" /\ \E r \in Runs : life[r].pc \in {"signal", "await"}
    BY <1>0, <1>5, <2>1 DEF Unfailed
  <2> QED
    BY <1>0, <1>5, <2>1, <2>2 DEF Unfailed
<1>6. ASSUME Unfailed, Return(c) PROVE Unfailed'
  <2>1. UNCHANGED <<life, shutdown, thr>> /\ call'[c] = "idle"
    BY <1>0, <1>6 DEF Return, signals, workers
  <2>2. ~shutdown
    <3> SUFFICES ASSUME shutdown PROVE FALSE
      OBVIOUS
    <3>1. call[c] = "join"
      BY <1>0, <1>6 DEF Unfailed
    <3>2. life[thread].pc = "over"
      BY <1>6, <3>1 DEF Return
    <3>3. PICK r \in Runs : life[r].pc \in {"signal", "await", "stop", "join"}
      BY <1>6 DEF Unfailed
    <3>4. thread = r
      BY <3>3 DEF InTurn, Active
    <3> QED
      BY <3>2, <3>3, <3>4
  <2> QED
    BY <1>0, <1>6, <2>1, <2>2 DEF Unfailed
<1> QED
  BY <1>1, <1>2, <1>3, <1>4, <1>5, <1>6 DEF Calling

(* The steps of the workers.                                               *)
LEMMA WorkerInTurn ==
  ASSUME TypeInv, InTurn, WorkStep
  PROVE  /\ InTurn'
         /\ Unfailed /\ fails = 0 /\ fails' = 0 => Unfailed' /\ Calm
<1>1. UNCHANGED <<life, state, call, thread>>
  BY DEF WorkStep, Work, Take, WorkerFails, WorkerSignals, ProcessKnowledge,
     ProcessEvent, Receive, signals, vars
<1>2. InTurn'
  BY <1>1 DEF InTurn, Active
<1>3. ASSUME Unfailed, fails = 0, fails' = 0 PROVE Unfailed' /\ Calm
  <2>1. Calm
    BY <1>3, CalmStep DEF Unfailed
  <2>2. UNCHANGED shutdown
    BY <2>1 DEF Calm, Take, ProcessKnowledge, ProcessEvent, Receive, signals, vars
  <2>3. ASSUME NEW v \in Workers PROVE thr'[v] # "failing"
    <3>1. thr[v] # "failing"
      BY <1>3 DEF Unfailed
    <3>2. CASE \E w \in Workers : Take(w)
      BY <3>1, <3>2 DEF Take, TypeInv, TypeOK
    <3>3. CASE ProcessKnowledge \/ ProcessEvent \/ Receive \/ UNCHANGED vars
      BY <3>1, <3>3, PutStep
    <3> QED
      BY <2>1, <3>2, <3>3 DEF Calm
  <2> QED
    BY <1>1, <1>3, <2>1, <2>2, <2>3 DEF Unfailed
<1> QED
  BY <1>2, <1>3

-----------------------------------------------------------------------------
(* What a shutdown leaves                                                  *)

LEMMA Begins == ASSUME NEW r \in Runs, Lifecycle(r), life[r].pc = "begin" PROVE state' = "STARTING"
BY DEF Lifecycle, BeginStartup, StartServer, StartHandshaker, StartProfile, Wait, StartFails,
       Started, EndStartup, Signal, BeginShutdown, StopServer, Join, EndShutdown,
       StartWorker, StopWorker, AtStart, AtStop

LEMMA Inactive ==
  ASSUME NEW r \in Runs, life[r].pc \in {"none", "over", "begin"} PROVE At(r)
BY DEF At, Stage

LEMMA LifecycleDrains ==
  ASSUME RunInv, DrainInv, HasWorkers, NEW r \in Runs, Lifecycle(r) PROVE DrainInv'
<1>1. InTurn' /\ (Unfailed /\ fails' = 0 => Unfailed')
  BY LifecycleInTurn DEF DrainInv
<1>2. ASSUME fails' = 0 PROVE Unfailed' /\ (\A s \in Runs : At(s)') /\ (state' = "IDLE" => Resting')
  <2>1. Unfailed /\ (\A s \in Runs : At(s)) /\ (state = "IDLE" => Resting)
    <3>1. fails = 0
      BY <1>2, FailsGrow DEF RunInv, Next
    <3> QED
      BY <3>1 DEF DrainInv
  <2>2. StepsOn(r)
    BY LifecycleMoves DEF RunInv
  <2>3. \A s \in Runs \ {r} : life'[s] = life[s] /\ life[s].pc \in {"none", "over"}
    BY <2>2 DEF StepsOn, RunInv, OneRun, Active
  <2>4. life[r].pc = "begin" => Resting
    BY <2>1 DEF DrainInv, InTurn
  <2>5. shutdown => life[r].pc \in {"signal", "await", "stop", "join"}
    BY <2>1, <2>3 DEF Unfailed
  <2>6. At(r)' /\ (state' = "IDLE" => state = "IDLE" \/ Resting')
    BY <1>2, <2>1, <2>4, <2>5, OwnStage DEF RunInv
  <2>7. ASSUME NEW s \in Runs PROVE At(s)'
    <3>1. CASE s = r
      BY <2>6, <3>1
    <3>2. CASE s # r
      <4>1. life'[s].pc \in {"none", "over"}
        BY <2>3, <3>2
      <4> QED
        BY <4>1 DEF At, Stage
    <3> QED
      BY <3>1, <3>2
  <2>8. ASSUME state = "IDLE" PROVE state' = "STARTING"
    <3>1. life[r].pc \in Locations /\ StateFits(r) /\ Active(r)
      BY <2>2 DEF StepsOn, RunInv, TypeInv, LifeOK
    <3>2. life[r].pc = "begin"
      BY <2>8, <3>1 DEF StateFits, Active, Locations
    <3> QED
      BY <3>2, Begins
  <2> QED
    BY <1>1, <1>2, <2>1, <2>6, <2>7, <2>8
<1> QED
  BY <1>1, <1>2 DEF DrainInv

LEMMA CallerDrains ==
  ASSUME IsBlocking, RunInv, DrainInv, NEW c \in Callers, CheckStart(c) \/ CheckStop(c) \/ Calling(c)
  PROVE  DrainInv'
<1>1. InTurn' /\ (Unfailed => Unfailed')
  BY CallerInTurn DEF DrainInv
<1>2. UNCHANGED <<fails, state, thr, q, serving>>
  BY DEF CheckStart, CheckStop, Calling, Spawn, SignalStop, Return, signals, workers, bounds
<1>3. Resting => Resting'
  BY <1>2, SameStages
<1>4. ASSUME \A r \in Runs : At(r) PROVE \A r \in Runs : At(r)'
  <2>1. CASE \E r \in Runs : life' = [life EXCEPT ![r] = [pc |-> "begin", i |-> 1]]
    <3>1. PICK r \in Runs : life' = [life EXCEPT ![r] = [pc |-> "begin", i |-> 1]]
      BY <2>1
    <3>2. life'[r].pc = "begin" /\ \A s \in Runs \ {r} : life'[s] = life[s]
      BY <3>1, Moved DEF RunInv, TypeInv
    <3>3. At(r)'
      BY <3>2 DEF At, Stage
    <3>4. ASSUME NEW s \in Runs \ {r} PROVE At(s)'
      <4>1. PICK l, n : l = life[s].pc /\ n = life[s].i
        OBVIOUS
      <4>2. Stage(l, n)'
        BY <1>2, <1>4, <4>1, CalmStage DEF At, RunInv
      <4> QED
        BY <3>2, <4>1, <4>2 DEF At, Stage
    <3> QED
      BY <3>3, <3>4
  <2>2. CASE UNCHANGED life
    <3> SUFFICES ASSUME NEW s \in Runs PROVE At(s)'
      OBVIOUS
    <3>1. PICK l, n : l = life[s].pc /\ n = life[s].i
      OBVIOUS
    <3>2. Stage(l, n)'
      BY <1>2, <1>4, <3>1, CalmStage DEF At, RunInv
    <3> QED
      BY <2>2, <3>1, <3>2 DEF At, Stage
  <2>3. UNCHANGED life \/ \E r \in Runs : life' = [life EXCEPT ![r] = [pc |-> "begin", i |-> 1]]
    BY DEF CheckStart, CheckStop, Calling, Spawn, SignalStop, Return
  <2> QED
    BY <2>1, <2>2, <2>3
<1> QED
  BY <1>1, <1>2, <1>3, <1>4 DEF DrainInv

LEMMA WorkerDrains == ASSUME RunInv, DrainInv, WorkStep PROVE DrainInv'
<1>1. InTurn' /\ (Unfailed /\ fails = 0 /\ fails' = 0 => Unfailed' /\ Calm)
  BY WorkerInTurn DEF DrainInv, RunInv
<1>2. ASSUME fails' = 0 PROVE Unfailed' /\ (\A s \in Runs : At(s)') /\ (state' = "IDLE" => Resting')
  <2>1. fails = 0
    BY <1>2, FailsGrow DEF RunInv, Next, WorkStep
  <2>2. Unfailed /\ (\A s \in Runs : At(s)) /\ (state = "IDLE" => Resting)
    BY <2>1 DEF DrainInv
  <2>3. Unfailed' /\ Calm /\ UNCHANGED <<life, state>>
    BY <1>1, <1>2, <2>1, <2>2, WorkerMoves
  <2>4. ASSUME NEW s \in Runs PROVE At(s)'
    <3>1. PICK l, n : l = life[s].pc /\ n = life[s].i
      OBVIOUS
    <3>2. Stage(l, n)'
      BY <2>2, <2>3, <3>1, CalmStage DEF At, RunInv
    <3> QED
      BY <2>3, <3>1, <3>2 DEF At, Stage
  <2>5. Resting => Resting'
    BY <2>3, CalmStages DEF RunInv
  <2> QED
    BY <2>2, <2>3, <2>4, <2>5
<1> QED
  BY <1>1, <1>2 DEF DrainInv

LEMMA InitDrains == Init => RunInv /\ DrainInv
<1> SUFFICES ASSUME Init PROVE RunInv /\ DrainInv
  OBVIOUS
<1>1. RunInv
  BY InitInv DEF IInv
<1>2. /\ \A r \in Runs : life[r].pc = "none"
      /\ \A w \in Workers : thr[w] = "dead" /\ q[w] = <<>>
      /\ \A c \in Callers : call[c] = "idle"
      /\ state = "IDLE" /\ shutdown = FALSE /\ serving = FALSE
  BY DEF Init
<1>3. \A r \in Runs : At(r) /\ ~Active(r)
  BY <1>2, Inactive DEF Active
<1>4. Resting
  BY <1>2 DEF Resting, Asleep, Only, Workers
<1>5. Unfailed
  BY <1>2 DEF Unfailed
<1>6. InTurn
  BY <1>2, <1>3 DEF InTurn
<1> QED
  BY <1>1, <1>3, <1>4, <1>5, <1>6 DEF DrainInv

(* Drained: a node that is down, and in which nothing has failed, has      *)
(* processed all it received and has handed on all it announced; only what *)
(* its event worker gave up is left.                                       *)
THEOREM DrainTheorem == IsBlocking /\ HasWorkers => (Spec => []Drained)
<1> SUFFICES ASSUME IsBlocking, HasWorkers PROVE Spec => []Drained
  OBVIOUS
<1>1. RunInv /\ DrainInv /\ [Next]_vars => (RunInv /\ DrainInv)'
  BY NextRuns, LifecycleDrains, CallerDrains, WorkerDrains DEF Next, WorkStep
<1>2. RunInv /\ DrainInv => Drained
  <2> SUFFICES ASSUME RunInv, DrainInv, state = "IDLE", fails = 0
               PROVE  /\ \A i \in 1..Len(q["kobj_worker"]) : q["kobj_worker"][i] = "forget"
                      /\ q["event_worker"] = <<>>
    BY DEF Drained
  <2>1. Only(q["kobj_worker"], {"forget"}) /\ Only(q["event_worker"], {})
    BY DEF DrainInv, Resting, Asleep
  <2>2. q["event_worker"] \in Seq(Items)
    BY DEF RunInv, TypeInv, TypeOK, Workers, Items
  <2>3. PICK n \in Nat : n = Len(q["event_worker"])
    BY <2>2, LenProperties
  <2>4. n = 0
    <3>1. 1 \notin 1..n
      BY <2>1, <2>3 DEF Only
    <3> QED
      BY <3>1
  <2> QED
    BY <2>1, <2>2, <2>3, <2>4, EmptySeq DEF Only
<1> QED
  BY InitDrains, <1>1, <1>2, PTL DEF Spec

=============================================================================
