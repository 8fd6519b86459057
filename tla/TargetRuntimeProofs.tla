------------------------ MODULE TargetRuntimeProofs ------------------------
(***************************************************************************)
(* Proofs about the target: about TargetRuntime for every choice of        *)
(* thresholds, sleeps, queue sizes and numbers of requests, with and       *)
(* without preemption, and about the socket service in front of it,        *)
(* TargetServer, for every number of clients and whatever they send.       *)
(***************************************************************************)
EXTENDS TargetRuntime, TargetServer, TLAPS

Pcs == ServerPcs \cup ThreadPcs

\* A thread that moves on, or goes to sleep, keeps pc and timer well typed.
LEMMA MoveTypes ==
  ASSUME TypeOK, NEW t \in Threads, NEW from, NEW to \in Pcs, NEW n \in Nat
  PROVE  /\ Goto(t, from, to) => pc' \in [Threads -> Pcs]
         /\ Sleep(t, n) => timer' \in [Threads -> Nat]
BY DEF TypeOK, Goto, Sleep, Pcs

\* A step of the sensor thread.
LEMMA SensorTypes == ASSUME TypeOK, SensorStep PROVE TypeOK'
<1> USE TimesAssumption, LimitsAssumption
<1>1. period \in Nat /\ queue \in 0 .. QueueCap /\ produced \in Nat /\ samples \in Nat
      /\ timer \in [Threads -> Nat]
  BY DEF TypeOK
<1>2. {"sleep", "done", "count", "loop"} \subseteq Pcs /\ "sensor" \in Threads
  BY DEF Pcs, ThreadPcs, Threads
<1>3. pc' \in [Threads -> Pcs]
  BY <1>2, MoveTypes DEF SensorStep, SensorLoop, SensorPush, SensorCount
<1>4. timer' \in [Threads -> Nat]
  BY <1>1, <1>2, MoveTypes DEF SensorStep, SensorLoop, SensorPush, SensorCount
<1>5. queue' \in 0 .. QueueCap /\ produced' \in Nat /\ samples' \in Nat
  BY <1>1 DEF SensorStep, SensorLoop, SensorPush, SensorCount
<1> QED
  BY <1>3, <1>4, <1>5
  DEF TypeOK, Pcs, SensorStep, serverVars, workerVars, controlVars

\* A step of the worker thread.
LEMMA WorkerTypes == ASSUME TypeOK, WorkerStep PROVE TypeOK'
<1> USE TimesAssumption, LimitsAssumption
<1>1. /\ queue \in 0 .. QueueCap /\ processed \in Nat /\ timer \in [Threads -> Nat]
      /\ hbAge \in 0 .. AgeCap /\ freeze \in NoFreeze .. FreezeLen
      /\ hbNew \in BOOLEAN /\ acked \in BOOLEAN /\ paused \in BOOLEAN
  BY DEF TypeOK
<1>2. /\ {"loop", "done", "clear", "wait", "count", "beat"} \subseteq Pcs
      /\ "worker" \in Threads
  BY DEF Pcs, ThreadPcs, Threads
<1>3. pc' \in [Threads -> Pcs]
  BY <1>2, MoveTypes
  DEF WorkerStep, WorkerLoop, WorkerClear, WorkerPop, WorkerTimeout, WorkerCount, WorkerBeat
<1>4. timer' \in [Threads -> Nat]
  <2>1. CASE WorkerLoop
    BY <1>1, <2>1 DEF WorkerLoop, Sleep
  <2>2. CASE WorkerClear  BY <1>1, <2>2 DEF WorkerClear, Sleep
  <2>3. CASE WorkerBeat  BY <1>1, <2>3 DEF WorkerBeat, Sleep
  <2>4. CASE WorkerPop \/ WorkerTimeout \/ WorkerCount
    BY <1>1, <2>4 DEF WorkerPop, WorkerTimeout, WorkerCount
  <2> QED  BY <2>1, <2>2, <2>3, <2>4 DEF WorkerStep
<1>5. queue' \in 0 .. QueueCap /\ processed' \in Nat
  BY <1>1
  DEF WorkerStep, WorkerLoop, WorkerClear, WorkerPop, WorkerTimeout, WorkerCount, WorkerBeat
<1>6. hbAge' \in 0 .. AgeCap /\ freeze' \in NoFreeze .. FreezeLen
  BY <1>1
  DEF WorkerStep, WorkerLoop, WorkerClear, WorkerPop, WorkerTimeout, WorkerCount, WorkerBeat,
      StoreHeartbeat, AgeCap, NoFreeze
<1>7. hbNew' \in BOOLEAN /\ acked' \in BOOLEAN /\ paused' \in BOOLEAN
  BY <1>1
  DEF WorkerStep, WorkerLoop, WorkerClear, WorkerPop, WorkerTimeout, WorkerCount, WorkerBeat,
      StoreHeartbeat
<1> QED  BY <1>3, <1>4, <1>5, <1>6, <1>7 DEF TypeOK, Pcs, WorkerStep, serverVars

\* A step of the watchdog thread.
LEMMA WatchdogTypes == ASSUME TypeOK, WatchdogStep PROVE TypeOK'
<1> USE TimesAssumption, LimitsAssumption
<1> USE DEF WatchdogLoop, WatchdogClock, WatchdogLoad, WatchdogFault, WatchdogRelease,
      WatchdogRecover, WatchdogConfirm, WatchdogCount
<1>1. /\ timer \in [Threads -> Nat] /\ hbAge \in 0 .. AgeCap /\ wdAge \in 0 .. AgeCap
      /\ freeze \in NoFreeze .. FreezeLen /\ recoveries \in 0 .. RecoveriesCap
      /\ hbNew \in BOOLEAN /\ acked \in BOOLEAN
      /\ state \in {"BOOT", "INIT", "READY", "RUNNING", "FAULT", "RECOVERY"}
  BY DEF TypeOK
<1>2. /\ {"loop", "done", "clock", "load", "decide", "release", "recover", "count"} \subseteq Pcs
      /\ "watchdog" \in Threads
  BY DEF Pcs, ThreadPcs, Threads
<1>3. pc' \in [Threads -> Pcs]  BY <1>2, MoveTypes DEF WatchdogStep
<1>4. timer' \in [Threads -> Nat]  BY <1>1, <1>2 DEF WatchdogStep, Sleep
<1>5. /\ wdAge' \in 0 .. AgeCap /\ freeze' \in NoFreeze .. FreezeLen
      /\ recoveries' \in 0 .. RecoveriesCap
  BY <1>1 DEF WatchdogStep, AgeCap, NoFreeze, RecoveriesCap
<1>6. state' \in {"BOOT", "INIT", "READY", "RUNNING", "FAULT", "RECOVERY"}
  BY <1>1 DEF WatchdogStep
<1>7. hbNew' \in BOOLEAN /\ acked' \in BOOLEAN  BY <1>1 DEF WatchdogStep
<1> QED
  BY <1>3, <1>4, <1>5, <1>6, <1>7
  DEF TypeOK, Pcs, WatchdogStep, serverVars, sensorVars

\* A step of the server thread.
LEMMA ServerTypes == ASSUME TypeOK, ServerProgress \/ ServerRequest PROVE TypeOK'
<1> USE TimesAssumption, LimitsAssumption
    DEF serverVars, sensorVars, workerVars, controlVars
<1>0. /\ pc \in [Threads -> Pcs] /\ timer \in [Threads -> Nat] /\ started \in 0 .. 3
      /\ "server" \in Threads /\ ServerPcs \subseteq Pcs /\ "loop" \in Pcs
  BY DEF TypeOK, Pcs, Threads, ThreadPcs
<1>1. CASE CreateThread
  <2>1. pc' \in [Threads -> Pcs]  BY <1>0, <1>1 DEF CreateThread
  <2> QED  BY <1>1, <2>1 DEF CreateThread, ServerProgress, ServerRequest, TypeOK, Pcs
<1>2. ASSUME NEW from, NEW to \in ServerPcs, Goto("server", from, to)
      PROVE  pc' \in [Threads -> Pcs]
  BY <1>0, <1>2, MoveTypes
<1> USE DEF ServerPcs
<1>3. CASE StartBegin \/ StartDone \/ CreateFails \/ StopBegin \/ ResetInit \/ ResetRunning
  <2> USE <1>2 DEF ServerProgress, ServerRequest, TypeOK, Pcs
  <2>1. CASE StartBegin \/ StartDone  BY <2>1 DEF StartBegin, StartDone
  <2>2. CASE CreateFails \/ StopBegin  BY <2>2 DEF CreateFails, StopBegin
  <2>3. CASE ResetInit  BY <2>3 DEF ResetInit
  <2>4. CASE ResetRunning  BY <2>4 DEF ResetRunning
  <2> QED  BY <1>3, <2>1, <2>2, <2>3, <2>4
<1>4. CASE Join  BY <1>4 DEF Join, CanJoin, ServerProgress, ServerRequest, TypeOK
<1>5. CASE StopDone  BY <1>2, <1>5 DEF StopDone, ServerProgress, ServerRequest, TypeOK, Pcs
<1>6. CASE \E p \in Periods : ConfigSet(p)
  BY <1>6 DEF ConfigSet, ServerProgress, ServerRequest, TypeOK
<1>7. CASE FaultInject
  <2>1. freeze' \in NoFreeze .. FreezeLen  BY <1>7 DEF FaultInject, NoFreeze
  <2>2. injections' \in Nat /\ wdAge' = wdAge
    BY <1>7 DEF FaultInject, TypeOK, ServerProgress, ServerRequest
  <2> QED  BY <1>7, <2>1, <2>2, Zenon DEF FaultInject, TypeOK
<1>8. CASE ResetProduced \/ ResetProcessed \/ ResetRecoveries \/ ResetFreeze
  <2> USE <1>2 DEF ServerProgress, ServerRequest, TypeOK, Pcs
  <2>1. CASE ResetProduced  BY <2>1 DEF ResetProduced
  <2>2. CASE ResetProcessed  BY <2>2 DEF ResetProcessed
  <2>3. CASE ResetRecoveries  BY <2>3 DEF ResetRecoveries, RecoveriesCap
  <2>4. CASE ResetFreeze  BY <2>4 DEF ResetFreeze, NoFreeze
  <2> QED  BY <1>8, <2>1, <2>2, <2>3, <2>4
<1>9. CASE ResetHeartbeat
  <2>1. timer' \in [Threads -> Nat]  BY <1>0, <1>9 DEF ResetHeartbeat, Sleep
  <2> QED
    BY <1>2, <1>9, <2>1
    DEF ResetHeartbeat, StoreHeartbeat, AgeCap, ServerProgress, ServerRequest, TypeOK, Pcs
<1> QED
  BY <1>1, <1>3, <1>4, <1>5, <1>6, <1>7, <1>8, <1>9 DEF ServerProgress, ServerRequest

\* The passing of time.
LEMMA TickTypes == ASSUME TypeOK, Tick PROVE TypeOK'
<1> USE TimesAssumption
<1>1. timer' \in [Threads -> Nat]  BY DEF TypeOK, Tick
<1>2. hbAge' \in 0 .. AgeCap  BY DEF TypeOK, Tick, AgeCap
<1>3. freeze' \in NoFreeze .. FreezeLen  BY DEF TypeOK, Tick, NoFreeze
<1> QED  BY <1>1, <1>2, <1>3 DEF TypeOK, Tick, serverVars, sensorVars

\* Type correctness is inductive on its own.
LEMMA NextTypes == TypeOK /\ [Next]_vars => TypeOK'
<1> SUFFICES ASSUME TypeOK, [Next]_vars PROVE TypeOK'  OBVIOUS
<1>1. CASE UNCHANGED vars  BY <1>1 DEF vars, TypeOK
<1> QED
  BY <1>1, SensorTypes, WorkerTypes, WatchdogTypes, ServerTypes, TickTypes DEF Next

-----------------------------------------------------------------------------
(* The life of the threads *)

\* A thread that was not created, or that is joined already, has nothing to do;
\* started counts the threads that may be alive.
Lives ==
  /\ started < 1 => Gone("sensor")
  /\ started < 2 => Gone("worker")
  /\ started < 3 => Gone("watchdog")
  /\ joined >= 1 => pc["sensor"] = "done"
  /\ joined >= 2 => pc["worker"] = "done"
  /\ joined >= 3 => pc["watchdog"] = "done"
  /\ ring = "destroyed" => pc["server"] = "stopped"
  /\ pc["server"] \in {"init", "failed", "stopped"} => started = 0

\* Order names the threads in the order in which they are created and joined.
LEMMA OrderIs ==
  Order[1] = "sensor" /\ Order[2] = "worker" /\ Order[3] = "watchdog"
BY DEF Order

\* The three threads never come back from "idle" or "done" by themselves.
LEMMA ThreadLives ==
  ASSUME TypeOK, Lives, SensorStep \/ WorkerStep \/ WatchdogStep PROVE Lives'
<1>1. UNCHANGED serverVars  BY DEF SensorStep, WorkerStep, WatchdogStep
<1>2. pc \in [Threads -> Pcs] /\ started \in 0 .. 3 /\ joined \in 0 .. started
  BY DEF TypeOK, Pcs
<1>3. \E t \in {"sensor", "worker", "watchdog"} :
        ~Gone(t) /\ \E to \in Pcs : pc' = [pc EXCEPT ![t] = to]
  <2>1. CASE SensorStep
    BY <2>1
    DEF SensorStep, SensorLoop, SensorPush, SensorCount, Goto, Gone, Pcs, ThreadPcs
  <2>2. CASE WorkerStep
    BY <2>2
    DEF WorkerStep, WorkerLoop, WorkerClear, WorkerPop, WorkerTimeout, WorkerCount,
        WorkerBeat, Goto, Gone, Pcs, ThreadPcs
  <2>3. CASE WatchdogStep
    BY <2>3
    DEF WatchdogStep, WatchdogLoop, WatchdogClock, WatchdogLoad, WatchdogFault,
        WatchdogRelease, WatchdogRecover, WatchdogConfirm, WatchdogCount, Goto, Gone, Pcs,
        ThreadPcs
  <2> QED  BY <2>1, <2>2, <2>3
<1>4. PICK t \in {"sensor", "worker", "watchdog"}, to \in Pcs :
        ~Gone(t) /\ pc' = [pc EXCEPT ![t] = to]
  BY <1>3
<1> QED  BY <1>1, <1>2, <1>4 DEF Lives, Gone, serverVars, Threads

\* The server creates a thread, joins one that is done, or leaves them alone.
LEMMA ServerLives ==
  ASSUME TypeOK, Lives, ServerProgress \/ ServerRequest PROVE Lives'
<1>0. /\ pc \in [Threads -> Pcs] /\ started \in 0 .. 3 /\ joined \in 0 .. started
      /\ {"server", "sensor", "worker", "watchdog"} \subseteq Threads
  BY DEF TypeOK, Pcs, Threads
<1>1. CASE CreateThread
  BY <1>0, <1>1, OrderIs DEF CreateThread, Lives, Gone
<1>2. CASE Join
  BY <1>0, <1>2, OrderIs DEF Join, CanJoin, Lives, Gone
<1>3. CASE StopDone
  BY <1>0, <1>3 DEF StopDone, AllJoined, Goto, Lives, Gone
<1>4. ASSUME UNCHANGED <<started, joined, ring>>, ring # "destroyed",
             NEW from, NEW to, Goto("server", from, to), to \notin {"init", "failed", "stopped"}
      PROVE  Lives'
  BY <1>0, <1>4 DEF Goto, Lives, Gone
<1>5. ASSUME UNCHANGED <<started, joined, ring, pc>> PROVE Lives'
  BY <1>5 DEF Lives, Gone
<1>6. CASE StartBegin \/ StartDone \/ CreateFails \/ StopBegin \/ ResetInit \/ ResetRunning
  <2>1. ring # "destroyed"
    BY <1>6
    DEF Lives, StartBegin, StartDone, CreateFails, StopBegin, ResetInit, ResetRunning, Goto
  <2> QED
    BY <1>4, <1>6, <2>1
    DEF StartBegin, StartDone, CreateFails, StopBegin, ResetInit, ResetRunning, serverVars
<1>7. CASE ResetProduced \/ ResetProcessed \/ ResetRecoveries \/ ResetFreeze \/ ResetHeartbeat
  <2>1. ring # "destroyed"
    BY <1>7
    DEF Lives, ResetProduced, ResetProcessed, ResetRecoveries, ResetFreeze, ResetHeartbeat,
        Goto
  <2> QED
    BY <1>4, <1>7, <2>1
    DEF ResetProduced, ResetProcessed, ResetRecoveries, ResetFreeze, ResetHeartbeat, serverVars
<1>8. CASE FaultInject \/ \E p \in Periods : ConfigSet(p)
  BY <1>5, <1>8 DEF FaultInject, ConfigSet, serverVars
<1> QED  BY <1>1, <1>2, <1>3, <1>6, <1>7, <1>8 DEF ServerProgress, ServerRequest

\* Every step keeps the life of the threads in order.
LEMMA NextLives == TypeOK /\ Lives /\ [Next]_vars => Lives'
<1> SUFFICES ASSUME TypeOK, Lives, [Next]_vars PROVE Lives'  OBVIOUS
<1>1. CASE Tick \/ UNCHANGED vars  BY <1>1 DEF Tick, vars, serverVars, Lives, Gone
<1> QED  BY <1>1, ThreadLives, ServerLives DEF Next

-----------------------------------------------------------------------------
(* The sample counters *)

\* A sample that is pushed and not yet counted, and one popped and not yet counted.
PushedUncounted == IF pc["sensor"] = "count" THEN 1 ELSE 0
PoppedUncounted == IF pc["worker"] = "count" THEN 1 ELSE 0

\* What is processed, in hand and queued was produced, except for what a reset
\* found in the queue and in the worker's hand.
Counted ==
  pc["server"] # "rProcessed" =>
    processed + PoppedUncounted + queue <= produced + PushedUncounted + QueueCap + 1

\* The counters' invariant is kept by every step.
LEMMA NextCounted == TypeOK /\ Lives /\ Counted /\ [Next]_vars => Counted'
<1> SUFFICES ASSUME TypeOK, Lives, Counted, [Next]_vars PROVE Counted'  OBVIOUS
<1> USE LimitsAssumption DEF PushedUncounted, PoppedUncounted
<1>0. /\ pc \in [Threads -> Pcs] /\ processed \in Nat /\ produced \in Nat
      /\ queue \in 0 .. QueueCap /\ started \in 0 .. 3
      /\ {"server", "sensor", "worker", "watchdog"} \subseteq Threads
  BY DEF TypeOK, Pcs, Threads
<1>1. CASE SensorStep
  BY <1>0, <1>1
  DEF SensorStep, SensorLoop, SensorPush, SensorCount, Goto, workerVars, Counted
<1>2. CASE WorkerStep
  <2> USE <1>0, <1>2 DEF Goto, Counted, WorkerStep
  <2>1. CASE WorkerLoop \/ WorkerClear \/ WorkerTimeout \/ WorkerBeat
    BY <2>1 DEF WorkerLoop, WorkerClear, WorkerTimeout, WorkerBeat
  <2>2. CASE WorkerPop  BY <2>2 DEF WorkerPop
  <2>3. CASE WorkerCount  BY <2>3 DEF WorkerCount
  <2> QED  BY <2>1, <2>2, <2>3
<1>3. ASSUME NEW t \in {"server", "watchdog"}, NEW from, NEW to, Goto(t, from, to),
             UNCHANGED <<processed, produced, queue>>, from # "rProcessed"
      PROVE  Counted'
  BY <1>0, <1>3 DEF Goto, Counted
<1>4. CASE WatchdogStep
  BY <1>3, <1>4
  DEF WatchdogStep, WatchdogLoop, WatchdogClock, WatchdogLoad, WatchdogFault,
      WatchdogRelease, WatchdogRecover, WatchdogConfirm, WatchdogCount, sensorVars
<1>5. CASE CreateThread
  BY <1>0, <1>5, OrderIs DEF CreateThread, Counted, Lives, Gone, sensorVars, workerVars
<1>6. CASE StartBegin \/ StartDone \/ CreateFails \/ StopBegin \/ StopDone \/ ResetInit
           \/ ResetRunning \/ ResetRecoveries \/ ResetFreeze \/ ResetHeartbeat
  BY <1>3, <1>6
  DEF StartBegin, StartDone, CreateFails, StopBegin, StopDone, ResetInit, ResetRunning,
      ResetRecoveries, ResetFreeze, ResetHeartbeat, sensorVars, workerVars
<1>7. CASE ResetProduced  BY <1>0, <1>7 DEF ResetProduced, Goto, Counted
<1>8. CASE ResetProcessed
  BY <1>0, <1>8 DEF ResetProcessed, Goto, Counted, sensorVars
<1>9. CASE Join \/ FaultInject \/ (\E p \in Periods : ConfigSet(p)) \/ Tick \/ UNCHANGED vars
  BY <1>9 DEF Join, FaultInject, ConfigSet, Tick, vars, Counted, sensorVars, workerVars
<1> QED
  BY <1>1, <1>2, <1>4, <1>5, <1>6, <1>7, <1>8, <1>9 DEF Next, ServerProgress, ServerRequest

-----------------------------------------------------------------------------
(* Recovery on a target that was not reset *)

\* While nobody but the worker stores heartbeats, a stall that the watchdog acted
\* on is still there or was ended by the worker.
StallKept ==
  /\ pc["server"] \notin {"rProduced", "rProcessed", "rRecoveries", "rFreeze", "rHeartbeat",
                           "rRunning"}
  /\ pc["server"] \in {"init", "create"} => state \in {"BOOT", "READY"}
  /\ state = "FAULT" => pc["watchdog"] \in {"release", "recover"}
  /\ pc["watchdog"] = "load" /\ hbNew => acked
  /\ pc["watchdog"] \in {"load", "decide"} => acked \/ wdAge <= hbAge
  /\ state \in {"FAULT", "RECOVERY"} => acked \/ hbAge > FaultAge
  /\ state = "RECOVERY" /\ pc["watchdog"] \in {"load", "decide"} => acked \/ wdAge > FaultAge
  /\ pc["watchdog"] \in {"release", "recover"} =>
       pc["server"] \notin {"init", "create"} /\ (acked \/ hbAge > FaultAge)
Stalled == resets = 0 => StallKept

\* Until the first reset every step keeps it.
LEMMA NextStallKept ==
  ASSUME TypeOK, Lives, StallKept, [Next]_vars, resets = 0, resets' = 0
  PROVE  StallKept' /\ (state \in {"FAULT", "RECOVERY"} /\ state' = "RUNNING" => acked)
<1> USE TimesAssumption DEF serverVars, sensorVars, workerVars, controlVars
<1>0. /\ pc \in [Threads -> Pcs] /\ hbAge \in 0 .. AgeCap /\ wdAge \in 0 .. AgeCap
      /\ started \in 0 .. 3
      /\ {"server", "sensor", "worker", "watchdog"} \subseteq Threads
  BY DEF TypeOK, Pcs, Threads
<1>1. CASE SensorStep
  BY <1>0, <1>1
  DEF SensorStep, SensorLoop, SensorPush, SensorCount, Goto, StallKept
<1>2. CASE WorkerStep
  <2> USE <1>0, <1>2 DEF WorkerStep, Goto, StallKept
  <2>1. CASE WorkerBeat  BY <2>1 DEF WorkerBeat, StoreHeartbeat
  <2>2. CASE WorkerLoop  BY <2>2 DEF WorkerLoop
  <2>3. CASE WorkerClear \/ WorkerPop \/ WorkerTimeout \/ WorkerCount
    BY <2>3 DEF WorkerClear, WorkerPop, WorkerTimeout, WorkerCount
  <2> QED  BY <2>1, <2>2, <2>3
<1>3. CASE WatchdogStep
  <2> USE <1>0, <1>3 DEF WatchdogStep, Goto, StallKept
  <2>1. CASE WatchdogLoop  BY <2>1 DEF WatchdogLoop
  <2>2. CASE WatchdogClock
    <3>1. acked \in BOOLEAN  BY DEF TypeOK
    <3>2. CASE state = "RECOVERY"
      <4>1. acked' = acked  BY <2>2, <3>1, <3>2 DEF WatchdogClock
      <4> QED  BY <2>2, <3>2, <4>1 DEF WatchdogClock
    <3>3. CASE state # "RECOVERY"
      <4>1. state # "FAULT"  BY <2>2 DEF WatchdogClock
      <4> QED  BY <2>2, <3>3, <4>1 DEF WatchdogClock
    <3> QED  BY <3>2, <3>3
  <2>3. CASE WatchdogLoad  BY <2>3 DEF WatchdogLoad
  <2>4. CASE WatchdogFault  BY <2>4 DEF WatchdogFault, FaultDue, AgeCap
  <2>5. CASE WatchdogRelease  BY <2>5 DEF WatchdogRelease
  <2>6. CASE WatchdogRecover
    <3>1. /\ pc["watchdog"] = "recover" /\ pc'["watchdog"] = "loop" /\ pc'["server"] = pc["server"]
          /\ state' = "RECOVERY" /\ UNCHANGED <<resets, hbAge, acked>>
      BY <2>6 DEF WatchdogRecover
    <3>2. pc["server"] \notin {"init", "create"}
      BY <2>6 DEF WatchdogRecover
    <3> QED  BY <3>1, <3>2
  <2>7. CASE WatchdogConfirm  BY <2>7 DEF WatchdogConfirm, FaultDue, Recovered, AgeCap
  <2>8. CASE WatchdogCount  BY <2>8 DEF WatchdogCount
  <2> QED  BY <2>1, <2>2, <2>3, <2>4, <2>5, <2>6, <2>7, <2>8
<1>4. CASE ServerProgress
  <2> USE <1>0, <1>4 DEF ServerProgress, Goto, StallKept
  <2>1. CASE StartBegin  BY <2>1 DEF StartBegin
  <2>2. CASE CreateThread  BY <2>2, OrderIs DEF CreateThread, Lives, Gone
  <2>3. CASE StartDone  BY <2>3 DEF StartDone
  <2>4. CASE Join  BY <2>4 DEF Join
  <2>5. CASE StopDone  BY <2>5 DEF StopDone
  <2>6. ~(ResetProduced \/ ResetProcessed \/ ResetRecoveries \/ ResetFreeze \/ ResetHeartbeat
          \/ ResetRunning)
    BY DEF ResetProduced, ResetProcessed, ResetRecoveries, ResetFreeze, ResetHeartbeat,
           ResetRunning
  <2> QED  BY <2>1, <2>2, <2>3, <2>4, <2>5, <2>6
<1>5. CASE ServerRequest
  <2> USE <1>0, <1>5 DEF ServerRequest, Goto, StallKept
  <2>1. CASE CreateFails \/ StopBegin  BY <2>1 DEF CreateFails, StopBegin
  <2>2. CASE FaultInject \/ \E p \in Periods : ConfigSet(p)  BY <2>2 DEF FaultInject, ConfigSet
  <2>3. ~ResetInit  BY DEF ResetInit, TypeOK
  <2> QED  BY <2>1, <2>2, <2>3
<1>6. CASE Tick
  BY <1>0, <1>6 DEF Tick, StallKept, AgeCap
<1>7. CASE UNCHANGED vars  BY <1>7 DEF vars, StallKept
<1> QED  BY <1>1, <1>2, <1>3, <1>4, <1>5, <1>6, <1>7 DEF Next

\* No step takes the count of resets back.
LEMMA NextStalled ==
  ASSUME TypeOK, Lives, Stalled, [Next]_vars
  PROVE  /\ Stalled'
         /\ (state = "FAULT" \/ state = "RECOVERY") /\ state' = "RUNNING" /\ resets = 0 => acked
<1>1. CASE ResetInit
  <2>1. resets' = resets + 1 /\ resets \in Nat /\ state' = "INIT"
    BY <1>1 DEF ResetInit, TypeOK
  <2> QED  BY <2>1 DEF Stalled
<1>2. CASE ~ResetInit
  <2>1. resets' = resets
    <3>1. CASE SensorStep \/ WorkerStep \/ WatchdogStep
      BY <3>1 DEF SensorStep, WorkerStep, WatchdogStep, serverVars
    <3>2. CASE ServerProgress
      BY <3>2
      DEF ServerProgress, StartBegin, CreateThread, StartDone, Join, StopDone, ResetProduced,
          ResetProcessed, ResetRecoveries, ResetFreeze, ResetHeartbeat, ResetRunning, serverVars
    <3>3. CASE ServerRequest
      BY <1>2, <3>3
      DEF ServerRequest, CreateFails, StopBegin, FaultInject, ConfigSet, serverVars
    <3>4. CASE Tick \/ UNCHANGED vars  BY <3>4 DEF Tick, vars, serverVars
    <3> QED  BY <3>1, <3>2, <3>3, <3>4 DEF Next
  <2>2. CASE resets = 0
    <3>1. StallKept  BY <2>2 DEF Stalled
    <3>2. resets' = 0  BY <2>1, <2>2
    <3> QED  BY <2>2, <3>1, <3>2, NextStallKept DEF Stalled
  <2>3. CASE resets # 0  BY <2>1, <2>3 DEF Stalled
  <2> QED  BY <2>2, <2>3
<1> QED  BY <1>1, <1>2

-----------------------------------------------------------------------------
(* Time, when no thread is preempted for a whole tick *)

\* While running is set the server serves, and all three threads exist once
\* mlrt_target_start has returned.
UpPcs == {"create", "serve", "rProduced", "rProcessed", "rRecoveries", "rFreeze",
          "rHeartbeat", "rRunning"}
Up ==
  /\ pc["worker"] \in ThreadPcs /\ pc["watchdog"] \in ThreadPcs
  /\ started >= 2 => pc["worker"] # "idle"
  /\ started >= 3 => pc["watchdog"] # "idle"
  /\ pc["server"] = "init" => pc["worker"] = "idle" /\ pc["watchdog"] = "idle"
  /\ running => /\ pc["server"] \in UpPcs /\ (pc["server"] # "create" => started = 3)
                /\ pc["worker"] # "done" /\ pc["watchdog"] # "done"

\* The age that the watchdog will have read by the time it decides.  A reset
\* stores a heartbeat and RUNNING at most one tick later.
Watched ==
  /\ pc["server"] \in {"init", "create"} => hbAge = 0
  /\ pc["server"] # "rRunning" => timer["server"] = 0
  /\ pc["server"] = "rRunning" => hbAge + timer["server"] <= 1
  /\ timer["watchdog"] <= WdTicks
  /\ pc["watchdog"] # "clock" => timer["watchdog"] = 0
  /\ pc["watchdog"] \in {"load", "decide"} => hbAge <= wdAge
  /\ state = "RUNNING" /\ running =>
       /\ hbAge + timer["watchdog"] <= FaultAge + WdTicks
       /\ pc["watchdog"] \notin {"clock", "load", "decide"} => hbAge <= FaultAge

\* A worker that was never frozen stores its heartbeat when its wait ends.
Beating ==
  (running \/ pc["server"] = "init") /\ injections = 0 =>
    /\ freeze = NoFreeze /\ pc["worker"] # "clear"
    /\ pc["worker"] \in {"idle", "loop"} => hbAge = 0 /\ timer["worker"] = 0
    /\ hbAge + timer["worker"] <= PopTicks

Timed == Prompt => Watched /\ Beating

\* The server brings the threads up and takes them down as Up says.
LEMMA NextUp == ASSUME TypeOK, Lives, Up, [Next]_vars PROVE Up'
<1>0. /\ pc \in [Threads -> Pcs] /\ started \in 0 .. 3 /\ joined \in 0 .. started
      /\ {"server", "sensor", "worker", "watchdog"} \subseteq Threads
  BY DEF TypeOK, Pcs, Threads
<1> USE <1>0 DEF Up, Goto, UpPcs, ThreadPcs
<1>1. CASE SensorStep
  BY <1>1 DEF SensorStep, SensorLoop, SensorPush, SensorCount, serverVars, controlVars
<1>2. CASE WorkerStep
  <2>1. UNCHANGED <<started, running>>  BY <1>2 DEF WorkerStep, serverVars
  <2>2. CASE WorkerLoop  BY <2>1, <2>2 DEF WorkerLoop
  <2>3. CASE WorkerClear \/ WorkerPop \/ WorkerTimeout \/ WorkerCount \/ WorkerBeat
    BY <2>1, <2>3 DEF WorkerClear, WorkerPop, WorkerTimeout, WorkerCount, WorkerBeat
  <2> QED  BY <1>2, <2>2, <2>3 DEF WorkerStep
<1>3. CASE WatchdogStep
  <2>1. UNCHANGED <<started, running>>  BY <1>3 DEF WatchdogStep, serverVars
  <2>2. CASE WatchdogLoop  BY <2>1, <2>2 DEF WatchdogLoop
  <2>3. CASE WatchdogClock \/ WatchdogLoad \/ WatchdogFault \/ WatchdogRelease
             \/ WatchdogRecover \/ WatchdogConfirm \/ WatchdogCount
    BY <2>1, <2>3
    DEF WatchdogClock, WatchdogLoad, WatchdogFault, WatchdogRelease, WatchdogRecover,
        WatchdogConfirm, WatchdogCount
  <2> QED  BY <1>3, <2>2, <2>3 DEF WatchdogStep
<1>4. CASE CreateThread
  BY <1>4, OrderIs DEF CreateThread, controlVars
<1>5. CASE StartBegin  BY <1>5 DEF StartBegin, Lives, serverVars
<1>6. CASE StartDone  BY <1>6 DEF StartDone, serverVars
<1>7. CASE CreateFails \/ StopBegin  BY <1>7 DEF CreateFails, StopBegin, serverVars
<1>8. CASE Join  BY <1>8 DEF Join, controlVars
<1>9. CASE StopDone  BY <1>9 DEF StopDone, controlVars
<1>10. CASE ResetInit \/ ResetProduced \/ ResetProcessed \/ ResetRecoveries
  BY <1>10
  DEF ResetInit, ResetProduced, ResetProcessed, ResetRecoveries, serverVars, controlVars
<1>11. CASE ResetFreeze \/ ResetHeartbeat \/ ResetRunning
  BY <1>11 DEF ResetFreeze, ResetHeartbeat, ResetRunning, serverVars, controlVars
<1>12. CASE FaultInject \/ (\E p \in Periods : ConfigSet(p)) \/ Tick \/ UNCHANGED vars
  BY <1>12 DEF FaultInject, ConfigSet, Tick, vars, serverVars
<1> QED
  BY <1>1, <1>2, <1>3, <1>4, <1>5, <1>6, <1>7, <1>8, <1>9, <1>10, <1>11, <1>12
  DEF Next, ServerProgress, ServerRequest

\* Every step keeps what the watchdog knows about the heartbeat.
LEMMA NextWatched ==
  ASSUME Prompt, TypeOK, Lives, Up, Watched, [Next]_vars PROVE Watched'
<1>0. /\ pc \in [Threads -> Pcs] /\ started \in 0 .. 3 /\ joined \in 0 .. started
      /\ timer \in [Threads -> Nat] /\ hbAge \in 0 .. AgeCap /\ wdAge \in 0 .. AgeCap
      /\ {"server", "sensor", "worker", "watchdog"} \subseteq Threads
      /\ timer["server"] \in Nat /\ timer["watchdog"] \in Nat
      /\ FaultAge \in Nat /\ WdTicks \in Nat /\ FreshAge \in Nat /\ AgeCap \in Nat
      /\ FreshAge <= FaultAge + 1 /\ 1 <= FaultAge
  BY TimesAssumption DEF TypeOK, Pcs, Threads, AgeCap
<1> USE <1>0 DEF Watched
\* Steps that touch neither the watchdog nor the age, or set the age to zero.
<1>1. ASSUME pc'["watchdog"] = pc["watchdog"], pc'["server"] = pc["server"],
             timer'["watchdog"] = timer["watchdog"], timer'["server"] = timer["server"],
             hbAge' = hbAge \/ hbAge' = 0,
             UNCHANGED <<wdAge, state, running>>
      PROVE  Watched'
  BY <1>1
<1>2. CASE SensorStep
  <2>1. /\ pc'["watchdog"] = pc["watchdog"] /\ pc'["server"] = pc["server"]
        /\ timer'["watchdog"] = timer["watchdog"] /\ timer'["server"] = timer["server"]
    BY <1>2 DEF SensorStep, SensorLoop, SensorPush, SensorCount, Goto, Sleep
  <2>2. UNCHANGED <<hbAge, wdAge, state, running>>
    BY <1>2 DEF SensorStep, workerVars, controlVars
  <2> QED  BY <1>1, <2>1, <2>2
<1>3. CASE WorkerStep
  <2> USE DEF WorkerStep, WorkerLoop, WorkerClear, WorkerPop, WorkerTimeout, WorkerCount,
              WorkerBeat
  <2>1. /\ pc'["watchdog"] = pc["watchdog"] /\ pc'["server"] = pc["server"]
    BY <1>3 DEF Goto
  <2>2. timer'["watchdog"] = timer["watchdog"] /\ timer'["server"] = timer["server"]
    BY <1>3 DEF Sleep
  <2>3. hbAge' = hbAge \/ hbAge' = 0  BY <1>3 DEF StoreHeartbeat
  <2>4. UNCHANGED <<wdAge, state, running>>  BY <1>3
  <2> QED  BY <1>1, <2>1, <2>2, <2>3, <2>4
<1>4. CASE WatchdogStep
  <2>1. UNCHANGED <<hbAge, running>>  BY <1>4 DEF WatchdogStep
  <2>2. pc'["server"] = pc["server"]
    BY <1>4
    DEF WatchdogStep, WatchdogLoop, WatchdogClock, WatchdogLoad, WatchdogFault,
        WatchdogRelease, WatchdogRecover, WatchdogConfirm, WatchdogCount, Goto
  <2> USE <2>1, <2>2
  <2>3. CASE WatchdogLoop  BY <2>3 DEF WatchdogLoop, Goto, Sleep
  <2>4. CASE WatchdogClock  BY <2>4 DEF WatchdogClock, Goto, Awake
  <2>5. CASE WatchdogLoad  BY <2>5 DEF WatchdogLoad, Goto
  <2>6. CASE WatchdogFault  BY <2>6 DEF WatchdogFault, Goto
  <2>7. CASE WatchdogConfirm  BY <2>7 DEF WatchdogConfirm, FaultDue, Goto
  <2>8. CASE WatchdogRelease \/ WatchdogRecover \/ WatchdogCount
    BY <2>8 DEF WatchdogRelease, WatchdogRecover, WatchdogCount, Goto
  <2> QED  BY <1>4, <2>3, <2>4, <2>5, <2>6, <2>7, <2>8 DEF WatchdogStep
<1>5. CASE ServerProgress \/ ServerRequest
  <2>0. wdAge' = wdAge  BY <1>5 DEF ServerProgress, ServerRequest
  <2> USE <2>0
  <2>1. CASE CreateThread
    <3>1. /\ started = 2 => pc["watchdog"] # "clock"
          /\ pc'["watchdog"] = IF started = 2 THEN "loop" ELSE pc["watchdog"]
          /\ pc'["server"] = "create" /\ pc["server"] = "create"
      BY <2>1, OrderIs DEF CreateThread, Lives, Gone
    <3>2. UNCHANGED <<timer, hbAge, wdAge, state, running>>
      BY <2>1 DEF CreateThread, workerVars, controlVars
    <3> QED  BY <3>1, <3>2
  <2>2. CASE StartBegin  BY <2>2 DEF StartBegin, Goto, workerVars
  <2>3. CASE StartDone  BY <2>3 DEF StartDone, Goto, workerVars
  <2>4. CASE CreateFails \/ StopBegin
    BY <2>4 DEF CreateFails, StopBegin, Goto, workerVars
  <2>5. CASE Join \/ FaultInject \/ \E p \in Periods : ConfigSet(p)
    BY <1>1, <2>5 DEF Join, FaultInject, ConfigSet, workerVars, controlVars
  <2>6. CASE StopDone  BY <2>6 DEF StopDone, Goto, workerVars, controlVars
  <2>7. CASE ResetInit  BY <2>7 DEF ResetInit, Goto, workerVars
  <2>8. CASE ResetProduced \/ ResetProcessed \/ ResetRecoveries \/ ResetFreeze
    BY <2>8
    DEF ResetProduced, ResetProcessed, ResetRecoveries, ResetFreeze, Goto, workerVars,
        controlVars
  <2>9. CASE ResetHeartbeat
    BY <2>9 DEF ResetHeartbeat, StoreHeartbeat, Goto, Sleep, controlVars
  <2>10. CASE ResetRunning  BY <2>10 DEF ResetRunning, Goto, Awake, workerVars
  <2> QED
    BY <1>5, <2>1, <2>2, <2>3, <2>4, <2>5, <2>6, <2>7, <2>8, <2>9, <2>10
    DEF ServerProgress, ServerRequest
<1>6. CASE Tick
  <2>1. /\ pc' = pc /\ wdAge' = wdAge /\ state' = state /\ running' = running
        /\ hbAge' \in {hbAge, hbAge + 1}
        /\ timer'["server"] = IF timer["server"] > 0 THEN timer["server"] - 1 ELSE 0
        /\ timer'["watchdog"] = IF timer["watchdog"] > 0 THEN timer["watchdog"] - 1 ELSE 0
    BY <1>6 DEF Tick
  <2>2. Waiting("server") /\ Waiting("watchdog")  BY <1>6 DEF Tick
  <2>3. pc["server"] \notin {"init", "create"}
        /\ (pc["server"] = "rRunning" => timer["server"] > 0)
    BY <2>2 DEF Waiting
  <2>4. pc["watchdog"] \in {"idle", "done"} \/ (pc["watchdog"] = "clock" /\ timer["watchdog"] > 0)
    <3>1. pc["watchdog"] \in {"idle", "done"} \/ timer["watchdog"] > 0
      BY <2>2 DEF Waiting, Up, ThreadPcs
    <3>2. timer["watchdog"] > 0 => pc["watchdog"] = "clock"  OBVIOUS
    <3> QED  BY <3>1, <3>2
  <2>5. running => pc["watchdog"] \notin {"idle", "done"}  BY <2>3 DEF Up
  <2>6. hbAge' \in Nat /\ hbAge \in Nat /\ hbAge' <= hbAge + 1  BY <2>1
  <2>s. /\ pc'["server"] \notin {"init", "create"}
        /\ (pc'["server"] # "rRunning" => timer'["server"] = 0)
        /\ (pc'["server"] = "rRunning" => hbAge' + timer'["server"] <= 1)
    <3>1. pc'["server"] = pc["server"]  BY <2>1
    <3>2. CASE pc["server"] # "rRunning"
      <4>1. timer["server"] = 0  BY <3>2
      <4>2. timer'["server"] = 0  BY <2>1, <4>1
      <4> QED  BY <2>3, <3>1, <3>2, <4>2
    <3>3. CASE pc["server"] = "rRunning"
      <4>1. timer["server"] > 0 /\ hbAge + timer["server"] <= 1  BY <2>3, <3>3
      <4>2. timer'["server"] = timer["server"] - 1  BY <2>1, <4>1
      <4> QED  BY <2>6, <3>1, <3>3, <4>1, <4>2
    <3> QED  BY <3>2, <3>3
  <2>7. CASE pc["watchdog"] \in {"idle", "done"}
    <3>1. ~running' /\ pc'["watchdog"] \in {"idle", "done"} /\ timer'["watchdog"] = 0
      BY <2>1, <2>5, <2>7
    <3> QED  BY <2>s, <3>1
  <2>8. CASE pc["watchdog"] = "clock" /\ timer["watchdog"] > 0
    <3>1. /\ pc'["watchdog"] = "clock" /\ timer'["watchdog"] <= WdTicks
          /\ hbAge' + timer'["watchdog"] <= hbAge + timer["watchdog"]
          /\ hbAge' + timer'["watchdog"] \in Nat /\ hbAge + timer["watchdog"] \in Nat
      BY <2>1, <2>6, <2>8
    <3>2. state' = "RUNNING" /\ running' => hbAge' + timer'["watchdog"] <= FaultAge + WdTicks
      BY <2>1, <3>1
    <3> QED  BY <2>s, <3>1, <3>2
  <2> QED  BY <2>4, <2>7, <2>8
<1>7. CASE UNCHANGED vars  BY <1>1, <1>7 DEF vars
<1> QED  BY <1>2, <1>3, <1>4, <1>5, <1>6, <1>7 DEF Next

\* Every step keeps the worker that was never frozen in time.
LEMMA NextBeating ==
  ASSUME Prompt, TypeOK, Lives, Up, Watched, Beating, [Next]_vars PROVE Beating'
<1>0. /\ pc \in [Threads -> Pcs] /\ started \in 0 .. 3 /\ joined \in 0 .. started
      /\ timer \in [Threads -> Nat] /\ hbAge \in 0 .. AgeCap
      /\ {"server", "sensor", "worker", "watchdog"} \subseteq Threads
      /\ timer["worker"] \in Nat /\ PopTicks \in Nat /\ hbAge \in Nat
      /\ injections \in Nat
  BY TimesAssumption DEF TypeOK, Pcs, Threads, AgeCap
<1> USE <1>0 DEF Beating
\* Steps that leave the worker alone.
<1>1. ASSUME pc'["worker"] = pc["worker"], timer'["worker"] = timer["worker"],
             hbAge' = hbAge \/ hbAge' = 0, UNCHANGED <<freeze, injections>>,
             running' \/ pc'["server"] = "init" => running \/ pc["server"] = "init"
      PROVE  Beating'
  BY <1>1
<1>2. CASE SensorStep
  <2>1. /\ pc'["worker"] = pc["worker"] /\ pc'["server"] = pc["server"]
        /\ timer'["worker"] = timer["worker"]
    BY <1>2 DEF SensorStep, SensorLoop, SensorPush, SensorCount, Goto, Sleep
  <2>2. UNCHANGED <<hbAge, freeze, injections, running>>
    BY <1>2 DEF SensorStep, serverVars, workerVars, controlVars
  <2> QED  BY <1>1, <2>1, <2>2
<1>3. CASE WorkerStep
  <2>1. UNCHANGED <<injections, running>>  BY <1>3 DEF WorkerStep, serverVars
  <2>2. pc'["server"] = pc["server"]
    BY <1>3
    DEF WorkerStep, WorkerLoop, WorkerClear, WorkerPop, WorkerTimeout, WorkerCount, WorkerBeat,
        Goto
  <2> USE <2>1, <2>2
  <2>3. CASE WorkerLoop  BY <2>3 DEF WorkerLoop, Goto, Sleep, NoFreeze
  <2>4. CASE WorkerClear  BY <2>4 DEF WorkerClear, Goto
  <2>5. CASE WorkerPop \/ WorkerTimeout \/ WorkerCount
    BY <2>5 DEF WorkerPop, WorkerTimeout, WorkerCount, Goto
  <2>6. CASE WorkerBeat  BY <2>6 DEF WorkerBeat, StoreHeartbeat, Goto, Sleep
  <2> QED  BY <1>3, <2>3, <2>4, <2>5, <2>6 DEF WorkerStep
<1>4. CASE WatchdogStep
  <2> USE DEF WatchdogStep, WatchdogLoop, WatchdogClock, WatchdogLoad, WatchdogFault,
              WatchdogRelease, WatchdogRecover, WatchdogConfirm, WatchdogCount
  <2>1. pc'["worker"] = pc["worker"] /\ pc'["server"] = pc["server"]  BY <1>4 DEF Goto
  <2>2. timer'["worker"] = timer["worker"]  BY <1>4 DEF Sleep
  <2>3. UNCHANGED <<hbAge, injections, running>>  BY <1>4 DEF serverVars
  <2>4. freeze' = freeze \/ freeze' = NoFreeze  BY <1>4
  <2> HIDE DEF WatchdogStep
  <2> QED  BY <2>1, <2>2, <2>3, <2>4
<1>5. CASE CreateThread
  <2>1. /\ pc'["worker"] = IF started = 1 THEN "loop" ELSE pc["worker"]
        /\ pc'["server"] = pc["server"] /\ pc["server"] = "create"
    BY <1>5, OrderIs DEF CreateThread
  <2>2. UNCHANGED <<timer, hbAge, freeze, injections, running>>
    BY <1>5 DEF CreateThread, workerVars, controlVars
  <2>3. started = 1 /\ running => pc["worker"] = "idle"  BY DEF Lives, Gone, Up
  <2> QED  BY <2>1, <2>2, <2>3
<1>6. CASE StartBegin
  BY <1>1, <1>6 DEF StartBegin, Goto, workerVars, serverVars
<1>7. CASE StartDone \/ CreateFails \/ StopBegin \/ ResetInit \/ ResetRunning
  BY <1>1, <1>7
  DEF StartDone, CreateFails, StopBegin, ResetInit, ResetRunning, Goto, workerVars, serverVars
<1>8. CASE Join  BY <1>1, <1>8 DEF Join, workerVars, controlVars
<1>9. CASE StopDone  BY <1>1, <1>9 DEF StopDone, Goto, workerVars, controlVars
<1>10. CASE ResetProduced \/ ResetProcessed \/ ResetRecoveries
  BY <1>1, <1>10
  DEF ResetProduced, ResetProcessed, ResetRecoveries, Goto, workerVars, serverVars, controlVars
<1>11. CASE ResetFreeze
  BY <1>11 DEF ResetFreeze, Goto, workerVars, serverVars
<1>12. CASE ResetHeartbeat
  BY <1>1, <1>12 DEF ResetHeartbeat, StoreHeartbeat, Goto, Sleep, serverVars, controlVars
<1>13. CASE FaultInject
  <2>1. injections' = injections + 1  BY <1>13 DEF FaultInject
  <2> QED  BY <2>1
<1>14. CASE \E p \in Periods : ConfigSet(p)
  BY <1>1, <1>14 DEF ConfigSet, workerVars, serverVars
<1>15. CASE Tick
  <2>1. /\ pc' = pc /\ injections' = injections /\ running' = running
        /\ hbAge' \in {hbAge, hbAge + 1}
        /\ freeze' = IF freeze > 0 THEN freeze - 1 ELSE freeze
        /\ timer'["worker"] = IF timer["worker"] > 0 THEN timer["worker"] - 1 ELSE 0
    BY <1>15 DEF Tick, serverVars
  <2>2. Waiting("server") /\ Waiting("worker")  BY <1>15 DEF Tick
  <2>3. pc["server"] \notin {"init", "create"}  BY <2>2 DEF Waiting, Watched
  <2>4. pc["worker"] \in {"idle", "done"} \/ timer["worker"] > 0
    BY <2>2 DEF Waiting, Up, ThreadPcs
  <2>5. running => pc["worker"] \notin {"idle", "done"}  BY <2>3 DEF Up
  <2> SUFFICES ASSUME running, injections = 0
               PROVE  /\ freeze' = NoFreeze /\ pc'["worker"] \notin {"clear", "idle", "loop"}
                      /\ hbAge' + timer'["worker"] <= PopTicks
    BY <2>1, <2>3
  <2>6. timer["worker"] > 0 /\ pc["worker"] \notin {"clear", "idle", "loop"}
    BY <2>4, <2>5
  <2>7. freeze' = NoFreeze  BY <2>1 DEF NoFreeze
  <2>8. hbAge' + timer'["worker"] <= hbAge + timer["worker"] /\ hbAge' \in Nat
    BY <2>1, <2>6
  <2> QED  BY <2>1, <2>6, <2>7, <2>8
<1>16. CASE UNCHANGED vars  BY <1>1, <1>16 DEF vars
<1> QED
  BY <1>2, <1>3, <1>4, <1>5, <1>6, <1>7, <1>8, <1>9, <1>10, <1>11, <1>12, <1>13, <1>14,
     <1>15, <1>16
  DEF Next, ServerProgress, ServerRequest

-----------------------------------------------------------------------------
(* The theorems *)

IInv == TypeOK /\ Lives /\ Counted

\* The initial state satisfies every invariant of this module.
LEMMA InitIInv == Init => IInv /\ Stalled
<1> SUFFICES ASSUME Init PROVE IInv /\ Stalled  OBVIOUS
<1> USE TimesAssumption, LimitsAssumption DEF Init
<1>1. pc \in [Threads -> Pcs] /\ timer \in [Threads -> Nat]
  BY DEF Pcs, ServerPcs, ThreadPcs, Threads
<1>2. /\ pc["server"] = "init" /\ pc["sensor"] = "idle" /\ pc["worker"] = "idle"
      /\ pc["watchdog"] = "idle"
  BY DEF Threads
<1>3. TypeOK
  <2>1. /\ freeze \in NoFreeze .. FreezeLen /\ hbAge \in 0 .. AgeCap /\ wdAge \in 0 .. AgeCap
        /\ recoveries \in 0 .. RecoveriesCap /\ queue \in 0 .. QueueCap
    BY DEF NoFreeze, AgeCap, RecoveriesCap
  <2>2. /\ started \in 0 .. 3 /\ joined \in 0 .. started /\ produced \in Nat
        /\ processed \in Nat /\ samples \in Nat /\ injections \in Nat /\ resets \in Nat
    OBVIOUS
  <2>3. running \in BOOLEAN /\ hbNew \in BOOLEAN /\ acked \in BOOLEAN /\ paused \in BOOLEAN
    OBVIOUS
  <2>4. period \in Periods /\ ring \in {"live", "destroyed"}
        /\ state \in {"BOOT", "INIT", "READY", "RUNNING", "FAULT", "RECOVERY"}
    OBVIOUS
  <2> QED  BY <1>1, <2>1, <2>2, <2>3, <2>4 DEF TypeOK, Pcs
<1>4. Lives  BY <1>2 DEF Lives, Gone
<1>5. Counted  BY <1>2 DEF Counted, PushedUncounted, PoppedUncounted
<1>6. Stalled  BY <1>2 DEF Stalled, StallKept
<1> QED  BY <1>3, <1>4, <1>5, <1>6 DEF IInv

\* The three parts of the inductive invariant hold in every reachable state.
THEOREM TargetInvariant == Spec => []IInv
<1>1. Init => IInv  BY InitIInv
<1>2. IInv /\ [Next]_vars => IInv'  BY NextTypes, NextLives, NextCounted DEF IInv
<1> QED  BY <1>1, <1>2, PTL DEF Spec

\* Every variable keeps its type.
THEOREM TargetTypes == Spec => []TypeOK
<1>1. IInv => TypeOK  BY DEF IInv
<1> QED  BY <1>1, TargetInvariant, PTL

\* When mlrt_target_stop has destroyed the ring, and when mlrt_target_start has
\* returned an error, no thread is left, however threads were preempted.
THEOREM TargetNoUseAfterStop == Spec => []NoUseAfterStop
<1>1. IInv => NoUseAfterStop
  <2> SUFFICES ASSUME IInv, ring = "destroyed" \/ pc["server"] \in {"failed", "stopped"},
                      NEW k \in 1 .. 3
               PROVE  Gone(Order[k])
    BY DEF NoUseAfterStop
  <2>1. started = 0  BY DEF IInv, Lives
  <2>2. Gone("sensor") /\ Gone("worker") /\ Gone("watchdog")  BY <2>1 DEF IInv, Lives
  <2> QED  BY <2>2, OrderIs
<1> QED  BY <1>1, TargetInvariant, PTL

\* Outside the reset itself the processed counter is never ahead of the produced
\* one by more than the queue and two samples in flight.
THEOREM TargetProcessedBounded == Spec => []ProcessedBounded
<1>1. IInv => ProcessedBounded
  <2> SUFFICES ASSUME IInv, pc["server"] # "rProcessed"
               PROVE  processed <= produced + QueueCap + 2
    BY DEF ProcessedBounded
  <2>1. processed \in Nat /\ produced \in Nat /\ queue \in 0 .. QueueCap
    BY DEF IInv, TypeOK
  <2> QED
    BY <2>1, LimitsAssumption DEF IInv, Counted, PushedUncounted, PoppedUncounted
<1> QED  BY <1>1, TargetInvariant, PTL

\* On a target that was not reset, RUNNING after a stall means that the worker
\* itself has stored a heartbeat (the comment in watchdog_worker).
THEOREM TargetConfirmedUnlessReset == Spec => ConfirmedUnlessReset
<1>1. Init => Stalled  BY InitIInv
<1>2. IInv /\ Stalled /\ [Next]_vars => Stalled'  BY NextStalled DEF IInv
<1>3. IInv /\ Stalled /\ [Next]_vars =>
        [(state = "FAULT" \/ state = "RECOVERY") /\ state' = "RUNNING" /\ resets = 0
           => acked]_vars
  BY NextStalled DEF IInv
<1> QED  BY <1>1, <1>2, <1>3, TargetInvariant, PTL DEF Spec, ConfirmedUnlessReset

\* What Up and Timed say of time holds in every reachable state.
THEOREM TargetTimed == Spec => [](Up /\ Timed)
<1>1. Init => Up /\ Timed
  <2> SUFFICES ASSUME Init PROVE Up /\ Watched /\ Beating  BY DEF Timed
  <2>1. /\ pc["server"] = "init" /\ pc["worker"] = "idle" /\ pc["watchdog"] = "idle"
        /\ timer["server"] = 0 /\ timer["worker"] = 0 /\ timer["watchdog"] = 0
    BY DEF Init, Threads
  <2>2. hbAge = 0 /\ started = 0 /\ running = FALSE /\ freeze = NoFreeze /\ state = "BOOT"
    BY DEF Init
  <2>3. Up  BY <2>1, <2>2 DEF Up, ThreadPcs
  <2>4. Watched  BY <2>1, <2>2, TimesAssumption DEF Watched
  <2>5. Beating  BY <2>1, <2>2, TimesAssumption DEF Beating
  <2> QED  BY <2>3, <2>4, <2>5
<1>2. IInv /\ Up /\ Timed /\ [Next]_vars => (Up /\ Timed)'
  BY NextUp, NextWatched, NextBeating DEF IInv, Timed
<1> QED  BY <1>1, <1>2, TargetInvariant, PTL DEF Spec

\* On a machine that preempts no thread for a whole tick, no stall goes unnoticed
\* for longer than the threshold and one period of the watchdog, whatever faults
\* are injected and resets requested meanwhile.
THEOREM TargetStallNoticed == ASSUME Prompt PROVE Spec => []StallNoticed
<1>1. IInv /\ Up /\ Timed => StallNoticed
  <2> SUFFICES ASSUME IInv, Watched, state = "RUNNING", running
               PROVE  hbAge <= FaultAge + WdTicks
    BY DEF Timed, StallNoticed
  <2>1. hbAge \in 0 .. AgeCap /\ timer["watchdog"] \in Nat
    BY DEF IInv, TypeOK, Threads
  <2> QED  BY <2>1, TimesAssumption DEF Watched, AgeCap
<1> QED  BY <1>1, TargetInvariant, TargetTimed, PTL

\* On such a machine a worker that was never frozen is never older than one
\* timeout of wait_pop, whatever the sampling rate.
THEOREM TargetLowRateLiveness == ASSUME Prompt PROVE Spec => []LowRateLiveness
<1>1. IInv /\ Up /\ Timed => LowRateLiveness
  <2> SUFFICES ASSUME IInv, Beating, running, injections = 0
               PROVE  hbAge <= PopTicks
    BY DEF Timed, LowRateLiveness
  <2>1. hbAge \in 0 .. AgeCap /\ timer["worker"] \in Nat
    BY DEF IInv, TypeOK, Threads
  <2> QED  BY <2>1, TimesAssumption DEF Beating, AgeCap
<1> QED  BY <1>1, TargetInvariant, TargetTimed, PTL

-----------------------------------------------------------------------------
(***************************************************************************)
(* The socket service: target_server.c, target_client.c and                *)
(* embedded_protocol.c.                                                    *)
(***************************************************************************)

\* The frames of the requests, the same with another CRC, all that is sent.
Encoded == {mlrt_packet_encode(req) : req \in Requests}
Corrupt(req) ==
  [mlrt_packet_encode(req) EXCEPT ![Len(mlrt_packet_encode(req))] = Crc(<<>>)]
Corrupted == {Corrupt(req) : req \in Requests}
Pieces == Encoded \cup Corrupted \cup Garbled
Cells == UNION {Range(piece) : piece \in Pieces}

AnswerTypes ==
  {"STATUS_RSP", "CONFIG_ACK", "RESET_ACK", "FW_INFO_RSP", "ERROR", "none"}
Answers == [type : AnswerTypes, seq : Nat, payload : Seq(Nat)]

Types ==
  /\ ServerTypeOK
  /\ rsp \in Answers /\ backlog \in Seq(Clients)
  /\ stream \in [Clients -> Seq(Cells)] /\ closed \in [Clients -> BOOLEAN]
  /\ answers \in [Clients -> Seq(Answers)]
  /\ sent \in [Clients -> Seq(Pieces)] /\ got \in [Clients -> Seq(Packets)]

\* Of the pieces, the first n are frames of requests and the next is not.
IntactUpTo(pieces, n) ==
  /\ \A i \in 1 .. n : pieces[i] \in Encoded
  /\ n < Len(pieces) => pieces[n + 1] \notin Encoded

\* The packets are what the first pieces decode to.
Handles(pieces, packets) ==
  /\ Len(packets) <= Len(pieces)
  /\ \A i \in 1 .. Len(packets) :
       pieces[i] \in Encoded /\ packets[i] = Decoded(pieces[i])

\* The cells are those of the pieces after the first k, piece by piece: the
\* j-th piece ends at cell end[j].
Cut(pieces, k, cells, end) ==
  /\ end[k] = 0 /\ end[Len(pieces)] = Len(cells)
  /\ \A i, j \in k .. Len(pieces) : i <= j => end[i] <= end[j]
  /\ \A j \in k + 1 .. Len(pieces) :
       /\ end[j] = end[j - 1] + Len(pieces[j])
       /\ \A i \in 1 .. Len(pieces[j]) : cells[end[j - 1] + i] = pieces[j][i]
Framed(pieces, k, cells) ==
  \E end \in [k .. Len(pieces) -> 0 .. Len(cells)] : Cut(pieces, k, cells, end)

Streams ==
  \A c \in Clients :
    /\ Handles(sent[c], got[c])
    /\ Framed(sent[c], Len(got[c]), stream[c])
    /\ \E n \in 0 .. Len(sent[c]) : IntactUpTo(sent[c], n)

\* A client for which a packet was handled and the answer is not written.
Pending(c) == c = cur /\ main \in {"write", "killed"}
Answered ==
  \A c \in Clients :
    /\ Len(got[c]) = IF Pending(c) THEN Len(answers[c]) + 1 ELSE Len(answers[c])
    /\ \A i \in 1 .. Len(answers[c]) : answers[c][i].seq = got[c][i].seq
AnswerInHand == main = "write" => rsp.seq = got[cur][Len(got[cur])].seq

\* A client that left has nothing more to wait for.
Leavers ==
  \A c \in Clients :
    peer[c] = "left" =>
      \/ closed[c] \/ Len(got[c]) = Len(sent[c])
      \/ Len(sent[c]) = 1 /\ sent[c][1] \in Corrupted

\* Who waits to be accepted, and who is served.
InBacklog ==
  /\ \A i \in 1 .. Len(backlog) : ~closed[backlog[i]] /\ peer[backlog[i]] # "off"
  /\ \A i, j \in 1 .. Len(backlog) : i # j => backlog[i] # backlog[j]
  /\ \A c \in Clients : closed[c] => peer[c] # "off"
Serving ==
  /\ main \in {"read", "write", "killed"} =>
       /\ cur \in Clients /\ ~closed[cur] /\ peer[cur] # "off"
       /\ \A i \in 1 .. Len(backlog) : backlog[i] # cur
  /\ main = "write" => peer[cur] # "left"
  /\ main = "killed" => peer[cur] = "killed"

ServerInv ==
  Types /\ Streams /\ Answered /\ AnswerInHand /\ Leavers /\ InBacklog /\ Serving

-----------------------------------------------------------------------------
(* Frames *)

\* A frame, cell by cell: the header, the payload, the CRC of all before it.
LEMMA EncodeCells ==
  ASSUME NEW p \in Packets, NEW frame, frame = mlrt_packet_encode(p)
  PROVE  /\ frame \in Seq(Range(frame)) /\ Len(frame) = Len(p.payload) + 2
         /\ frame[1] = Header(p)
         /\ \A i \in 1 .. Len(p.payload) :
              frame[i + 1] = [cell |-> "data", unit |-> p.payload[i]]
         /\ frame[Len(frame)] = Crc(SubSeq(frame, 1, Len(frame) - 1))
<1>1. PICK n \in Nat : n = Len(p.payload) /\ DOMAIN p.payload = 1 .. n
  BY DEF Packets
<1>2. PICK data : data = Payload(p)
  OBVIOUS
<1>3. DOMAIN data = 1 .. n /\ \A i \in 1 .. n : data[i] = [cell |-> "data", unit |-> p.payload[i]]
  BY <1>1, <1>2 DEF Payload
<1>4. PICK D : D = {data[i] : i \in 1 .. n} \cup {Header(p)}
  OBVIOUS
<1>5. data \in Seq(D) /\ Len(data) = n
  <2>1. data \in [1 .. n -> D]
    BY <1>2, <1>3, <1>4 DEF Payload
  <2> QED
    BY <2>1
<1>6. PICK header : header = Header(p)
  OBVIOUS
<1>7. PICK covered : covered = <<header>> \o data
  OBVIOUS
<1>8. /\ covered \in Seq(D) /\ Len(covered) = n + 1 /\ covered[1] = header
      /\ \A i \in 1 .. n : covered[i + 1] = data[i]
  BY <1>4, <1>5, <1>6, <1>7
<1>9. PICK crc : crc = Crc(covered)
  OBVIOUS
<1>10. frame = Append(covered, crc)
  BY <1>2, <1>6, <1>7, <1>9 DEF mlrt_packet_encode
<1>11. PICK E : E = D \cup {crc}
  OBVIOUS
<1>12. covered \in Seq(E)
  BY <1>8, <1>11
<1>13. /\ frame \in Seq(E) /\ Len(frame) = n + 2 /\ frame[n + 2] = crc
       /\ \A i \in 1 .. n + 1 : frame[i] = covered[i]
  BY <1>8, <1>10, <1>11, <1>12
<1>14. frame \in Seq(Range(frame))
  <2>1. frame \in [1 .. n + 2 -> Range(frame)]
    BY <1>13 DEF Range
  <2> QED
    BY <2>1
<1>15. SubSeq(frame, 1, n + 1) = covered
  BY <1>8, <1>12, <1>13
<1>16. frame[Len(frame)] = Crc(SubSeq(frame, 1, Len(frame) - 1))
  <2>1. Len(frame) - 1 = n + 1
    BY <1>13
  <2> QED
    BY <2>1, <1>9, <1>13, <1>15
<1>17. \A i \in 1 .. n : frame[i + 1] = [cell |-> "data", unit |-> p.payload[i]]
  BY <1>3, <1>8, <1>13
<1>18. frame[1] = header
  BY <1>8, <1>13
<1> QED
  BY <1>1, <1>6, <1>13, <1>14, <1>16, <1>17, <1>18

\* What the service reads is what was encoded (mlrt_packet_decode after
\* mlrt_packet_encode): every packet that fits comes back, and with it its type,
\* its sequence number and its payload.
THEOREM RoundTrip ==
  ASSUME NEW p \in Packets, Len(p.payload) <= MAX_PAYLOAD
  PROVE  /\ mlrt_packet_decode(mlrt_packet_encode(p)) = "OK"
         /\ Decoded(mlrt_packet_encode(p)) = p
<1>1. PICK frame : frame = mlrt_packet_encode(p)
  OBVIOUS
<1>2. /\ frame \in Seq(Range(frame)) /\ Len(frame) = Len(p.payload) + 2
      /\ frame[1] = Header(p)
      /\ \A i \in 1 .. Len(p.payload) :
           frame[i + 1] = [cell |-> "data", unit |-> p.payload[i]]
      /\ frame[Len(frame)] = Crc(SubSeq(frame, 1, Len(frame) - 1))
  BY <1>1, EncodeCells
<1>3. Len(p.payload) \in Nat /\ p.payload \in Seq(Nat)
  BY DEF Packets
<1>4. mlrt_packet_decode(frame) = "OK"
  <2>1. WellFormed(frame[1]) /\ frame[1].length = Len(p.payload)
    BY <1>2 DEF WellFormed, Header
  <2>2. CheckCrc(frame) = "OK"
    BY <1>2 DEF CheckCrc
  <2> QED
    BY <1>2, <1>3, <2>1, <2>2, PayloadAssumption DEF mlrt_packet_decode
<1>5. Decoded(frame) = p
  <2>1. frame[1].type = p.type /\ frame[1].seq = p.seq
    BY <1>2 DEF Header
  <2>2. [i \in 1 .. Len(frame) - 2 |-> frame[i + 1].unit] = p.payload
    <3>1. DOMAIN p.payload = 1 .. Len(frame) - 2
      BY <1>2, <1>3
    <3>2. ASSUME NEW i \in 1 .. Len(frame) - 2 PROVE frame[i + 1].unit = p.payload[i]
      <4>1. i \in 1 .. Len(p.payload)
        BY <1>2, <1>3
      <4>2. frame[i + 1] = [cell |-> "data", unit |-> p.payload[i]]
        BY <1>2, <4>1
      <4> QED
        BY <4>2
    <3>3. p.payload = [i \in 1 .. Len(frame) - 2 |-> p.payload[i]]
      BY <1>3, <3>1
    <3> QED
      BY <3>2, <3>3
  <2> QED
    BY <2>1, <2>2 DEF Decoded, Packets
<1> QED
  BY <1>1, <1>4, <1>5

\* A frame with another CRC, cell by cell.
LEMMA CorruptCells ==
  ASSUME NEW p \in Packets, NEW frame, frame = Corrupt(p)
  PROVE  /\ frame \in Seq(Range(frame)) /\ Len(frame) = Len(p.payload) + 2
         /\ frame[1] = Header(p)
         /\ \A i \in 1 .. Len(p.payload) :
              frame[i + 1] = [cell |-> "data", unit |-> p.payload[i]]
         /\ frame[Len(frame)] = Crc(<<>>)
<1>1. PICK whole : whole = mlrt_packet_encode(p)
  OBVIOUS
<1>2. /\ whole \in Seq(Range(whole)) /\ Len(whole) = Len(p.payload) + 2
      /\ whole[1] = Header(p)
      /\ \A i \in 1 .. Len(p.payload) :
           whole[i + 1] = [cell |-> "data", unit |-> p.payload[i]]
  BY <1>1, EncodeCells
<1>3. PICK n \in Nat : n = Len(p.payload)
  BY DEF Packets
<1>4. PICK crc : crc = Crc(<<>>)
  OBVIOUS
<1>5. frame = [whole EXCEPT ![n + 2] = crc]
  BY <1>1, <1>2, <1>3, <1>4 DEF Corrupt
<1>6. DOMAIN whole = 1 .. n + 2 /\ whole = [i \in 1 .. n + 2 |-> whole[i]]
  BY <1>2, <1>3
<1>7. /\ DOMAIN frame = 1 .. n + 2 /\ frame[n + 2] = crc
      /\ \A i \in 1 .. n + 1 : frame[i] = whole[i]
  BY <1>5, <1>6
<1>8. frame \in [1 .. n + 2 -> Range(frame)]
  <2>1. frame = [i \in 1 .. n + 2 |-> frame[i]]
    BY <1>5, <1>6
  <2> QED
    BY <1>7, <2>1 DEF Range
<1>9. frame \in Seq(Range(frame)) /\ Len(frame) = n + 2
  BY <1>8
<1> QED
  BY <1>2, <1>3, <1>4, <1>7, <1>9

\* Whatever is sent is a sequence of cells that begins with a header.
LEMMA PieceCells ==
  ASSUME NEW piece \in Pieces
  PROVE  /\ piece \in Seq(Cells) /\ Len(piece) \in Nat \ {0}
         /\ piece[1].cell = "header"
<1>1. piece \in Seq(Range(piece)) /\ Len(piece) \in Nat \ {0} /\ piece[1].cell = "header"
  <2>1. CASE piece \in Encoded
    <3>1. PICK p \in Requests : piece = mlrt_packet_encode(p)
      BY <2>1 DEF Encoded
    <3>2. p \in Packets
      BY SendAssumption DEF Sendable
    <3>3. Len(p.payload) \in Nat
      BY <3>2 DEF Packets
    <3>4. /\ piece \in Seq(Range(piece)) /\ Len(piece) = Len(p.payload) + 2
          /\ piece[1] = Header(p)
      BY <3>1, <3>2, EncodeCells
    <3> QED
      BY <3>3, <3>4 DEF Header
  <2>2. CASE piece \in Corrupted
    <3>1. PICK p \in Requests : piece = Corrupt(p)
      BY <2>2 DEF Corrupted
    <3>2. p \in Packets
      BY SendAssumption DEF Sendable
    <3>3. Len(p.payload) \in Nat
      BY <3>2 DEF Packets
    <3>4. /\ piece \in Seq(Range(piece)) /\ Len(piece) = Len(p.payload) + 2
          /\ piece[1] = Header(p)
      BY <3>1, <3>2, CorruptCells
    <3> QED
      BY <3>3, <3>4 DEF Header
  <2>3. CASE piece \in Garbled
    <3>1. piece \in Seq(Range(piece)) /\ piece # <<>> /\ piece[1] \in HeaderCells
      BY <2>3, SendAssumption DEF Sendable, Damaged
    <3>2. Len(piece) \in Nat \ {0}
      BY <3>1
    <3>3. piece[1].cell = "header"
      BY <3>1 DEF HeaderCells
    <3> QED
      BY <3>1, <3>2, <3>3
  <2> QED
    BY <2>1, <2>2, <2>3 DEF Pieces
<1>2. Range(piece) \subseteq Cells
  BY DEF Cells
<1>3. piece \in [1 .. Len(piece) -> Cells]
  BY <1>1, <1>2
<1> QED
  BY <1>1, <1>3

\* No CRC that is sent covers a second header.
LEMMA CrcCoversOne ==
  ASSUME NEW cell \in Cells, cell.cell = "crc"
  PROVE  OneHeader(cell.of)
<1>1. PICK piece \in Pieces : cell \in Range(piece)
  BY DEF Cells
<1>2. piece \in Seq(Cells) /\ Len(piece) \in Nat
  BY PieceCells
<1>3. PICK i \in 1 .. Len(piece) : cell = piece[i]
  BY <1>1, <1>2 DEF Range
<1>4. CASE piece \in Encoded
  <2>1. PICK p \in Requests : piece = mlrt_packet_encode(p)
    BY <1>4 DEF Encoded
  <2>2. p \in Packets
    BY SendAssumption DEF Sendable
  <2>3. PICK n \in Nat : n = Len(p.payload)
    BY <2>2 DEF Packets
  <2>4. /\ Len(piece) = n + 2 /\ piece[1] = Header(p)
        /\ \A k \in 1 .. n : piece[k + 1] = [cell |-> "data", unit |-> p.payload[k]]
        /\ piece[n + 2] = Crc(SubSeq(piece, 1, Len(piece) - 1))
    BY <2>1, <2>2, <2>3, EncodeCells
  <2>5. i # 1
    BY <1>3, <2>4 DEF Header
  <2>6. \A k \in 2 .. n + 1 : piece[k].cell = "data"
    <3>1. ASSUME NEW k \in 2 .. n + 1 PROVE piece[k].cell = "data"
      <4>1. k - 1 \in 1 .. n /\ (k - 1) + 1 = k
        OBVIOUS
      <4>2. piece[k] = [cell |-> "data", unit |-> p.payload[k - 1]]
        BY <2>4, <4>1
      <4> QED
        BY <4>2
    <3> QED
      BY <3>1
  <2>7. i = n + 2
    BY <1>3, <2>4, <2>5, <2>6
  <2>8. PICK covered : covered = SubSeq(piece, 1, Len(piece) - 1)
    OBVIOUS
  <2>9. Len(covered) = n + 1 /\ \A k \in 1 .. n + 1 : covered[k] = piece[k]
    BY <1>2, <2>4, <2>8
  <2>10. cell.of = covered
    BY <1>3, <2>4, <2>7, <2>8 DEF Crc
  <2> QED
    BY <2>6, <2>9, <2>10 DEF OneHeader
<1>5. CASE piece \in Corrupted
  <2>1. PICK p \in Requests : piece = Corrupt(p)
    BY <1>5 DEF Corrupted
  <2>2. p \in Packets
    BY SendAssumption DEF Sendable
  <2>3. PICK n \in Nat : n = Len(p.payload)
    BY <2>2 DEF Packets
  <2>4. /\ Len(piece) = n + 2 /\ piece[1] = Header(p)
        /\ \A k \in 1 .. n : piece[k + 1] = [cell |-> "data", unit |-> p.payload[k]]
        /\ piece[n + 2] = Crc(<<>>)
    BY <2>1, <2>2, <2>3, CorruptCells
  <2>5. i # 1
    BY <1>3, <2>4 DEF Header
  <2>6. i \notin 2 .. n + 1
    <3>1. ASSUME i \in 2 .. n + 1 PROVE FALSE
      <4>1. i - 1 \in 1 .. n /\ (i - 1) + 1 = i
        BY <3>1
      <4>2. piece[i] = [cell |-> "data", unit |-> p.payload[i - 1]]
        BY <2>4, <4>1
      <4> QED
        BY <1>3, <4>2
    <3> QED
      BY <3>1
  <2>7. i = n + 2
    BY <2>4, <2>5, <2>6
  <2>8. cell.of = <<>>
    BY <1>3, <2>4, <2>7 DEF Crc
  <2> QED
    BY <2>8 DEF OneHeader
<1>6. CASE piece \in Garbled
  BY <1>3, <1>6, SendAssumption DEF Sendable, Damaged
<1> QED
  BY <1>4, <1>5, <1>6 DEF Pieces

\* Cells begin with a piece, and what follows the piece begins with a header.
Leads(piece, cells) ==
  /\ Len(piece) <= Len(cells)
  /\ \A i \in 1 .. Len(piece) : cells[i] = piece[i]
  /\ Len(piece) < Len(cells) => cells[Len(piece) + 1].cell = "header"

\* A stream that begins with the frame of a request: the frame is what is read.
LEMMA ReadsFrame ==
  ASSUME NEW frame \in Encoded,
         NEW cells \in Seq(Cells), Leads(frame, cells)
  PROVE  Wanted(cells) = Len(frame) /\ SubSeq(cells, 1, Wanted(cells)) = frame
<1>1. PICK p \in Requests : frame = mlrt_packet_encode(p)
  BY DEF Encoded
<1>2. p \in Packets /\ Len(p.payload) <= MAX_PAYLOAD
  BY SendAssumption DEF Sendable
<1>3. PICK n \in Nat : n = Len(p.payload)
  BY <1>2 DEF Packets
<1>4. Len(frame) = n + 2 /\ frame[1] = Header(p)
  BY <1>1, <1>2, <1>3, EncodeCells
<1>5. cells[1] = Header(p)
  BY <1>4 DEF Leads
<1>6. Wanted(cells) = n + 2
  BY <1>2, <1>3, <1>5 DEF Wanted, WellFormed, Header
<1>7. frame \in Seq(Cells)
  BY PieceCells DEF Pieces
<1>8. SubSeq(cells, 1, n + 2) = frame
  BY <1>4, <1>7 DEF Leads
<1> QED
  BY <1>4, <1>6, <1>8

\* A stream that begins with a frame whose CRC was changed is not accepted.
LEMMA RefusesCorrupt ==
  ASSUME NEW frame \in Corrupted,
         NEW cells \in Seq(Cells), Leads(frame, cells), NEW gone
  PROVE  mlrt_packet_read_fd(cells, gone) # "OK"
<1>1. PICK p \in Requests : frame = Corrupt(p)
  BY DEF Corrupted
<1>2. p \in Packets /\ Len(p.payload) <= MAX_PAYLOAD
  BY SendAssumption DEF Sendable
<1>3. PICK n \in Nat : n = Len(p.payload)
  BY <1>2 DEF Packets
<1>4. Len(frame) = n + 2 /\ frame[1] = Header(p) /\ frame[n + 2] = Crc(<<>>)
  BY <1>1, <1>2, <1>3, CorruptCells
<1>5. cells[1] = Header(p) /\ cells[n + 2] = Crc(<<>>) /\ n + 2 <= Len(cells)
  BY <1>4 DEF Leads
<1>6. Wanted(cells) = n + 2 /\ WellFormed(cells[1]) /\ cells[1].length = n
  BY <1>2, <1>3, <1>5 DEF Wanted, WellFormed, Header
<1>7. PICK read : read = SubSeq(cells, 1, n + 2)
  OBVIOUS
<1>8. /\ read \in Seq(Cells) /\ Len(read) = n + 2
      /\ read[1] = cells[1] /\ read[n + 2] = Crc(<<>>)
  BY <1>5, <1>7
<1>9. CheckCrc(read) = "ECRC"
  <2>1. PICK covered : covered = SubSeq(read, 1, Len(read) - 1)
    OBVIOUS
  <2>2. covered # <<>>
    BY <1>8, <2>1
  <2>3. Crc(<<>>) # Crc(covered)
    BY <2>2 DEF Crc
  <2> QED
    BY <1>8, <2>1, <2>3 DEF CheckCrc
<1>10. mlrt_packet_decode(read) = "ECRC"
  BY <1>2, <1>3, <1>6, <1>8, <1>9, PayloadAssumption DEF mlrt_packet_decode
<1>11. cells # <<>>
  BY <1>5
<1> QED
  BY <1>2, <1>3, <1>5, <1>6, <1>7, <1>10, <1>11 DEF mlrt_packet_read_fd

\* Nor is one that begins with other damage, even where the length in it reaches
\* into what was sent next: no CRC is one of two headers.
LEMMA RefusesGarbled ==
  ASSUME NEW piece \in Garbled,
         NEW cells \in Seq(Cells), Leads(piece, cells), NEW gone
  PROVE  mlrt_packet_read_fd(cells, gone) # "OK"
<1>1. /\ piece \in Seq(Cells) /\ Len(piece) \in Nat \ {0}
  BY PieceCells DEF Pieces
<1>2. /\ piece[1] \in HeaderCells
      /\ \A n \in 2 .. Len(piece) :
           n = Wanted(piece) => piece[n] # Crc(SubSeq(piece, 1, n - 1))
  BY SendAssumption DEF Sendable, Damaged
<1>3. cells[1] = piece[1] /\ cells # <<>> /\ Len(cells) \in Nat \ {0}
  BY <1>1 DEF Leads
<1> SUFFICES ASSUME WellFormed(cells[1]), cells[1].length <= MAX_PAYLOAD,
                    Len(cells) >= Wanted(cells),
                    mlrt_packet_decode(SubSeq(cells, 1, Wanted(cells))) = "OK"
             PROVE  FALSE
  <2>1. Wanted(cells) \in Nat /\ cells[1].length \in Nat
    BY <1>2, <1>3 DEF Wanted, HeaderCells
  <2>2. SUFFICES ASSUME mlrt_packet_read_fd(cells, gone) = "OK" PROVE FALSE
    OBVIOUS
  <2>3. Len(cells) >= Wanted(cells)
    <3>1. CASE Len(cells) < Wanted(cells)
      BY <1>3, <2>1, <2>2, <3>1 DEF mlrt_packet_read_fd
    <3> QED
      BY <1>3, <2>1, <3>1
  <2>4. WellFormed(cells[1])
    BY <1>3, <2>1, <2>2, <2>3 DEF mlrt_packet_read_fd
  <2>5. cells[1].length <= MAX_PAYLOAD
    BY <1>3, <2>1, <2>2, <2>3, <2>4, PayloadAssumption DEF mlrt_packet_read_fd
  <2>6. mlrt_packet_decode(SubSeq(cells, 1, Wanted(cells))) = "OK"
    BY <1>3, <2>1, <2>2, <2>3, <2>4, <2>5 DEF mlrt_packet_read_fd
  <2> QED
    BY <2>3, <2>4, <2>5, <2>6
<1>4. PICK n \in Nat : n = Wanted(cells) /\ n >= 2 /\ n <= Len(cells)
  BY <1>2, <1>3 DEF Wanted, HeaderCells
<1>5. PICK read : read = SubSeq(cells, 1, n)
  OBVIOUS
<1>6. /\ read \in Seq(Cells) /\ Len(read) = n
      /\ \A i \in 1 .. n : read[i] = cells[i]
  BY <1>4, <1>5
<1>7. PICK covered : covered = SubSeq(read, 1, n - 1)
  OBVIOUS
<1>8. read[n] = Crc(covered)
  <2>1. CheckCrc(read) = "OK"
    BY <1>4, <1>5 DEF mlrt_packet_decode
  <2> QED
    BY <1>6, <1>7, <2>1 DEF CheckCrc
<1>9. CASE n <= Len(piece)
  <2>1. Wanted(piece) = n /\ n \in 2 .. Len(piece)
    BY <1>1, <1>3, <1>4, <1>9 DEF Wanted
  <2>2. read[n] = piece[n]
    BY <1>6, <2>1 DEF Leads
  <2>3. covered = SubSeq(piece, 1, n - 1)
    BY <1>1, <1>6, <1>7, <2>1 DEF Leads
  <2> QED
    BY <1>2, <1>8, <2>1, <2>2, <2>3
<1>10. CASE n > Len(piece)
  <2>1. PICK m \in 2 .. n : m = Len(piece) + 1 /\ cells[m].cell = "header"
    BY <1>1, <1>4, <1>10 DEF Leads
  <2>2. read[n].cell = "crc" /\ read[n].of = covered
    BY <1>8 DEF Crc
  <2>3. m < n
    BY <1>6, <2>1, <2>2
  <2>4. Len(covered) = n - 1 /\ covered[m] = cells[m]
    BY <1>4, <1>6, <1>7, <2>1, <2>3
  <2>5. OneHeader(covered)
    BY <1>4, <1>6, <2>2, CrcCoversOne
  <2> QED
    BY <2>1, <2>3, <2>4, <2>5 DEF OneHeader
<1> QED
  BY <1>1, <1>4, <1>9, <1>10

-----------------------------------------------------------------------------
(* Streams *)

\* Another piece is written behind the others.
LEMMA FramedSend ==
  ASSUME NEW pieces \in Seq(Pieces), NEW k \in 0 .. Len(pieces),
         NEW cells \in Seq(Cells), Framed(pieces, k, cells), NEW piece \in Pieces
  PROVE  Framed(Append(pieces, piece), k, cells \o piece)
<1>1. PICK end \in [k .. Len(pieces) -> 0 .. Len(cells)] : Cut(pieces, k, cells, end)
  BY DEF Framed
<1>2. piece \in Seq(Cells) /\ Len(piece) \in Nat
  BY PieceCells
<1>3. PICK n \in Nat, m \in Nat : n = Len(pieces) /\ m = Len(cells)
  OBVIOUS
<1>4. PICK more, longer : more = Append(pieces, piece) /\ longer = cells \o piece
  OBVIOUS
<1>5. /\ Len(more) = n + 1 /\ more[n + 1] = piece
      /\ \A j \in 1 .. n : more[j] = pieces[j]
  BY <1>3, <1>4
<1>6. /\ Len(longer) = m + Len(piece)
      /\ \A i \in 1 .. m : longer[i] = cells[i]
      /\ \A i \in 1 .. Len(piece) : longer[m + i] = piece[i]
  BY <1>2, <1>3, <1>4
<1>7. PICK end2 : end2 = [j \in k .. n + 1 |-> IF j <= n THEN end[j] ELSE m + Len(piece)]
  OBVIOUS
<1>8. ASSUME NEW j \in k .. n PROVE end[j] \in 0 .. m /\ end2[j] = end[j]
  <2>1. end \in [k .. n -> 0 .. m]
    BY <1>1, <1>3
  <2>2. j \in k .. n + 1 /\ j <= n
    OBVIOUS
  <2> QED
    BY <1>7, <2>1, <2>2
<1>9. end2[n + 1] = m + Len(piece) /\ end2[n] = m
  BY <1>1, <1>3, <1>7, <1>8 DEF Cut
<1>10. end2 \in [k .. Len(more) -> 0 .. Len(longer)]
  BY <1>1, <1>2, <1>3, <1>5, <1>6, <1>7
<1>11. Cut(more, k, longer, end2)
  <2>1. end2[k] = 0 /\ end2[Len(more)] = Len(longer)
    BY <1>1, <1>3, <1>5, <1>6, <1>8, <1>9 DEF Cut
  <2>2. ASSUME NEW i \in k .. n + 1, NEW j \in k .. n + 1, i <= j PROVE end2[i] <= end2[j]
    <3>1. CASE j <= n
      BY <1>1, <1>3, <1>8, <2>2, <3>1 DEF Cut
    <3>2. CASE j = n + 1
      <4>1. CASE i = n + 1
        BY <1>2, <1>9, <3>2, <4>1
      <4>2. CASE i <= n
        BY <1>2, <1>8, <1>9, <3>2, <4>2
      <4> QED
        BY <4>1, <4>2
    <3> QED
      BY <3>1, <3>2
  <2>3. ASSUME NEW j \in k + 1 .. n + 1
        PROVE  /\ end2[j] = end2[j - 1] + Len(more[j])
               /\ \A i \in 1 .. Len(more[j]) : longer[end2[j - 1] + i] = more[j][i]
    <3>1. CASE j <= n
      <4>1. j \in k + 1 .. n /\ j - 1 \in k .. n /\ j \in k .. n
        BY <3>1
      <4>2. /\ end[j] = end[j - 1] + Len(pieces[j])
            /\ \A i \in 1 .. Len(pieces[j]) : cells[end[j - 1] + i] = pieces[j][i]
        BY <1>1, <1>3, <4>1 DEF Cut
      <4>3. pieces[j] \in Pieces /\ more[j] = pieces[j] /\ Len(pieces[j]) \in Nat
        <5>1. pieces[j] \in Pieces
          BY <1>3, <4>1
        <5> QED
          BY <1>5, <4>1, <5>1, PieceCells
      <4>4. /\ end2[j] = end[j] /\ end2[j - 1] = end[j - 1]
            /\ end[j] \in 0 .. m /\ end[j - 1] \in 0 .. m
        BY <1>8, <4>1
      <4>5. ASSUME NEW i \in 1 .. Len(pieces[j])
            PROVE  longer[end[j - 1] + i] = pieces[j][i]
        <5>1. end[j - 1] + i \in 1 .. m
          <6>1. PICK w \in Nat, a \in 0 .. m, b \in 0 .. m :
                  w = Len(pieces[j]) /\ a = end[j - 1] /\ b = end[j]
            BY <4>3, <4>4
          <6>2. b = a + w /\ i \in 1 .. w
            BY <4>2, <6>1
          <6>3. a + i \in 1 .. m
            BY <6>2
          <6> QED
            BY <6>1, <6>3
        <5> QED
          BY <1>6, <4>2, <5>1
      <4> QED
        BY <4>2, <4>3, <4>4, <4>5
    <3>2. CASE j = n + 1
      <4>1. j - 1 = n
        BY <3>2
      <4> QED
        BY <1>2, <1>5, <1>6, <1>9, <3>2, <4>1
    <3> QED
      BY <3>1, <3>2
  <2> QED
    BY <1>5, <2>1, <2>2, <2>3 DEF Cut
<1> QED
  BY <1>4, <1>10, <1>11 DEF Framed

\* The first piece on the way, if there is one, leads the stream.
LEMMA FramedLeads ==
  ASSUME NEW pieces \in Seq(Pieces), NEW k \in 0 .. Len(pieces),
         NEW cells \in Seq(Cells), Framed(pieces, k, cells)
  PROVE  /\ k = Len(pieces) => cells = <<>>
         /\ k < Len(pieces) => Leads(pieces[k + 1], cells)
<1>1. PICK end \in [k .. Len(pieces) -> 0 .. Len(cells)] : Cut(pieces, k, cells, end)
  BY DEF Framed
<1>2. PICK n \in Nat, m \in Nat : n = Len(pieces) /\ m = Len(cells)
  OBVIOUS
<1>3. ASSUME k = n PROVE cells = <<>>
  <2>1. end[k] = 0 /\ end[n] = m
    BY <1>1, <1>2 DEF Cut
  <2>2. Len(cells) = 0
    BY <1>2, <1>3, <2>1
  <2> QED
    BY <2>2
<1>4. ASSUME k < n PROVE Leads(pieces[k + 1], cells)
  <2>1. k + 1 \in k + 1 .. n /\ (k + 1) - 1 = k /\ k + 1 \in k .. n /\ n \in k .. n
    BY <1>2, <1>4
  <2>2. pieces[k + 1] \in Pieces
    BY <1>2, <2>1
  <2>3. PICK piece : piece = pieces[k + 1]
    OBVIOUS
  <2>4. Len(piece) \in Nat
    BY <2>2, <2>3, PieceCells
  <2>5. end[k + 1] = Len(piece) /\ \A i \in 1 .. Len(piece) : cells[i] = piece[i]
    <3>1. /\ end[k + 1] = end[(k + 1) - 1] + Len(piece)
          /\ \A i \in 1 .. Len(piece) : cells[end[(k + 1) - 1] + i] = piece[i]
      BY <1>1, <1>2, <2>1, <2>3 DEF Cut
    <3>2. end[(k + 1) - 1] = 0
      BY <1>1, <2>1 DEF Cut
    <3>3. ASSUME NEW i \in 1 .. Len(piece) PROVE cells[i] = piece[i]
      <4>1. 0 + i = i
        OBVIOUS
      <4> QED
        BY <3>1, <3>2, <4>1
    <3> QED
      BY <2>4, <3>1, <3>2, <3>3
  <2>6. end[n] = m /\ end[k + 1] <= end[n]
    BY <1>1, <1>2, <2>1 DEF Cut
  <2>7. ASSUME Len(piece) < m PROVE cells[Len(piece) + 1].cell = "header"
    <3>1. k + 1 < n
      BY <1>2, <2>1, <2>5, <2>6, <2>7
    <3>2. k + 2 \in k + 1 .. n /\ (k + 2) - 1 = k + 1 /\ k + 2 \in 1 .. n
      BY <3>1
    <3>3. pieces[k + 2] \in Pieces
      BY <1>2, <3>2
    <3>4. Len(pieces[k + 2]) \in Nat \ {0} /\ pieces[k + 2][1].cell = "header"
      BY <3>3, PieceCells
    <3>5. \A i \in 1 .. Len(pieces[k + 2]) : cells[end[(k + 2) - 1] + i] = pieces[k + 2][i]
      BY <1>1, <1>2, <3>2 DEF Cut
    <3>6. cells[end[k + 1] + 1] = pieces[k + 2][1]
      <4>1. \A i \in 1 .. Len(pieces[k + 2]) : cells[end[k + 1] + i] = pieces[k + 2][i]
        BY <3>2, <3>5
      <4>2. 1 \in 1 .. Len(pieces[k + 2])
        BY <3>4
      <4> QED
        BY <4>1, <4>2
    <3> QED
      BY <2>5, <3>4, <3>6
  <2> QED
    BY <1>2, <2>3, <2>5, <2>6, <2>7 DEF Leads
<1> QED
  BY <1>2, <1>3, <1>4

\* The first piece is taken from the stream.
LEMMA FramedRead ==
  ASSUME NEW pieces \in Seq(Pieces), NEW k \in 0 .. Len(pieces), k < Len(pieces),
         NEW cells \in Seq(Cells), Framed(pieces, k, cells)
  PROVE  Framed(pieces, k + 1, SubSeq(cells, Len(pieces[k + 1]) + 1, Len(cells)))
<1>1. PICK end \in [k .. Len(pieces) -> 0 .. Len(cells)] : Cut(pieces, k, cells, end)
  BY DEF Framed
<1>2. PICK n \in Nat, m \in Nat : n = Len(pieces) /\ m = Len(cells)
  OBVIOUS
<1>3. PICK l \in Nat : l = Len(pieces[k + 1])
  <2>1. pieces[k + 1] \in Pieces
    OBVIOUS
  <2> QED
    BY <2>1, PieceCells
<1>4. end[k + 1] = l /\ k + 1 \in k .. n
  <2>1. k + 1 \in k + 1 .. n /\ (k + 1) - 1 = k
    BY <1>2
  <2>2. end[k + 1] = end[(k + 1) - 1] + l /\ end[k] = 0
    BY <1>1, <1>2, <1>3, <2>1 DEF Cut
  <2> QED
    BY <2>1, <2>2
<1>5. ASSUME NEW j \in k + 1 .. n PROVE end[j] \in l .. m /\ j \in k .. n
  <2>1. j \in k .. n /\ k + 1 <= j
    OBVIOUS
  <2>2. end[j] \in 0 .. m
    BY <1>1, <1>2, <2>1
  <2>3. end[k + 1] <= end[j]
    BY <1>1, <1>2, <1>4, <2>1 DEF Cut
  <2> QED
    BY <1>4, <2>1, <2>2, <2>3
<1>6. end[n] = m /\ l <= m
  BY <1>1, <1>2, <1>5 DEF Cut
<1>7. PICK rest : rest = SubSeq(cells, l + 1, m)
  OBVIOUS
<1>8. Len(rest) = m - l /\ \A i \in 1 .. m - l : rest[i] = cells[l + i]
  BY <1>2, <1>6, <1>7
<1>9. PICK end2 : end2 = [j \in k + 1 .. n |-> end[j] - l]
  OBVIOUS
<1>10. end2 \in [k + 1 .. Len(pieces) -> 0 .. Len(rest)]
  BY <1>2, <1>5, <1>6, <1>8, <1>9
<1>11. Cut(pieces, k + 1, rest, end2)
  <2>1. end2[k + 1] = 0 /\ end2[n] = m - l
    BY <1>2, <1>4, <1>6, <1>9
  <2>2. ASSUME NEW i \in k + 1 .. n, NEW j \in k + 1 .. n, i <= j PROVE end2[i] <= end2[j]
    <3>1. end[i] <= end[j]
      BY <1>1, <1>2, <1>5, <2>2 DEF Cut
    <3> QED
      BY <1>5, <1>9, <3>1
  <2>3. ASSUME NEW j \in (k + 1) + 1 .. n
        PROVE  /\ end2[j] = end2[j - 1] + Len(pieces[j])
               /\ \A i \in 1 .. Len(pieces[j]) : rest[end2[j - 1] + i] = pieces[j][i]
    <3>1. j \in k + 1 .. n /\ j - 1 \in k + 1 .. n
      OBVIOUS
    <3>2. /\ end[j] = end[j - 1] + Len(pieces[j])
          /\ \A i \in 1 .. Len(pieces[j]) : cells[end[j - 1] + i] = pieces[j][i]
      BY <1>1, <1>2, <3>1 DEF Cut
    <3>3. pieces[j] \in Pieces
      BY <1>2, <3>1
    <3>4. PICK w \in Nat : w = Len(pieces[j])
      BY <3>3, PieceCells
    <3>5. PICK a \in l .. m, b \in l .. m : a = end[j - 1] /\ b = end[j]
      BY <1>5, <3>1
    <3>6. end2[j] = b - l /\ end2[j - 1] = a - l
      BY <1>9, <3>1, <3>5
    <3>7. b = a + w
      BY <3>2, <3>4, <3>5
    <3>8. ASSUME NEW i \in 1 .. w PROVE rest[(a - l) + i] = pieces[j][i]
      <4>1. (a - l) + i \in 1 .. m - l /\ l + ((a - l) + i) = a + i
        BY <3>7
      <4>2. rest[(a - l) + i] = cells[a + i]
        BY <1>8, <4>1
      <4> QED
        BY <3>2, <3>4, <3>5, <4>2
    <3>9. b - l = (a - l) + w
      BY <3>7
    <3>10. \A i \in 1 .. Len(pieces[j]) : rest[end2[j - 1] + i] = pieces[j][i]
      BY <3>4, <3>6, <3>8
    <3> QED
      BY <3>4, <3>6, <3>9, <3>10
  <2> QED
    BY <1>2, <1>8, <2>1, <2>2, <2>3 DEF Cut
<1> QED
  BY <1>2, <1>3, <1>7, <1>10, <1>11 DEF Framed

\* What a read accepts is the next piece, and that piece is the frame of a request.
LEMMA ReadsNext ==
  ASSUME NEW pieces \in Seq(Pieces), NEW k \in 0 .. Len(pieces),
         NEW cells \in Seq(Cells), Framed(pieces, k, cells),
         NEW gone, mlrt_packet_read_fd(cells, gone) = "OK"
  PROVE  /\ k < Len(pieces) /\ pieces[k + 1] \in Encoded
         /\ Wanted(cells) = Len(pieces[k + 1])
         /\ SubSeq(cells, 1, Wanted(cells)) = pieces[k + 1]
<1>1. k # Len(pieces)
  <2>1. ASSUME cells = <<>> PROVE FALSE
    BY <2>1 DEF mlrt_packet_read_fd
  <2> QED
    BY <2>1, FramedLeads
<1>2. k < Len(pieces)
  BY <1>1
<1>3. PICK piece \in Pieces : piece = pieces[k + 1]
  BY <1>2
<1>4. Leads(piece, cells)
  BY <1>2, <1>3, FramedLeads
<1>5. piece \in Encoded
  BY <1>4, RefusesCorrupt, RefusesGarbled DEF Pieces
<1>6. Wanted(cells) = Len(piece) /\ SubSeq(cells, 1, Wanted(cells)) = piece
  BY <1>4, <1>5, ReadsFrame
<1> QED
  BY <1>2, <1>3, <1>5, <1>6

-----------------------------------------------------------------------------
(* The service and its clients *)

LEMMA ServerStarts == ServerInit => ServerInv
<1> SUFFICES ASSUME ServerInit PROVE ServerInv
  OBVIOUS
<1>1. Types
  <2>1. ServerTypeOK
    BY DEF ServerInit, ServerTypeOK, NoClient
  <2>2. <<>> \in Seq(Nat)
    OBVIOUS
  <2>3. NoPacket \in Answers
    BY <2>2 DEF NoPacket, Answers, AnswerTypes
  <2> QED
    BY <2>1, <2>3 DEF ServerInit, Types
<1>2. Streams
  <2>1. ASSUME NEW c \in Clients
        PROVE  /\ Handles(sent[c], got[c])
               /\ Framed(sent[c], Len(got[c]), stream[c])
               /\ \E n \in 0 .. Len(sent[c]) : IntactUpTo(sent[c], n)
    <3>1. sent[c] = <<>> /\ got[c] = <<>> /\ stream[c] = <<>>
      BY DEF ServerInit
    <3>2. Handles(<<>>, <<>>)
      BY DEF Handles
    <3>3. Framed(<<>>, 0, <<>>)
      <4>1. PICK end : end = [j \in 0 .. 0 |-> 0]
        OBVIOUS
      <4>2. Len(<<>>) = 0
        OBVIOUS
      <4>3. Cut(<<>>, 0, <<>>, end)
        BY <4>1, <4>2 DEF Cut
      <4> QED
        BY <4>1, <4>2, <4>3 DEF Framed
    <3>4. IntactUpTo(<<>>, 0) /\ 0 \in 0 .. Len(<<>>)
      BY DEF IntactUpTo
    <3>5. Len(<<>>) = 0
      OBVIOUS
    <3> QED
      BY <3>1, <3>2, <3>3, <3>4, <3>5
  <2> QED
    BY <2>1 DEF Streams
<1>3. Answered
  BY DEF ServerInit, Answered, Pending
<1> QED
  BY <1>1, <1>2, <1>3 DEF ServerInit, ServerInv, AnswerInHand, Leavers, InBacklog, Serving

\* The service moves on, or a signal comes, and no connection is touched.
LEMMA QuietStep ==
  ASSUME ServerInv, UNCHANGED <<cur, rsp, target, clients, closed, answers, got>>,
         \/ main' = main
         \/ /\ main \notin {"read", "write", "killed"}
            /\ main' \in {"start", "test", "enter", "accept", "stop", "ended", "failed"}
  PROVE  ServerInv'
<1> USE DEF ServerInv, target, clients
<1>1. Types'
  BY DEF Types, ServerTypeOK
<1>2. Streams'
  BY DEF Streams
<1>3. Answered'
  BY DEF Answered, Pending
<1>4. AnswerInHand' /\ Leavers' /\ InBacklog' /\ Serving'
  BY DEF AnswerInHand, Leavers, InBacklog, Serving
<1> QED
  BY <1>1, <1>2, <1>3, <1>4

\* accept4 takes the first of those who wait.
LEMMA AcceptStep == ASSUME ServerInv, Accept PROVE ServerInv'
<1> USE DEF Accept, target, ServerInv
<1>1. PICK n \in Nat : n = Len(backlog) /\ n > 0
  BY DEF Types
<1>2. /\ cur' = backlog[1] /\ cur' \in Clients /\ backlog' \in Seq(Clients)
      /\ Len(backlog') = n - 1 /\ \A i \in 1 .. n - 1 : backlog'[i] = backlog[i + 1]
  BY <1>1 DEF Types
<1>3. Types'
  BY <1>2 DEF Types, ServerTypeOK
<1>4. Streams'
  BY DEF Streams
<1>5. Answered'
  BY DEF Answered, Pending
<1>6. AnswerInHand' /\ Leavers'
  BY DEF AnswerInHand, Leavers
<1>7. InBacklog'
  <2>1. \A i \in 1 .. n - 1 : i + 1 \in 1 .. n
    OBVIOUS
  <2>2. ASSUME NEW i \in 1 .. n - 1
        PROVE  ~closed[backlog'[i]] /\ peer[backlog'[i]] # "off"
    BY <1>1, <1>2, <2>1 DEF InBacklog
  <2>3. ASSUME NEW i \in 1 .. n - 1, NEW j \in 1 .. n - 1, i # j
        PROVE  backlog'[i] # backlog'[j]
    <3>1. i + 1 # j + 1
      BY <2>3
    <3> QED
      BY <1>1, <1>2, <2>1, <3>1 DEF InBacklog
  <2>4. \A c \in Clients : closed'[c] => peer'[c] # "off"
    BY DEF InBacklog
  <2> QED
    BY <1>2, <2>2, <2>3, <2>4 DEF InBacklog
<1>8. Serving'
  <2>1. ~closed[backlog[1]] /\ peer[backlog[1]] # "off"
    BY <1>1 DEF InBacklog
  <2>2. ASSUME NEW i \in 1 .. n - 1 PROVE backlog'[i] # cur'
    <3>1. i + 1 \in 1 .. n /\ 1 \in 1 .. n /\ i + 1 # 1
      OBVIOUS
    <3> QED
      BY <1>1, <1>2, <3>1 DEF InBacklog
  <2> QED
    BY <1>2, <2>1, <2>2 DEF Serving
<1> QED
  BY <1>3, <1>4, <1>5, <1>6, <1>7, <1>8

\* The answer to a request carries its sequence number.
LEMMA ResponseOf ==
  ASSUME Types, NEW req \in Packets
  PROVE  Response(req) \in Answers /\ Response(req).seq = req.seq
<1>1. <<rate, crc_errors>> \in Seq(Nat) /\ <<1>> \in Seq(Nat) /\ <<>> \in Seq(Nat)
  BY DEF Types, ServerTypeOK
<1>2. req.payload \in Seq(Nat) /\ req.seq \in Nat
  BY DEF Packets
<1>3. ASSUME NEW type \in AnswerTypes, NEW payload \in Seq(Nat)
      PROVE  /\ Answer(req, type, payload) \in Answers
             /\ Answer(req, type, payload).seq = req.seq
  BY <1>2 DEF Answer, Answers
<1>4. \E type \in AnswerTypes, payload \in Seq(Nat) :
        Response(req) = Answer(req, type, payload)
  <2>1. Response(req) \in {Answer(req, "STATUS_RSP", <<rate, crc_errors>>),
          Answer(req, "CONFIG_ACK", req.payload), Answer(req, "CONFIG_ACK", <<1>>),
          Answer(req, "RESET_ACK", <<>>), Answer(req, "FW_INFO_RSP", <<>>),
          Answer(req, "ERROR", <<>>)}
    BY DEF Response
  <2> QED
    BY <1>1, <1>2, <2>1 DEF AnswerTypes
<1> QED
  BY <1>3, <1>4

\* What a request does to the target.
LEMMA EffectTypes ==
  ASSUME Types, NEW req \in Packets, Effect(req)
  PROVE  rate' \in 1 .. 1000 /\ crc_errors' \in Nat /\ freezes' \in Nat
BY DEF Types, ServerTypeOK, Effect, ValidRate

\* A request is read: the next piece, whole, and the client has not left.
LEMMA ReadStep == ASSUME ServerInv, ReadRequest PROVE ServerInv'
<1> USE DEF ServerInv
<1>1. main = "read" /\ main' = "write" /\ cur' = cur /\ cur \in Clients /\ ~closed[cur]
  BY DEF ReadRequest, Serving
<1>2. PICK pieces \in Seq(Pieces), cells \in Seq(Cells), packets \in Seq(Packets) :
        pieces = sent[cur] /\ cells = stream[cur] /\ packets = got[cur]
  BY <1>1 DEF Types
<1>3. PICK k \in Nat, n \in Nat : k = Len(packets) /\ n = Len(pieces)
  OBVIOUS
<1>4. /\ k \in 0 .. n /\ Framed(pieces, k, cells)
      /\ \A i \in 1 .. k : pieces[i] \in Encoded /\ packets[i] = Decoded(pieces[i])
  BY <1>1, <1>2, <1>3 DEF Streams, Handles
<1>5. mlrt_packet_read_fd(cells, PeerGone(cur)) = "OK"
  BY <1>2 DEF ReadRequest, Outcome
<1>6. /\ k < n /\ pieces[k + 1] \in Encoded
      /\ Wanted(cells) = Len(pieces[k + 1])
      /\ SubSeq(cells, 1, Wanted(cells)) = pieces[k + 1]
  BY <1>3, <1>4, <1>5, ReadsNext
<1>7. PICK frame \in Pieces : frame = pieces[k + 1] /\ frame \in Encoded
  BY <1>6 DEF Pieces
<1>8. Frame = frame
  BY <1>2, <1>6, <1>7 DEF Frame
<1>9. Decoded(frame) \in Packets
  <2>1. PICK p \in Requests : frame = mlrt_packet_encode(p)
    BY <1>7 DEF Encoded
  <2>2. p \in Packets /\ Len(p.payload) <= MAX_PAYLOAD
    BY SendAssumption DEF Sendable
  <2> QED
    BY <2>1, <2>2, RoundTrip
<1>10. PICK req \in Packets : req = Decoded(frame)
  BY <1>9
<1>11. PICK rest : rest = SubSeq(cells, Len(frame) + 1, Len(cells))
  OBVIOUS
<1>12. Framed(pieces, k + 1, rest)
  BY <1>3, <1>4, <1>6, <1>7, <1>11, FramedRead
<1>13. Len(frame) \in Nat
  BY <1>7, PieceCells
<1>14. rest \in Seq(Cells)
  BY <1>11, <1>13
<1>15. PICK more : more = Append(packets, req)
  OBVIOUS
<1>16. /\ more \in Seq(Packets) /\ Len(more) = k + 1 /\ more[k + 1] = req
       /\ \A i \in 1 .. k : more[i] = packets[i]
  BY <1>3, <1>15
<1>17. /\ stream' = [stream EXCEPT ![cur] = rest] /\ got' = [got EXCEPT ![cur] = more]
       /\ rsp' = Response(req) /\ Effect(req)
       /\ UNCHANGED <<signal, peer, backlog, sent, closed, answers>>
  BY <1>1, <1>2, <1>8, <1>10, <1>11, <1>15 DEF ReadRequest
<1>18. rsp' \in Answers /\ rsp'.seq = req.seq
  BY <1>17, ResponseOf
<1>19. Types'
  <2>1. ServerTypeOK'
    BY <1>1, <1>17, EffectTypes DEF Types, ServerTypeOK
  <2> QED
    BY <1>14, <1>16, <1>17, <1>18, <2>1 DEF Types
<1>20. Handles(pieces, more)
  <2>1. ASSUME NEW i \in 1 .. k + 1
        PROVE  pieces[i] \in Encoded /\ more[i] = Decoded(pieces[i])
    <3>1. CASE i = k + 1
      BY <1>6, <1>7, <1>10, <1>16, <3>1
    <3>2. CASE i \in 1 .. k
      BY <1>4, <1>16, <3>2
    <3> QED
      BY <3>1, <3>2
  <2>2. k + 1 <= Len(pieces)
    BY <1>3, <1>6
  <2> QED
    BY <1>16, <2>1, <2>2 DEF Handles
<1>21. got'[cur] = more /\ stream'[cur] = rest
       /\ \A c \in Clients \ {cur} : got'[c] = got[c] /\ stream'[c] = stream[c]
  BY <1>1, <1>17 DEF Types
<1>22. Streams'
  <2>1. ASSUME NEW c \in Clients
        PROVE  /\ Handles(sent'[c], got'[c])
               /\ Framed(sent'[c], Len(got'[c]), stream'[c])
               /\ \E i \in 0 .. Len(sent'[c]) : IntactUpTo(sent'[c], i)
    <3>1. CASE c = cur
      BY <1>1, <1>2, <1>12, <1>16, <1>17, <1>20, <1>21, <3>1 DEF Streams
    <3>2. CASE c # cur
      BY <1>17, <1>21, <3>2 DEF Streams
    <3> QED
      BY <3>1, <3>2
  <2> QED
    BY <2>1 DEF Streams
<1>23. Answered'
  <2>1. ASSUME NEW c \in Clients
        PROVE  /\ Len(got'[c]) = IF Pending(c)' THEN Len(answers'[c]) + 1 ELSE Len(answers'[c])
               /\ \A i \in 1 .. Len(answers'[c]) : answers'[c][i].seq = got'[c][i].seq
    <3>1. CASE c = cur
      <4>1. Len(answers[cur]) = k /\ \A i \in 1 .. k : answers[cur][i].seq = packets[i].seq
        BY <1>1, <1>2, <1>3 DEF Answered, Pending
      <4>2. Pending(c)' /\ answers' = answers
        BY <1>1, <1>17, <3>1 DEF Pending
      <4>3. \A i \in 1 .. k : more[i].seq = packets[i].seq
        BY <1>16
      <4> QED
        BY <1>16, <1>21, <3>1, <4>1, <4>2, <4>3
    <3>2. CASE c # cur
      <4>1. ~Pending(c) /\ ~Pending(c)'
        BY <1>1, <3>2 DEF Pending
      <4>2. got'[c] = got[c] /\ answers'[c] = answers[c]
        BY <1>17, <1>21, <3>2
      <4> QED
        BY <4>1, <4>2 DEF Answered
    <3> QED
      BY <3>1, <3>2
  <2> QED
    BY <2>1 DEF Answered
<1>24. AnswerInHand'
  BY <1>1, <1>16, <1>18, <1>21 DEF AnswerInHand
<1>25. peer[cur] # "left"
  <2>1. ASSUME n = 1, pieces[1] \in Corrupted PROVE FALSE
    <3>1. k = 0 /\ k + 1 = 1
      BY <1>3, <1>6, <2>1
    <3>2. Leads(pieces[k + 1], cells)
      BY <1>3, <1>4, <1>6, FramedLeads
    <3>3. Leads(pieces[1], cells)
      BY <3>1, <3>2
    <3> QED
      BY <1>5, <2>1, <3>3, RefusesCorrupt
  <2> QED
    BY <1>1, <1>2, <1>3, <1>6, <2>1 DEF Leavers
<1>26. Leavers'
  <2>1. ASSUME NEW c \in Clients, peer'[c] = "left"
        PROVE  \/ closed'[c] \/ Len(got'[c]) = Len(sent'[c])
               \/ Len(sent'[c]) = 1 /\ sent'[c][1] \in Corrupted
    <3>1. c # cur
      BY <1>17, <1>25, <2>1
    <3> QED
      BY <1>17, <1>21, <2>1, <3>1 DEF Leavers
  <2> QED
    BY <2>1 DEF Leavers
<1>27. InBacklog' /\ Serving'
  BY <1>1, <1>17, <1>25 DEF InBacklog, Serving
<1> QED
  BY <1>19, <1>22, <1>23, <1>24, <1>26, <1>27

\* The service closes the connection, after a wrong CRC or otherwise.
LEMMA CloseStep ==
  ASSUME ServerInv, main = "read", CloseClient, crc_errors' \in Nat,
         UNCHANGED <<signal, rate, freezes, clients, answers, got>>
  PROVE  ServerInv'
<1> USE DEF ServerInv, clients, CloseClient
<1>1. cur \in Clients /\ cur # NoClient
  BY DEF Serving, Clients, NoClient
<1>2. closed' \in [Clients -> BOOLEAN] /\ closed'[cur]
      /\ \A c \in Clients \ {cur} : closed'[c] = closed[c]
  BY <1>1 DEF Types
<1>3. Types'
  BY <1>2 DEF Types, ServerTypeOK
<1>4. Streams'
  BY DEF Streams
<1>5. Answered' /\ AnswerInHand'
  BY DEF Answered, AnswerInHand, Pending
<1>6. Leavers'
  BY <1>2 DEF Leavers
<1>7. InBacklog'
  <2>1. \A i \in 1 .. Len(backlog) : backlog[i] \in Clients /\ backlog[i] # cur
    <3>1. \A i \in 1 .. Len(backlog) : backlog[i] \in Clients
      BY DEF Types
    <3> QED
      BY <3>1 DEF Serving
  <2>2. peer[cur] # "off"
    BY DEF Serving
  <2> QED
    BY <1>2, <2>1, <2>2 DEF InBacklog
<1>8. Serving'
  BY DEF Serving
<1> QED
  BY <1>3, <1>4, <1>5, <1>6, <1>7, <1>8

\* The answer is written, or the write ends the process.
LEMMA WriteStep == ASSUME ServerInv, WriteResponse PROVE ServerInv'
<1> USE DEF ServerInv, clients, target
<1>1. /\ main = "write" /\ cur \in Clients /\ cur' = cur /\ rsp' = NoPacket
      /\ UNCHANGED <<signal, target, clients, closed, got>>
  BY DEF WriteResponse, Serving
<1>2. NoPacket \in Answers
  <2>1. <<>> \in Seq(Nat)
    OBVIOUS
  <2> QED
    BY <2>1 DEF NoPacket, Answers, AnswerTypes
<1>3. Streams' /\ Leavers' /\ InBacklog'
  BY <1>1 DEF Streams, Leavers, InBacklog
<1>4. CASE PeerGone(cur)
  <2>1. main' = "killed" /\ answers' = answers
    BY <1>4 DEF WriteResponse
  <2>2. Types'
    BY <1>1, <1>2, <2>1 DEF Types, ServerTypeOK
  <2>3. Answered' /\ AnswerInHand'
    BY <1>1, <2>1 DEF Answered, AnswerInHand, Pending
  <2>4. Serving'
    BY <1>1, <1>4, <2>1 DEF Serving, PeerGone
  <2> QED
    BY <1>3, <2>2, <2>3, <2>4
<1>5. CASE ~PeerGone(cur)
  <2>1. PICK old \in Seq(Answers), more \in Seq(Answers) :
          old = answers[cur] /\ more = Append(old, rsp)
    <3>1. answers[cur] \in Seq(Answers) /\ rsp \in Answers
      BY <1>1 DEF Types
    <3>2. Append(answers[cur], rsp) \in Seq(Answers)
      BY <3>1
    <3> QED
      BY <3>1, <3>2
  <2>2. main' = "read" /\ answers' = [answers EXCEPT ![cur] = more]
    BY <1>5, <2>1 DEF WriteResponse
  <2>3. PICK k \in Nat : k = Len(old)
    BY <2>1
  <2>4. /\ more \in Seq(Answers) /\ Len(more) = k + 1 /\ more[k + 1] = rsp
        /\ \A i \in 1 .. k : more[i] = old[i]
    BY <2>1, <2>3 DEF Types
  <2>5. answers'[cur] = more /\ \A c \in Clients \ {cur} : answers'[c] = answers[c]
    BY <1>1, <2>2 DEF Types
  <2>6. Types'
    BY <1>1, <1>2, <2>2, <2>4 DEF Types, ServerTypeOK
  <2>7. Answered'
    <3>1. ASSUME NEW c \in Clients
          PROVE  /\ Len(got'[c]) = IF Pending(c)' THEN Len(answers'[c]) + 1 ELSE Len(answers'[c])
                 /\ \A i \in 1 .. Len(answers'[c]) : answers'[c][i].seq = got'[c][i].seq
      <4>1. ~Pending(c)'
        BY <2>2 DEF Pending
      <4>2. CASE c = cur
        <5>1. Len(got[cur]) = k + 1 /\ \A i \in 1 .. k : old[i].seq = got[cur][i].seq
          BY <1>1, <2>1, <2>3 DEF Answered, Pending
        <5>2. rsp.seq = got[cur][k + 1].seq
          BY <1>1, <5>1 DEF AnswerInHand
        <5>3. \A i \in 1 .. k + 1 : more[i].seq = got[cur][i].seq
          BY <2>4, <5>1, <5>2
        <5> QED
          BY <1>1, <2>4, <2>5, <4>1, <4>2, <5>1, <5>3
      <4>3. CASE c # cur
        BY <1>1, <2>5, <4>1, <4>3 DEF Answered, Pending
      <4> QED
        BY <4>2, <4>3
    <3> QED
      BY <3>1 DEF Answered
  <2>8. AnswerInHand' /\ Serving'
    BY <1>1, <2>2 DEF AnswerInHand, Serving
  <2> QED
    BY <1>3, <2>6, <2>7, <2>8
<1> QED
  BY <1>4, <1>5

\* A client connects.
LEMMA ConnectStep ==
  ASSUME ServerInv, NEW c \in Clients, connect_target(c)
  PROVE  ServerInv'
<1> USE DEF ServerInv
<1>1. /\ peer[c] = "off" /\ peer' = [peer EXCEPT ![c] = "open"]
      /\ backlog' = Append(backlog, c)
      /\ UNCHANGED <<main, signal, cur, rsp, rate, crc_errors, freezes, stream, sent,
                     closed, answers, got>>
  BY DEF connect_target, OnlyClient, service, target
<1>2. peer'[c] = "open" /\ \A d \in Clients \ {c} : peer'[d] = peer[d]
  BY <1>1 DEF Types, ServerTypeOK
<1>3. PICK n \in Nat : n = Len(backlog)
  BY DEF Types
<1>4. /\ backlog' \in Seq(Clients) /\ Len(backlog') = n + 1 /\ backlog'[n + 1] = c
      /\ \A i \in 1 .. n : backlog'[i] = backlog[i] /\ backlog[i] \in Clients
  BY <1>1, <1>3 DEF Types
<1>5. Types'
  BY <1>1, <1>4 DEF Types, ServerTypeOK
<1>6. Streams'
  BY <1>1 DEF Streams
<1>7. Answered' /\ AnswerInHand'
  BY <1>1 DEF Answered, AnswerInHand, Pending
<1>8. Leavers'
  <2>1. ASSUME NEW d \in Clients, peer'[d] = "left"
        PROVE  \/ closed'[d] \/ Len(got'[d]) = Len(sent'[d])
               \/ Len(sent'[d]) = 1 /\ sent'[d][1] \in Corrupted
    BY <1>1, <1>2, <2>1 DEF Leavers
  <2> QED
    BY <2>1 DEF Leavers
<1>9. \A i \in 1 .. n : backlog[i] # c
  BY <1>1, <1>3 DEF InBacklog
<1>10. ~closed[c]
  BY <1>1 DEF InBacklog
<1>11. InBacklog'
  <2>1. ASSUME NEW i \in 1 .. n + 1
        PROVE  ~closed'[backlog'[i]] /\ peer'[backlog'[i]] # "off"
    <3>1. CASE i = n + 1
      BY <1>1, <1>2, <1>4, <1>10, <3>1
    <3>2. CASE i \in 1 .. n
      BY <1>1, <1>2, <1>3, <1>4, <1>9, <3>2 DEF InBacklog
    <3> QED
      BY <3>1, <3>2
  <2>2. ASSUME NEW i \in 1 .. n + 1, NEW j \in 1 .. n + 1, i # j
        PROVE  backlog'[i] # backlog'[j]
    <3>1. CASE i = n + 1 \/ j = n + 1
      BY <1>4, <1>9, <2>2, <3>1
    <3>2. CASE i \in 1 .. n /\ j \in 1 .. n
      BY <1>3, <1>4, <2>2, <3>2 DEF InBacklog
    <3> QED
      BY <3>1, <3>2
  <2>3. ASSUME NEW d \in Clients, closed'[d] PROVE peer'[d] # "off"
    BY <1>1, <1>2, <2>3 DEF InBacklog
  <2> QED
    BY <1>4, <2>1, <2>2, <2>3 DEF InBacklog
<1>12. Serving'
  <2>1. main \in {"read", "write", "killed"} => cur \in Clients \ {c}
    BY <1>1 DEF Serving
  <2>2. ASSUME main \in {"read", "write", "killed"}, NEW i \in 1 .. n + 1
        PROVE  backlog'[i] # cur
    <3>1. CASE i = n + 1
      BY <1>4, <2>1, <2>2, <3>1
    <3>2. CASE i \in 1 .. n
      BY <1>3, <1>4, <2>2, <3>2 DEF Serving
    <3> QED
      BY <3>1, <3>2
  <2> QED
    BY <1>1, <1>2, <1>4, <2>1, <2>2 DEF Serving
<1> QED
  BY <1>5, <1>6, <1>7, <1>8, <1>11, <1>12

\* A client sends another piece; with a wrong CRC it leaves at once.
LEMMA SendStep ==
  ASSUME ServerInv, NEW c \in Clients, NEW piece \in Pieces, Puts(c, piece),
         OnlyClient, UNCHANGED backlog,
         \/ UNCHANGED peer
         \/ /\ sent[c] = <<>> /\ piece \in Corrupted
            /\ peer' = [peer EXCEPT ![c] = "left"]
  PROVE  ServerInv'
<1> USE DEF ServerInv
<1>1. PICK pieces \in Seq(Pieces), cells \in Seq(Cells), packets \in Seq(Packets) :
        pieces = sent[c] /\ cells = stream[c] /\ packets = got[c]
  BY DEF Types
<1>2. PICK more, longer : more = Append(pieces, piece) /\ longer = cells \o piece
  OBVIOUS
<1>3. /\ peer[c] = "open" /\ ~closed[c]
      /\ stream' = [stream EXCEPT ![c] = longer] /\ sent' = [sent EXCEPT ![c] = more]
      /\ UNCHANGED <<main, signal, cur, rsp, rate, crc_errors, freezes, backlog,
                     closed, answers, got>>
  BY <1>1, <1>2 DEF Puts, OnlyClient, service, target
<1>4. piece \in Seq(Cells)
  BY PieceCells
<1>5. PICK n \in Nat, k \in Nat : n = Len(pieces) /\ k = Len(packets)
  OBVIOUS
<1>6. /\ more \in Seq(Pieces) /\ Len(more) = n + 1 /\ more[n + 1] = piece
      /\ \A i \in 1 .. n : more[i] = pieces[i]
  BY <1>2, <1>5
<1>7. longer \in Seq(Cells)
  BY <1>2, <1>4
<1>8. sent'[c] = more /\ stream'[c] = longer
      /\ \A d \in Clients \ {c} : sent'[d] = sent[d] /\ stream'[d] = stream[d]
  BY <1>3 DEF Types
<1>9. peer' \in [Clients -> {"off", "open", "left", "killed"}]
      /\ \A d \in Clients \ {c} : peer'[d] = peer[d]
  BY DEF Types, ServerTypeOK
<1>10. \/ peer'[c] = "open"
       \/ n = 0 /\ piece \in Corrupted /\ peer'[c] = "left"
  BY <1>1, <1>3, <1>5 DEF Types, ServerTypeOK
<1>11. Types'
  <2>1. ServerTypeOK'
    BY <1>3, <1>9 DEF Types, ServerTypeOK
  <2> QED
    BY <1>3, <1>6, <1>7, <2>1 DEF Types
<1>12. /\ k <= n /\ Framed(pieces, k, cells)
       /\ \A i \in 1 .. k : pieces[i] \in Encoded /\ packets[i] = Decoded(pieces[i])
  BY <1>1, <1>5 DEF Streams, Handles
<1>13. Framed(more, k, longer)
  BY <1>2, <1>5, <1>12, FramedSend
<1>14. Handles(more, packets)
  BY <1>5, <1>6, <1>12 DEF Handles
<1>15. \E m \in 0 .. n + 1 : IntactUpTo(more, m)
  <2>1. PICK m \in 0 .. n : IntactUpTo(pieces, m)
    BY <1>1, <1>5 DEF Streams
  <2>2. CASE m = n /\ piece \in Encoded
    <3>1. IntactUpTo(more, n + 1)
      BY <1>5, <1>6, <2>1, <2>2 DEF IntactUpTo
    <3> QED
      BY <3>1
  <2>3. CASE m = n /\ piece \notin Encoded
    <3>1. IntactUpTo(more, n)
      BY <1>5, <1>6, <2>1, <2>3 DEF IntactUpTo
    <3> QED
      BY <3>1
  <2>4. CASE m < n
    <3>1. IntactUpTo(more, m)
      <4>1. m + 1 \in 1 .. n /\ more[m + 1] = pieces[m + 1]
        BY <1>6, <2>4
      <4>2. \A i \in 1 .. m : more[i] = pieces[i]
        BY <1>6, <2>4
      <4> QED
        BY <1>5, <2>1, <2>4, <4>1, <4>2 DEF IntactUpTo
    <3> QED
      BY <3>1
  <2> QED
    BY <2>2, <2>3, <2>4
<1>16. Streams'
  <2>1. ASSUME NEW d \in Clients
        PROVE  /\ Handles(sent'[d], got'[d])
               /\ Framed(sent'[d], Len(got'[d]), stream'[d])
               /\ \E m \in 0 .. Len(sent'[d]) : IntactUpTo(sent'[d], m)
    <3>1. CASE d = c
      BY <1>1, <1>3, <1>5, <1>6, <1>8, <1>13, <1>14, <1>15, <3>1
    <3>2. CASE d # c
      BY <1>3, <1>8, <3>2 DEF Streams
    <3> QED
      BY <3>1, <3>2
  <2> QED
    BY <2>1 DEF Streams
<1>17. Answered' /\ AnswerInHand'
  BY <1>3 DEF Answered, AnswerInHand, Pending
<1>18. Leavers'
  <2>1. ASSUME NEW d \in Clients, peer'[d] = "left"
        PROVE  \/ closed'[d] \/ Len(got'[d]) = Len(sent'[d])
               \/ Len(sent'[d]) = 1 /\ sent'[d][1] \in Corrupted
    <3>1. CASE d = c
      <4>1. n = 0 /\ piece \in Corrupted
        BY <1>10, <2>1, <3>1
      <4>2. Len(more) = 1 /\ more[1] = piece
        BY <1>6, <4>1
      <4> QED
        BY <1>8, <3>1, <4>1, <4>2
    <3>2. CASE d # c
      BY <1>3, <1>8, <1>9, <2>1, <3>2 DEF Leavers
    <3> QED
      BY <3>1, <3>2
  <2> QED
    BY <2>1 DEF Leavers
<1>19. \A d \in Clients : peer[d] # "off" => peer'[d] # "off"
  BY <1>9, <1>10
<1>20. InBacklog'
  <2>1. \A i \in 1 .. Len(backlog) : backlog[i] \in Clients
    BY DEF Types
  <2> QED
    BY <1>3, <1>19, <2>1 DEF InBacklog
<1>21. Serving'
  <2>1. ASSUME main = "write" PROVE peer'[cur] # "left"
    <3>1. CASE cur = c
      <4>1. k >= 1
        <5>1. Pending(c)
          BY <2>1, <3>1 DEF Pending
        <5>2. Len(answers[c]) \in Nat /\ k = Len(answers[c]) + 1
          BY <1>1, <1>5, <5>1 DEF Answered, Types
        <5> QED
          BY <5>2
      <4> QED
        BY <1>10, <1>12, <3>1, <4>1
    <3>2. CASE cur # c
      BY <1>9, <2>1, <3>2 DEF Serving
    <3> QED
      BY <3>1, <3>2
  <2>2. ASSUME main = "killed" PROVE peer'[cur] = "killed"
    BY <1>3, <1>9, <2>2 DEF Serving
  <2> QED
    BY <1>3, <1>19, <2>1, <2>2 DEF Serving
<1> QED
  BY <1>11, <1>16, <1>17, <1>18, <1>20, <1>21

\* A client leaves, with all its answers or after the service closed, or is killed.
LEMMA LeaveStep ==
  ASSUME ServerInv, NEW c \in Clients, Finish(c) \/ Killed(c)
  PROVE  ServerInv'
<1> USE DEF ServerInv
<1>1. /\ peer[c] = "open"
      /\ UNCHANGED <<main, signal, cur, rsp, rate, crc_errors, freezes, backlog, stream,
                     sent, closed, answers, got>>
  BY DEF Finish, Killed, OnlyClient, service, target
<1>2. /\ peer' \in [Clients -> {"off", "open", "left", "killed"}]
      /\ \A d \in Clients \ {c} : peer'[d] = peer[d]
  BY DEF Finish, Killed, Types, ServerTypeOK
<1>3. \/ peer'[c] = "killed"
      \/ peer'[c] = "left" /\ (closed[c] \/ Len(answers[c]) = Len(sent[c]))
  BY DEF Finish, Killed, Frames, Types, ServerTypeOK
<1>4. PICK a \in Nat, k \in Nat, n \in Nat :
        a = Len(answers[c]) /\ k = Len(got[c]) /\ n = Len(sent[c])
  BY DEF Types
<1>5. k <= n /\ (k = IF Pending(c) THEN a + 1 ELSE a)
  BY <1>4 DEF Streams, Handles, Answered
<1>6. Types'
  <2>1. ServerTypeOK'
    BY <1>1, <1>2 DEF Types, ServerTypeOK
  <2> QED
    BY <1>1, <2>1 DEF Types
<1>7. Streams'
  BY <1>1 DEF Streams
<1>8. Answered' /\ AnswerInHand'
  BY <1>1 DEF Answered, AnswerInHand, Pending
<1>9. Leavers'
  <2>1. ASSUME NEW d \in Clients, peer'[d] = "left"
        PROVE  \/ closed'[d] \/ Len(got'[d]) = Len(sent'[d])
               \/ Len(sent'[d]) = 1 /\ sent'[d][1] \in Corrupted
    <3>1. CASE d = c
      <4>1. closed[c] \/ a = n
        BY <1>3, <1>4, <2>1, <3>1
      <4>2. a = n => k = n
        BY <1>5
      <4> QED
        BY <1>1, <1>4, <3>1, <4>1, <4>2
    <3>2. CASE d # c
      BY <1>1, <1>2, <2>1, <3>2 DEF Leavers
    <3> QED
      BY <3>1, <3>2
  <2> QED
    BY <2>1 DEF Leavers
<1>10. \A d \in Clients : peer[d] # "off" => peer'[d] # "off"
  BY <1>2, <1>3
<1>11. InBacklog'
  <2>1. \A i \in 1 .. Len(backlog) : backlog[i] \in Clients
    BY DEF Types
  <2> QED
    BY <1>1, <1>10, <2>1 DEF InBacklog
<1>12. Serving'
  <2>1. ASSUME main = "write" PROVE peer'[cur] # "left"
    <3>1. CASE cur = c
      <4>1. Pending(c)
        BY <2>1, <3>1 DEF Pending
      <4>2. ~closed[c]
        BY <2>1, <3>1 DEF Serving
      <4> QED
        BY <1>3, <1>4, <1>5, <3>1, <4>1, <4>2
    <3>2. CASE cur # c
      BY <1>2, <2>1, <3>2 DEF Serving
    <3> QED
      BY <3>1, <3>2
  <2>2. ASSUME main = "killed" PROVE peer'[cur] = "killed"
    BY <1>1, <1>2, <2>2 DEF Serving
  <2> QED
    BY <1>1, <1>10, <2>1, <2>2 DEF Serving
<1> QED
  BY <1>6, <1>7, <1>8, <1>9, <1>11, <1>12

\* Every step of the service, of a client and of the signal.
LEMMA ServerSteps == ASSUME ServerInv, [ServerNext]_serviceVars PROVE ServerInv'
<1>1. CASE UNCHANGED serviceVars
  BY <1>1, QuietStep DEF serviceVars, service
<1>2. CASE Service \/ AcceptFails \/ on_signal
  <2>1. CASE Start
    BY <2>1, QuietStep DEF Start
  <2>2. CASE TestStop
    BY <2>2, QuietStep DEF TestStop
  <2>3. CASE Enter
    BY <2>3, QuietStep DEF Enter
  <2>4. CASE Accept
    BY <2>4, AcceptStep
  <2>5. CASE ReadRequest
    BY <2>5, ReadStep
  <2>6. CASE RejectCrc
    <3>1. crc_errors' \in Nat
      BY <2>6 DEF RejectCrc, ServerInv, Types, ServerTypeOK
    <3> QED
      BY <2>6, <3>1, CloseStep DEF RejectCrc, HangUp
  <2>7. CASE EndService
    <3>1. crc_errors' \in Nat
      BY <2>7 DEF EndService, target, ServerInv, Types, ServerTypeOK
    <3> QED
      BY <2>7, <3>1, CloseStep DEF EndService, target
  <2>8. CASE WriteResponse
    BY <2>8, WriteStep
  <2>9. CASE Stop
    BY <2>9, QuietStep DEF Stop
  <2>10. CASE AcceptFails
    BY <2>10, QuietStep DEF AcceptFails
  <2>11. CASE on_signal
    BY <2>11, QuietStep DEF on_signal, Interrupted
  <2> QED
    BY <1>2, <2>1, <2>2, <2>3, <2>4, <2>5, <2>6, <2>7, <2>8, <2>9, <2>10, <2>11
    DEF Service
<1>3. ASSUME NEW c \in Clients,
             \/ connect_target(c) \/ Finish(c) \/ Killed(c)
             \/ \E req \in Requests : SendRequest(c, req) \/ send_corrupt_crc(c, req)
             \/ \E cells \in Garbled : SendGarbled(c, cells)
      PROVE  ServerInv'
  <2>1. CASE connect_target(c)
    BY <2>1, ConnectStep
  <2>2. CASE Finish(c) \/ Killed(c)
    BY <2>2, LeaveStep
  <2>3. ASSUME NEW req \in Requests, SendRequest(c, req) PROVE ServerInv'
    <3>1. mlrt_packet_encode(req) \in Pieces
      BY DEF Pieces, Encoded
    <3> QED
      BY <2>3, <3>1, SendStep DEF SendRequest
  <2>4. ASSUME NEW req \in Requests, send_corrupt_crc(c, req) PROVE ServerInv'
    <3>1. Corrupt(req) \in Corrupted /\ Corrupt(req) \in Pieces
      BY DEF Pieces, Corrupted
    <3>2. /\ sent[c] = <<>> /\ Puts(c, Corrupt(req)) /\ peer' = [peer EXCEPT ![c] = "left"]
          /\ UNCHANGED backlog /\ OnlyClient
      BY <2>4 DEF send_corrupt_crc, Corrupt
    <3> QED
      BY <3>1, <3>2, SendStep
  <2>5. ASSUME NEW cells \in Garbled, SendGarbled(c, cells) PROVE ServerInv'
    <3>1. cells \in Pieces
      BY DEF Pieces
    <3> QED
      BY <2>5, <3>1, SendStep DEF SendGarbled
  <2> QED
    BY <1>3, <2>1, <2>2, <2>3, <2>4, <2>5
<1> QED
  BY <1>1, <1>2, <1>3 DEF ServerNext

\* What the requests up to the first bad frame are: the packets handled begin them.
LEMMA HandlesIntact ==
  ASSUME ServerInv, NEW c \in Clients
  PROVE  IsPrefix(got[c], Intact(c))
<1>1. PICK pieces \in Seq(Pieces), packets \in Seq(Packets) :
        pieces = sent[c] /\ packets = got[c]
  BY DEF ServerInv, Types
<1>2. PICK k \in Nat, l \in Nat : k = Len(packets) /\ l = Len(pieces)
  OBVIOUS
<1>3. PICK n : n = CHOOSE m \in 0 .. l : IntactUpTo(pieces, m)
  OBVIOUS
<1>4. n \in 0 .. l /\ IntactUpTo(pieces, n)
  <2>1. \E m \in 0 .. l : IntactUpTo(pieces, m)
    BY <1>1, <1>2 DEF ServerInv, Streams
  <2> QED
    BY <1>3, <2>1
<1>5. Intact(c) = [i \in 1 .. n |-> Decoded(pieces[i])]
  BY <1>1, <1>2, <1>3 DEF Intact, Frames, IntactUpTo, Encoded
<1>6. k <= l /\ \A i \in 1 .. k : pieces[i] \in Encoded /\ packets[i] = Decoded(pieces[i])
  BY <1>1, <1>2 DEF ServerInv, Streams, Handles
<1>7. k <= n
  BY <1>2, <1>4, <1>6 DEF IntactUpTo
<1>8. PICK intact : intact = Intact(c)
  OBVIOUS
<1>9. PICK D : D = {Decoded(pieces[i]) : i \in 1 .. n}
  OBVIOUS
<1>10. /\ intact \in Seq(D) /\ Len(intact) = n
       /\ \A i \in 1 .. n : intact[i] = Decoded(pieces[i])
  <2>1. intact \in [1 .. n -> D]
    BY <1>5, <1>8, <1>9
  <2> QED
    BY <1>4, <1>5, <1>8, <2>1
<1>11. SubSeq(packets, 1, k) = SubSeq(intact, 1, k)
  <2>1. SubSeq(packets, 1, k) = [i \in 1 .. k |-> packets[i]]
    BY <1>2
  <2>2. SubSeq(intact, 1, k) = [i \in 1 .. k |-> intact[i]]
    BY <1>7, <1>10
  <2>3. \A i \in 1 .. k : packets[i] = intact[i]
    BY <1>4, <1>6, <1>7, <1>10
  <2> QED
    BY <2>1, <2>2, <2>3
<1> QED
  BY <1>1, <1>2, <1>7, <1>8, <1>10, <1>11 DEF IsPrefix

\* The inductive invariant of the service and its clients.
THEOREM ServerInvariant == ServerSpec => []ServerInv
BY ServerStarts, ServerSteps, PTL DEF ServerSpec

\* However many clients there are and whatever they send, what is handled for a
\* client are its intact requests, in order and each once, none beyond the first
\* bad frame, and its answers are those to them (serve_client and
\* mlrt_packet_read_fd): no read, of whatever length a damaged header asks for,
\* takes the end of one frame with the beginning of the next for a request.
THEOREM RequestsHandledInOrder == ServerSpec => []HandledInOrder
<1>1. ASSUME ServerInv PROVE HandledInOrder
  <2>1. ASSUME NEW c \in Clients
        PROVE  /\ IsPrefix(got[c], Intact(c)) /\ Len(answers[c]) <= Len(got[c])
               /\ \A i \in DOMAIN answers[c] : answers[c][i].seq = got[c][i].seq
    <3>1. IsPrefix(got[c], Intact(c))
      BY <1>1, HandlesIntact
    <3>2. DOMAIN answers[c] = 1 .. Len(answers[c]) /\ Len(answers[c]) \in Nat
      BY <1>1 DEF ServerInv, Types
    <3> QED
      BY <1>1, <3>1, <3>2 DEF ServerInv, Answered
  <2> QED
    BY <2>1 DEF HandledInOrder
<1> QED
  BY <1>1, ServerInvariant, PTL

\* SIGPIPE ends the process only in an answer to a client that was killed before
\* it came (mlrt_packet_write_fd in serve_client): the service is never in a write
\* to a client that left of its own accord.
THEOREM OnlyLostClientKills == ServerSpec => []KilledByLostClient
<1>1. ASSUME ServerInv PROVE KilledByLostClient
  <2>1. ASSUME main = "killed" PROVE peer[cur] = "killed" /\ got[cur] # <<>>
    <3>1. cur \in Clients /\ peer[cur] = "killed" /\ Pending(cur)
      BY <1>1, <2>1 DEF ServerInv, Serving, Pending
    <3>2. Len(answers[cur]) \in Nat /\ Len(got[cur]) = Len(answers[cur]) + 1
      BY <1>1, <3>1 DEF ServerInv, Types, Answered
    <3> QED
      BY <3>1, <3>2
  <2> QED
    BY <2>1 DEF KilledByLostClient
<1> QED
  BY <1>1, ServerInvariant, PTL
=============================================================================
