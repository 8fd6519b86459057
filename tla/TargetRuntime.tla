--------------------------- MODULE TargetRuntime ---------------------------
(***************************************************************************)
(* target/target_core.c: the virtual target.  A sensor thread fills a      *)
(* bounded queue, a worker thread drains it and stores a heartbeat, a      *)
(* watchdog thread compares the heartbeat's age with two thresholds and    *)
(* moves the target between RUNNING, FAULT and RECOVERY.  The server       *)
(* thread starts the three, serves one request at a time and stops them.   *)
(* They share atomics and no lock, so one action is one atomic operation   *)
(* on a shared word, with the private steps next to it.                    *)
(*                                                                         *)
(* Time is counted in ticks (50 ms in the configurations).  A sleeping     *)
(* thread has a timer; with Prompt a thread that can run does so before    *)
(* the next tick, without it a thread may be preempted for any time.       *)
(* Words that hold a time are kept relative to the clock: hbAge is now     *)
(* minus worker_heartbeat_ns, freeze is freeze_until_ns minus now.         *)
(* Sleeps below a tick (10 ms in the worker) are rounded up to one, and    *)
(* so is the sensor's shortest period.  The queue is only its depth: what  *)
(* it does inside is module RingBuffer.                                    *)
(***************************************************************************)
EXTENDS Integers

CONSTANTS FreshAge, FaultAge,  \* 200 ms and 500 ms of watchdog_worker
          FreezeLen,           \* the 900 ms of MLRT_MSG_FAULT_INJECT
          PopTicks, WdTicks,   \* the timeout of wait_pop, the watchdog's sleep
          Periods,             \* sampling periods, from 1..1000 Hz
          QueueCap,            \* slots of the ring
          Prompt,              \* no thread is preempted for a whole tick
          MaxSamples,          \* bound: samples the sensor pushes
          MaxInject, MaxResets \* bounds: FAULT_INJECT and RESET requests

ASSUME TimesAssumption ==
  /\ FreshAge \in Nat /\ FaultAge \in Nat /\ FreezeLen \in Nat \ {0}
  /\ PopTicks \in Nat \ {0} /\ WdTicks \in Nat \ {0}
  /\ Periods # {} /\ Periods \subseteq Nat \ {0}
  /\ FreshAge <= FaultAge + 1 /\ (Prompt => FaultAge >= 1)
ASSUME LimitsAssumption ==
  /\ QueueCap \in Nat \ {0} /\ Prompt \in BOOLEAN
  /\ MaxSamples \in Nat /\ MaxInject \in Nat /\ MaxResets \in Nat

VARIABLES pc,          \* thread -> what it does next
          timer,       \* thread -> ticks left of its sleep
          started,     \* ctx->threads_started
          joined,      \* threads joined by the call that is stopping them
          running, state, freeze, hbAge, period,
          queue,       \* depth of the ring
          ring,        \* the ring is usable, or destroyed
          produced, processed, recoveries,
          wdAge,       \* the watchdog's local age; 0 outside its scope
          hbNew,       \* a heartbeat was stored after the watchdog read the clock
          samples, injections, resets,  \* history: what the bounds count
          acked,       \* history: the worker stored a heartbeat since the stall
          paused       \* history: the worker slept on the last freeze

serverVars  == <<started, joined, ring, injections, resets>>
sensorVars  == <<queue, produced, samples>>
workerVars  == <<hbAge, hbNew, acked, processed, paused>>
controlVars == <<running, state, freeze, period, recoveries>>
vars == <<pc, timer, started, joined, running, state, freeze, hbAge, period, queue,
          ring, produced, processed, recoveries, wdAge, hbNew, samples, injections,
          resets, acked, paused>>

Order == <<"sensor", "worker", "watchdog">>
Threads == {"server", "sensor", "worker", "watchdog"}
NoFreeze == -1                       \* freeze_until_ns = 0; 0 is an expired one
RecoveriesCap == 2                   \* bound: the counter saturates
AgeCap == FaultAge + WdTicks + 1     \* bound: ages saturate above every threshold

\* mlrt_target_init
Init ==
  /\ pc = [t \in Threads |-> IF t = "server" THEN "init" ELSE "idle"]
  /\ timer = [t \in Threads |-> 0]
  /\ started = 0 /\ joined = 0 /\ ring = "live"
  /\ running = FALSE /\ state = "BOOT" /\ freeze = NoFreeze /\ hbAge = 0
  /\ period \in Periods /\ queue = 0
  /\ produced = 0 /\ processed = 0 /\ recoveries = 0
  /\ wdAge = 0 /\ hbNew = FALSE
  /\ samples = 0 /\ injections = 0 /\ resets = 0 /\ acked = FALSE /\ paused = FALSE

Goto(t, from, to) == pc[t] = from /\ pc' = [pc EXCEPT ![t] = to]
Sleep(t, ticks) == timer' = [timer EXCEPT ![t] = ticks]
Awake(t) == timer[t] = 0

-----------------------------------------------------------------------------
(* sensor_worker *)

SensorLoop ==
  /\ Goto("sensor", "loop", IF running THEN "sleep" ELSE "done")
  /\ Sleep("sensor", IF running THEN period ELSE 0)
  /\ UNCHANGED <<queue, produced, samples>>

\* A full queue drops the sample; nothing else happens to it here.
SensorPush ==
  LET push == running /\ samples < MaxSamples /\ queue < QueueCap
  IN  /\ Awake("sensor")
      /\ Goto("sensor", "sleep", IF ~running THEN "done" ELSE IF push THEN "count" ELSE "loop")
      /\ queue' = IF push THEN queue + 1 ELSE queue
      /\ samples' = IF push THEN samples + 1 ELSE samples
      /\ UNCHANGED <<timer, produced>>

SensorCount ==
  /\ Goto("sensor", "count", "loop")
  /\ produced' = produced + 1
  /\ UNCHANGED <<timer, queue, samples>>

SensorStep ==
  /\ SensorLoop \/ SensorPush \/ SensorCount
  /\ UNCHANGED <<serverVars, workerVars, controlVars, wdAge>>

-----------------------------------------------------------------------------
(* processing_worker *)

\* The freeze word is loaded and compared with the clock.
WorkerLoop ==
  LET to == IF ~running THEN "done" ELSE IF freeze > 0 THEN "loop"
            ELSE IF freeze = 0 THEN "clear" ELSE "wait"
  IN  /\ Awake("worker")
      /\ Goto("worker", "loop", to)
      /\ Sleep("worker", CASE to = "wait" -> PopTicks [] to = "loop" -> 1 [] OTHER -> 0)
      /\ paused' = (paused \/ to = "loop")
      /\ UNCHANGED <<freeze, queue, processed, hbAge, hbNew, acked>>

\* The expired freeze is cleared, with whatever replaced it since it was loaded.
WorkerClear ==
  /\ Goto("worker", "clear", "wait")
  /\ Sleep("worker", PopTicks)
  /\ freeze' = NoFreeze
  /\ UNCHANGED <<queue, processed, hbAge, hbNew, acked, paused>>

WorkerPop ==
  /\ queue > 0
  /\ Goto("worker", "wait", "count")
  /\ queue' = queue - 1
  /\ UNCHANGED <<timer, freeze, processed, hbAge, hbNew, acked, paused>>

\* Fault: a worker without work gives no heartbeat.
WorkerTimeoutSilent ==
  /\ Awake("worker")
  /\ Goto("worker", "wait", "loop")
  /\ UNCHANGED <<timer, freeze, queue, processed, hbAge, hbNew, acked, paused>>

\* wait_pop returns a timeout without looking at the queue once more: a sample
\* that came meanwhile stays for the next call.  (One that was there at the
\* entry is popped in the code; a worker preempted at the entry for the whole
\* timeout may time out here all the same.)
WorkerTimeout ==
  /\ Awake("worker")
  /\ Goto("worker", "wait", "beat")
  /\ UNCHANGED <<timer, freeze, queue, processed, hbAge, hbNew, acked, paused>>

WorkerCount ==
  /\ Goto("worker", "count", "beat")
  /\ processed' = processed + 1
  /\ UNCHANGED <<timer, freeze, queue, hbAge, hbNew, acked, paused>>

StoreHeartbeat == hbAge' = 0 /\ hbNew' = (pc["watchdog"] = "load")

WorkerBeat ==
  /\ Goto("worker", "beat", "loop")
  /\ Sleep("worker", 0)
  /\ StoreHeartbeat
  /\ acked' = TRUE
  /\ UNCHANGED <<freeze, queue, processed, paused>>

WorkerStep ==
  /\ WorkerLoop \/ WorkerClear \/ WorkerPop \/ WorkerTimeout \/ WorkerCount \/ WorkerBeat
  /\ UNCHANGED <<serverVars, running, state, period, recoveries, produced, samples, wdAge>>

-----------------------------------------------------------------------------
(* watchdog_worker *)

\* Fault: the watchdog does not look at running.
WatchdogLoopForever ==
  /\ Goto("watchdog", "loop", "clock")
  /\ Sleep("watchdog", WdTicks)
  /\ UNCHANGED <<state, freeze, recoveries, wdAge, hbNew, acked>>

WatchdogLoop ==
  /\ Goto("watchdog", "loop", IF running THEN "clock" ELSE "done")
  /\ Sleep("watchdog", IF running THEN WdTicks ELSE 0)
  /\ UNCHANGED <<state, freeze, recoveries, wdAge, hbNew, acked>>

\* now_ns() is evaluated before the heartbeat is loaded.
WatchdogClock ==
  /\ Awake("watchdog")
  /\ Goto("watchdog", "clock", "load")
  /\ wdAge' = hbAge /\ hbNew' = FALSE
  /\ acked' = (acked /\ state = "RECOVERY")
  /\ UNCHANGED <<timer, state, freeze, recoveries>>

\* A heartbeat newer than the clock reading makes the unsigned difference wrap.
WatchdogLoad ==
  /\ Goto("watchdog", "load", "decide")
  /\ wdAge' = (IF hbNew THEN AgeCap ELSE wdAge) /\ hbNew' = FALSE
  /\ UNCHANGED <<timer, state, freeze, recoveries, acked>>

\* Fault: the stall is compared with the wrong threshold.
FaultDueLate == wdAge > FaultAge + WdTicks
FaultDue == wdAge > FaultAge

\* The compare-and-swap to FAULT, then release of the stall, then RECOVERY.
WatchdogFault ==
  /\ FaultDue
  /\ Goto("watchdog", "decide", IF state = "RUNNING" THEN "release" ELSE "loop")
  /\ state' = IF state = "RUNNING" THEN "FAULT" ELSE state
  /\ wdAge' = 0
  /\ UNCHANGED <<timer, freeze, recoveries, hbNew, acked>>

WatchdogRelease ==
  /\ Goto("watchdog", "release", "recover")
  /\ freeze' = NoFreeze
  /\ UNCHANGED <<timer, state, recoveries, wdAge, hbNew, acked>>

\* Fault: the target is declared recovered as soon as the stall is released.
WatchdogRecoverAtOnce ==
  /\ Goto("watchdog", "recover", "loop")
  /\ state' = "RUNNING"
  /\ UNCHANGED <<timer, freeze, recoveries, wdAge, hbNew, acked>>

WatchdogRecover ==
  /\ Goto("watchdog", "recover", "loop")
  /\ state' = "RECOVERY"
  /\ UNCHANGED <<timer, freeze, recoveries, wdAge, hbNew, acked>>

\* Fault: "expected" still says RUNNING.
RecoveredFromRunning == state = "RUNNING"
Recovered == state = "RECOVERY"

WatchdogConfirm ==
  /\ ~FaultDue
  /\ Goto("watchdog", "decide", IF wdAge < FreshAge /\ Recovered THEN "count" ELSE "loop")
  /\ state' = IF wdAge < FreshAge /\ Recovered THEN "RUNNING" ELSE state
  /\ wdAge' = 0
  /\ UNCHANGED <<timer, freeze, recoveries, hbNew, acked>>

WatchdogCount ==
  /\ Goto("watchdog", "count", "loop")
  /\ recoveries' = IF recoveries < RecoveriesCap THEN recoveries + 1 ELSE recoveries
  /\ UNCHANGED <<timer, state, freeze, wdAge, hbNew, acked>>

WatchdogStep ==
  /\ \/ WatchdogLoop \/ WatchdogClock \/ WatchdogLoad \/ WatchdogFault
     \/ WatchdogRelease \/ WatchdogRecover \/ WatchdogConfirm \/ WatchdogCount
  /\ UNCHANGED <<serverVars, sensorVars, running, period, hbAge, processed, paused>>

-----------------------------------------------------------------------------
(* The server thread: mlrt_target_start, mlrt_target_handle_packet and       *)
(* mlrt_target_stop.  Requests that are refused, and STATUS_REQ and          *)
(* FW_INFO_REQ, change nothing.                                              *)

\* INIT, running and READY: no other thread exists yet.
StartBegin ==
  /\ Goto("server", "init", "create")
  /\ running' = TRUE /\ state' = "READY"
  /\ UNCHANGED <<timer, serverVars, sensorVars, workerVars, freeze, period, recoveries>>

CreateThread ==
  /\ pc["server"] = "create" /\ started < 3
  /\ started' = started + 1
  /\ pc' = [pc EXCEPT ![Order[started + 1]] = "loop"]
  /\ UNCHANGED <<timer, joined, ring, injections, resets, sensorVars, workerVars, controlVars>>

StartDone ==
  /\ started = 3
  /\ Goto("server", "create", "serve")
  /\ state' = "RUNNING"
  /\ UNCHANGED <<timer, serverVars, sensorVars, workerVars, running, freeze, period, recoveries>>

\* pthread_create fails: what was started is stopped and joined.
CreateFails ==
  /\ started < 3
  /\ Goto("server", "create", "unwind")
  /\ running' = FALSE
  /\ UNCHANGED <<timer, serverVars, sensorVars, workerVars, state, freeze, period, recoveries>>

StopBegin ==
  /\ \/ Goto("server", "serve", "stopping")
     \/ Goto("server", "failed", "stopping")
  /\ running' = FALSE
  /\ UNCHANGED <<timer, serverVars, sensorVars, workerVars, state, freeze, period, recoveries>>

CanJoin == joined < started /\ pc[Order[joined + 1]] = "done"

\* pthread_join, in the order of creation.
Join ==
  /\ pc["server"] \in {"unwind", "stopping"} /\ CanJoin
  /\ joined' = joined + 1
  /\ UNCHANGED <<pc, timer, started, ring, injections, resets, sensorVars, workerVars, controlVars>>

\* Fault: the sensor and the worker are joined and the watchdog is not.
AllJoinedButWatchdog == joined = (IF started = 3 THEN 2 ELSE started)
AllJoined == joined = started

StopDone ==
  /\ AllJoined
  /\ \/ Goto("server", "unwind", "failed") /\ ring' = ring
     \/ Goto("server", "stopping", "stopped") /\ ring' = "destroyed"
  /\ started' = 0 /\ joined' = 0
  /\ UNCHANGED <<timer, injections, resets, sensorVars, workerVars, controlVars>>

ConfigSet(p) ==
  /\ pc["server"] = "serve" /\ period' = p
  /\ UNCHANGED <<pc, timer, serverVars, sensorVars, workerVars, running, state, freeze, recoveries>>

FaultInject ==
  /\ pc["server"] = "serve" /\ injections < MaxInject
  /\ freeze' = FreezeLen /\ paused' = FALSE
  /\ injections' = injections + 1
  /\ UNCHANGED <<pc, timer, started, joined, ring, resets, sensorVars, running, state,
                 period, recoveries, hbAge, hbNew, acked, processed>>

\* reset_runtime, one store at a time.  crc_errors, started_ns and
\* last_processed_ns are only reported and are left out.
ResetInit ==
  /\ resets < MaxResets /\ resets' = resets + 1
  /\ Goto("server", "serve", "rProduced")
  /\ state' = "INIT"
  /\ UNCHANGED <<timer, started, joined, ring, injections, sensorVars, workerVars, running,
                 freeze, period, recoveries>>
ResetProduced ==
  /\ Goto("server", "rProduced", "rProcessed")
  /\ produced' = 0
  /\ UNCHANGED <<timer, serverVars, queue, samples, workerVars, controlVars>>

\* Fault: the processed samples are not cleared.
ResetProcessedKept ==
  /\ Goto("server", "rProcessed", "rRecoveries")
  /\ UNCHANGED <<timer, serverVars, sensorVars, workerVars, controlVars>>
ResetProcessed ==
  /\ Goto("server", "rProcessed", "rRecoveries")
  /\ processed' = 0
  /\ UNCHANGED <<timer, serverVars, sensorVars, hbAge, hbNew, acked, paused, controlVars>>
ResetRecoveries ==
  /\ Goto("server", "rRecoveries", "rFreeze")
  /\ recoveries' = 0
  /\ UNCHANGED <<timer, serverVars, sensorVars, workerVars, running, state, freeze, period>>
ResetFreeze ==
  /\ Goto("server", "rFreeze", "rHeartbeat")
  /\ freeze' = NoFreeze
  /\ UNCHANGED <<timer, serverVars, sensorVars, workerVars, running, state, period, recoveries>>

\* The heartbeat is refreshed for the worker; then 20 ms, less than a tick.
ResetHeartbeat ==
  /\ Goto("server", "rHeartbeat", "rRunning")
  /\ StoreHeartbeat
  /\ \E d \in {0, 1} : Sleep("server", d)
  /\ UNCHANGED <<serverVars, sensorVars, acked, processed, paused, controlVars>>

ResetRunning ==
  /\ Awake("server")
  /\ Goto("server", "rRunning", "serve")
  /\ state' = "RUNNING"
  /\ UNCHANGED <<timer, serverVars, sensorVars, workerVars, running, freeze, period, recoveries>>

ServerProgress ==
  /\ \/ StartBegin \/ CreateThread \/ StartDone \/ Join \/ StopDone \/ ResetProduced
     \/ ResetProcessed \/ ResetRecoveries \/ ResetFreeze \/ ResetHeartbeat \/ ResetRunning
  /\ UNCHANGED wdAge
ServerRequest ==
  /\ CreateFails \/ StopBegin \/ FaultInject \/ ResetInit \/ \E p \in Periods : ConfigSet(p)
  /\ UNCHANGED wdAge

-----------------------------------------------------------------------------
(* Time *)

\* Nothing to do for t until time passes, a request comes or another thread moves.
Waiting(t) ==
  \/ pc[t] \in {"idle", "done", "serve", "failed", "stopped"}
  \/ timer[t] > 0 /\ ~(pc[t] = "wait" /\ queue > 0)
  \/ pc[t] \in {"unwind", "stopping"} /\ ~CanJoin /\ ~AllJoined

Tick ==
  /\ Prompt => \A t \in Threads : Waiting(t)
  /\ timer' = [t \in Threads |-> IF timer[t] > 0 THEN timer[t] - 1 ELSE 0]
  /\ hbAge' = IF hbAge < AgeCap THEN hbAge + 1 ELSE hbAge
  /\ freeze' = IF freeze > 0 THEN freeze - 1 ELSE freeze
  /\ UNCHANGED <<pc, serverVars, sensorVars, running, state, period, recoveries, wdAge,
                 hbNew, acked, processed, paused>>

Next == SensorStep \/ WorkerStep \/ WatchdogStep \/ ServerProgress \/ ServerRequest \/ Tick

Spec == Init /\ [][Next]_vars

\* Every thread that can take a step does, and time passes.  Requests,
\* pthread_create failures and a stop are never forced.
Fairness ==
  /\ WF_vars(SensorStep) /\ WF_vars(WorkerStep) /\ WF_vars(WatchdogStep)
  /\ WF_vars(ServerProgress) /\ WF_vars(Tick)

FairSpec == Spec /\ Fairness

-----------------------------------------------------------------------------
(* Properties *)

ServerPcs == {"init", "create", "serve", "unwind", "failed", "stopping", "stopped",
              "rProduced", "rProcessed", "rRecoveries", "rFreeze", "rHeartbeat", "rRunning"}
ThreadPcs == {"idle", "done", "loop", "sleep", "wait", "clear", "count", "beat",
              "clock", "load", "decide", "release", "recover"}

\* Every variable keeps its type.
TypeOK ==
  /\ pc \in [Threads -> ServerPcs \cup ThreadPcs] /\ timer \in [Threads -> Nat]
  /\ started \in 0 .. 3 /\ joined \in 0 .. started
  /\ running \in BOOLEAN /\ hbNew \in BOOLEAN /\ acked \in BOOLEAN /\ paused \in BOOLEAN
  /\ state \in {"BOOT", "INIT", "READY", "RUNNING", "FAULT", "RECOVERY"}
  /\ freeze \in NoFreeze .. FreezeLen /\ hbAge \in 0 .. AgeCap /\ wdAge \in 0 .. AgeCap
  /\ period \in Periods /\ queue \in 0 .. QueueCap /\ ring \in {"live", "destroyed"}
  /\ produced \in Nat /\ processed \in Nat /\ recoveries \in 0 .. RecoveriesCap
  /\ samples \in Nat /\ injections \in Nat /\ resets \in Nat

Gone(t) == pc[t] \in {"idle", "done"}

\* mlrt_target_start returns an error, and mlrt_target_stop destroys the ring and
\* returns, only when no thread is left that could touch the context.
NoUseAfterStop ==
  ring = "destroyed" \/ pc["server"] \in {"failed", "stopped"}
    => \A k \in 1 .. 3 : Gone(Order[k])

\* While the target says RUNNING, the heartbeat is at most the threshold and one
\* watchdog period old: no stall goes unnoticed, whatever requests come meanwhile.
StallNoticed == state = "RUNNING" /\ running => hbAge <= FaultAge + WdTicks

\* "Liveness is independent of the configured sensor sampling rate": a worker
\* that was never frozen is never older than one timeout of wait_pop.
LowRateLiveness == running /\ injections = 0 => hbAge <= PopTicks

\* The status of a target counts no more processed samples than produced ones,
\* up to what was queued and in flight when a reset cleared the two counters
\* (between the two stores of the reset itself nothing can be said).
ProcessedBounded == pc["server"] # "rProcessed" => processed <= produced + QueueCap + 2

\* "The worker itself must acknowledge liveness before RUNNING": after a stall
\* the target is RUNNING again only when the worker has stored a heartbeat since.
\* That is so unless it was reset: a reset refreshes the heartbeat itself and
\* stores RUNNING while a recovery may be under way.
ConfirmedUnlessReset ==
  [][(state = "FAULT" \/ state = "RECOVERY") /\ state' = "RUNNING" /\ resets = 0
       => acked]_vars

\* A target that faulted runs again, or is stopped.
Recovers == state \in {"FAULT", "RECOVERY"} ~> state = "RUNNING" \/ ~running

\* mlrt_target_stop, and the error path of mlrt_target_start, join their threads.
StopReturns == pc["server"] \in {"stopping", "unwind"} ~> pc["server"] \in {"stopped", "failed"}

\* The first part of tests/test_target_runtime.c: no recovery is counted, and so
\* no fault was declared, while no fault was injected.
HealthyStaysRunning == injections = 0 => recoveries = 0

\* A freeze that was acknowledged pauses the worker: only a reset withdraws it.
FreezePauses == [][freeze > 0 /\ freeze' = NoFreeze /\ pc["server"] # "rFreeze" => paused]_vars
=============================================================================
