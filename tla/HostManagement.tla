--------------------------- MODULE HostManagement ---------------------------
(***************************************************************************)
(* The management controller of the host-management lab and the agent on   *)
(* the host: src/bmc.py and src/host_agent.py of                           *)
(* projects/host-management-qa-lab.                                        *)
(*                                                                         *)
(* Both serve every request in a thread of its own.  The controller's      *)
(* state is a Model object, the host's a HostState object; the lab reset   *)
(* replaces both by new ones, while other threads may hold the old one or  *)
(* its lock.  A thread reads the reference again for every statement that  *)
(* names it.  Locks are re-entrant.  Objects are numbered as they are      *)
(* made.                                                                   *)
(*                                                                         *)
(* A call of the agent gives up after a time-out; the agent does not learn *)
(* of that.  The requests that read the controller or its network settings *)
(* change nothing, but answer with the Model's lock held, and a write to   *)
(* the client has no time-out: they are here.  The other requests that     *)
(* only read hold no lock while they answer and are left out, as are the   *)
(* writes of answers outside a lock, TLS, and the texts of answers and     *)
(* events.                                                                 *)
(***************************************************************************)
EXTENDS Integers, Sequences, FiniteSets

CONSTANTS Handlers,     \* threads of the controller, one request each
          Mixes,        \* the requests they may be given, functions of Handlers
          LogSize       \* maxlen of the event log

VARIABLES request,      \* handler -> its request
          pc,           \* handler -> where it is
          status,       \* handler -> HTTP status, 0 before the answer
          model,        \* server.model, a number
          made,         \* Model objects made so far
          owner,        \* Model -> the thread that holds its lock
          generation, sequence, events, network,
          base,         \* handler -> Model whose lock the request holds
          ref,          \* handler -> Model it names in its statement
          loaded,       \* handler -> generation it read
          result,       \* handler -> what it answers
          job,          \* handler -> where its call of the agent is
          state,        \* the agent's server.state, a number
          power, boots, \* HostState -> its fields
          hostOwner,    \* HostState -> the job that holds its lock
          target,       \* handler -> HostState its job works on
          reply,        \* handler -> what the agent answered
          logged,       \* history: handlers whose event is in a log
          executed,     \* history: handlers whose reset the host carried out
          restarts,     \* history: Model -> how often its generation was written
          crossed       \* history: Models written without their lock

bmc == <<model, made, owner, generation, sequence, events, network>>
local == <<base, ref, loaded, result>>
agent == <<job, state, power, boots, hostOwner, target, reply, executed>>
vars == <<request, pc, status, bmc, local, agent, logged, restarts, crossed>>

Nobody == 0
Resets == {"On", "ForceOff", "ForceRestart"}
Requests ==
  [op : {"host_reset"}, type : Resets \cup {"bad"}, role : {"admin"}]
    \cup [op : {"bmc_reset", "set_network", "lab_reset"}, type : {"good"}, role : {"admin"}]
    \cup [op : {"bmc_reset"}, type : {"bad"}, role : {"admin", "viewer", "none"}]
    \cup [op : {"get"}, type : {"good"}, role : {"viewer"}]
Objects == 1 .. Cardinality(Handlers) + 1

ASSUME LogAssumption == LogSize \in Nat \ {0} /\ IsFiniteSet(Handlers) /\ 0 \notin Handlers
ASSUME MixAssumption == Mixes \subseteq [Handlers -> Requests]

Init ==
  /\ request \in Mixes
  /\ pc = [h \in Handlers |-> "authorize"] /\ status = [h \in Handlers |-> 0]
  /\ model = 1 /\ made = 1 /\ owner = [m \in Objects |-> Nobody]
  /\ generation = [m \in Objects |-> 1] /\ sequence = [m \in Objects |-> 0]
  /\ events = [m \in Objects |-> <<>>] /\ network = [m \in Objects |-> Nobody]
  /\ base = [h \in Handlers |-> 0] /\ ref = [h \in Handlers |-> 0]
  /\ loaded = [h \in Handlers |-> 0] /\ result = [h \in Handlers |-> <<>>]
  /\ job = [h \in Handlers |-> "none"] /\ state = 1
  /\ power = [s \in Objects |-> "On"] /\ boots = [s \in Objects |-> 1]
  /\ hostOwner = [s \in Objects |-> Nobody] /\ target = [h \in Handlers |-> 0]
  /\ reply = [h \in Handlers |-> <<>>]
  /\ logged = {} /\ executed = {} /\ crossed = {}
  /\ restarts = [m \in Objects |-> 0]

Go(h, from, to) == pc[h] = from /\ pc' = [pc EXCEPT ![h] = to]
Respond(h, from, code) == Go(h, from, "done") /\ status' = [status EXCEPT ![h] = code]

-----------------------------------------------------------------------------
(* The controller *)

\* authorize, then the checks of the body, all before anything is changed.
Check(h) ==
  /\ CASE request[h].role = "none" -> Respond(h, "authorize", 401)
       [] request[h].role = "viewer" /\ request[h].op # "get" -> Respond(h, "authorize", 403)
       [] request[h].type = "bad"  -> Respond(h, "authorize", 400)
       [] OTHER -> /\ Go(h, "authorize", CASE request[h].op = "get"         -> "get"
                                           [] request[h].op = "bmc_reset"   -> "lock"
                                           [] request[h].op = "set_network" -> "set"
                                           [] OTHER                         -> "call")
                   /\ UNCHANGED status
  /\ UNCHANGED <<request, bmc, local, agent, logged, restarts, crossed>>

\* agent: the call reaches the agent, or it does not.
Call(h) ==
  /\ Go(h, "call", "wait")
  /\ \E j \in {"queued", "lost"} : job' = [job EXCEPT ![h] = j]
  /\ UNCHANGED <<request, status, bmc, local, state, power, boots, hostOwner, target,
                 reply, executed, logged, restarts, crossed>>

\* Fault: the event is written before the agent's answer is looked at.
LogAnyway(h) == pc' = [pc EXCEPT ![h] = "event"] /\ UNCHANGED status
Unavailable(h) == pc' = [pc EXCEPT ![h] = "done"] /\ status' = [status EXCEPT ![h] = 503]

\* No answer within the time-out, or none at all.
TimeOut(h) ==
  /\ pc[h] = "wait" /\ job[h] # "replied"
  /\ Unavailable(h)
  /\ UNCHANGED <<request, bmc, local, agent, logged, restarts, crossed>>

Answered(h) ==
  /\ job[h] = "replied"
  /\ Go(h, "wait", IF request[h].op = "lab_reset" THEN "replace" ELSE "event")
  /\ result' = [result EXCEPT ![h] = reply[h]]
  /\ UNCHANGED <<request, status, bmc, base, ref, loaded, agent, logged, restarts, crossed>>

\* The lab reset: server.model = Model().
Replace(h) ==
  /\ Respond(h, "replace", 200)
  /\ model' = made + 1 /\ made' = made + 1
  /\ UNCHANGED <<request, owner, generation, sequence, events, network, local, agent,
                 logged, restarts, crossed>>

\* Faults: a plain lock, and none.
FreeLock(m, h) == owner[m] = Nobody
NoLock(m, h) == TRUE
CanLock(m, h) == owner[m] \in {Nobody, h}

\* server.model is read; the statement goes on with the object it names.
Refer(h, from, to) ==
  /\ Go(h, from, to)
  /\ ref' = [ref EXCEPT ![h] = model]
  /\ UNCHANGED <<request, status, bmc, base, loaded, result, agent, logged, restarts, crossed>>

\* with ... lock: the lock of the object named before, whatever server.model
\* has become, and kept for the block.
Take(h, from, to) ==
  /\ Go(h, from, to) /\ CanLock(ref[h], h)
  /\ owner' = [owner EXCEPT ![ref[h]] = h] /\ base' = [base EXCEPT ![h] = ref[h]]
  /\ UNCHANGED <<request, status, model, made, generation, sequence, events, network,
                 ref, loaded, result, agent, logged, restarts, crossed>>

\* do_GET of the controller and of its network: the answer is written to the
\* client before the lock is released.
GetRef(h) == Refer(h, "get", "getting")
GetLock(h) == Take(h, "getting", "sending")

\* The client has read the answer, or has gone.
Sent(h) ==
  /\ Respond(h, "sending", 200)
  /\ owner' = [owner EXCEPT ![base[h]] = Nobody] /\ base' = [base EXCEPT ![h] = 0]
  /\ UNCHANGED <<request, model, made, generation, sequence, events, network, ref, loaded,
                 result, agent, logged, restarts, crossed>>

\* with self.server.model.lock, of BMC_RESET.
LockRef(h) == Refer(h, "lock", "locking")
Lock(h) == Take(h, "locking", "load")

\* generation += 1 loads the reference once, and reads and writes in two steps.
Load(h) ==
  /\ Go(h, "load", "store")
  /\ ref' = [ref EXCEPT ![h] = model] /\ loaded' = [loaded EXCEPT ![h] = generation[model]]
  /\ UNCHANGED <<request, status, bmc, base, result, agent, logged, restarts, crossed>>

Store(h) ==
  /\ Go(h, "store", "event")
  /\ generation' = [generation EXCEPT ![ref[h]] = loaded[h] + 1]
  /\ restarts' = [restarts EXCEPT ![ref[h]] = @ + 1]
  /\ crossed' = IF owner[ref[h]] = h THEN crossed ELSE crossed \cup {ref[h]}
  /\ UNCHANGED <<request, status, model, made, owner, sequence, events, network, local,
                 agent, logged>>

\* set_network: the reference is loaded, and later the lock taken.
SetNetwork(h) == Refer(h, "set", "setting")

Configure(h) ==
  /\ Go(h, "setting", "number") /\ CanLock(ref[h], h)
  /\ owner' = [owner EXCEPT ![ref[h]] = h] /\ base' = [base EXCEPT ![h] = ref[h]]
  /\ network' = [network EXCEPT ![ref[h]] = h]
  /\ UNCHANGED <<request, status, model, made, generation, sequence, events, ref, loaded,
                 result, agent, logged, restarts, crossed>>

\* event, called on server.model: the reference is loaded, then the lock taken.
EventRef(h) == Refer(h, "event", "number")

EventNumber(h) ==
  /\ Go(h, "number", "append") /\ CanLock(ref[h], h)
  /\ owner' = [owner EXCEPT ![ref[h]] = h]
  /\ sequence' = [sequence EXCEPT ![ref[h]] = @ + 1]
  /\ UNCHANGED <<request, status, model, made, generation, events, network, local, agent,
                 logged, restarts, crossed>>

Kept(log) == IF Len(log) > LogSize THEN Tail(log) ELSE log

\* The entry is appended, the oldest dropped, and the lock released unless the
\* request holds it itself.
EventAppend(h) ==
  /\ Go(h, "append", "answer")
  /\ events' = [events EXCEPT ![ref[h]] = Kept(Append(@, sequence[ref[h]]))]
  /\ owner' = [owner EXCEPT ![ref[h]] = IF base[h] = ref[h] THEN h ELSE Nobody]
  /\ logged' = logged \cup {h}
  /\ UNCHANGED <<request, status, model, made, generation, sequence, network, local, agent,
                 restarts, crossed>>

\* The answer; BMC_RESET reads the generation once more and releases its lock.
Finish(h) ==
  /\ Respond(h, "answer", 200)
  /\ owner' = [m \in Objects |-> IF m = base[h] THEN Nobody ELSE owner[m]]
  /\ base' = [base EXCEPT ![h] = 0]
  /\ result' = IF request[h].op = "bmc_reset"
               THEN [result EXCEPT ![h] = <<model, generation[model]>>] ELSE result
  /\ UNCHANGED <<request, model, made, generation, sequence, events, network, ref, loaded,
                 agent, logged, restarts, crossed>>

-----------------------------------------------------------------------------
(* The agent *)

OnlyAgent == UNCHANGED <<request, pc, status, bmc, local, logged, restarts, crossed>>
JobGoes(h, from, to) == job[h] = from /\ job' = [job EXCEPT ![h] = to]

\* fixture-reset: server.state = HostState().
FixtureReset(h) ==
  /\ request[h].op = "lab_reset" /\ JobGoes(h, "queued", "replied")
  /\ state' = Cardinality({g \in executed : request[g].op = "lab_reset"}) + 2
  /\ executed' = executed \cup {h}
  /\ UNCHANGED <<power, boots, hostOwner, target, reply>> /\ OnlyAgent

\* server.state.reset: the reference, then the lock and the change, then the
\* snapshot and the release.
ResetRef(h) ==
  /\ request[h].op = "host_reset" /\ JobGoes(h, "queued", "called")
  /\ target' = [target EXCEPT ![h] = state]
  /\ UNCHANGED <<state, power, boots, hostOwner, reply, executed>> /\ OnlyAgent

\* Fault: the host's lock is not taken.
NoHostLock(s, h) == TRUE
HostLock(s, h) == hostOwner[s] \in {Nobody, h}

Reset(h) ==
  LET s == target[h]  type == request[h].type
  IN  /\ JobGoes(h, "called", "reset") /\ HostLock(s, h)
      /\ hostOwner' = [hostOwner EXCEPT ![s] = h]
      /\ boots' = [boots EXCEPT ![s] =
           IF type = "ForceRestart" \/ (type = "On" /\ power[s] = "Off") THEN @ + 1 ELSE @]
      /\ power' = [power EXCEPT ![s] = IF type = "ForceOff" THEN "Off" ELSE "On"]
      /\ executed' = executed \cup {h}
      /\ UNCHANGED <<state, target, reply>> /\ OnlyAgent

Snapshot(h) ==
  LET s == target[h]
  IN  /\ JobGoes(h, "reset", "replied")
      /\ hostOwner' = [hostOwner EXCEPT ![s] = Nobody]
      /\ reply' = [reply EXCEPT ![h] = <<power[s], boots[s]>>]
      /\ UNCHANGED <<state, power, boots, target, executed>> /\ OnlyAgent

-----------------------------------------------------------------------------
Thread(h) ==
  \/ Check(h) \/ Call(h) \/ TimeOut(h) \/ Answered(h) \/ Replace(h) \/ GetRef(h) \/ GetLock(h)
  \/ LockRef(h) \/ Lock(h) \/ Load(h) \/ Store(h) \/ SetNetwork(h) \/ Configure(h)
  \/ EventRef(h) \/ EventNumber(h) \/ EventAppend(h) \/ Finish(h)

Controller(h) == Thread(h) \/ Sent(h)

Agent(h) == FixtureReset(h) \/ ResetRef(h) \/ Reset(h) \/ Snapshot(h)

Next == \E h \in Handlers : Controller(h) \/ Agent(h)

\* Every thread of the controller runs, and its time-outs fire; of the agent
\* nothing is asked, nor of a client that an answer is sent to.
Spec == Init /\ [][Next]_vars /\ \A h \in Handlers : WF_vars(Thread(h))

-----------------------------------------------------------------------------
TypeOK ==
  /\ request \in [Handlers -> Requests]
  /\ status \in [Handlers -> {0, 200, 400, 401, 403, 503}]
  /\ made \in Objects /\ model \in 1 .. made
  /\ owner \in [Objects -> Handlers \cup {Nobody}]
  /\ generation \in [Objects -> Nat] /\ sequence \in [Objects -> Nat]
  /\ power \in [Objects -> {"On", "Off"}] /\ boots \in [Objects -> Nat]

HostResets == {h \in Handlers : request[h].op = "host_reset"}

\* The event log and the host agree but for time-outs: no event without a
\* reset the host carried out, and a reset without an event is still being
\* answered or was answered 503 (bmc.py 202 to 206).
AuditAgrees ==
  \A h \in HostResets :
    /\ h \in logged => h \in executed
    /\ h \in executed /\ h \notin logged => status[h] \in {0, 503}

\* A log holds the last LogSize event numbers, without gap or repetition, and
\* no restart is lost from the generation of a Model, unless a lab reset let
\* one be counted with the lock of the Model before (lines 37 to 40, 207 to
\* 210).
ModelConsistent ==
  \A m \in Objects : owner[m] = Nobody =>
    /\ LET n == IF sequence[m] < LogSize THEN sequence[m] ELSE LogSize
       IN  events[m] = [i \in 1 .. n |-> (sequence[m] - n) + i]
    /\ m \notin crossed => generation[m] = 1 + restarts[m]

\* A reset that is answered 200 shows the power state it asked for, whatever
\* other resets run: the snapshot is taken under the lock of the change
\* (host_agent.py 22 to 35).
OwnOutcome ==
  \A h \in HostResets : status[h] = 200 =>
    result[h][1] = IF request[h].type = "ForceOff" THEN "Off" ELSE "On"

\* The threads that wait for a lock another one holds.
Waits(h) == pc[h] \in {"getting", "locking", "setting", "number"}
              /\ owner[ref[h]] \notin {Nobody, h}

\* Stuck behind a client: the least set of threads with those that are sending
\* under a lock and those that wait for a thread in the set.
Behind(h) ==
  \A S \in SUBSET Handlers :
    (\A g \in Handlers : pc[g] = "sending" \/ (Waits(g) /\ owner[ref[g]] \in S) => g \in S)
      => h \in S

\* Every request ends, but for those behind a client that does not read its
\* answer (bmc.py 152 and 162: the lock is held for the write): no other thread
\* waits for a lock for ever, though events are written with another Model's
\* lock held, and a silent agent is given up on.
RequestsEnd == \A h \in Handlers : <>[](pc[h] = "done" \/ Behind(h))
=============================================================================
