------------------------ MODULE HostManagementProofs ------------------------
(***************************************************************************)
(* Proofs about module HostManagement, for any finite number of requests,  *)
(* every mix of them and every length of the event log.                    *)
(***************************************************************************)
EXTENDS HostManagement, FiniteSetTheorems, SequenceTheorems, TLAPS

-----------------------------------------------------------------------------
(* The inductive invariant *)

\* The values of the variables that TypeOK leaves out.
Locals ==
  /\ pc \in [Handlers -> {"authorize", "call", "wait", "replace", "get", "getting", "sending", "lock",
                          "locking", "load", "store", "set", "setting", "event", "number",
                          "append", "answer", "done"}]
  /\ job \in [Handlers -> {"none", "queued", "lost", "called", "reset", "replied"}]
  /\ base \in [Handlers -> Objects \cup {0}] /\ ref \in [Handlers -> Objects \cup {0}]
  /\ loaded \in [Handlers -> Nat]
  /\ state \in Objects /\ target \in [Handlers -> Objects \cup {0}]
  /\ hostOwner \in [Objects -> Handlers \cup {Nobody}]
  /\ restarts \in [Objects -> Nat] /\ logged \subseteq Handlers /\ executed \subseteq Handlers
  /\ DOMAIN events = Objects /\ DOMAIN result = Handlers /\ DOMAIN reply = Handlers

\* A request makes at most one Model: there is a number for each.
Running == {h \in Handlers : pc[h] # "done"}
Fresh == made + Cardinality(Running) <= Cardinality(Handlers) + 1

\* Where a request may be, by what it asks for.
Writing == {"event", "number", "append", "answer"}
Path(h) ==
  /\ request[h].op = "host_reset" => pc[h] \in {"authorize", "call", "wait", "done"} \cup Writing
  /\ request[h].op = "lab_reset" => pc[h] \in {"authorize", "call", "wait", "replace", "done"}
  /\ status[h] # 0 <=> pc[h] = "done"
  /\ pc[h] \in {"getting", "locking", "store", "setting", "number", "append"} => ref[h] \in Objects

Typed == TypeOK /\ Locals /\ Fresh /\ \A h \in Handlers : Path(h)

\* What a request and its call of the agent know of each other.
Wanted(h) == IF request[h].type = "ForceOff" THEN "Off" ELSE "On"
Through(h) == pc[h] \in Writing \/ status[h] = 200
Job(h) ==
  /\ pc[h] \in {"authorize", "call"} \/ status[h] \in {400, 401, 403} => job[h] = "none"
  /\ h \in logged => pc[h] = "answer" \/ status[h] = 200
  /\ h \in executed => job[h] \in {"reset", "replied"}
  /\ request[h].op = "host_reset" =>
       /\ job[h] \in {"reset", "replied"} => h \in executed
       /\ job[h] = "called" => target[h] \in Objects
       /\ Through(h) => job[h] = "replied"
       /\ pc[h] = "answer" \/ status[h] = 200 => h \in logged
  /\ job[h] \in {"called", "reset"} => request[h].op = "host_reset"

\* The host's lock is held from the change to the snapshot, so that the
\* snapshot shows the change.
Outcome(h) ==
  request[h].op = "host_reset" =>
    /\ job[h] = "reset" =>
         target[h] \in Objects /\ hostOwner[target[h]] = h /\ power[target[h]] = Wanted(h)
    /\ job[h] = "replied" => reply[h][1] = Wanted(h)
    /\ Through(h) => result[h] = reply[h]

\* The Model locks a request holds, and the generation it read under one.
Locks(h) ==
  /\ base[h] # 0 => pc[h] \in {"sending", "load", "store"} \cup Writing /\ owner[base[h]] = h
  /\ pc[h] = "sending" => base[h] # 0
  /\ pc[h] = "append" => owner[ref[h]] = h
  /\ pc[h] = "store" /\ owner[ref[h]] = h /\ ref[h] \notin crossed =>
       loaded[h] = generation[ref[h]]

\* The numbers a log holds when s events were written.
Numbers(s) ==
  LET n == IF s < LogSize THEN s ELSE LogSize IN [i \in 1 .. n |-> (s - n) + i]

\* Between taking its number and writing it the request keeps the lock, so at
\* most one number is missing from a log.
Appending(h, m) == pc[h] = "append" /\ ref[h] = m
Log(m) ==
  \/ /\ \E h \in Handlers : Appending(h, m)
     /\ sequence[m] > 0 /\ events[m] = Numbers(sequence[m] - 1)
  \/ /\ \A h \in Handlers : ~Appending(h, m)
     /\ events[m] = Numbers(sequence[m])

Restarts(m) == m \notin crossed => generation[m] = 1 + restarts[m]

IInv ==
  /\ Typed
  /\ \A h \in Handlers : Job(h) /\ Outcome(h) /\ Locks(h)
  /\ \A m \in Objects : Log(m) /\ Restarts(m)

-----------------------------------------------------------------------------
(* Facts about sizes and logs *)

\* There are finitely many requests, and one Model more.
LEMMA Sizes ==
  /\ Cardinality(Handlers) \in Nat /\ 1 \in Objects /\ Objects \subseteq Nat \ {0}
  /\ IsFiniteSet(Running) /\ Cardinality(Running) \in Nat
<1>1. IsFiniteSet(Handlers) /\ Cardinality(Handlers) \in Nat
  BY LogAssumption, FS_CardinalityType
<1>2. IsFiniteSet(Running) /\ Cardinality(Running) \in Nat
  BY <1>1, FS_Subset, FS_CardinalityType DEF Running
<1> QED  BY <1>1, <1>2 DEF Objects

\* A log that has one number appended, and its oldest dropped when it is full,
\* holds the last numbers again.
LEMMA NumbersGrow ==
  ASSUME NEW s \in Nat
  PROVE  Kept(Append(Numbers(s), s + 1)) = Numbers(s + 1)
<1> USE LogAssumption
<1> DEFINE n == IF s < LogSize THEN s ELSE LogSize
           log == Append(Numbers(s), s + 1)
<1>1. n \in Nat /\ n <= s /\ n <= LogSize  OBVIOUS
<1>2. Numbers(s) = [i \in 1 .. n |-> (s - n) + i]  BY DEF Numbers
<1>3. Numbers(s) \in Seq(Nat) /\ Len(Numbers(s)) = n
  <2>1. \A i \in 1 .. n : (s - n) + i \in Nat  BY <1>1
  <2> HIDE DEF n
  <2> QED  BY <1>1, <1>2, <2>1
<1>4. /\ log \in Seq(Nat) /\ Len(log) = n + 1
      /\ \A i \in 1 .. n + 1 : log[i] = (s - n) + i
  <2> HIDE DEF n
  <2>1. log \in Seq(Nat) /\ Len(log) = n + 1  BY <1>3
  <2>2. \A i \in 1 .. n + 1 : log[i] = IF i <= n THEN Numbers(s)[i] ELSE s + 1
    BY <1>1, <1>3
  <2>3. \A i \in 1 .. n : Numbers(s)[i] = (s - n) + i  BY <1>1, <1>2
  <2>4. \A i \in 1 .. n + 1 : log[i] = (s - n) + i  BY <1>1, <2>2, <2>3
  <2> QED  BY <2>1, <2>4
<1> HIDE DEF log
<1>5. CASE s < LogSize
  <2>1. Kept(log) = log  BY <1>4, <1>5 DEF Kept
  <2>2. Numbers(s + 1) = [i \in 1 .. s + 1 |-> i]
    <3>1. CASE s + 1 < LogSize
      <4>1. Numbers(s + 1) = [i \in 1 .. s + 1 |-> ((s + 1) - (s + 1)) + i]
        BY <3>1 DEF Numbers
      <4> QED  BY <4>1
    <3>2. CASE s + 1 = LogSize
      <4>1. Numbers(s + 1) = [i \in 1 .. LogSize |-> ((s + 1) - LogSize) + i]
        BY <3>2 DEF Numbers
      <4> QED  BY <3>2, <4>1
    <3> QED  BY <1>5, <3>1, <3>2
  <2>3. log = [i \in 1 .. s + 1 |-> i]  BY <1>4, <1>5
  <2> QED  BY <2>1, <2>2, <2>3 DEF log
<1>6. CASE s >= LogSize
  <2>1. n = LogSize /\ Len(log) = LogSize + 1  BY <1>4, <1>6
  <2>2. Kept(log) = Tail(log)  BY <2>1 DEF Kept
  <2>3. Numbers(s + 1) = [i \in 1 .. LogSize |-> ((s + 1) - LogSize) + i]
    BY <1>6 DEF Numbers
  <2>4. Tail(log) = [i \in 1 .. LogSize |-> log[i + 1]]
    <3>1. log # <<>>  BY <1>4, <2>1
    <3>2. /\ Tail(log) \in Seq(Nat) /\ Len(Tail(log)) = LogSize
          /\ \A i \in 1 .. LogSize : Tail(log)[i] = log[i + 1]
      BY <1>4, <2>1, <3>1, HeadTailProperties
    <3>3. Tail(log) \in [1 .. LogSize -> Nat]  BY <3>2, LenProperties
    <3> QED  BY <3>2, <3>3
  <2>5. \A i \in 1 .. LogSize : log[i + 1] = ((s + 1) - LogSize) + i
    <3> TAKE i \in 1 .. LogSize
    <3>1. i + 1 \in 1 .. n + 1  BY <2>1
    <3>2. log[i + 1] = (s - LogSize) + (i + 1)  BY <1>4, <2>1, <3>1
    <3> QED  BY <3>2
  <2> QED  BY <2>2, <2>3, <2>4, <2>5 DEF log
<1> QED  BY <1>5, <1>6

-----------------------------------------------------------------------------
(* Types, and what a step leaves alone *)

\* The invariant holds when the controller and the agent start.
LEMMA InitIInv == Init => IInv
<1> SUFFICES ASSUME Init PROVE IInv  OBVIOUS
<1> USE DEF Init
<1>1. Typed
  <2>1. TypeOK
    <3>1. request \in [Handlers -> Requests]  BY MixAssumption
    <3>2. made \in Objects /\ model \in 1 .. made  BY Sizes
    <3> QED  BY <3>1, <3>2 DEF TypeOK
  <2>2. Locals  BY Sizes DEF Locals
  <2>3. Fresh
    <3>1. Running = Handlers  BY DEF Running
    <3> QED  BY <3>1, Sizes DEF Fresh
  <2>4. \A h \in Handlers : Path(h)  BY DEF Path
  <2> QED  BY <2>1, <2>2, <2>3, <2>4 DEF Typed
<1>2. ASSUME NEW h \in Handlers PROVE Job(h) /\ Outcome(h) /\ Locks(h)
  BY DEF Job, Outcome, Locks, Through, Writing
<1>3. ASSUME NEW m \in Objects PROVE Log(m) /\ Restarts(m)
  <2>1. Numbers(0) = <<>>  BY LogAssumption DEF Numbers
  <2> QED  BY <2>1 DEF Log, Restarts, Appending
<1> QED  BY <1>1, <1>2, <1>3 DEF IInv

\* A step of one request, or of its call, changes nothing that belongs to
\* another.
Apart(g) ==
  /\ pc'[g] = pc[g] /\ status'[g] = status[g] /\ base'[g] = base[g] /\ ref'[g] = ref[g]
  /\ loaded'[g] = loaded[g] /\ result'[g] = result[g] /\ job'[g] = job[g]
  /\ target'[g] = target[g] /\ reply'[g] = reply[g]
  /\ (g \in logged' <=> g \in logged) /\ (g \in executed' <=> g \in executed)

\* A step of the controller is about one request.
LEMMA ControllerApart ==
  ASSUME Typed, NEW h \in Handlers, Controller(h), NEW g \in Handlers, g # h
  PROVE  Apart(g) /\ request' = request
<1> USE DEF Typed, TypeOK, Locals, Go, Respond, bmc, local, agent, Apart
<1>1. CASE Check(h)  BY <1>1 DEF Check
<1>2. CASE Call(h)  BY <1>2 DEF Call
<1>3. CASE TimeOut(h)  BY <1>3 DEF TimeOut, Unavailable
<1>4. CASE Answered(h)  BY <1>4 DEF Answered
<1>5. CASE Replace(h)  BY <1>5 DEF Replace
<1>6. CASE Lock(h)  BY <1>6 DEF Lock, Take
<1>7. CASE Load(h)  BY <1>7 DEF Load
<1>8. CASE Store(h)  BY <1>8 DEF Store
<1>9. CASE SetNetwork(h)  BY <1>9 DEF SetNetwork, Refer
<1>10. CASE Configure(h)  BY <1>10 DEF Configure
<1>11. CASE EventRef(h)  BY <1>11 DEF EventRef, Refer
<1>12. CASE EventNumber(h)  BY <1>12 DEF EventNumber
<1>13. CASE EventAppend(h)  BY <1>13 DEF EventAppend
<1>14. CASE Finish(h)  BY <1>14 DEF Finish
<1>15. CASE GetRef(h)  BY <1>15 DEF GetRef, Refer
<1>16. CASE GetLock(h)  BY <1>16 DEF GetLock, Take
<1>17. CASE Sent(h)  BY <1>17 DEF Sent
<1>18. CASE LockRef(h)  BY <1>18 DEF LockRef, Refer
<1> QED  BY <1>1, <1>2, <1>3, <1>4, <1>5, <1>6, <1>7, <1>8, <1>9, <1>10, <1>11, <1>12,
            <1>13, <1>14, <1>15, <1>16, <1>17, <1>18 DEF Controller, Thread

\* A step of the agent is about one call.
LEMMA AgentApart ==
  ASSUME Typed, NEW h \in Handlers, Agent(h), NEW g \in Handlers, g # h
  PROVE  Apart(g) /\ request' = request
<1> USE DEF Typed, TypeOK, Locals, JobGoes, OnlyAgent, bmc, local, Apart
<1>1. CASE FixtureReset(h)  BY <1>1 DEF FixtureReset
<1>2. CASE ResetRef(h)  BY <1>2 DEF ResetRef
<1>3. CASE Reset(h)  BY <1>3 DEF Reset
<1>4. CASE Snapshot(h)  BY <1>4 DEF Snapshot
<1> QED  BY <1>1, <1>2, <1>3, <1>4 DEF Agent

\* A request that ends makes room for a Model; no other is made.
LEMMA FreshKept ==
  ASSUME Typed, made' = made, \A g \in Handlers : pc[g] = "done" => pc'[g] = "done"
  PROVE  Fresh'
<1>1. Running' \subseteq Running  BY DEF Running
<1>2. Cardinality(Running') <= Cardinality(Running) /\ Cardinality(Running') \in Nat
  BY <1>1, Sizes, FS_Subset, FS_CardinalityType
<1> QED  BY <1>2, Sizes DEF Typed, TypeOK, Fresh, Objects

\* The lab reset always finds a number for its Model.
LEMMA ReplaceFresh ==
  ASSUME Typed, NEW h \in Handlers, Replace(h)
  PROVE  made' \in Objects /\ model' = made' /\ Fresh'
<1>0. made \in Nat /\ made >= 1 /\ made' = made + 1 /\ model' = made + 1
  BY Sizes DEF Typed, TypeOK, Replace, Objects
<1>1. Running' = Running \ {h} /\ h \in Running
  BY DEF Running, Replace, Respond, Go, Typed, Locals
<1>2. Cardinality(Running') = Cardinality(Running) - 1 /\ Cardinality(Running) >= 1
  <2>1. Cardinality(Running') = Cardinality(Running) - 1  BY <1>1, Sizes, FS_RemoveElement
  <2>2. Cardinality(Running) # 0  BY <1>1, Sizes, FS_EmptySet
  <2> QED  BY <2>1, <2>2, Sizes
<1>3. made + Cardinality(Running) <= Cardinality(Handlers) + 1  BY DEF Typed, Fresh
<1>4. made' \in Objects  BY <1>0, <1>2, <1>3, Sizes DEF Objects
<1>5. Fresh'  BY <1>0, <1>2, <1>3, Sizes DEF Fresh
<1> QED  BY <1>0, <1>4, <1>5

\* The fixture reset always finds a number for its HostState.
LEMMA StateFresh ==
  ASSUME Typed, NEW h \in Handlers, h \notin executed, FixtureReset(h)
  PROVE  state' \in Objects
<1> DEFINE before == {g \in executed : request[g].op = "lab_reset"}
<1>1. before \subseteq Handlers \ {h}  BY DEF Typed, Locals
<1>2. IsFiniteSet(Handlers \ {h}) /\ Cardinality(Handlers \ {h}) = Cardinality(Handlers) - 1
  BY LogAssumption, FS_RemoveElement
<1>3. Cardinality(before) \in Nat /\ Cardinality(before) <= Cardinality(Handlers) - 1
  <2>1. IsFiniteSet(before) /\ Cardinality(before) <= Cardinality(Handlers \ {h})
    BY <1>1, <1>2, FS_Subset
  <2> QED  BY <1>2, <2>1, FS_CardinalityType
<1>4. state' = Cardinality(before) + 2  BY DEF FixtureReset
<1> HIDE DEF before
<1> QED  BY <1>3, <1>4, Sizes DEF Objects

\* A step of the controller keeps the types and goes along its path.
LEMMA ControllerTyped == ASSUME Typed, NEW h \in Handlers, Controller(h) PROVE Typed'
<1>0. TypeOK /\ Locals /\ Path(h) /\ model \in Objects
  BY Sizes DEF Typed, TypeOK, Objects
<1>1. \A g \in Handlers \ {h} : Path(g)'
  BY ControllerApart DEF Typed, Path, Apart
<1>s. \A m \in Objects : sequence[m] + 1 \in Nat  BY <1>0 DEF TypeOK
<1>r. loaded[h] + 1 \in Nat /\ \A m \in Objects : restarts[m] + 1 \in Nat  BY <1>0 DEF Locals
<1> USE <1>0 DEF TypeOK, Locals, Go, Respond, bmc, local, agent
<1>2. CASE Replace(h)
  <2>1. made' \in Objects /\ model' = made' /\ Fresh'  BY <1>2, ReplaceFresh
  <2>2. TypeOK'
    <3>1. model' \in 1 .. made'  BY <2>1, Sizes
    <3> QED  BY <1>2, <2>1, <3>1 DEF Replace
  <2>3. Locals'  BY <1>2 DEF Replace
  <2>4. Path(h)'  BY <1>2 DEF Path, Replace
  <2> QED  BY <1>1, <2>1, <2>2, <2>3, <2>4 DEF Typed
<1>3. ASSUME made' = made, pc[h] = "done" => pc'[h] = "done",
             TypeOK', Locals', Path(h)'
      PROVE  Typed'
  <2>1. \A g \in Handlers : pc[g] = "done" => pc'[g] = "done"
    BY <1>3, ControllerApart DEF Apart
  <2> QED  BY <1>1, <1>3, <2>1, FreshKept DEF Typed
<1>4. CASE Check(h)
  <2>1. TypeOK'  BY <1>4 DEF Check
  <2>2. Locals'  BY <1>4 DEF Check
  <2>3. Path(h)'
    <3>1. request[h] \in Requests  OBVIOUS
    <3> QED  BY <1>4, <3>1 DEF Check, Path, Requests
  <2> QED  BY <1>3, <1>4, <2>1, <2>2, <2>3 DEF Check
<1>5. CASE Call(h)
  <2>1. TypeOK' /\ Locals'  BY <1>5 DEF Call
  <2>2. Path(h)'  BY <1>5 DEF Call, Path
  <2> QED  BY <1>3, <1>5, <2>1, <2>2 DEF Call
<1>6. CASE TimeOut(h)
  <2>1. TypeOK' /\ Locals'  BY <1>6 DEF TimeOut, Unavailable
  <2>2. Path(h)'  BY <1>6 DEF TimeOut, Unavailable, Path
  <2> QED  BY <1>3, <1>6, <2>1, <2>2 DEF TimeOut
<1>7. CASE Answered(h)
  <2>1. TypeOK' /\ Locals'  BY <1>7 DEF Answered
  <2>2. Path(h)'  BY <1>7 DEF Answered, Path, Writing
  <2> QED  BY <1>3, <1>7, <2>1, <2>2 DEF Answered
<1>8. CASE Lock(h)
  <2>0. ref[h] \in Objects  BY <1>8 DEF Lock, Take, Path
  <2>1. TypeOK' /\ Locals'  BY <1>8, <2>0 DEF Lock, Take
  <2>2. Path(h)'  BY <1>8 DEF Lock, Take, Path, Writing
  <2> QED  BY <1>3, <1>8, <2>1, <2>2 DEF Lock, Take
<1>9. CASE Load(h)
  <2>1. TypeOK' /\ Locals'  BY <1>9 DEF Load
  <2>2. Path(h)'  BY <1>9 DEF Load, Path, Writing
  <2> QED  BY <1>3, <1>9, <2>1, <2>2 DEF Load
<1>10. CASE Store(h)
  <2>0. ref[h] \in Objects  BY <1>10 DEF Store, Path
  <2>g. generation' \in [Objects -> Nat] /\ restarts' \in [Objects -> Nat]
    <3>1. loaded[h] + 1 \in Nat /\ restarts[ref[h]] + 1 \in Nat  BY <2>0, <1>r
    <3> QED  BY <1>10, <2>0, <3>1 DEF Store
  <2>1. TypeOK' /\ Locals'  BY <1>10, <2>g DEF Store
  <2>2. Path(h)'  BY <1>10 DEF Store, Path, Writing
  <2> QED  BY <1>3, <1>10, <2>1, <2>2 DEF Store
<1>11. CASE SetNetwork(h)
  <2>1. TypeOK' /\ Locals'  BY <1>11 DEF SetNetwork, Refer
  <2>2. Path(h)'  BY <1>11 DEF SetNetwork, Refer, Path, Writing
  <2> QED  BY <1>3, <1>11, <2>1, <2>2 DEF SetNetwork, Refer
<1>12. CASE Configure(h)
  <2>0. ref[h] \in Objects  BY <1>12 DEF Configure, Path
  <2>1. TypeOK' /\ Locals'  BY <1>12, <2>0 DEF Configure
  <2>2. Path(h)'  BY <1>12 DEF Configure, Path, Writing
  <2> QED  BY <1>3, <1>12, <2>1, <2>2 DEF Configure
<1>13. CASE EventRef(h)
  <2>1. TypeOK' /\ Locals'  BY <1>13 DEF EventRef, Refer
  <2>2. Path(h)'  BY <1>13 DEF EventRef, Refer, Path, Writing
  <2> QED  BY <1>3, <1>13, <2>1, <2>2 DEF EventRef, Refer
<1>14. CASE EventNumber(h)
  <2>0. ref[h] \in Objects  BY <1>14 DEF EventNumber, Path
  <2>a. sequence' \in [Objects -> Nat]
    <3>1. sequence[ref[h]] + 1 \in Nat  BY <2>0, <1>s
    <3> QED  BY <1>14, <3>1 DEF EventNumber
  <2>b. owner' \in [Objects -> Handlers \cup {Nobody}]  BY <1>14 DEF EventNumber
  <2>1. TypeOK' /\ Locals'  BY <1>14, <2>a, <2>b DEF EventNumber
  <2>2. Path(h)'  BY <1>14 DEF EventNumber, Path, Writing
  <2> QED  BY <1>3, <1>14, <2>1, <2>2 DEF EventNumber
<1>15. CASE EventAppend(h)
  <2>0. ref[h] \in Objects  BY <1>15 DEF EventAppend, Path
  <2>1. TypeOK'  BY <1>15, <2>0 DEF EventAppend, Nobody
  <2>a. DOMAIN events' = Objects  BY <1>15 DEF EventAppend
  <2>b. Locals'  BY <1>15, <2>a DEF EventAppend
  <2>2. Path(h)'  BY <1>15 DEF EventAppend, Path, Writing
  <2> QED  BY <1>3, <1>15, <2>1, <2>2, <2>b DEF EventAppend
<1>16. CASE Finish(h)
  <2>1. TypeOK' /\ Locals'  BY <1>16 DEF Finish
  <2>2. Path(h)'  BY <1>16 DEF Finish, Path, Writing
  <2> QED  BY <1>3, <1>16, <2>1, <2>2 DEF Finish
<1>17. CASE GetRef(h)
  <2>1. TypeOK' /\ Locals'  BY <1>17 DEF GetRef, Refer
  <2>2. Path(h)'  BY <1>17 DEF GetRef, Refer, Path, Writing
  <2> QED  BY <1>3, <1>17, <2>1, <2>2 DEF GetRef, Refer
<1>18. CASE GetLock(h)
  <2>0. ref[h] \in Objects  BY <1>18 DEF GetLock, Take, Path
  <2>1. TypeOK' /\ Locals'  BY <1>18, <2>0 DEF GetLock, Take
  <2>2. Path(h)'  BY <1>18 DEF GetLock, Take, Path, Writing
  <2> QED  BY <1>3, <1>18, <2>1, <2>2 DEF GetLock, Take
<1>19. CASE Sent(h)
  <2>1. TypeOK' /\ Locals'  BY <1>19 DEF Sent, Nobody
  <2>2. Path(h)'  BY <1>19 DEF Sent, Path, Writing
  <2> QED  BY <1>3, <1>19, <2>1, <2>2 DEF Sent
<1>20. CASE LockRef(h)
  <2>1. TypeOK' /\ Locals'  BY <1>20 DEF LockRef, Refer
  <2>2. Path(h)'  BY <1>20 DEF LockRef, Refer, Path, Writing
  <2> QED  BY <1>3, <1>20, <2>1, <2>2 DEF LockRef, Refer
<1> QED  BY <1>2, <1>4, <1>5, <1>6, <1>7, <1>8, <1>9, <1>10, <1>11, <1>12, <1>13, <1>14,
            <1>15, <1>16, <1>17, <1>18, <1>19, <1>20 DEF Controller, Thread

\* A step of the agent keeps the types.
LEMMA AgentTyped == ASSUME Typed, NEW h \in Handlers, Job(h), Agent(h) PROVE Typed'
<1>0. TypeOK /\ Locals  BY DEF Typed
<1>1. UNCHANGED <<request, pc, status, bmc, local, logged, restarts, crossed>>
  BY DEF Agent, FixtureReset, ResetRef, Reset, Snapshot, OnlyAgent
<1>2. \A g \in Handlers : Path(g)'  BY <1>1 DEF Typed, Path, local
<1>3. Fresh'  BY <1>1, FreshKept DEF bmc
<1> USE <1>0, <1>1 DEF TypeOK, Locals, bmc, local, JobGoes
<1>4. TypeOK' /\ Locals'
  <2>1. CASE FixtureReset(h)
    <3>1. h \notin executed  BY <2>1 DEF FixtureReset, Job
    <3>2. state' \in Objects  BY <2>1, <3>1, StateFresh
    <3> QED  BY <2>1, <3>2 DEF FixtureReset
  <2>2. CASE ResetRef(h)  BY <2>2 DEF ResetRef
  <2>3. CASE Reset(h)
    <3>0. target[h] \in Objects  BY <2>3 DEF Reset, Job
    <3>1. TypeOK'  BY <2>3, <3>0 DEF Reset
    <3>2. Locals'  BY <2>3, <3>0 DEF Reset
    <3> QED  BY <3>1, <3>2
  <2>4. CASE Snapshot(h)  BY <2>4 DEF Snapshot
  <2> QED  BY <2>1, <2>2, <2>3, <2>4 DEF Agent
<1> QED  BY <1>2, <1>3, <1>4 DEF Typed

-----------------------------------------------------------------------------
(* A request and its call of the agent *)

\* The controller logs, and answers, only what the agent has answered.
LEMMA ControllerJob ==
  ASSUME Typed, NEW h \in Handlers, Job(h), Controller(h)
  PROVE  Job(h)'
<1>0. TypeOK /\ Locals /\ Path(h)  BY DEF Typed
<1>1. request[h] \in Requests  BY <1>0 DEF TypeOK
<1> USE <1>0, <1>1 DEF TypeOK, Locals, Path, Go, Respond, bmc, local, agent, Job, Through, Writing
<1>2. CASE Check(h)  BY <1>2 DEF Check, Requests
<1>3. CASE Call(h)  BY <1>3 DEF Call
<1>4. CASE TimeOut(h)  BY <1>4 DEF TimeOut, Unavailable
<1>5. CASE Answered(h)  BY <1>5 DEF Answered
<1>6. CASE Replace(h)  BY <1>6 DEF Replace
<1>7. CASE Lock(h)  BY <1>7 DEF Lock, Take
<1>8. CASE Load(h)  BY <1>8 DEF Load
<1>9. CASE Store(h)  BY <1>9 DEF Store
<1>10. CASE SetNetwork(h)  BY <1>10 DEF SetNetwork, Refer
<1>11. CASE Configure(h)  BY <1>11 DEF Configure
<1>12. CASE EventRef(h)  BY <1>12 DEF EventRef, Refer
<1>13. CASE EventNumber(h)  BY <1>13 DEF EventNumber
<1>14. CASE EventAppend(h)  BY <1>14 DEF EventAppend
<1>15. CASE Finish(h)  BY <1>15 DEF Finish
<1>16. CASE GetRef(h)  BY <1>16 DEF GetRef, Refer
<1>17. CASE GetLock(h)  BY <1>17 DEF GetLock, Take
<1>18. CASE Sent(h)  BY <1>18 DEF Sent
<1>19. CASE LockRef(h)  BY <1>19 DEF LockRef, Refer
<1> QED  BY <1>2, <1>3, <1>4, <1>5, <1>6, <1>7, <1>8, <1>9, <1>10, <1>11, <1>12, <1>13,
            <1>14, <1>15, <1>16, <1>17, <1>18, <1>19 DEF Controller, Thread

\* A reset is executed when the agent's job has made its change.
LEMMA AgentJob ==
  ASSUME Typed, NEW h \in Handlers, Job(h), Agent(h)
  PROVE  Job(h)'
<1>0. TypeOK /\ Locals /\ Path(h)  BY DEF Typed
<1> USE <1>0 DEF TypeOK, Locals, Path, JobGoes, OnlyAgent, bmc, local, Job, Through, Writing
<1>1. CASE FixtureReset(h)  BY <1>1 DEF FixtureReset
<1>2. CASE ResetRef(h)  BY <1>2 DEF ResetRef
<1>3. CASE Reset(h)  BY <1>3 DEF Reset
<1>4. CASE Snapshot(h)  BY <1>4 DEF Snapshot
<1> QED  BY <1>1, <1>2, <1>3, <1>4 DEF Agent

\* The controller answers what the agent replied.
LEMMA ControllerOutcome ==
  ASSUME Typed, NEW h \in Handlers, Job(h), Outcome(h), Controller(h)
  PROVE  Outcome(h)'
<1>0. TypeOK /\ Locals /\ Path(h)  BY DEF Typed
<1>1. request[h] \in Requests  BY <1>0 DEF TypeOK
<1>2. UNCHANGED <<power, hostOwner, target, reply>>
  BY DEF Controller, Thread, Check, Call, TimeOut, Answered, Replace, GetRef, GetLock, Sent,
         LockRef, Lock, Refer, Take, Load, Store, SetNetwork, Configure, EventRef, EventNumber,
         EventAppend, Finish, agent
<1> USE <1>0, <1>1, <1>2 DEF TypeOK, Locals, Path, Go, Respond, bmc, local, agent, Job, Outcome,
        Wanted, Through, Writing
<1>3. CASE Check(h)  BY <1>3 DEF Check, Requests
<1>4. CASE Call(h)  BY <1>4 DEF Call
<1>5. CASE TimeOut(h)  BY <1>5 DEF TimeOut, Unavailable
<1>6. CASE Answered(h)  BY <1>6 DEF Answered
<1>7. CASE Replace(h)  BY <1>7 DEF Replace
<1>8. CASE Lock(h)  BY <1>8 DEF Lock, Take
<1>9. CASE Load(h)  BY <1>9 DEF Load
<1>10. CASE Store(h)  BY <1>10 DEF Store
<1>11. CASE SetNetwork(h)  BY <1>11 DEF SetNetwork, Refer
<1>12. CASE Configure(h)  BY <1>12 DEF Configure
<1>13. CASE EventRef(h)  BY <1>13 DEF EventRef, Refer
<1>14. CASE EventNumber(h)  BY <1>14 DEF EventNumber
<1>15. CASE EventAppend(h)  BY <1>15 DEF EventAppend
<1>16. CASE Finish(h)  BY <1>16 DEF Finish
<1>17. CASE GetRef(h)  BY <1>17 DEF GetRef, Refer
<1>18. CASE GetLock(h)  BY <1>18 DEF GetLock, Take
<1>19. CASE Sent(h)  BY <1>19 DEF Sent
<1>20. CASE LockRef(h)  BY <1>20 DEF LockRef, Refer
<1> QED  BY <1>3, <1>4, <1>5, <1>6, <1>7, <1>8, <1>9, <1>10, <1>11, <1>12, <1>13, <1>14,
            <1>15, <1>16, <1>17, <1>18, <1>19, <1>20 DEF Controller, Thread

\* Nobody changes the host between another job's change and its snapshot.
LEMMA AgentOutcome ==
  ASSUME Typed, NEW h \in Handlers, Agent(h), \A g \in Handlers : Job(g) /\ Outcome(g)
  PROVE  \A g \in Handlers : Outcome(g)'
<1>0. TypeOK /\ Locals /\ Path(h) /\ Job(h) /\ Outcome(h)  BY DEF Typed
<1>1. UNCHANGED <<request, pc, status, result>>
  BY DEF Agent, FixtureReset, ResetRef, Reset, Snapshot, OnlyAgent, local
<1>2. Outcome(h)'
  <2> USE <1>0, <1>1 DEF TypeOK, Locals, Path, JobGoes, Job, Outcome, Wanted, Through, Writing
  <2>1. CASE FixtureReset(h)  BY <2>1 DEF FixtureReset
  <2>2. CASE ResetRef(h)  BY <2>2 DEF ResetRef
  <2>3. CASE Reset(h)  BY <2>3 DEF Reset
  <2>4. CASE Snapshot(h)
    <3>1. reply'[h][1] = power[target[h]]  BY <2>4 DEF Snapshot
    <3> QED  BY <2>4, <3>1 DEF Snapshot
  <2> QED  BY <2>1, <2>2, <2>3, <2>4 DEF Agent
<1>3. ASSUME NEW g \in Handlers, g # h PROVE Outcome(g)'
  <2>0. Outcome(g) /\ Apart(g) /\ g # Nobody /\ request' = request
    BY <1>3, AgentApart, LogAssumption DEF Nobody
  <2>1. ASSUME job[g] = "reset", request[g].op = "host_reset"
        PROVE  hostOwner'[target[g]] = g /\ power'[target[g]] = power[target[g]]
    <3>0. target[g] \in Objects /\ hostOwner[target[g]] = g  BY <2>0, <2>1 DEF Outcome
    <3>1. CASE FixtureReset(h) \/ ResetRef(h)
      BY <3>0, <3>1 DEF FixtureReset, ResetRef
    <3>2. CASE Reset(h)
      <4>1. target[h] # target[g]  BY <1>3, <2>0, <3>0, <3>2 DEF Reset, HostLock
      <4> QED  BY <1>0, <3>0, <3>2, <4>1 DEF Reset, TypeOK, Locals
    <3>3. CASE Snapshot(h)
      <4>1. hostOwner[target[h]] = h  BY <1>0, <3>3 DEF Snapshot, JobGoes, Job, Outcome
      <4>2. target[h] # target[g]  BY <1>3, <3>0, <4>1
      <4> QED  BY <1>0, <3>0, <3>3, <4>2 DEF Snapshot, TypeOK, Locals
    <3> QED  BY <3>1, <3>2, <3>3 DEF Agent
  <2> QED  BY <2>0, <2>1 DEF Outcome, Apart, Wanted, Through
<1> QED  BY <1>2, <1>3

-----------------------------------------------------------------------------
(* The locks of the Models *)

\* A request takes only a lock that is free or its own, and releases only its
\* own.
LEMMA OwnersKept ==
  ASSUME Typed, NEW h \in Handlers, Locks(h), Controller(h),
         NEW m \in Objects, NEW g \in Handlers, g # h
  PROVE  owner'[m] = g <=> owner[m] = g
<1>0. TypeOK /\ Locals /\ Path(h) /\ g # Nobody  BY LogAssumption DEF Typed, Nobody
<1> USE <1>0 DEF TypeOK, Locals, Path, Go, bmc
<1>1. CASE UNCHANGED owner  BY <1>1
<1>2. CASE Lock(h) \/ GetLock(h)  BY <1>2 DEF Lock, GetLock, Take, CanLock
<1>3. CASE Configure(h)  BY <1>3 DEF Configure, CanLock
<1>4. CASE EventNumber(h)  BY <1>4 DEF EventNumber, CanLock
<1>5. CASE EventAppend(h)  BY <1>5 DEF EventAppend, Locks
<1>6. CASE Finish(h)
  <2>1. base[h] = m => owner[m] = h  BY Sizes DEF Locks
  <2> QED  BY <1>6, <2>1 DEF Finish
<1>7. CASE Sent(h)  BY <1>7 DEF Sent, Respond, Locks
<1> QED  BY <1>1, <1>2, <1>3, <1>4, <1>5, <1>6, <1>7
         DEF Controller, Thread, Check, Call, TimeOut, Answered, Replace, GetRef, LockRef, Refer,
             Load, Store, SetNetwork, EventRef

\* The request that steps holds the locks its place requires.
LEMMA ActorLocks ==
  ASSUME Typed, NEW h \in Handlers, Locks(h), Controller(h)
  PROVE  Locks(h)'
<1>0. TypeOK /\ Locals /\ Path(h)  BY DEF Typed
<1>1. model \in Objects /\ 0 \notin Objects  BY <1>0, Sizes DEF TypeOK, Objects
<1> USE <1>0, <1>1 DEF TypeOK, Locals, Path, Go, Respond, bmc, local, Locks, Writing
<1>2. CASE Check(h)  BY <1>2 DEF Check, Requests
<1>3. CASE Call(h)  BY <1>3 DEF Call
<1>4. CASE TimeOut(h)  BY <1>4 DEF TimeOut, Unavailable
<1>5. CASE Answered(h)  BY <1>5 DEF Answered
<1>6. CASE Replace(h)  BY <1>6 DEF Replace
<1>7. CASE Lock(h)  BY <1>7 DEF Lock, Take
<1>8. CASE Load(h)  BY <1>8 DEF Load
<1>9. CASE Store(h)  BY <1>9 DEF Store
<1>10. CASE SetNetwork(h)  BY <1>10 DEF SetNetwork, Refer
<1>11. CASE Configure(h)  BY <1>11 DEF Configure
<1>12. CASE EventRef(h)  BY <1>12 DEF EventRef, Refer
<1>13. CASE EventNumber(h)  BY <1>13 DEF EventNumber
<1>14. CASE EventAppend(h)  BY <1>14 DEF EventAppend
<1>15. CASE Finish(h)  BY <1>15 DEF Finish
<1>16. CASE GetRef(h)  BY <1>16 DEF GetRef, Refer
<1>17. CASE GetLock(h)  BY <1>17 DEF GetLock, Take
<1>18. CASE Sent(h)  BY <1>18 DEF Sent
<1>19. CASE LockRef(h)  BY <1>19 DEF LockRef, Refer
<1> QED  BY <1>2, <1>3, <1>4, <1>5, <1>6, <1>7, <1>8, <1>9, <1>10, <1>11, <1>12, <1>13,
            <1>14, <1>15, <1>16, <1>17, <1>18, <1>19 DEF Controller, Thread

\* The others keep theirs; a generation read under a lock stays right unless
\* somebody without the lock writes it.
LEMMA OthersLocks ==
  ASSUME Typed, NEW h \in Handlers, Locks(h), Controller(h),
         NEW g \in Handlers, g # h, Locks(g)
  PROVE  Locks(g)'
<1>0. TypeOK /\ Locals /\ Path(h) /\ Path(g)  BY DEF Typed
<1>1. Apart(g)  BY ControllerApart
<1>2. \A m \in Objects : owner'[m] = g <=> owner[m] = g  BY OwnersKept
<1>3. base[g] # 0 => base[g] \in Objects  BY <1>0 DEF Locals
<1>4. pc[g] \in {"append", "store"} => ref[g] \in Objects  BY <1>0 DEF Path
<1>5. ASSUME pc[g] = "store", owner[ref[g]] = g, ref[g] \notin crossed'
      PROVE  loaded[g] = generation'[ref[g]]
  <2>1. CASE Store(h)
    <3>1. ref[h] # ref[g] /\ ref[g] \notin crossed  BY <1>5, <2>1 DEF Store
    <3>2. generation'[ref[g]] = generation[ref[g]]
      BY <1>0, <1>4, <1>5, <2>1, <3>1 DEF Store, TypeOK
    <3> QED  BY <1>5, <3>1, <3>2 DEF Locks
  <2>2. CASE UNCHANGED <<generation, crossed>>  BY <1>5, <2>2 DEF Locks
  <2> QED  BY <2>1, <2>2
      DEF Controller, Thread, Check, Call, TimeOut, Answered, Replace, GetRef, GetLock, Sent,
          LockRef, Lock, Refer, Take, Load, SetNetwork, Configure, EventRef, EventNumber,
          EventAppend, Finish, bmc
<1> QED  BY <1>1, <1>2, <1>3, <1>4, <1>5 DEF Locks, Apart

-----------------------------------------------------------------------------
(* The logs and the generations *)

\* Under its lock a log is missing no number but the one about to be written.
LEMMA LogKept ==
  ASSUME Typed, NEW h \in Handlers, Controller(h), \A g \in Handlers : Locks(g),
         NEW m \in Objects, Log(m)
  PROVE  Log(m)'
<1>0. TypeOK /\ Locals /\ Path(h) /\ Locks(h)  BY DEF Typed
<1>1. \A g \in Handlers \ {h} : Appending(g, m)' <=> Appending(g, m)
  BY ControllerApart DEF Apart, Appending
<1>2. \A g \in Handlers : Appending(g, m) => owner[m] = g  BY DEF Appending, Locks
<1>s. sequence[m] \in Nat  BY <1>0 DEF TypeOK
<1>3. CASE EventNumber(h)
  <2>0. /\ pc[h] = "number" /\ pc'[h] = "append" /\ ref[h] \in Objects /\ ref' = ref
        /\ owner[ref[h]] \in {Nobody, h} /\ events' = events
        /\ sequence' = [sequence EXCEPT ![ref[h]] = @ + 1]
    BY <1>0, <1>3 DEF EventNumber, Go, Locals, Path, CanLock, local
  <2>1. CASE m = ref[h]
    <3>1. \A g \in Handlers : ~Appending(g, m)
      <4> TAKE g \in Handlers
      <4>1. g # Nobody  BY LogAssumption DEF Nobody
      <4> QED  BY <1>2, <2>0, <2>1, <4>1 DEF Appending
    <3>2. Appending(h, m)'  BY <2>0, <2>1 DEF Appending
    <3>3. sequence'[m] = sequence[m] + 1  BY <1>0, <2>0, <2>1 DEF TypeOK
    <3>4. sequence'[m] > 0 /\ sequence'[m] - 1 = sequence[m]  BY <1>s, <3>3
    <3> QED  BY <2>0, <3>1, <3>2, <3>4 DEF Log
  <2>2. CASE m # ref[h]
    <3>1. ~Appending(h, m) /\ ~Appending(h, m)'  BY <2>0, <2>2 DEF Appending
    <3>2. sequence'[m] = sequence[m]  BY <1>0, <2>0, <2>2 DEF TypeOK
    <3> QED  BY <1>1, <2>0, <3>1, <3>2 DEF Log
  <2> QED  BY <2>1, <2>2
<1>4. CASE EventAppend(h)
  <2>0. /\ pc[h] = "append" /\ pc'[h] = "answer" /\ ref[h] \in Objects /\ sequence' = sequence
        /\ events' = [events EXCEPT ![ref[h]] = Kept(Append(@, sequence[ref[h]]))]
    BY <1>0, <1>4 DEF EventAppend, Go, Locals, Path
  <2>1. ~Appending(h, m)'  BY <2>0 DEF Appending
  <2>2. CASE m = ref[h]
    <3>1. Appending(h, m)  BY <2>0, <2>2 DEF Appending
    <3>2. sequence[m] > 0 /\ events[m] = Numbers(sequence[m] - 1)  BY <3>1 DEF Log
    <3>3. \A g \in Handlers \ {h} : ~Appending(g, m)  BY <1>2, <3>1
    <3>4. PICK s \in Nat : s = sequence[m] - 1  BY <1>s, <3>2
    <3>5. s + 1 = sequence[m]  BY <1>s, <3>4
    <3>6. events'[m] = Kept(Append(Numbers(s), s + 1))
      BY <1>0, <2>0, <2>2, <3>2, <3>4, <3>5 DEF Locals
    <3>7. events'[m] = Numbers(sequence'[m])  BY <2>0, <3>5, <3>6, NumbersGrow
    <3> QED  BY <1>1, <2>1, <3>3, <3>7 DEF Log
  <2>3. CASE m # ref[h]
    <3>1. ~Appending(h, m)  BY <2>3 DEF Appending
    <3>2. events'[m] = events[m]  BY <1>0, <2>0, <2>3 DEF Locals
    <3> QED  BY <1>1, <2>0, <2>1, <3>1, <3>2 DEF Log
  <2> QED  BY <2>2, <2>3
<1>5. CASE UNCHANGED <<sequence, events>> /\ pc[h] # "append" /\ pc'[h] # "append"
  BY <1>1, <1>5 DEF Log, Appending
<1>6. EventNumber(h) \/ EventAppend(h)
      \/ (UNCHANGED <<sequence, events>> /\ pc[h] # "append" /\ pc'[h] # "append")
  <2> USE <1>0 DEF Locals, Go, Respond, bmc
  <2>1. CASE Check(h)  BY <2>1 DEF Check
  <2>2. CASE Call(h) \/ Answered(h) \/ Replace(h)  BY <2>2 DEF Call, Answered, Replace
  <2>3. CASE TimeOut(h)  BY <2>3 DEF TimeOut, Unavailable
  <2>4. CASE Lock(h) \/ Load(h) \/ Store(h)  BY <2>4 DEF Lock, Take, Load, Store
  <2>5. CASE SetNetwork(h) \/ Configure(h) \/ EventRef(h) \/ Finish(h)
    BY <2>5 DEF SetNetwork, Refer, Configure, EventRef, Finish
  <2>6. CASE GetRef(h) \/ GetLock(h) \/ Sent(h) \/ LockRef(h)
    BY <2>6 DEF GetRef, GetLock, Sent, LockRef, Refer, Take
  <2> QED  BY <2>1, <2>2, <2>3, <2>4, <2>5, <2>6 DEF Controller, Thread
<1> QED  BY <1>3, <1>4, <1>5, <1>6

\* A restart counted under the lock adds one to the generation.
LEMMA RestartsKept ==
  ASSUME Typed, NEW h \in Handlers, Controller(h), Locks(h), NEW m \in Objects, Restarts(m)
  PROVE  Restarts(m)'
<1>0. TypeOK /\ Locals /\ Path(h)  BY DEF Typed
<1>1. CASE Store(h)
  <2>0. /\ pc[h] = "store" /\ ref[h] \in Objects
        /\ generation' = [generation EXCEPT ![ref[h]] = loaded[h] + 1]
        /\ restarts' = [restarts EXCEPT ![ref[h]] = @ + 1]
        /\ crossed' = IF owner[ref[h]] = h THEN crossed ELSE crossed \cup {ref[h]}
    BY <1>0, <1>1 DEF Store, Go, Path
  <2>1. SUFFICES ASSUME m \notin crossed' PROVE generation'[m] = 1 + restarts'[m]
    BY DEF Restarts
  <2>2. m \notin crossed /\ generation[m] = 1 + restarts[m]  BY <2>0, <2>1 DEF Restarts
  <2>3. CASE m = ref[h]
    <3>1. loaded[h] = generation[m]  BY <2>0, <2>1, <2>2, <2>3 DEF Locks
    <3>2. generation'[m] = generation[m] + 1 /\ restarts'[m] = restarts[m] + 1
      BY <1>0, <2>0, <2>3, <3>1 DEF TypeOK, Locals
    <3>3. restarts[m] \in Nat  BY <1>0 DEF Locals
    <3> QED  BY <2>2, <3>2, <3>3
  <2>4. CASE m # ref[h]  BY <1>0, <2>0, <2>2, <2>4 DEF TypeOK, Locals
  <2> QED  BY <2>3, <2>4
<1>2. CASE UNCHANGED <<generation, restarts, crossed>>  BY <1>2 DEF Restarts
<1> QED  BY <1>1, <1>2
    DEF Controller, Thread, Check, Call, TimeOut, Answered, Replace, GetRef, GetLock, Sent,
        LockRef, Lock, Refer, Take, Load, SetNetwork, Configure, EventRef, EventNumber,
        EventAppend, Finish, bmc

-----------------------------------------------------------------------------
(* The theorems *)

\* Every step keeps the invariant.
LEMMA NextIInv == IInv /\ [Next]_vars => IInv'
<1> SUFFICES ASSUME IInv, [Next]_vars PROVE IInv'  OBVIOUS
<1>0. Typed /\ \A g \in Handlers : Job(g) /\ Outcome(g) /\ Locks(g)  BY DEF IInv
<1>1. ASSUME NEW h \in Handlers, Controller(h) PROVE IInv'
  <2>1. Typed'  BY <1>0, <1>1, ControllerTyped
  <2>2. ASSUME NEW g \in Handlers PROVE (Job(g) /\ Outcome(g) /\ Locks(g))'
    <3>1. CASE g = h  BY <1>0, <1>1, <3>1, ControllerJob, ControllerOutcome, ActorLocks
    <3>2. CASE g # h
      <4>1. Apart(g) /\ request' = request  BY <1>0, <1>1, <3>2, ControllerApart
      <4>2. Locks(g)'  BY <1>0, <1>1, <3>2, OthersLocks
      <4>3. Job(g)'  BY <1>0, <4>1 DEF Job, Through, Apart
      <4>4. UNCHANGED <<power, hostOwner>>
        BY <1>1 DEF Controller, Thread, Check, Call, TimeOut, Answered, Replace, GetRef,
           GetLock, Sent, LockRef, Lock, Refer, Take, Load, Store, SetNetwork, Configure,
           EventRef, EventNumber, EventAppend, Finish, agent
      <4>5. Outcome(g)'  BY <1>0, <4>1, <4>4 DEF Outcome, Through, Wanted, Apart
      <4> QED  BY <4>2, <4>3, <4>5
    <3> QED  BY <3>1, <3>2
  <2>3. \A m \in Objects : (Log(m) /\ Restarts(m))'
    BY <1>0, <1>1, LogKept, RestartsKept DEF IInv
  <2> QED  BY <2>1, <2>2, <2>3 DEF IInv
<1>2. ASSUME NEW h \in Handlers, Agent(h) PROVE IInv'
  <2>1. Typed'  BY <1>0, <1>2, AgentTyped
  <2>2. \A g \in Handlers : Job(g)'
    <3> TAKE g \in Handlers
    <3>1. CASE g = h  BY <1>0, <1>2, <3>1, AgentJob
    <3>2. CASE g # h
      <4>1. Apart(g) /\ request' = request  BY <1>0, <1>2, <3>2, AgentApart
      <4> QED  BY <1>0, <4>1 DEF Job, Through, Apart
    <3> QED  BY <3>1, <3>2
  <2>3. \A g \in Handlers : Outcome(g)'  BY <1>0, <1>2, AgentOutcome
  <2>4. UNCHANGED <<pc, bmc, local, restarts, crossed>>
    BY <1>2 DEF Agent, FixtureReset, ResetRef, Reset, Snapshot, OnlyAgent
  <2>5. \A g \in Handlers : Locks(g)'  BY <1>0, <2>4 DEF Locks, bmc, local
  <2>6. \A m \in Objects : (Log(m) /\ Restarts(m))'
    BY <2>4 DEF IInv, Log, Restarts, Appending, bmc, local
  <2> QED  BY <2>1, <2>2, <2>3, <2>5, <2>6 DEF IInv
<1>3. CASE UNCHANGED vars
  <2> USE <1>3 DEF vars, bmc, local, agent
  <2>1. Typed'  BY <1>0 DEF Typed, TypeOK, Locals, Fresh, Running, Path
  <2>2. \A g \in Handlers : (Job(g) /\ Outcome(g) /\ Locks(g))'
    BY <1>0 DEF Job, Outcome, Locks, Through, Wanted
  <2>3. \A m \in Objects : (Log(m) /\ Restarts(m))'  BY DEF IInv, Log, Restarts, Appending
  <2> QED  BY <2>1, <2>2, <2>3 DEF IInv
<1> QED  BY <1>1, <1>2, <1>3 DEF Next

\* The invariant holds in every state of the controller and the agent.
THEOREM HostInvariant == Spec => []IInv
BY InitIInv, NextIInv, PTL DEF Spec

\* Every variable keeps to the values the code gives it, and no lab reset runs
\* out of numbers for its objects.
THEOREM HostTypes == Spec => []TypeOK
<1>1. IInv => TypeOK  BY DEF IInv, Typed
<1> QED  BY <1>1, HostInvariant, PTL

\* The event log and the host agree but for time-outs (bmc.py 202 to 206),
\* for any number of concurrent requests and lab resets.
THEOREM HostAuditAgrees == Spec => []AuditAgrees
<1>1. IInv => AuditAgrees
  <2> SUFFICES ASSUME IInv, NEW h \in Handlers, request[h].op = "host_reset"
               PROVE  /\ h \in logged => h \in executed
                      /\ h \in executed /\ h \notin logged => status[h] \in {0, 503}
    BY DEF AuditAgrees, HostResets
  <2>1. Job(h) /\ status[h] \in {0, 200, 400, 401, 403, 503}  BY DEF IInv, Typed, TypeOK
  <2> QED  BY <2>1 DEF Job, Through, Writing
<1> QED  BY <1>1, HostInvariant, PTL

\* A reset that is answered 200 shows the power state it asked for
\* (host_agent.py 22 to 35), whatever other resets run.
THEOREM HostOwnOutcome == Spec => []OwnOutcome
<1>1. IInv => OwnOutcome
  <2> SUFFICES ASSUME IInv, NEW h \in Handlers, request[h].op = "host_reset", status[h] = 200
               PROVE  result[h][1] = IF request[h].type = "ForceOff" THEN "Off" ELSE "On"
    BY DEF OwnOutcome, HostResets
  <2>1. Job(h) /\ Outcome(h)  BY DEF IInv
  <2> QED  BY <2>1 DEF Job, Outcome, Through, Wanted
<1> QED  BY <1>1, HostInvariant, PTL

\* A Model nobody has locked has the last numbers in its log, without gap or
\* repetition, and no restart lost from its generation unless one was counted
\* with another Model's lock (bmc.py 37 to 40, 207 to 210).
THEOREM HostModelConsistent == Spec => []ModelConsistent
<1>1. IInv => ModelConsistent
  <2> SUFFICES ASSUME IInv, NEW m \in Objects, owner[m] = Nobody
               PROVE  /\ events[m] = Numbers(sequence[m])
                      /\ m \notin crossed => generation[m] = 1 + restarts[m]
    BY DEF ModelConsistent, Numbers
  <2>1. \A h \in Handlers : ~Appending(h, m)
    <3> TAKE h \in Handlers
    <3>1. Locks(h) /\ h # Nobody  BY LogAssumption DEF IInv, Nobody
    <3> QED  BY <3>1 DEF Locks, Appending
  <2> QED  BY <2>1 DEF IInv, Log, Restarts
<1> QED  BY <1>1, HostInvariant, PTL
=============================================================================
