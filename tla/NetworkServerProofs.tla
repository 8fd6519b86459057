------------------------ MODULE NetworkServerProofs -------------------------
(***************************************************************************)
(* Proofs about module NetworkServer, for any number of clients, commands  *)
(* and lines and every size of chunk, pipe and limit.                      *)
(***************************************************************************)
EXTENDS NetworkServer, FiniteSetTheorems, TLAPS

-----------------------------------------------------------------------------
(* The inductive invariant *)

\* A connection is in one place: the backlog, the accept loop or a thread.
Queue ==
  /\ \A i \in DOMAIN backlog : thread[backlog[i]] = "none" /\ peer[backlog[i]] # "off"
  /\ \A i, j \in DOMAIN backlog : backlog[i] = backlog[j] => i = j
  /\ main = "create" =>
       fresh \in Clients /\ thread[fresh] = "none" /\ peer[fresh] # "off" /\ ~Waiting(fresh)
  /\ \A c \in Clients : thread[c] # "none" => peer[c] # "off"

\* The last loop ends with the count at zero.
Ending == main = "done" => active_clients = 0

Child(c) == child[c] # "none" => thread[c] \in {"forked", "reading", "waiting"}

\* While the buffer is filled its capacity is a number of chunks, more than it
\* holds: this is what makes the limit, a number of chunks too, fit in it.
Multiple(n) == \E k \in Nat : n = k * Chunk
Buffer(c) ==
  /\ thread[c] \notin {"reading", "waiting"} => len[c] = 0
  /\ thread[c] = "reading" => len[c] < cap[c] /\ len[c] <= Max /\ Multiple(cap[c])
  /\ thread[c] = "waiting" => len[c] <= cap[c] /\ len[c] <= Max + Notice
  /\ answer[c] <= Max + Slack

\* What was written is in the buffer, in the pipe or still to come; the server
\* keeps the read end until it has read all, and the child its write end until
\* it ends.
Output(c) ==
  /\ thread[c] = "fork" => R(c) \in srv /\ W(c) \in srv
  /\ thread[c] \in {"forked", "reading"} =>
       /\ R(c) \in srv /\ len[c] + pipe[c] + todo[c] = cmd[c].size
       /\ child[c] # "none" /\ (child[c] # "zombie" => W(c) \in held[c])
       /\ child[c] = "zombie" => todo[c] = 0
  /\ thread[c] \notin {"forked", "reading", "waiting"} => pipe[c] = 0
  /\ thread[c] = "waiting" /\ ~cut[c] /\ ~failed[c] => len[c] = cmd[c].size

Good(c) == Child(c) /\ Buffer(c) /\ Output(c)

IInv ==
  /\ TypeOK /\ ActiveCounts /\ Queue /\ Ending
  /\ \A c \in Clients : Good(c)

-----------------------------------------------------------------------------
(* Facts about the operators *)

\* Descriptors of different clients, or of different kinds, are different.
LEMMA Distinct ==
  ASSUME NEW c \in Clients, NEW d \in Clients
  PROVE  /\ R(c) # W(d) /\ R(c) # Sock(d) /\ W(c) # Sock(d)
         /\ R(c) # Listener /\ W(c) # Listener /\ Sock(c) # Listener
         /\ c # d => R(c) # R(d) /\ W(c) # W(d) /\ Sock(c) # Sock(d)
         /\ {Listener, R(c), W(c), Sock(c)} \subseteq Descriptors
BY DEF R, W, Sock, Listener, Descriptors, Clients, NoClient

\* The limit fits into a buffer that is a number of chunks and within one chunk
\* of it.
LEMMA LimitFits ==
  ASSUME NEW size \in Nat, NEW l \in Nat, NEW n \in Nat,
         Multiple(size), l < size, n <= Chunk, l + n > Max
  PROVE  Max <= size
<1> USE SizesAssumption
<1>1. PICK k \in Nat : size = k * Chunk  BY DEF Multiple
<1>2. PICK m \in Nat : Max = m * Chunk
  <2> DEFINE m == Max \div Chunk
  <2>1. m \in Nat /\ Max = m * Chunk + (Max % Chunk)  BY SMT
  <2> HIDE DEF m
  <2>2. m * Chunk \in Nat  BY <2>1, SMT
  <2>3. Max = m * Chunk  BY <2>1, <2>2
  <2> QED  BY <2>1, <2>3
<1>3. SUFFICES ASSUME size < Max PROVE FALSE  BY <1>1, <1>2
<1>4. k < m
  <2> SUFFICES ASSUME m <= k PROVE FALSE  BY <1>1, <1>2
  <2>1. m * Chunk <= k * Chunk  BY SMT
  <2> QED  BY <1>1, <1>2, <1>3, <2>1
<1>5. k * Chunk + Chunk = (k + 1) * Chunk  BY SMT
<1>6. (k + 1) * Chunk <= m * Chunk  BY <1>4, SMT
<1>7. size + Chunk <= Max  BY <1>1, <1>2, <1>5, <1>6
<1> QED  BY <1>7

\* The buffer is doubled at most once for one chunk.
LEMMA GrownOnce ==
  ASSUME NEW size \in Nat, NEW l \in Nat, NEW n \in Nat,
         Multiple(size), l < size, n <= Chunk
  PROVE  /\ Grown(size, l + n + 1) \in Nat /\ Multiple(Grown(size, l + n + 1))
         /\ l + n < Grown(size, l + n + 1)
<1> USE SizesAssumption
<1>1. PICK k \in Nat : size = k * Chunk  BY DEF Multiple
<1>2. k # 0  BY <1>1
<1>3. Chunk <= size  BY <1>1, <1>2, SMT
<1>4. Grown(size, l + n + 1) = size \/ Grown(size, l + n + 1) = size * 2
  BY <1>3 DEF Grown
<1>5. size * 2 = (k * 2) * Chunk /\ k * 2 \in Nat  BY <1>1, SMT
<1>6. Multiple(size * 2)  BY <1>5 DEF Multiple
<1>7. CASE l + n + 1 <= size  BY <1>7 DEF Grown
<1>8. CASE l + n + 1 > size
  <2>1. Grown(size, l + n + 1) = size * 2  BY <1>3, <1>8 DEF Grown
  <2> QED  BY <1>3, <1>6, <2>1
<1> QED  BY <1>7, <1>8

\* A read takes something, no more than there is and no more than a chunk.
LEMMA ReadBounds ==
  ASSUME NEW c \in Clients, pipe \in [Clients -> Nat]
  PROVE  Read(c) \in Nat /\ Read(c) <= pipe[c] /\ Read(c) <= Chunk
BY SizesAssumption DEF Read

\* How the set of threads changes when one is started, goes on or ends.
LEMMA LiveChange ==
  ASSUME NEW c \in Clients, \A d \in Clients \ {c} : thread'[d] = thread[d]
  PROVE  /\ thread[c] # "none" /\ thread'[c] # "none" => Cardinality(Live') = Cardinality(Live)
         /\ thread[c] = "none" /\ thread'[c] # "none" => Cardinality(Live') = Cardinality(Live) + 1
         /\ thread[c] # "none" /\ thread'[c] = "none" =>
              /\ Cardinality(Live') = Cardinality(Live) - 1
              /\ Cardinality(Live) > 0
<1>0. IsFiniteSet(Live)
  <2>1. IsFiniteSet(Clients)  BY NAssumption, FS_Interval DEF Clients
  <2> QED  BY <2>1, FS_Subset DEF Live
<1>1. CASE thread[c] # "none" /\ thread'[c] # "none"
  <2>1. Live' = Live  BY <1>1 DEF Live
  <2> QED  BY <1>1, <2>1
<1>2. CASE thread[c] = "none" /\ thread'[c] # "none"
  <2>1. Live' = Live \cup {c} /\ c \notin Live  BY <1>2 DEF Live
  <2> QED  BY <1>0, <1>2, <2>1, FS_AddElement
<1>3. CASE thread[c] # "none" /\ thread'[c] = "none"
  <2>1. Live' = Live \ {c} /\ c \in Live  BY <1>3 DEF Live
  <2>2. Cardinality(Live') = Cardinality(Live) - 1  BY <1>0, <2>1, FS_RemoveElement
  <2>3. Cardinality(Live) \in Nat /\ Cardinality(Live) # 0
    BY <1>0, <2>1, FS_CardinalityType, FS_EmptySet
  <2> QED  BY <1>3, <2>2, <2>3
<1>4. CASE thread[c] = "none" /\ thread'[c] = "none"  BY <1>4
<1> QED  BY <1>1, <1>2, <1>3, <1>4

\* The threads can be counted.
LEMMA LiveFinite == Cardinality(Live) \in Nat
<1>1. IsFiniteSet(Clients)  BY NAssumption, FS_Interval DEF Clients
<1>2. IsFiniteSet(Live)  BY <1>1, FS_Subset DEF Live
<1> QED  BY <1>2, FS_CardinalityType

\* What a step leaves alone of a client it is not about.
Same(d) ==
  /\ thread'[d] = thread[d] /\ cap'[d] = cap[d] /\ len'[d] = len[d]
  /\ cut'[d] = cut[d] /\ failed'[d] = failed[d] /\ held'[d] = held[d]
  /\ child'[d] = child[d] /\ cmd'[d] = cmd[d] /\ todo'[d] = todo[d] /\ pipe'[d] = pipe[d]
  /\ answer'[d] = answer[d]
  /\ (R(d) \in srv => R(d) \in srv') /\ (W(d) \in srv => W(d) \in srv')

\* A client of which nothing that matters changes stays as it was.
LEMMA SameGood == ASSUME NEW d \in Clients, Good(d), Same(d) PROVE Good(d)'
<1>1. Child(d)'  BY DEF Good, Same, Child
<1>2. Buffer(d)'  BY DEF Good, Same, Buffer
<1>3. Output(d)'  BY DEF Good, Same, Output
<1> QED  BY <1>1, <1>2, <1>3 DEF Good

-----------------------------------------------------------------------------
(* The initial state, and what most steps leave alone *)

\* The invariant holds when the server starts.
LEMMA InitIInv == Init => IInv
<1> SUFFICES ASSUME Init PROVE IInv  OBVIOUS
<1> USE NAssumption, SizesAssumption DEF Init
<1>1. TypeOK
  <2>1. srv \subseteq Descriptors /\ held \in [Clients -> SUBSET Descriptors]
    BY DEF Descriptors
  <2>2. main \in MainAt /\ thread \in [Clients -> ThreadAt]  BY DEF MainAt, ThreadAt
  <2>3. cmd \in [Clients -> Commands \cup {NoCommand}]  OBVIOUS
  <2>4. backlog \in Seq(Clients) /\ inbox \in [Clients -> Seq(Frames)]  OBVIOUS
  <2>5. fresh \in Clients \cup {NoClient} /\ typed \in 0 .. MaxLines /\ active_clients \in Nat
    OBVIOUS
  <2> QED  BY <2>1, <2>2, <2>3, <2>4, <2>5 DEF TypeOK
<1>2. ActiveCounts
  <2>1. Live = {}  BY DEF Live
  <2> QED  BY <2>1, FS_EmptySet DEF ActiveCounts
<1>3. Queue
  <2>1. DOMAIN backlog = {}  OBVIOUS
  <2> QED  BY <2>1 DEF Queue
<1>4. Ending  BY DEF Ending
<1>5. ASSUME NEW c \in Clients PROVE Good(c)
  BY DEF Good, Child, Buffer, Output
<1> QED  BY <1>1, <1>2, <1>3, <1>4, <1>5 DEF IInv

\* A step that starts and ends no thread and brings no connection.
LEMMA GlobalKept ==
  ASSUME IInv, UNCHANGED mainVars, backlog' = backlog,
         \A c \in Clients : thread'[c] = "none" <=> thread[c] = "none",
         \A c \in Clients : peer[c] # "off" => peer'[c] # "off"
  PROVE  ActiveCounts' /\ Queue' /\ Ending'
<1> USE DEF mainVars
<1>1. Live' = Live  BY DEF Live
<1>2. ActiveCounts'  BY <1>1 DEF IInv, ActiveCounts
<1>3. Queue'
  <2>1. \A i \in DOMAIN backlog : backlog[i] \in Clients  BY DEF IInv, TypeOK
  <2> QED  BY <2>1 DEF IInv, Queue, Waiting
<1>4. Ending'  BY DEF IInv, Ending
<1> QED  BY <1>2, <1>3, <1>4

\* A step of one thread, one child or one client.
LEMMA OneKept ==
  ASSUME IInv, NEW c \in Clients, Good(c)', TypeOK', UNCHANGED mainVars, backlog' = backlog,
         thread'[c] = "none" <=> thread[c] = "none", peer[c] # "off" => peer'[c] # "off",
         \A d \in Clients \ {c} : Same(d) /\ peer'[d] = peer[d]
  PROVE  IInv'
<1>1. ASSUME NEW d \in Clients PROVE Good(d)'
  <2>1. CASE d = c  BY <2>1
  <2>2. CASE d # c  BY <2>2, SameGood DEF IInv
  <2> QED  BY <2>1, <2>2
<1>2. ActiveCounts' /\ Queue' /\ Ending'
  <2>1. \A d \in Clients : thread'[d] = "none" <=> thread[d] = "none"  BY DEF Same
  <2>2. \A d \in Clients : peer[d] # "off" => peer'[d] # "off"  OBVIOUS
  <2> QED  BY <2>1, <2>2, GlobalKept
<1> QED  BY <1>1, <1>2 DEF IInv

-----------------------------------------------------------------------------
(* The accept loop *)

\* A step of the accept loop is about no client's request.
LEMMA MainGood ==
  ASSUME IInv, UNCHANGED <<buffer, held, process, answer>>,
         \A c \in Clients : thread'[c] = thread[c] \/ (thread[c] = "none" /\ thread'[c] = "recv"),
         \A c \in Clients : R(c) \in srv => R(c) \in srv',
         \A c \in Clients : W(c) \in srv => W(c) \in srv'
  PROVE  \A c \in Clients : Good(c)'
<1> TAKE c \in Clients
<1> USE DEF buffer, process
<1>0. Good(c)  BY DEF IInv
<1>1. CASE thread'[c] = thread[c]  BY <1>0, <1>1, SameGood DEF Same
<1>2. CASE thread[c] = "none" /\ thread'[c] = "recv"
  BY <1>0, <1>2 DEF Good, Child, Buffer, Output
<1> QED  BY <1>1, <1>2

\* The stop signal, a failing accept, the close and the last loop.
LEMMA PlainIInv == ASSUME IInv, on_signal \/ AcceptFails \/ CloseListener \/ Drain PROVE IInv'
<1>0. UNCHANGED <<active_clients, fresh, thread, buffer, held, process, wire>>
  BY DEF on_signal, AcceptFails, CloseListener, Drain
<1>1. TypeOK'
  <2>1. srv' \subseteq srv  BY DEF on_signal, AcceptFails, CloseListener, Drain
  <2>2. main' \in MainAt
    BY DEF on_signal, AcceptFails, CloseListener, Drain, Sleep, MainAt, IInv, TypeOK
  <2>3. stop_server' \in BOOLEAN /\ once' \in BOOLEAN
    BY DEF on_signal, AcceptFails, CloseListener, Drain, IInv, TypeOK
  <2> QED  BY <1>0, <2>1, <2>2, <2>3 DEF IInv, TypeOK, buffer, process, wire
<1>2. \A c \in Clients : Good(c)'
  <2>1. ASSUME NEW c \in Clients, NEW e \in {R(c), W(c)}, e \in srv PROVE e \in srv'
    BY <2>1, Distinct DEF on_signal, AcceptFails, CloseListener, Drain
  <2>2. UNCHANGED <<buffer, held, process, answer>>  BY <1>0 DEF wire
  <2> QED  BY <1>0, <2>1, <2>2, MainGood
<1>3. (main # "create" /\ main' # "create") \/ main' = main
  BY DEF on_signal, AcceptFails, CloseListener, Drain, Sleep
<1>4. ActiveCounts'
  <2>1. Live' = Live  BY <1>0 DEF Live
  <2> QED  BY <1>0, <1>3, <2>1 DEF IInv, ActiveCounts
<1>5. Queue'  BY <1>0, <1>3 DEF IInv, Queue, wire, Waiting
<1>6. Ending'
  BY <1>0 DEF IInv, Ending, on_signal, AcceptFails, CloseListener, Drain, Sleep
<1> QED  BY <1>1, <1>2, <1>4, <1>5, <1>6 DEF IInv

\* The head of a queue without repetitions is not in the rest.
LEMMA HeadApart ==
  ASSUME IInv, backlog # <<>>
  PROVE  /\ Head(backlog) \in Clients /\ Tail(backlog) \in Seq(Clients)
         /\ \A i \in DOMAIN Tail(backlog) :
              /\ i + 1 \in DOMAIN backlog /\ Tail(backlog)[i] = backlog[i + 1]
              /\ Tail(backlog)[i] # Head(backlog)
<1>1. backlog \in Seq(Clients)  BY DEF IInv, TypeOK
<1>2. 1 \in DOMAIN backlog /\ Head(backlog) = backlog[1]  BY <1>1
<1>3. ASSUME NEW i \in DOMAIN Tail(backlog)
      PROVE  i + 1 \in DOMAIN backlog /\ Tail(backlog)[i] = backlog[i + 1] /\ i + 1 # 1
  BY <1>1
<1> QED  BY <1>1, <1>2, <1>3 DEF IInv, Queue

\* accept moves the head of the backlog to the accept loop, or drops it.
LEMMA AcceptIInv == ASSUME IInv, Accept PROVE IInv'
<1>0. /\ backlog # <<>> /\ backlog' = Tail(backlog) /\ main = "accept"
      /\ UNCHANGED <<once, stop_server, thread, buffer, held, process, peer, inbox, answer, typed>>
  BY DEF Accept
<1>a. \/ main' \in {"close", "accept"} /\ UNCHANGED <<srv, fresh, active_clients>>
      \/ /\ main' = "create" /\ fresh' = Head(backlog)
         /\ srv' = srv \cup {Sock(Head(backlog))} /\ active_clients' = active_clients + 1
  BY DEF Accept, NextTurn, CountClient
<1>1. TypeOK'
  <2>1. srv' \subseteq Descriptors /\ fresh' \in Clients \cup {NoClient}
    BY <1>0, <1>a, HeadApart, Distinct DEF IInv, TypeOK
  <2>2. active_clients' \in Nat /\ main' \in MainAt  BY <1>a DEF IInv, TypeOK, MainAt
  <2>3. backlog' \in Seq(Clients)  BY <1>0, HeadApart
  <2> QED  BY <1>0, <2>1, <2>2, <2>3 DEF IInv, TypeOK, buffer, process
<1>2. \A c \in Clients : Good(c)'
  <2>1. srv \subseteq srv'  BY <1>a
  <2> QED  BY <1>0, <2>1, MainGood
<1>3. ActiveCounts'
  <2>1. Live' = Live  BY <1>0 DEF Live
  <2> QED  BY <1>0, <1>a, <2>1, LiveFinite DEF IInv, ActiveCounts
<1>4. Queue'
  <2>1. \A i \in DOMAIN backlog' : backlog'[i] = backlog[i + 1] /\ i + 1 \in DOMAIN backlog
                                   /\ backlog'[i] # Head(backlog)
    BY <1>0, HeadApart
  <2>2. \A i, j \in DOMAIN backlog' : backlog'[i] = backlog'[j] => i = j
    <3> TAKE i, j \in DOMAIN backlog'
    <3>1. i \in Nat /\ j \in Nat  BY <1>0, HeadApart
    <3> QED  BY <2>1, <3>1 DEF IInv, Queue
  <2>3. main' = "create" =>
          /\ fresh' \in Clients /\ thread[fresh'] = "none" /\ peer[fresh'] # "off"
          /\ ~Waiting(fresh)'
    <3>1. Head(backlog) = backlog[1] /\ 1 \in DOMAIN backlog  BY <1>0 DEF IInv, TypeOK
    <3> QED  BY <1>0, <1>a, <2>1, <3>1, HeadApart DEF IInv, Queue, Waiting
  <2> QED  BY <1>0, <2>1, <2>2, <2>3 DEF IInv, Queue
<1>5. Ending'  BY <1>a DEF Ending
<1> QED  BY <1>1, <1>2, <1>3, <1>4, <1>5 DEF IInv

\* pthread_create gives the new client its thread, or the count is taken back.
LEMMA CreateIInv == ASSUME IInv, CreateThread PROVE IInv'
<1>0. /\ main = "create" /\ fresh' = NoClient /\ main' \in {"close", "accept"}
      /\ UNCHANGED <<once, stop_server, buffer, held, process, wire>>
  BY DEF CreateThread, NextTurn
<1>a. \/ thread' = [thread EXCEPT ![fresh] = "recv"] /\ UNCHANGED <<active_clients, srv>>
      \/ /\ srv' = srv \ {Sock(fresh)} /\ active_clients' = active_clients - 1
         /\ UNCHANGED thread
  BY DEF CreateThread
<1>b. fresh \in Clients /\ thread[fresh] = "none" /\ peer[fresh] # "off" /\ ~Waiting(fresh)
  BY <1>0 DEF IInv, Queue
<1>c. thread \in [Clients -> ThreadAt]  BY DEF IInv, TypeOK
<1>1. TypeOK'
  <2>1. thread' \in [Clients -> ThreadAt]  BY <1>a, <1>c DEF ThreadAt
  <2>2. active_clients' \in Nat
    BY <1>0, <1>a, LiveFinite DEF IInv, TypeOK, ActiveCounts
  <2>3. main' \in MainAt /\ fresh' \in Clients \cup {NoClient}  BY <1>0 DEF MainAt
  <2>4. srv' \subseteq Descriptors  BY <1>a DEF IInv, TypeOK
  <2> QED  BY <1>0, <2>1, <2>2, <2>3, <2>4 DEF IInv, TypeOK, buffer, process, wire
<1>2. \A c \in Clients : Good(c)'
  <2>1. \A c \in Clients : thread'[c] = thread[c] \/ (thread[c] = "none" /\ thread'[c] = "recv")
    BY <1>a, <1>b, <1>c
  <2>2. \A c \in Clients : (R(c) \in srv => R(c) \in srv') /\ (W(c) \in srv => W(c) \in srv')
    BY <1>a, <1>b, Distinct
  <2>3. UNCHANGED <<buffer, held, process, answer>>  BY <1>0 DEF wire
  <2> QED  BY <2>1, <2>2, <2>3, MainGood
<1>3. ActiveCounts'
  <2>1. CASE thread' = [thread EXCEPT ![fresh] = "recv"] /\ UNCHANGED <<active_clients, srv>>
    <3>0. PICK c \in Clients : c = fresh  BY <1>b
    <3>1. Cardinality(Live') = Cardinality(Live) + 1
      <4>1. thread[c] = "none" /\ thread'[c] = "recv"  BY <1>b, <1>c, <2>1, <3>0
      <4>2. \A d \in Clients \ {c} : thread'[d] = thread[d]  BY <1>c, <2>1, <3>0
      <4> QED  BY <4>1, <4>2, LiveChange
    <3> QED  BY <1>0, <2>1, <3>1, LiveFinite DEF IInv, ActiveCounts
  <2>2. CASE active_clients' = active_clients - 1 /\ UNCHANGED thread
    <3>1. Live' = Live  BY <2>2 DEF Live
    <3> QED  BY <1>0, <2>2, <3>1, LiveFinite DEF IInv, ActiveCounts
  <2> QED  BY <1>a, <2>1, <2>2
<1>4. Queue'
  <2>1. \A i \in DOMAIN backlog : backlog[i] # fresh  BY <1>b DEF Waiting
  <2>2. \A c \in Clients : c # fresh => thread'[c] = thread[c]  BY <1>a, <1>c
  <2>3. \A i \in DOMAIN backlog : backlog[i] \in Clients  BY DEF IInv, TypeOK
  <2> QED  BY <1>0, <1>b, <2>1, <2>2, <2>3 DEF IInv, Queue, wire
<1>5. Ending'  BY <1>0 DEF Ending
<1> QED  BY <1>1, <1>2, <1>3, <1>4, <1>5 DEF IInv

-----------------------------------------------------------------------------
(* The threads *)

\* Steps of a thread that leave the accept loop and the network alone.
LEMMA RecvIInv == ASSUME IInv, NEW c \in Clients, net_recv_frame(c) PROVE IInv'
<1> USE DEF net_recv_frame, At
<1>0. TypeOK /\ Good(c)  BY DEF IInv
<1>1. TypeOK'
  <2>1. inbox[c] \in Seq(Frames) /\ inbox[c] # <<>>  BY <1>0 DEF TypeOK
  <2>2. Head(inbox[c]) \in Frames /\ Tail(inbox[c]) \in Seq(Frames)  BY <2>1
  <2>3. Head(inbox[c]).k \in Commands  BY <2>2 DEF Frames
  <2>4. inbox' \in [Clients -> Seq(Frames)]  BY <1>0, <2>2 DEF TypeOK
  <2>5. cmd' \in [Clients -> Commands \cup {NoCommand}]  BY <1>0, <2>3 DEF TypeOK
  <2>6. thread' \in [Clients -> ThreadAt]  BY <1>0 DEF TypeOK, ThreadAt
  <2> QED  BY <1>0, <2>4, <2>5, <2>6 DEF TypeOK, mainVars, buffer
<1>2. thread[c] = "recv" /\ thread'[c] = "pipe"  BY <1>0 DEF TypeOK
<1>3. Good(c)'  BY <1>0, <1>2 DEF Good, Child, Buffer, Output, TypeOK, buffer
<1>4. \A d \in Clients \ {c} : Same(d) /\ peer'[d] = peer[d]
  BY <1>0 DEF Same, TypeOK, buffer
<1> QED  BY <1>1, <1>2, <1>3, <1>4, OneKept

\* The pipe of a request: both ends are the server's.
LEMMA MakePipeIInv == ASSUME IInv, NEW c \in Clients, MakePipe(c) PROVE IInv'
<1> USE DEF MakePipe, At
<1>0. TypeOK /\ Good(c)  BY DEF IInv
<1>1. TypeOK'
  <2>1. srv' \subseteq Descriptors  BY <1>0, Distinct DEF TypeOK
  <2>2. thread' \in [Clients -> ThreadAt]  BY <1>0 DEF TypeOK, ThreadAt
  <2> QED  BY <1>0, <2>1, <2>2 DEF TypeOK, mainVars, buffer, process, wire
<1>2. thread[c] = "pipe" /\ thread'[c] = "fork"  BY <1>0 DEF TypeOK
<1>3. Good(c)'  BY <1>0, <1>2 DEF Good, Child, Buffer, Output, buffer, process, wire
<1>4. \A d \in Clients \ {c} : Same(d) /\ peer'[d] = peer[d]
  BY <1>0 DEF Same, TypeOK, buffer, process, wire
<1>5. backlog' = backlog /\ peer'[c] = peer[c]  BY DEF wire
<1> QED  BY <1>1, <1>2, <1>3, <1>4, <1>5, OneKept

\* fork: the child has a write end, and all of its output still to write.
LEMMA ForkIInv == ASSUME IInv, NEW c \in Clients, Fork(c) PROVE IInv'
<1> USE DEF Fork, At
<1>0. TypeOK /\ Good(c)  BY DEF IInv
<1>a. cmd[c].size \in Nat
  BY <1>0, CommandsAssumption DEF TypeOK, NoCommand
<1>1. TypeOK'
  <2>1. held' \in [Clients -> SUBSET Descriptors]  BY <1>0 DEF TypeOK
  <2>2. thread' \in [Clients -> ThreadAt]  BY <1>0 DEF TypeOK, ThreadAt
  <2>3. todo' \in [Clients -> Nat]  BY <1>0, <1>a DEF TypeOK
  <2>4. child' \in [Clients -> {"none", "running", "stopped", "zombie"}]
    BY <1>0 DEF TypeOK
  <2> QED  BY <1>0, <2>1, <2>2, <2>3, <2>4 DEF TypeOK, mainVars, buffer, wire
<1>2. /\ thread[c] = "fork" /\ thread'[c] = "forked" /\ child'[c] = "running"
      /\ todo'[c] = cmd[c].size /\ held'[c] = srv \ {R(c)}
  BY <1>0 DEF TypeOK
<1>3. Good(c)'
  <2>1. Child(c)'  BY <1>2 DEF Child
  <2>2. Buffer(c)'  BY <1>0, <1>2 DEF Good, Buffer, buffer, wire
  <2>3. Output(c)'
    <3>1. R(c) \in srv /\ W(c) \in srv /\ W(c) # R(c) /\ len[c] = 0 /\ pipe[c] = 0
      BY <1>0, <1>2, Distinct DEF Good, Buffer, Output
    <3> QED  BY <1>a, <1>2, <3>1 DEF Output, buffer
  <2> QED  BY <2>1, <2>2, <2>3 DEF Good
<1>4. \A d \in Clients \ {c} : Same(d) /\ peer'[d] = peer[d]
  BY <1>0 DEF Same, TypeOK, buffer, wire
<1>5. backlog' = backlog /\ peer'[c] = peer[c]  BY DEF wire
<1> QED  BY <1>1, <1>2, <1>3, <1>4, <1>5, OneKept

\* What closing its own pipe leaves to the others.
LEMMA OthersDescriptors ==
  ASSUME NEW c \in Clients, NEW d \in Clients \ {c},
         \/ srv' = srv \ {R(c), W(c)} \/ srv' = srv \ {R(c)} \/ srv' = srv \ {W(c)}
         \/ srv' = srv \ {Sock(c)}
  PROVE  (R(d) \in srv => R(d) \in srv') /\ (W(d) \in srv => W(d) \in srv')
BY Distinct

\* The parent closes its own write end and has a buffer of one chunk.
LEMMA StartReadingIInv == ASSUME IInv, NEW c \in Clients, StartReading(c) PROVE IInv'
<1> USE DEF StartReading, At, DropWriteEnd
<1>0. TypeOK /\ Good(c)  BY DEF IInv
<1>1. TypeOK'
  <2>1. srv' \subseteq Descriptors /\ cap' \in [Clients -> Nat]
    BY <1>0, SizesAssumption DEF TypeOK
  <2>2. thread' \in [Clients -> ThreadAt]  BY <1>0 DEF TypeOK, ThreadAt
  <2> QED  BY <1>0, <2>1, <2>2 DEF TypeOK, mainVars, process, wire
<1>2. thread[c] = "forked" /\ thread'[c] = "reading" /\ cap'[c] = Chunk  BY <1>0 DEF TypeOK
<1>3. Good(c)'
  <2>1. Child(c)'  BY <1>2 DEF Child
  <2>2. Buffer(c)'
    <3>1. Chunk = 1 * Chunk  BY SizesAssumption
    <3>2. Multiple(Chunk)  BY <3>1 DEF Multiple
    <3> QED  BY <1>0, <1>2, <3>2, SizesAssumption DEF Good, Buffer, wire
  <2>3. Output(c)'  BY <1>0, <1>2, Distinct DEF Good, Output, process
  <2> QED  BY <2>1, <2>2, <2>3 DEF Good
<1>4. \A d \in Clients \ {c} : Same(d) /\ peer'[d] = peer[d]
  BY <1>0, OthersDescriptors DEF Same, TypeOK, process, wire
<1>5. backlog' = backlog /\ peer'[c] = peer[c]  BY DEF wire
<1> QED  BY <1>1, <1>2, <1>3, <1>4, <1>5, OneKept

\* The buffer cannot be had: nothing is kept of the output.
LEMMA NoBufferGood ==
  ASSUME TypeOK, NEW c \in Clients, Good(c), thread[c] \in {"forked", "reading"}, NoBuffer(c),
         UNCHANGED <<held, child, cmd, todo, answer>>
  PROVE  /\ thread' \in [Clients -> ThreadAt] /\ thread'[c] = "waiting" /\ Good(c)'
         /\ cap' \in [Clients -> Nat] /\ len' \in [Clients -> Nat]
         /\ cut' \in [Clients -> BOOLEAN] /\ failed' \in [Clients -> BOOLEAN]
         /\ \A d \in Clients \ {c} :
              /\ thread'[d] = thread[d] /\ cap'[d] = cap[d] /\ len'[d] = len[d]
              /\ cut'[d] = cut[d] /\ failed'[d] = failed[d]
<1> USE DEF NoBuffer
<1>1. /\ thread' \in [Clients -> ThreadAt] /\ thread'[c] = "waiting"
      /\ failed'[c] = TRUE /\ len'[c] = 0 /\ cap'[c] = 0
  BY DEF TypeOK, ThreadAt
<1>2. Good(c)'
  <2>1. Child(c)'  BY <1>1 DEF Child
  <2>2. Buffer(c)'  BY <1>1, SizesAssumption DEF Good, Buffer
  <2>3. Output(c)'  BY <1>1 DEF Output
  <2> QED  BY <2>1, <2>2, <2>3 DEF Good
<1>3. /\ cap' \in [Clients -> Nat] /\ len' \in [Clients -> Nat]
      /\ cut' \in [Clients -> BOOLEAN] /\ failed' \in [Clients -> BOOLEAN]
  BY DEF TypeOK
<1>4. \A d \in Clients \ {c} :
        /\ thread'[d] = thread[d] /\ cap'[d] = cap[d] /\ len'[d] = len[d]
        /\ cut'[d] = cut[d] /\ failed'[d] = failed[d]
  BY DEF TypeOK
<1> QED  BY <1>1, <1>2, <1>3, <1>4

\* There is no memory for the buffer.
LEMMA AllocFailsIInv == ASSUME IInv, NEW c \in Clients, AllocFails(c) PROVE IInv'
<1> USE DEF AllocFails
<1>0. TypeOK /\ Good(c)  BY DEF IInv
<1>a. UNCHANGED <<held, child, cmd, todo, pipe, answer, peer, backlog>>  BY DEF process, wire
<1>b. /\ thread' \in [Clients -> ThreadAt] /\ thread'[c] = "waiting" /\ Good(c)'
      /\ cap' \in [Clients -> Nat] /\ len' \in [Clients -> Nat]
      /\ cut' \in [Clients -> BOOLEAN] /\ failed' \in [Clients -> BOOLEAN]
      /\ \A d \in Clients \ {c} :
           /\ thread'[d] = thread[d] /\ cap'[d] = cap[d] /\ len'[d] = len[d]
           /\ cut'[d] = cut[d] /\ failed'[d] = failed[d]
  BY <1>0, <1>a, NoBufferGood
<1>1. TypeOK'
  <2>1. srv' \subseteq Descriptors  BY <1>0 DEF TypeOK
  <2> QED  BY <1>0, <1>b, <2>1 DEF TypeOK, mainVars, process, wire
<1>2. \A d \in Clients \ {c} : Same(d) /\ peer'[d] = peer[d]
  BY <1>a, <1>b, OthersDescriptors DEF Same
<1> QED  BY <1>1, <1>2, <1>a, <1>b, OneKept

\* There is no memory for a larger buffer.
LEMMA GrowFailsIInv == ASSUME IInv, NEW c \in Clients, GrowFails(c) PROVE IInv'
<1> USE DEF GrowFails
<1>0. TypeOK /\ Good(c)  BY DEF IInv
<1>a. UNCHANGED <<held, child, cmd, todo, answer, peer, backlog>>  BY DEF wire
<1>b. /\ thread' \in [Clients -> ThreadAt] /\ thread'[c] = "waiting" /\ Good(c)'
      /\ cap' \in [Clients -> Nat] /\ len' \in [Clients -> Nat]
      /\ cut' \in [Clients -> BOOLEAN] /\ failed' \in [Clients -> BOOLEAN]
      /\ \A d \in Clients \ {c} :
           /\ thread'[d] = thread[d] /\ cap'[d] = cap[d] /\ len'[d] = len[d]
           /\ cut'[d] = cut[d] /\ failed'[d] = failed[d]
  BY <1>0, <1>a, NoBufferGood
<1>1. TypeOK'
  <2>1. srv' \subseteq Descriptors  BY <1>0 DEF TypeOK
  <2>2. pipe \in [Clients -> Nat] /\ pipe[c] - Read(c) \in Nat
    <3>1. pipe \in [Clients -> Nat] /\ pipe[c] \in Nat  BY <1>0 DEF TypeOK
    <3>2. Read(c) \in Nat /\ Read(c) <= pipe[c]  BY <3>1, ReadBounds
    <3> QED  BY <3>1, <3>2
  <2>3. pipe' \in [Clients -> Nat]  BY <2>2
  <2> QED  BY <1>0, <1>b, <2>1, <2>3 DEF TypeOK, mainVars, wire
<1>2. \A d \in Clients \ {c} : Same(d) /\ peer'[d] = peer[d]
  <2>1. \A d \in Clients \ {c} : pipe'[d] = pipe[d]  BY <1>0 DEF TypeOK
  <2> QED  BY <1>a, <1>b, <2>1, OthersDescriptors DEF Same
<1> QED  BY <1>1, <1>2, <1>a, <1>b, OneKept

\* A chunk is appended, or the output is cut at the limit.
LEMMA ReadChunkIInv == ASSUME IInv, NEW c \in Clients, ReadChunk(c) PROVE IInv'
<1>0. TypeOK /\ Good(c)  BY DEF IInv
<1> DEFINE n == Read(c)
<1>a. /\ thread[c] = "reading" /\ pipe[c] > 0 /\ pipe' = [pipe EXCEPT ![c] = @ - n]
      /\ UNCHANGED <<mainVars, failed, held, child, cmd, todo, wire>>
  BY DEF ReadChunk
<1>b. UNCHANGED <<answer, peer, backlog>>  BY <1>a DEF wire
<1>n. n \in Nat /\ n <= pipe[c] /\ n <= Chunk  BY <1>0, ReadBounds DEF TypeOK
<1>l. /\ len[c] \in Nat /\ cap[c] \in Nat /\ pipe[c] \in Nat /\ todo[c] \in Nat
      /\ len[c] < cap[c] /\ len[c] <= Max /\ Multiple(cap[c])
  BY <1>0, <1>a DEF TypeOK, Good, Buffer
<1>p. pipe' \in [Clients -> Nat] /\ pipe'[c] = pipe[c] - n
      /\ \A d \in Clients \ {c} : pipe'[d] = pipe[d]
  BY <1>0, <1>a, <1>n, <1>l DEF TypeOK
<1>1. CASE len[c] + n > Max
  <2>a. /\ len' = [len EXCEPT ![c] = Cut(@, n, cap[c])]
        /\ cut' = [cut EXCEPT ![c] = TRUE]
        /\ srv' = srv \ {R(c)}
        /\ thread' = [thread EXCEPT ![c] = "waiting"]
        /\ cap' = cap
    BY <1>1 DEF ReadChunk
  <2> HIDE DEF n
  <2>b. Max <= cap[c]  BY <1>1, <1>l, <1>n, LimitFits
  <2>c. /\ Cut(len[c], n, cap[c]) \in Nat /\ Cut(len[c], n, cap[c]) <= cap[c]
        /\ Cut(len[c], n, cap[c]) <= Max + Notice
    <3>1. len[c] + (Max - len[c]) = Max  BY <1>l, SizesAssumption
    <3> QED  BY <2>b, <3>1, <1>l, SizesAssumption DEF Cut, Room
  <2>d. /\ thread'[c] = "waiting" /\ cut'[c] = TRUE /\ len'[c] = Cut(len[c], n, cap[c])
        /\ cap'[c] = cap[c]
    BY <1>0, <2>a DEF TypeOK
  <2>1. TypeOK'
    <3>1. len' \in [Clients -> Nat]  BY <1>0, <2>a, <2>c DEF TypeOK
    <3>2. cut' \in [Clients -> BOOLEAN] /\ cap' \in [Clients -> Nat]  BY <1>0, <2>a DEF TypeOK
    <3>3. thread' \in [Clients -> ThreadAt]  BY <1>0, <2>a DEF TypeOK, ThreadAt
    <3>4. srv' \subseteq Descriptors  BY <1>0, <2>a DEF TypeOK
    <3> QED  BY <1>0, <1>a, <1>p, <3>1, <3>2, <3>3, <3>4 DEF TypeOK, mainVars, wire
  <2>2. Good(c)'
    <3>1. Child(c)'  BY <2>d DEF Child
    <3>2. Buffer(c)'  BY <1>0, <1>b, <2>c, <2>d DEF Good, Buffer
    <3>3. Output(c)'  BY <2>d DEF Output
    <3> QED  BY <3>1, <3>2, <3>3 DEF Good
  <2>3. \A d \in Clients \ {c} : Same(d) /\ peer'[d] = peer[d]
    BY <1>0, <1>a, <1>b, <1>p, <2>a, OthersDescriptors DEF Same, TypeOK
  <2> QED  BY <1>a, <1>b, <2>1, <2>2, <2>3, <2>d, OneKept
<1>2. CASE ~(len[c] + n > Max)
  <2>a. /\ len' = [len EXCEPT ![c] = @ + n]
        /\ cap' = [cap EXCEPT ![c] = Grown(@, len[c] + n + 1)]
        /\ UNCHANGED <<cut, srv, thread>>
    BY <1>2 DEF ReadChunk
  <2> HIDE DEF n
  <2> DEFINE g == Grown(cap[c], len[c] + n + 1)
  <2>b. g \in Nat /\ Multiple(g) /\ len[c] + n < g  BY <1>l, <1>n, GrownOnce
  <2>c. len'[c] = len[c] + n /\ cap'[c] = g  BY <1>0, <2>a DEF TypeOK
  <2> HIDE DEF g
  <2>1. TypeOK'
    <3>1. len' \in [Clients -> Nat]  BY <1>0, <1>n, <2>a DEF TypeOK
    <3>2. cap' \in [Clients -> Nat]  BY <1>0, <2>a, <2>b DEF TypeOK, g
    <3> QED  BY <1>0, <1>a, <1>p, <2>a, <3>1, <3>2 DEF TypeOK, mainVars, wire
  <2>2. Good(c)'
    <3>1. Child(c)'  BY <1>0, <1>a, <2>a DEF Good, Child
    <3>2. Buffer(c)'
      <4>1. len'[c] < cap'[c] /\ len'[c] <= Max  BY <1>2, <1>l, <1>n, <2>b, <2>c, SizesAssumption
      <4> QED  BY <1>0, <1>a, <1>b, <2>a, <2>b, <2>c, <4>1 DEF Good, Buffer
    <3>3. Output(c)'
      <4>1. (len[c] + n) + (pipe[c] - n) + todo[c] = len[c] + pipe[c] + todo[c]
        BY <1>l, <1>n
      <4> QED  BY <1>0, <1>a, <1>p, <2>a, <2>c, <4>1 DEF Good, Output
    <3> QED  BY <3>1, <3>2, <3>3 DEF Good
  <2>3. \A d \in Clients \ {c} : Same(d) /\ peer'[d] = peer[d]
    BY <1>0, <1>a, <1>b, <1>p, <2>a DEF Same, TypeOK
  <2> QED  BY <1>a, <1>b, <2>1, <2>2, <2>3, <2>a, OneKept
<1> QED  BY <1>1, <1>2

\* The end of file is seen only when the child has ended, and it ends with
\* nothing left to write.
LEMMA ReadEndIInv == ASSUME IInv, NEW c \in Clients, ReadEnd(c) PROVE IInv'
<1> USE DEF ReadEnd, At
<1>0. TypeOK /\ Good(c)  BY DEF IInv
<1>a. UNCHANGED <<held, child, cmd, todo, pipe, cap, len, cut, failed, answer, peer, backlog>>
  BY DEF process, buffer, wire
<1>1. TypeOK'
  <2>1. srv' \subseteq Descriptors  BY <1>0 DEF TypeOK
  <2>2. thread' \in [Clients -> ThreadAt]  BY <1>0 DEF TypeOK, ThreadAt
  <2> QED  BY <1>0, <2>1, <2>2 DEF TypeOK, mainVars, buffer, process, wire
<1>2. thread[c] = "reading" /\ thread'[c] = "waiting"  BY <1>0 DEF TypeOK
<1>3. Good(c)'
  <2>1. Child(c)'  BY <1>2 DEF Child
  <2>2. Buffer(c)'
    <3>1. len[c] \in Nat /\ cap[c] \in Nat  BY <1>0 DEF TypeOK
    <3> QED  BY <1>0, <1>2, <1>a, <3>1, SizesAssumption DEF Good, Buffer
  <2>3. len[c] = cmd[c].size
    <3>1. pipe[c] = 0 /\ W(c) \notin held[c]  BY DEF EndOfOutput, Open
    <3>2. todo[c] = 0 /\ len[c] + pipe[c] + todo[c] = cmd[c].size
      BY <1>0, <1>2, <3>1 DEF Good, Output
    <3>3. len[c] \in Nat  BY <1>0 DEF TypeOK
    <3> QED  BY <3>1, <3>2, <3>3
  <2>4. Output(c)'  BY <1>2, <1>a, <2>3 DEF Output
  <2> QED  BY <2>1, <2>2, <2>4 DEF Good
<1>4. \A d \in Clients \ {c} : Same(d) /\ peer'[d] = peer[d]
  BY <1>0, <1>a, OthersDescriptors DEF Same, TypeOK
<1> QED  BY <1>1, <1>2, <1>3, <1>4, <1>a, OneKept

\* An answer that is short enough, or none; the thread goes on or leaves.
LEMMA SendFrame ==
  ASSUME TypeOK, NEW c \in Clients, Good(c), NEW output \in Nat, output <= Max + Notice,
         NEW unrun \in BOOLEAN, net_send_frame(c, output, unrun)
  PROVE  /\ thread' \in [Clients -> ThreadAt] /\ thread'[c] \in {"recv", "leaving"}
         /\ cap' \in [Clients -> Nat] /\ len' \in [Clients -> Nat] /\ len'[c] = 0
         /\ cut' \in [Clients -> BOOLEAN] /\ failed' \in [Clients -> BOOLEAN]
         /\ cmd' \in [Clients -> Commands \cup {NoCommand}]
         /\ answer' \in [Clients -> Nat] /\ answer'[c] <= Max + Slack
         /\ \A d \in Clients \ {c} :
              /\ thread'[d] = thread[d] /\ cap'[d] = cap[d] /\ len'[d] = len[d]
              /\ cut'[d] = cut[d] /\ failed'[d] = failed[d] /\ cmd'[d] = cmd[d]
              /\ answer'[d] = answer[d]
<1> USE DEF net_send_frame
<1>1. /\ thread' \in [Clients -> ThreadAt] /\ thread'[c] \in {"recv", "leaving"}
      /\ \A d \in Clients \ {c} : thread'[d] = thread[d]
  BY DEF TypeOK, ThreadAt
<1>2. /\ cap' \in [Clients -> Nat] /\ len' \in [Clients -> Nat] /\ len'[c] = 0
      /\ cut' \in [Clients -> BOOLEAN] /\ failed' \in [Clients -> BOOLEAN]
      /\ \A d \in Clients \ {c} :
           cap'[d] = cap[d] /\ len'[d] = len[d] /\ cut'[d] = cut[d] /\ failed'[d] = failed[d]
  BY DEF TypeOK
<1>3. /\ cmd' \in [Clients -> Commands \cup {NoCommand}]
      /\ \A d \in Clients \ {c} : cmd'[d] = cmd[d]
  BY DEF TypeOK
<1>4. /\ answer' \in [Clients -> Nat] /\ answer'[c] <= Max + Slack
      /\ \A d \in Clients \ {c} : answer'[d] = answer[d]
  <2>1. CASE Gone(c)  BY <2>1 DEF TypeOK, Good, Buffer
  <2>2. CASE ~Gone(c)
    <3>1. Header + output \in Nat /\ Header + output <= Max + Slack  BY SizesAssumption
    <3>2. answer' = [answer EXCEPT ![c] = Header + output]  BY <2>2
    <3> QED  BY <3>1, <3>2 DEF TypeOK
  <2> QED  BY <2>1, <2>2
<1> QED  BY <1>1, <1>2, <1>3, <1>4

\* pipe or fork fails: the answer is empty.
LEMMA StartFailsIInv == ASSUME IInv, NEW c \in Clients, StartFails(c) PROVE IInv'
<1>0. TypeOK /\ Good(c)  BY DEF IInv
<1>a. /\ thread[c] \in {"pipe", "fork"} /\ net_send_frame(c, 0, TRUE)
      /\ srv' = srv \ {R(c), W(c)} /\ UNCHANGED <<mainVars, held, child, todo, pipe>>
  BY DEF StartFails
<1>b. UNCHANGED <<peer, backlog, inbox, typed>>  BY <1>a DEF net_send_frame
<1>c. 0 \in Nat /\ 0 <= Max + Notice /\ TRUE \in BOOLEAN  BY SizesAssumption
<1>d. /\ thread' \in [Clients -> ThreadAt] /\ thread'[c] \in {"recv", "leaving"}
      /\ cap' \in [Clients -> Nat] /\ len' \in [Clients -> Nat] /\ len'[c] = 0
      /\ cut' \in [Clients -> BOOLEAN] /\ failed' \in [Clients -> BOOLEAN]
      /\ cmd' \in [Clients -> Commands \cup {NoCommand}]
      /\ answer' \in [Clients -> Nat] /\ answer'[c] <= Max + Slack
      /\ \A d \in Clients \ {c} :
           /\ thread'[d] = thread[d] /\ cap'[d] = cap[d] /\ len'[d] = len[d]
           /\ cut'[d] = cut[d] /\ failed'[d] = failed[d] /\ cmd'[d] = cmd[d]
           /\ answer'[d] = answer[d]
  BY <1>0, <1>a, <1>c, SendFrame
<1>1. TypeOK'
  <2>1. srv' \subseteq Descriptors  BY <1>0, <1>a DEF TypeOK
  <2> QED  BY <1>0, <1>a, <1>b, <1>d, <2>1 DEF TypeOK, mainVars
<1>2. Good(c)'
  <2>1. Child(c)'  BY <1>0, <1>a DEF Good, Child
  <2>2. Buffer(c)'  BY <1>d DEF Buffer
  <2>3. Output(c)'  BY <1>0, <1>a, <1>d DEF Good, Output
  <2> QED  BY <2>1, <2>2, <2>3 DEF Good
<1>3. \A d \in Clients \ {c} : Same(d) /\ peer'[d] = peer[d]
  BY <1>a, <1>b, <1>d, OthersDescriptors DEF Same
<1> QED  BY <1>1, <1>2, <1>3, <1>a, <1>b, <1>d, OneKept

\* The child is collected.
LEMMA CollectIInv ==
  ASSUME IInv, NEW c \in Clients, NEW output \in Nat, output <= Max + Notice,
         NEW unrun \in BOOLEAN, Collect(c, output, unrun)
  PROVE  IInv'
<1>0. TypeOK /\ Good(c)  BY DEF IInv
<1>a. /\ thread[c] = "waiting" /\ net_send_frame(c, output, unrun)
      /\ child' = [child EXCEPT ![c] = "none"] /\ pipe' = [pipe EXCEPT ![c] = 0]
      /\ UNCHANGED <<mainVars, srv, held, todo>>
  BY DEF Collect
<1>b. UNCHANGED <<peer, backlog, inbox, typed>>  BY <1>a DEF net_send_frame
<1>d. /\ thread' \in [Clients -> ThreadAt] /\ thread'[c] \in {"recv", "leaving"}
      /\ cap' \in [Clients -> Nat] /\ len' \in [Clients -> Nat] /\ len'[c] = 0
      /\ cut' \in [Clients -> BOOLEAN] /\ failed' \in [Clients -> BOOLEAN]
      /\ cmd' \in [Clients -> Commands \cup {NoCommand}]
      /\ answer' \in [Clients -> Nat] /\ answer'[c] <= Max + Slack
      /\ \A d \in Clients \ {c} :
           /\ thread'[d] = thread[d] /\ cap'[d] = cap[d] /\ len'[d] = len[d]
           /\ cut'[d] = cut[d] /\ failed'[d] = failed[d] /\ cmd'[d] = cmd[d]
           /\ answer'[d] = answer[d]
  BY <1>0, <1>a, SendFrame
<1>e. /\ child' \in [Clients -> {"none", "running", "stopped", "zombie"}]
      /\ pipe' \in [Clients -> Nat] /\ child'[c] = "none" /\ pipe'[c] = 0
      /\ \A d \in Clients \ {c} : child'[d] = child[d] /\ pipe'[d] = pipe[d]
  BY <1>0, <1>a DEF TypeOK
<1>1. TypeOK'  BY <1>0, <1>a, <1>b, <1>d, <1>e DEF TypeOK, mainVars
<1>2. Good(c)'
  <2>1. Child(c)'  BY <1>e DEF Child
  <2>2. Buffer(c)'  BY <1>d DEF Buffer
  <2>3. Output(c)'  BY <1>d, <1>e DEF Output
  <2> QED  BY <2>1, <2>2, <2>3 DEF Good
<1>3. \A d \in Clients \ {c} : Same(d) /\ peer'[d] = peer[d]
  BY <1>a, <1>b, <1>d, <1>e DEF Same
<1> QED  BY <1>1, <1>2, <1>3, <1>a, <1>b, <1>d, OneKept

\* The output is sent, or the message that nothing could be run.
LEMMA WaitChildIInv ==
  ASSUME IInv, NEW c \in Clients, WaitChild(c) \/ TerminatorFails(c)
  PROVE  IInv'
<1>0. TypeOK /\ Good(c)  BY DEF IInv
<1>1. CASE WaitChild(c)
  <2>1. len[c] \in Nat /\ len[c] <= Max + Notice /\ failed[c] \in BOOLEAN
    BY <1>0, <1>1 DEF WaitChild, Collect, TypeOK, Good, Buffer
  <2>2. PICK output \in Nat, unrun \in BOOLEAN : output = len[c] /\ unrun = failed[c]
    BY <2>1
  <2>3. Collect(c, output, unrun) /\ output <= Max + Notice
    BY <1>1, <2>1, <2>2 DEF WaitChild
  <2> QED  BY <2>3, CollectIInv
<1>2. CASE TerminatorFails(c)
  <2>1. 0 \in Nat /\ 0 <= Max + Notice /\ TRUE \in BOOLEAN  BY SizesAssumption
  <2> QED  BY <1>2, <2>1, CollectIInv DEF TerminatorFails
<1> QED  BY <1>1, <1>2

\* There is no memory for the answer, but the child is collected.
LEMMA NoAnswerIInv == ASSUME IInv, NEW c \in Clients, NoAnswer(c) PROVE IInv'
<1> USE DEF NoAnswer
<1>0. TypeOK /\ Good(c)  BY DEF IInv
<1>a. UNCHANGED <<answer, peer, backlog>>  BY DEF wire
<1>b. /\ thread' \in [Clients -> ThreadAt] /\ thread'[c] = "leaving" /\ thread[c] = "waiting"
      /\ \A d \in Clients \ {c} : thread'[d] = thread[d]
  BY <1>0 DEF TypeOK, ThreadAt
<1>c. /\ child' \in [Clients -> {"none", "running", "stopped", "zombie"}]
      /\ pipe' \in [Clients -> Nat] /\ child'[c] = "none" /\ pipe'[c] = 0
      /\ \A d \in Clients \ {c} : child'[d] = child[d] /\ pipe'[d] = pipe[d]
  BY <1>0 DEF TypeOK
<1>d. /\ cap' \in [Clients -> Nat] /\ len' \in [Clients -> Nat] /\ len'[c] = 0
      /\ cut' \in [Clients -> BOOLEAN]
      /\ \A d \in Clients \ {c} : cap'[d] = cap[d] /\ len'[d] = len[d] /\ cut'[d] = cut[d]
  BY <1>0 DEF TypeOK
<1>e. /\ cmd' \in [Clients -> Commands \cup {NoCommand}]
      /\ \A d \in Clients \ {c} : cmd'[d] = cmd[d]
  BY <1>0 DEF TypeOK
<1>1. TypeOK'  BY <1>0, <1>b, <1>c, <1>d, <1>e DEF TypeOK, mainVars, wire
<1>2. Good(c)'
  <2>1. Child(c)'  BY <1>c DEF Child
  <2>2. Buffer(c)'  BY <1>0, <1>a, <1>b, <1>d DEF Good, Buffer
  <2>3. Output(c)'  BY <1>b, <1>c DEF Output
  <2> QED  BY <2>1, <2>2, <2>3 DEF Good
<1>3. \A d \in Clients \ {c} : Same(d) /\ peer'[d] = peer[d]
  BY <1>a, <1>b, <1>c, <1>d, <1>e DEF Same
<1> QED  BY <1>1, <1>2, <1>3, <1>a, <1>b, OneKept

\* The thread ends: with it one client is counted out.
LEMMA UnregisterIInv == ASSUME IInv, NEW c \in Clients, Unregister(c) PROVE IInv'
<1>0. TypeOK /\ Good(c)  BY DEF IInv
<1>a. /\ thread' = [thread EXCEPT ![c] = "none"] /\ srv' = srv \ {Sock(c)}
      /\ inbox' = [inbox EXCEPT ![c] = <<>>]
      /\ active_clients' = IF active_clients > 0 THEN active_clients - 1 ELSE 0
      /\ main' = IF main = "asleep" THEN "drain" ELSE main
      /\ UNCHANGED <<once, stop_server, fresh, buffer, held, process, peer, backlog, answer, typed>>
  BY DEF Unregister, Broadcast
<1>b. thread[c] \in {"recv", "leaving"}  BY DEF Unregister, Leaves
<1>c. /\ thread' \in [Clients -> ThreadAt] /\ thread'[c] = "none"
      /\ \A d \in Clients \ {c} : thread'[d] = thread[d]
  BY <1>0, <1>a DEF TypeOK, ThreadAt
<1>d. Cardinality(Live') = Cardinality(Live) - 1 /\ Cardinality(Live) > 0
  BY <1>b, <1>c, LiveChange
<1>e. active_clients > 0 /\ active_clients' = active_clients - 1 /\ active_clients \in Nat
  BY <1>0, <1>a, <1>d, LiveFinite DEF IInv, ActiveCounts, TypeOK
<1>1. TypeOK'
  <2>1. srv' \subseteq Descriptors  BY <1>0, <1>a DEF TypeOK
  <2>2. inbox' \in [Clients -> Seq(Frames)]  BY <1>0, <1>a DEF TypeOK
  <2>3. main' \in MainAt /\ active_clients' \in Nat  BY <1>0, <1>a, <1>e DEF TypeOK, MainAt
  <2> QED  BY <1>0, <1>a, <1>c, <2>1, <2>2, <2>3 DEF TypeOK, buffer, process
<1>2. \A d \in Clients : Good(d)'
  <2> TAKE d \in Clients
  <2>1. CASE d = c
    BY <1>0, <1>a, <1>b, <1>c, <2>1 DEF Good, Child, Buffer, Output, buffer, process
  <2>2. CASE d # c
    <3>1. Same(d)
      BY <1>a, <1>c, <2>2, OthersDescriptors DEF Same, buffer, process
    <3> QED  BY <3>1, SameGood DEF IInv
  <2> QED  BY <2>1, <2>2
<1>3. ActiveCounts'
  BY <1>a, <1>d, <1>e, LiveFinite DEF IInv, ActiveCounts
<1>4. Queue'
  <2>1. \A i \in DOMAIN backlog : backlog[i] \in Clients  BY <1>0 DEF TypeOK
  <2>2. \A d \in Clients : thread[d] = "none" => thread'[d] = "none"  BY <1>c
  <2>3. \A d \in Clients : thread'[d] # "none" => thread[d] # "none"  BY <1>c
  <2>4. main' = "create" => main = "create"  BY <1>a
  <2> QED  BY <1>a, <2>1, <2>2, <2>3, <2>4 DEF IInv, Queue, Waiting
<1>5. Ending'  BY <1>a, <1>e DEF IInv, Ending
<1> QED  BY <1>1, <1>2, <1>3, <1>4, <1>5 DEF IInv

-----------------------------------------------------------------------------
(* The children *)

\* While it is read from, a child ends only with nothing left to write.
LEMMA CommandIInv ==
  ASSUME IInv, NEW c \in Clients, Writes(c) \/ Ends(c) \/ Stops(c)
  PROVE  IInv'
<1>0. TypeOK /\ Good(c)  BY DEF IInv
<1>a. UNCHANGED <<mainVars, thread, buffer, srv, cmd, wire>>
  BY DEF Writes, Ends, Stops, OnlyChild
<1>b. UNCHANGED <<mainVars, thread, cap, len, cut, failed, srv, cmd, peer, backlog, inbox,
                  answer, typed>>
  BY <1>a DEF buffer, wire
<1>t. child[c] = "running"  BY DEF Writes, Ends, Stops
<1>1. /\ pipe' \in [Clients -> Nat] /\ todo' \in [Clients -> Nat]
      /\ child' \in [Clients -> {"none", "running", "stopped", "zombie"}]
      /\ held' \in [Clients -> SUBSET Descriptors]
      /\ \A d \in Clients \ {c} :
           pipe'[d] = pipe[d] /\ todo'[d] = todo[d] /\ child'[d] = child[d] /\ held'[d] = held[d]
  <2>1. CASE Writes(c)
    <3>1. pipe[c] + 1 \in Nat /\ todo[c] - 1 \in Nat  BY <1>0, <2>1 DEF TypeOK, Writes
    <3> QED  BY <1>0, <2>1, <3>1 DEF TypeOK, Writes
  <2>2. CASE Ends(c)  BY <1>0, <2>2 DEF TypeOK, Ends
  <2>3. CASE Stops(c)  BY <1>0, <2>3 DEF TypeOK, Stops
  <2> QED  BY <2>1, <2>2, <2>3
<1>2. TypeOK'  BY <1>0, <1>b, <1>1 DEF TypeOK, mainVars
<1>3. Good(c)'
  <2>1. Child(c)'  BY <1>0, <1>b, <1>t DEF Good, Child
  <2>2. Buffer(c)'  BY <1>0, <1>b DEF Good, Buffer
  <2>3. Output(c)'
    <3>0. thread[c] \in {"forked", "reading", "waiting"}  BY <1>0, <1>t DEF Good, Child
    <3>n. pipe[c] \in Nat /\ todo[c] \in Nat /\ len[c] \in Nat  BY <1>0 DEF TypeOK
    <3>1. CASE thread[c] = "waiting"  BY <1>0, <1>b, <3>1 DEF Good, Output
    <3>2. CASE thread[c] \in {"forked", "reading"}
      <4>0. /\ R(c) \in srv /\ len[c] + pipe[c] + todo[c] = cmd[c].size /\ W(c) \in held[c]
        BY <1>0, <1>t, <3>2 DEF Good, Output
      <4>1. CASE Writes(c)
        <5>1. /\ pipe'[c] = pipe[c] + 1 /\ todo'[c] = todo[c] - 1 /\ todo[c] > 0
              /\ child' = child /\ held' = held
          BY <1>0, <4>1 DEF Writes, TypeOK
        <5>2. len[c] + pipe'[c] + todo'[c] = cmd[c].size  BY <3>n, <4>0, <5>1
        <5> QED  BY <1>b, <1>t, <3>2, <4>0, <5>1, <5>2 DEF Output
      <4>2. CASE Ends(c)
        <5>1. todo[c] = 0  BY <4>0, <4>2 DEF Ends, Open
        <5>2. todo'[c] = 0 /\ child'[c] = "zombie" /\ pipe' = pipe
          BY <1>0, <4>2 DEF Ends, TypeOK
        <5> QED  BY <1>b, <3>2, <4>0, <5>1, <5>2 DEF Output
      <4>3. CASE Stops(c)
        <5>1. child'[c] = "stopped" /\ UNCHANGED <<held, pipe, todo>>
          BY <1>0, <4>3 DEF Stops, TypeOK
        <5> QED  BY <1>b, <3>2, <4>0, <5>1 DEF Output
      <4> QED  BY <4>1, <4>2, <4>3
    <3> QED  BY <3>0, <3>1, <3>2
  <2> QED  BY <2>1, <2>2, <2>3 DEF Good
<1>4. \A d \in Clients \ {c} : Same(d) /\ peer'[d] = peer[d]  BY <1>b, <1>1 DEF Same
<1> QED  BY <1>2, <1>3, <1>4, <1>b, OneKept

-----------------------------------------------------------------------------
(* The client processes *)

\* A frame joins the ones the server has not read.
LEMMA FramesGrow ==
  ASSUME TypeOK, NEW c \in Clients, NEW f \in Frames, inbox' = [inbox EXCEPT ![c] = Append(@, f)]
  PROVE  inbox' \in [Clients -> Seq(Frames)]
<1>1. inbox[c] \in Seq(Frames)  BY DEF TypeOK
<1>2. Append(inbox[c], f) \in Seq(Frames)  BY <1>1
<1> QED  BY <1>2 DEF TypeOK

\* What a connected client does reaches the server only through the frames it
\* sends and the answer it takes.
LEMMA PeerIInv ==
  ASSUME IInv, NEW c \in Clients, OnlyClient, backlog' = backlog,
         inbox' \in [Clients -> Seq(Frames)], typed' \in 0 .. MaxLines,
         peer' \in [Clients -> {"off", "prompt", "await", "gone", "killed"}],
         peer'[c] # "off", \A d \in Clients \ {c} : peer'[d] = peer[d],
         answer' = answer \/ answer' = [answer EXCEPT ![c] = 0]
  PROVE  IInv'
<1>0. TypeOK /\ Good(c)  BY DEF IInv
<1>a. UNCHANGED <<mainVars, thread, cap, len, cut, failed, srv, held, child, cmd, todo, pipe>>
  BY DEF OnlyClient, buffer, process
<1>b. /\ answer' \in [Clients -> Nat] /\ (answer'[c] = answer[c] \/ answer'[c] = 0)
      /\ \A d \in Clients \ {c} : answer'[d] = answer[d]
  <2>0. answer \in [Clients -> Nat]  BY <1>0 DEF TypeOK
  <2>1. CASE answer' = answer  BY <2>0, <2>1
  <2>2. CASE answer' = [answer EXCEPT ![c] = 0]  BY <2>0, <2>2
  <2> QED  BY <2>1, <2>2
<1>1. TypeOK'  BY <1>0, <1>a, <1>b DEF TypeOK, mainVars
<1>2. Good(c)'
  <2>1. Child(c)'  BY <1>0, <1>a DEF Good, Child
  <2>2. Buffer(c)'
    <3>1. answer'[c] <= Max + Slack  BY <1>0, <1>b, SizesAssumption DEF Good, Buffer
    <3> QED  BY <1>0, <1>a, <3>1 DEF Good, Buffer
  <2>3. Output(c)'  BY <1>0, <1>a DEF Good, Output
  <2> QED  BY <2>1, <2>2, <2>3 DEF Good
<1>3. \A d \in Clients \ {c} : Same(d) /\ peer'[d] = peer[d]  BY <1>a, <1>b DEF Same
<1> QED  BY <1>1, <1>2, <1>3, <1>a, OneKept

\* A line is sent, and counted.
LEMMA SendIInv ==
  ASSUME IInv, NEW c \in Clients, NEW f \in Frames, send_command(c, f)
  PROVE  IInv'
<1> USE DEF send_command
<1>0. TypeOK  BY DEF IInv
<1>1. inbox' \in [Clients -> Seq(Frames)]  BY <1>0, FramesGrow
<1>2. typed' \in 0 .. MaxLines  BY <1>0, SizesAssumption DEF TypeOK
<1>3. /\ peer' \in [Clients -> {"off", "prompt", "await", "gone", "killed"}]
      /\ peer'[c] # "off" /\ \A d \in Clients \ {c} : peer'[d] = peer[d]
  BY <1>0 DEF TypeOK
<1> QED  BY <1>1, <1>2, <1>3, PeerIInv

\* The client leaves, takes its answer, loses the server or is killed.
LEMMA PeerStepIInv ==
  ASSUME IInv, NEW c \in Clients, Leave(c) \/ Receive(c) \/ LoseServer(c) \/ Abort(c)
  PROVE  IInv'
<1>0. TypeOK  BY DEF IInv
<1>1. inbox' \in [Clients -> Seq(Frames)]
  <2>1. CASE Leave(c)
    <3>1. PICK f \in Frames : f = [op |-> "exit"]  BY DEF Frames
    <3>2. inbox' = [inbox EXCEPT ![c] = Append(@, f)]  BY <2>1, <3>1 DEF Leave
    <3> QED  BY <1>0, <3>2, FramesGrow
  <2>2. CASE Receive(c) \/ LoseServer(c) \/ Abort(c)
    BY <1>0, <2>2 DEF Receive, LoseServer, Abort, TypeOK
  <2> QED  BY <2>1, <2>2
<1>2. typed' = typed /\ backlog' = backlog /\ OnlyClient
  BY DEF Leave, Receive, LoseServer, Abort
<1>3. /\ peer' \in [Clients -> {"off", "prompt", "await", "gone", "killed"}]
      /\ peer'[c] # "off" /\ \A d \in Clients \ {c} : peer'[d] = peer[d]
  <2>1. CASE Leave(c)  BY <1>0, <2>1 DEF TypeOK, Leave
  <2>2. CASE Receive(c)  BY <1>0, <2>2 DEF TypeOK, Receive
  <2>3. CASE LoseServer(c)  BY <1>0, <2>3 DEF TypeOK, LoseServer
  <2>4. CASE Abort(c)  BY <1>0, <2>4 DEF TypeOK, Abort
  <2> QED  BY <2>1, <2>2, <2>3, <2>4
<1>4. answer' = answer \/ answer' = [answer EXCEPT ![c] = 0]
  BY DEF Leave, Receive, LoseServer, Abort
<1>5. typed' \in 0 .. MaxLines  BY <1>0, <1>2 DEF TypeOK
<1> QED  BY <1>1, <1>2, <1>3, <1>4, <1>5, PeerIInv

\* A client that was not there is in no place yet: it joins the backlog once.
LEMMA ConnectIInv == ASSUME IInv, NEW c \in Clients, Connect(c) PROVE IInv'
<1>0. TypeOK /\ Queue  BY DEF IInv
<1>a. UNCHANGED <<mainVars, thread, cap, len, cut, failed, srv, held, child, cmd, todo, pipe,
                  inbox, answer, typed>>
  BY DEF Connect, OnlyClient, buffer, process
<1>b. /\ peer' \in [Clients -> {"off", "prompt", "await", "gone", "killed"}]
      /\ peer'[c] # "off" /\ \A d \in Clients \ {c} : peer'[d] = peer[d]
  BY <1>0 DEF TypeOK, Connect
<1>c. backlog' = backlog \/ backlog' = Append(backlog, c)  BY DEF Connect
<1>d. peer[c] = "off"  BY DEF Connect
<1>e. thread[c] = "none" /\ ~Waiting(c)  BY <1>0, <1>d DEF Queue, Waiting
<1>f. backlog \in Seq(Clients)  BY <1>0 DEF TypeOK
<1>1. TypeOK'
  <2>1. backlog' \in Seq(Clients)  BY <1>c, <1>f
  <2> QED  BY <1>0, <1>a, <1>b, <2>1 DEF TypeOK, mainVars
<1>2. \A d \in Clients : Good(d)'
  <2> TAKE d \in Clients
  <2>1. Same(d)  BY <1>a DEF Same
  <2> QED  BY <2>1, SameGood DEF IInv
<1>3. ActiveCounts' /\ Ending'
  <2>1. Live' = Live  BY <1>a DEF Live
  <2> QED  BY <1>a, <2>1 DEF IInv, ActiveCounts, Ending, mainVars
<1>4. Queue'
  <2>1. CASE backlog' = backlog
    <3>1. \A i \in DOMAIN backlog : backlog[i] \in Clients  BY <1>f
    <3> QED  BY <1>0, <1>a, <1>b, <2>1, <3>1 DEF Queue, Waiting, mainVars
  <2>2. CASE backlog' = Append(backlog, c)
    <3> DEFINE n == Len(backlog)
    <3>1. /\ n \in Nat /\ DOMAIN backlog = 1 .. n /\ DOMAIN backlog' = 1 .. n + 1
          /\ backlog'[n + 1] = c /\ \A i \in 1 .. n : backlog'[i] = backlog[i] /\ backlog[i] \in Clients
      BY <1>f, <2>2
    <3> HIDE DEF n
    <3>2. \A i \in 1 .. n : backlog[i] # c  BY <1>e, <3>1 DEF Waiting
    <3>3. \A i \in 1 .. n + 1 : i \in 1 .. n \/ i = n + 1  BY <3>1
    <3>4. \A i \in DOMAIN backlog' : thread'[backlog'[i]] = "none" /\ peer'[backlog'[i]] # "off"
      BY <1>0, <1>a, <1>b, <1>e, <3>1, <3>2, <3>3 DEF Queue
    <3>5. \A i, j \in DOMAIN backlog' : backlog'[i] = backlog'[j] => i = j
      BY <1>0, <3>1, <3>2, <3>3 DEF Queue
    <3>6. main' = "create" =>
            /\ fresh' \in Clients /\ thread'[fresh'] = "none" /\ peer'[fresh'] # "off"
            /\ ~Waiting(fresh)'
      <4> SUFFICES ASSUME main' = "create"
                   PROVE  /\ fresh' \in Clients /\ thread'[fresh'] = "none"
                          /\ peer'[fresh'] # "off" /\ ~Waiting(fresh)'
        OBVIOUS
      <4>1. fresh \in Clients /\ thread[fresh] = "none" /\ peer[fresh] # "off" /\ ~Waiting(fresh)
        BY <1>0, <1>a DEF Queue, mainVars
      <4>2. fresh' = fresh /\ fresh # c  BY <1>a, <1>d, <4>1 DEF mainVars
      <4>3. ~Waiting(fresh)'  BY <3>1, <3>3, <4>1, <4>2 DEF Waiting
      <4> QED  BY <1>a, <1>b, <4>1, <4>2, <4>3
    <3>7. \A d \in Clients : thread'[d] # "none" => peer'[d] # "off"
      BY <1>0, <1>a, <1>b DEF Queue
    <3> QED  BY <3>4, <3>5, <3>6, <3>7 DEF Queue
  <2> QED  BY <1>c, <2>1, <2>2
<1> QED  BY <1>1, <1>2, <1>3, <1>4 DEF IInv

-----------------------------------------------------------------------------
(* The theorems *)

\* Every step keeps the invariant.
LEMMA NextIInv == IInv /\ [Next]_vars => IInv'
<1> SUFFICES ASSUME IInv, [Next]_vars PROVE IInv'  OBVIOUS
<1>1. CASE Main  BY <1>1, AcceptIInv, CreateIInv, PlainIInv DEF Main
<1>2. CASE AcceptFails \/ on_signal  BY <1>2, PlainIInv
<1>3. ASSUME NEW c \in Clients,
             \/ ThreadSteps(c) \/ StartFails(c) \/ AllocFails(c) \/ GrowFails(c)
             \/ TerminatorFails(c) \/ NoAnswer(c)
      PROVE  IInv'
  BY <1>3, RecvIInv, MakePipeIInv, ForkIInv, StartReadingIInv, ReadChunkIInv, ReadEndIInv,
     WaitChildIInv, UnregisterIInv, StartFailsIInv, AllocFailsIInv, GrowFailsIInv, NoAnswerIInv
  DEF ThreadSteps
<1>4. ASSUME NEW c \in Clients, Command(c) \/ Stops(c) PROVE IInv'
  BY <1>4, CommandIInv DEF Command
<1>5. ASSUME NEW c \in Clients, Client(c) PROVE IInv'
  <2>1. CASE Receive(c) \/ LoseServer(c) \/ Leave(c) \/ Abort(c)  BY <2>1, PeerStepIInv
  <2>2. CASE Connect(c)  BY <2>2, ConnectIInv
  <2>3. CASE send_command(c, [op |-> "empty"])
    <3>1. PICK f \in Frames : f = [op |-> "empty"]  BY DEF Frames
    <3> QED  BY <2>3, <3>1, SendIInv
  <2>4. ASSUME NEW k \in Commands, send_command(c, Run(k)) PROVE IInv'
    <3>1. PICK f \in Frames : f = Run(k)  BY DEF Frames, Run
    <3> QED  BY <2>4, <3>1, SendIInv
  <2> QED  BY <1>5, <2>1, <2>2, <2>3, <2>4 DEF Client
<1>6. CASE UNCHANGED vars
  <2>1. UNCHANGED <<mainVars, thread, cap, len, cut, failed, srv, held, child, cmd, todo, pipe,
                    peer, backlog, inbox, answer, typed>>
    BY <1>6 DEF vars, buffer, process, wire
  <2>2. TypeOK'  BY <2>1 DEF IInv, TypeOK, mainVars
  <2>3. \A c \in Clients : Good(c)'
    <3> TAKE c \in Clients
    <3>1. Same(c)  BY <2>1 DEF Same
    <3> QED  BY <3>1, SameGood DEF IInv
  <2>4. ActiveCounts' /\ Queue' /\ Ending'  BY <2>1, GlobalKept
  <2> QED  BY <2>2, <2>3, <2>4 DEF IInv
<1> QED  BY <1>1, <1>2, <1>3, <1>4, <1>5, <1>6 DEF Next

\* The invariant holds in every state of the server and its clients.
THEOREM ServerInvariant == Spec => []IInv
BY InitIInv, NextIInv, PTL DEF Spec

\* Every variable keeps to the values the code gives it.
THEOREM ServerTypes == Spec => []TypeOK
<1>1. IInv => TypeOK  BY DEF IInv
<1> QED  BY <1>1, ServerInvariant, PTL

\* active_clients is the number of clients' threads, with the one about to be
\* created (server.c 131, 184, 189): what the last loop waits for.
THEOREM ServerCounts == Spec => []ActiveCounts
<1>1. IInv => ActiveCounts  BY DEF IInv
<1> QED  BY <1>1, ServerInvariant, PTL

\* When the server returns (server.c 201) every thread has ended and every
\* child of a request has been collected, however many clients there were.
THEOREM ServerOutlivesThreads == Spec => []NoThreadOutlivesMain
<1>1. IInv => NoThreadOutlivesMain
  <2> SUFFICES ASSUME IInv, main = "done", NEW c \in Clients
               PROVE  thread[c] = "none" /\ child[c] = "none"
    BY DEF NoThreadOutlivesMain
  <2>1. Cardinality(Live) = 0  BY LiveFinite DEF IInv, ActiveCounts, Ending
  <2>2. IsFiniteSet(Live)
    <3>1. IsFiniteSet(Clients)  BY NAssumption, FS_Interval DEF Clients
    <3> QED  BY <3>1, FS_Subset DEF Live
  <2>3. Live = {}  BY <2>1, <2>2, FS_EmptySet
  <2>4. thread[c] = "none"  BY <2>3 DEF Live
  <2> QED  BY <2>4 DEF IInv, Good, Child
<1> QED  BY <1>1, ServerInvariant, PTL

\* The copies of server.c 59 and 61 stay inside the buffer, and no answer is
\* longer than client.c 26 accepts, for every limit that is a number of chunks.
THEOREM ServerBufferSafe == Spec => []BufferSafe
<1>1. IInv => BufferSafe
  <2> SUFFICES ASSUME IInv, NEW c \in Clients
               PROVE  /\ thread[c] \in {"reading", "waiting"} => len[c] <= cap[c]
                      /\ answer[c] <= Max + Slack
    BY DEF BufferSafe
  <2>1. len[c] \in Nat /\ cap[c] \in Nat  BY DEF IInv, TypeOK
  <2> QED  BY <2>1 DEF IInv, Good, Buffer
<1> QED  BY <1>1, ServerInvariant, PTL

\* Without a cut the answer carries all of the command's output: the end of
\* file (server.c 48 to 74) is never seen before the last byte.
THEOREM ServerOutputWhole == Spec => []OutputWhole
<1>1. IInv => OutputWhole  BY DEF IInv, Good, Output, Buffer, OutputWhole
<1> QED  BY <1>1, ServerInvariant, PTL
=============================================================================
