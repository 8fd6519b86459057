---------------------------- MODULE NetworkServer ---------------------------
(***************************************************************************)
(* The loopback command server and its client: network/server.c,           *)
(* network/protocol.c, network/client.c, and of shell/shell.c the          *)
(* non-interactive run of a pipeline.                                      *)
(*                                                                         *)
(* The accept loop is one thread, every client another; a request forks a  *)
(* child that runs the pipeline and waits for its commands.  Child and     *)
(* commands are one process here: the child ends when the last of them     *)
(* has.  No descriptor is close-on-exec, so the child holds a copy of all  *)
(* that the server has open at the fork: the listener, other clients'      *)
(* sockets and the pipes of other requests.                                *)
(*                                                                         *)
(* SIGTERM and SIGINT only set stop_server, and restart accept, recv and   *)
(* waitpid.  The child has the same handler, since it never calls exec:    *)
(* the kill of a request whose output is cut does not end it.              *)
(*                                                                         *)
(* A frame arrives whole or not at all (one cut off by the client's end is *)
(* taken for the end of the stream); what commands and answers say is left *)
(* out, their lengths are kept.                                            *)
(***************************************************************************)
EXTENDS Integers, FiniteSets, Sequences

CONSTANTS N,           \* clients, numbered in the order in which they connect
          Commands,    \* [size |-> what it writes, tty |-> it reads the terminal]
          Chunk,       \* what one read takes, and the buffer's first size
          Max,         \* MLRT_MAX_RESPONSE
          Notice,      \* length of the notice that output was cut
          Header,      \* length of the exit_status line
          Slack,       \* what a client accepts beyond Max
          PipeSize,    \* what a pipe holds
          MaxLines,    \* bound: lines typed, over all clients
          MaxKills     \* bound: clients killed while they wait for an answer

ASSUME NAssumption == N \in Nat
ASSUME CommandsAssumption == Commands \subseteq [size : Nat, tty : BOOLEAN]
ASSUME SizesAssumption ==
  /\ Chunk \in Nat \ {0} /\ PipeSize \in Nat \ {0}
  /\ Max \in Nat /\ Max % Chunk = 0
  /\ Notice \in Nat /\ Header \in Nat /\ Slack \in Nat /\ Notice + Header <= Slack
  /\ MaxLines \in Nat /\ MaxKills \in Nat

VARIABLES main,            \* where the accept loop is
          once,            \* --once
          stop_server,
          active_clients,
          fresh,           \* the client accept returned
          thread,          \* client -> where its thread is
          cap, len,        \* client -> size and use of the output buffer
          cut, failed,     \* client -> how execute_capture ends
          srv,             \* descriptors the server has open
          held,            \* client -> descriptors its request's child has open
          child,           \* client -> "none", "running", "stopped", "zombie"
          cmd,             \* client -> its command
          todo,            \* client -> what the command has still to write
          pipe,            \* client -> what is in the request's pipe
          peer,            \* client -> where the client process is
          backlog,         \* connections accept has not returned yet
          inbox,           \* client -> frames the server has not read
          answer,          \* client -> length of the answer under way, or 0
          typed            \* history: what MaxLines counts

mainVars == <<main, once, stop_server, active_clients, fresh>>
buffer == <<cap, len, cut, failed>>
process == <<child, cmd, todo, pipe>>
wire == <<peer, backlog, inbox, answer, typed>>
vars == <<mainVars, thread, buffer, srv, held, process, wire>>

Clients == 1 .. N
NoClient == 0
Listener == <<NoClient, "listener">>
Sock(c) == <<c, "socket">>
R(c) == <<c, "read">>
W(c) == <<c, "write">>
Descriptors == {Listener} \cup (Clients \X {"socket", "read", "write"})
Open(d) == d \in srv \/ \E c \in Clients : d \in held[c]

NoCommand == [size |-> 0, tty |-> FALSE]
Run(k) == [op |-> "run", k |-> k]
Frames == [op : {"run"}, k : Commands] \cup [op : {"empty", "exit"}]
MainAt == {"accept", "create", "close", "drain", "asleep", "done"}
ThreadAt == {"none", "recv", "pipe", "fork", "forked", "reading", "waiting",
             "leaving"}
\* execute_capture and the answer
Working == {"pipe", "fork", "forked", "reading", "waiting"}

Init ==
  /\ main = "accept" /\ once \in BOOLEAN /\ stop_server = FALSE
  /\ active_clients = 0 /\ fresh = NoClient
  /\ thread = [c \in Clients |-> "none"]
  /\ cap = [c \in Clients |-> 0] /\ len = [c \in Clients |-> 0]
  /\ cut = [c \in Clients |-> FALSE] /\ failed = [c \in Clients |-> FALSE]
  /\ srv = {Listener} /\ held = [c \in Clients |-> {}]
  /\ child = [c \in Clients |-> "none"] /\ cmd = [c \in Clients |-> NoCommand]
  /\ todo = [c \in Clients |-> 0] /\ pipe = [c \in Clients |-> 0]
  /\ peer = [c \in Clients |-> "off"] /\ backlog = <<>>
  /\ inbox = [c \in Clients |-> <<>>] /\ answer = [c \in Clients |-> 0]
  /\ typed = 0

-----------------------------------------------------------------------------
(* The accept loop *)

on_signal ==
  /\ ~stop_server /\ main # "done"
  /\ stop_server' = TRUE
  /\ UNCHANGED <<main, once, active_clients, fresh, thread, buffer, srv, held, process, wire>>

\* The loop's test, taken with the step before it: a signal that comes between
\* the test and accept has the effect of one that comes in accept.
NextTurn == main' = IF stop_server THEN "close" ELSE "accept"

\* accept has no descriptor for the connection.
AcceptFails ==
  /\ main = "accept" /\ backlog # <<>>
  /\ main' = "close"
  /\ UNCHANGED <<once, stop_server, active_clients, fresh, thread, buffer, srv, held,
                 process, wire>>

\* Fault: the new client is not counted.
LeaveUncounted == UNCHANGED active_clients
CountClient == active_clients' = active_clients + 1

\* A connection is dropped for want of memory, or counted.
Accept ==
  /\ main = "accept" /\ backlog # <<>>
  /\ backlog' = Tail(backlog)
  /\ \/ /\ NextTurn /\ UNCHANGED <<srv, fresh, active_clients>>
     \/ /\ main' = "create" /\ fresh' = Head(backlog)
        /\ srv' = srv \cup {Sock(Head(backlog))}
        /\ CountClient
  /\ UNCHANGED <<once, stop_server, thread, buffer, held, process, peer, inbox, answer, typed>>

\* pthread_create succeeds, or the count is taken back.
CreateThread ==
  /\ main = "create"
  /\ fresh' = NoClient
  /\ \/ /\ thread' = [thread EXCEPT ![fresh] = "recv"]
        /\ IF once THEN main' = "close" ELSE NextTurn
        /\ UNCHANGED <<active_clients, srv>>
     \/ /\ NextTurn /\ srv' = srv \ {Sock(fresh)}
        /\ active_clients' = active_clients - 1
        /\ UNCHANGED thread
  /\ UNCHANGED <<once, stop_server, buffer, held, process, wire>>

\* The test of the last loop: sleep on client_cv, or return.
Sleep == main' = IF active_clients = 0 THEN "done" ELSE "asleep"

CloseListener ==
  /\ main = "close" /\ Sleep
  /\ srv' = srv \ {Listener}
  /\ UNCHANGED <<once, stop_server, active_clients, fresh, thread, buffer, held, process, wire>>

Drain ==
  /\ main = "drain" /\ Sleep
  /\ UNCHANGED <<once, stop_server, active_clients, fresh, thread, buffer, srv, held,
                 process, wire>>

-----------------------------------------------------------------------------
(* A client's thread *)

Gone(c) == peer[c] \in {"gone", "killed"}
At(c, from, to) == thread[c] = from /\ thread' = [thread EXCEPT ![c] = to]

\* The next frame is a command.
net_recv_frame(c) ==
  /\ inbox[c] # <<>> /\ Head(inbox[c]).op = "run"
  /\ At(c, "recv", "pipe")
  /\ cmd' = [cmd EXCEPT ![c] = Head(inbox[c]).k]
  /\ inbox' = [inbox EXCEPT ![c] = Tail(@)]
  /\ UNCHANGED <<mainVars, buffer, srv, held, child, todo, pipe, peer, backlog, answer, typed>>

\* The answer, with the length of the output.  To a client that is gone it may
\* fail, which ends the thread unless the answer was that nothing could be run.
net_send_frame(c, output, unrun) ==
  /\ IF Gone(c)
     THEN /\ \/ thread' = [thread EXCEPT ![c] = "recv"]
             \/ ~unrun /\ thread' = [thread EXCEPT ![c] = "leaving"]
          /\ UNCHANGED answer
     ELSE /\ thread' = [thread EXCEPT ![c] = "recv"]
          /\ answer' = [answer EXCEPT ![c] = Header + output]
  /\ cap' = [cap EXCEPT ![c] = 0] /\ len' = [len EXCEPT ![c] = 0]
  /\ cut' = [cut EXCEPT ![c] = FALSE] /\ failed' = [failed EXCEPT ![c] = FALSE]
  /\ cmd' = [cmd EXCEPT ![c] = NoCommand]
  /\ UNCHANGED <<peer, backlog, inbox, typed>>

MakePipe(c) ==
  /\ At(c, "pipe", "fork")
  /\ srv' = srv \cup {R(c), W(c)}
  /\ UNCHANGED <<mainVars, buffer, held, process, wire>>

\* fork: the child closes its read end and keeps the rest.
Fork(c) ==
  /\ At(c, "fork", "forked")
  /\ held' = [held EXCEPT ![c] = srv \ {R(c)}]
  /\ child' = [child EXCEPT ![c] = "running"]
  /\ todo' = [todo EXCEPT ![c] = cmd[c].size]
  /\ UNCHANGED <<mainVars, buffer, srv, cmd, pipe, wire>>

\* pipe or fork fails.
StartFails(c) ==
  /\ thread[c] \in {"pipe", "fork"}
  /\ net_send_frame(c, 0, TRUE)
  /\ srv' = srv \ {R(c), W(c)}
  /\ UNCHANGED <<mainVars, held, child, todo, pipe>>

\* Fault: the server keeps its own write end.
KeepWriteEnd(c) == UNCHANGED srv
DropWriteEnd(c) == srv' = srv \ {W(c)}

\* The buffer cannot be allocated or grown: the read end is closed too.
NoBuffer(c) ==
  /\ failed' = [failed EXCEPT ![c] = TRUE]
  /\ cap' = [cap EXCEPT ![c] = 0] /\ len' = [len EXCEPT ![c] = 0]
  /\ thread' = [thread EXCEPT ![c] = "waiting"]
  /\ UNCHANGED cut

\* The parent's write end is closed, and the buffer allocated.
StartReading(c) ==
  /\ DropWriteEnd(c)
  /\ At(c, "forked", "reading")
  /\ cap' = [cap EXCEPT ![c] = Chunk]
  /\ UNCHANGED <<mainVars, len, cut, failed, held, process, wire>>

AllocFails(c) ==
  /\ thread[c] = "forked" /\ NoBuffer(c)
  /\ srv' = srv \ {R(c), W(c)}
  /\ UNCHANGED <<mainVars, held, process, wire>>

Grown(size, need) ==
  IF need <= size THEN size
  ELSE IF need <= size * 2 THEN size * 2
  ELSE LET doubled == {size * 2^k : k \in 2 .. need}
       IN  CHOOSE s \in doubled : s >= need /\ \A t \in doubled : t >= need => s <= t

\* Fault: all of the chunk is copied.
WholeChunk(l, n) == n
Room(l, n) == Max - l

\* What is kept when n bytes too many come: what there is room for, and the
\* notice if the buffer has room for that.
Cut(l, n, size) ==
  LET kept == l + Room(l, n) IN IF kept + Notice <= size THEN kept + Notice ELSE kept

\* One read returns n bytes: they are appended, or the output is cut.
Read(c) == IF pipe[c] < Chunk THEN pipe[c] ELSE Chunk

ReadChunk(c) ==
  /\ thread[c] = "reading" /\ pipe[c] > 0
  /\ pipe' = [pipe EXCEPT ![c] = @ - Read(c)]
  /\ IF len[c] + Read(c) > Max
     THEN /\ len' = [len EXCEPT ![c] = Cut(@, Read(c), cap[c])]
          /\ cut' = [cut EXCEPT ![c] = TRUE]
          /\ srv' = srv \ {R(c)}
          /\ thread' = [thread EXCEPT ![c] = "waiting"]
          /\ UNCHANGED cap
     ELSE /\ len' = [len EXCEPT ![c] = @ + Read(c)]
          /\ cap' = [cap EXCEPT ![c] = Grown(@, len[c] + Read(c) + 1)]
          /\ UNCHANGED <<cut, srv, thread>>
  /\ UNCHANGED <<mainVars, failed, held, child, cmd, todo, wire>>

GrowFails(c) ==
  /\ thread[c] = "reading" /\ pipe[c] > 0
  /\ len[c] + Read(c) <= Max /\ len[c] + Read(c) + 1 > cap[c]
  /\ NoBuffer(c)
  /\ pipe' = [pipe EXCEPT ![c] = @ - Read(c)]
  /\ srv' = srv \ {R(c)}
  /\ UNCHANGED <<mainVars, held, child, cmd, todo, wire>>

\* Fault: the command's end is taken for the end of its output.
ChildEnded(c) == child[c] = "zombie"
EndOfOutput(c) == pipe[c] = 0 /\ ~Open(W(c))

\* read returns 0.
ReadEnd(c) ==
  /\ EndOfOutput(c)
  /\ At(c, "reading", "waiting")
  /\ srv' = srv \ {R(c)}
  /\ UNCHANGED <<mainVars, buffer, held, process, wire>>

\* waitpid, and the answer.
Collect(c, output, unrun) ==
  /\ thread[c] = "waiting" /\ child[c] = "zombie"
  /\ child' = [child EXCEPT ![c] = "none"] /\ pipe' = [pipe EXCEPT ![c] = 0]
  /\ net_send_frame(c, output, unrun)
  /\ UNCHANGED <<mainVars, srv, held, todo>>

WaitChild(c) == Collect(c, len[c], failed[c])

\* The output fills the buffer, which cannot be grown for the terminator: the
\* output is given up, and the answer is that nothing could be run.
TerminatorFails(c) == ~failed[c] /\ len[c] + 1 > cap[c] /\ Collect(c, 0, TRUE)

\* There is no memory for the answer: the client is dropped.
NoAnswer(c) ==
  /\ thread[c] = "waiting" /\ child[c] = "zombie" /\ ~failed[c]
  /\ child' = [child EXCEPT ![c] = "none"] /\ pipe' = [pipe EXCEPT ![c] = 0]
  /\ thread' = [thread EXCEPT ![c] = "leaving"]
  /\ cap' = [cap EXCEPT ![c] = 0] /\ len' = [len EXCEPT ![c] = 0]
  /\ cut' = [cut EXCEPT ![c] = FALSE] /\ cmd' = [cmd EXCEPT ![c] = NoCommand]
  /\ UNCHANGED <<mainVars, failed, srv, held, todo, wire>>

\* Fault: nobody is told that the count changed.
TellNobody == UNCHANGED main
Broadcast == main' = IF main = "asleep" THEN "drain" ELSE main

\* No answer could be sent, the stream ends, or the frame is "exit" or empty.
Leaves(c) ==
  \/ thread[c] = "leaving"
  \/ /\ thread[c] = "recv"
     /\ IF inbox[c] = <<>> THEN Gone(c) ELSE Head(inbox[c]).op # "run"

\* The end of client_thread: the socket is closed, the client counted out.
Unregister(c) ==
  /\ Leaves(c)
  /\ thread' = [thread EXCEPT ![c] = "none"]
  /\ srv' = srv \ {Sock(c)} /\ inbox' = [inbox EXCEPT ![c] = <<>>]
  /\ active_clients' = IF active_clients > 0 THEN active_clients - 1 ELSE 0
  /\ Broadcast
  /\ UNCHANGED <<once, stop_server, fresh, buffer, held, process, peer, backlog, answer, typed>>

-----------------------------------------------------------------------------
(* The child of a request *)

OnlyChild == UNCHANGED <<mainVars, thread, buffer, srv, cmd, wire>>

Writes(c) ==
  /\ child[c] = "running" /\ todo[c] > 0 /\ pipe[c] < PipeSize /\ Open(R(c))
  /\ pipe' = [pipe EXCEPT ![c] = @ + 1] /\ todo' = [todo EXCEPT ![c] = @ - 1]
  /\ UNCHANGED <<held, child>> /\ OnlyChild

\* It has written all, or SIGPIPE ends it.
Ends(c) ==
  /\ child[c] = "running" /\ (todo[c] = 0 \/ ~Open(R(c)))
  /\ child' = [child EXCEPT ![c] = "zombie"]
  /\ held' = [held EXCEPT ![c] = {}] /\ todo' = [todo EXCEPT ![c] = 0]
  /\ UNCHANGED pipe /\ OnlyChild

\* SIGTTIN: its group is never given the terminal, and nothing continues it.
Stops(c) ==
  /\ child[c] = "running" /\ cmd[c].tty
  /\ child' = [child EXCEPT ![c] = "stopped"]
  /\ UNCHANGED <<held, pipe, todo>> /\ OnlyChild

-----------------------------------------------------------------------------
(* The client process *)

OnlyClient == UNCHANGED <<mainVars, thread, buffer, srv, held, process>>

\* A connection that is refused ends the client.
Connect(c) ==
  /\ peer[c] = "off" /\ \A d \in 1 .. c - 1 : peer[d] # "off"
  /\ IF Open(Listener)
     THEN peer' = [peer EXCEPT ![c] = "prompt"] /\ backlog' = Append(backlog, c)
     ELSE peer' = [peer EXCEPT ![c] = "gone"] /\ UNCHANGED backlog
  /\ UNCHANGED <<inbox, answer, typed>> /\ OnlyClient

\* A command, or an empty line, which is sent too.
send_command(c, frame) ==
  /\ peer[c] = "prompt" /\ typed < MaxLines
  /\ inbox' = [inbox EXCEPT ![c] = Append(@, frame)]
  /\ peer' = [peer EXCEPT ![c] = "await"] /\ typed' = typed + 1
  /\ UNCHANGED <<backlog, answer>> /\ OnlyClient

\* "exit", the end of the input or a line that is too long; a client killed at
\* its prompt is the same to the server.
Leave(c) ==
  /\ peer[c] = "prompt"
  /\ inbox' = [inbox EXCEPT ![c] = Append(@, [op |-> "exit"])]
  /\ peer' = [peer EXCEPT ![c] = "gone"]
  /\ UNCHANGED <<backlog, answer, typed>> /\ OnlyClient

\* An answer that is too long ends the client.
Receive(c) ==
  /\ peer[c] = "await" /\ answer[c] > 0
  /\ peer' = [peer EXCEPT ![c] = IF answer[c] <= Max + Slack THEN "prompt" ELSE "gone"]
  /\ answer' = [answer EXCEPT ![c] = 0]
  /\ UNCHANGED <<backlog, inbox, typed>> /\ OnlyClient

Waiting(c) == c \in {backlog[i] : i \in DOMAIN backlog}

\* The connection ends before an answer.
LoseServer(c) ==
  /\ peer[c] = "await" /\ answer[c] = 0
  /\ IF Waiting(c) THEN ~Open(Listener) ELSE ~Open(Sock(c))
  /\ peer' = [peer EXCEPT ![c] = "gone"]
  /\ UNCHANGED <<backlog, inbox, answer, typed>> /\ OnlyClient

\* The client is killed before the answer.
Abort(c) ==
  /\ peer[c] = "await" /\ Cardinality({d \in Clients : peer[d] = "killed"}) < MaxKills
  /\ peer' = [peer EXCEPT ![c] = "killed"] /\ answer' = [answer EXCEPT ![c] = 0]
  /\ UNCHANGED <<backlog, inbox, typed>> /\ OnlyClient

-----------------------------------------------------------------------------
Main ==
  \/ Accept \/ CreateThread \/ CloseListener \/ Drain

ThreadSteps(c) ==
  \/ net_recv_frame(c) \/ MakePipe(c) \/ Fork(c) \/ StartReading(c) \/ ReadChunk(c)
  \/ ReadEnd(c) \/ WaitChild(c) \/ Unregister(c)

Command(c) == Writes(c) \/ Ends(c)

Client(c) ==
  \/ Receive(c) \/ LoseServer(c) \/ Connect(c) \/ Leave(c) \/ Abort(c)
  \/ send_command(c, [op |-> "empty"])
  \/ \E k \in Commands : send_command(c, Run(k))

Next ==
  \/ Main \/ AcceptFails \/ on_signal
  \/ \E c \in Clients :
       \/ ThreadSteps(c) \/ StartFails(c) \/ AllocFails(c) \/ GrowFails(c)
       \/ TerminatorFails(c) \/ NoAnswer(c) \/ Command(c) \/ Stops(c) \/ Client(c)

\* Threads and commands run; nothing is asked of the clients, of signals or of
\* failures.
Fairness ==
  /\ WF_vars(Main)
  /\ \A c \in Clients : WF_vars(ThreadSteps(c)) /\ WF_vars(Command(c))

Spec == Init /\ [][Next]_vars /\ Fairness

-----------------------------------------------------------------------------
TypeOK ==
  /\ main \in MainAt /\ once \in BOOLEAN /\ stop_server \in BOOLEAN
  /\ active_clients \in Nat /\ fresh \in Clients \cup {NoClient}
  /\ thread \in [Clients -> ThreadAt]
  /\ cap \in [Clients -> Nat] /\ len \in [Clients -> Nat]
  /\ cut \in [Clients -> BOOLEAN] /\ failed \in [Clients -> BOOLEAN]
  /\ srv \subseteq Descriptors /\ held \in [Clients -> SUBSET Descriptors]
  /\ child \in [Clients -> {"none", "running", "stopped", "zombie"}]
  /\ cmd \in [Clients -> Commands \cup {NoCommand}]
  /\ todo \in [Clients -> Nat] /\ pipe \in [Clients -> Nat]
  /\ peer \in [Clients -> {"off", "prompt", "await", "gone", "killed"}]
  /\ backlog \in Seq(Clients)
  /\ inbox \in [Clients -> Seq(Frames)] /\ answer \in [Clients -> Nat]
  /\ typed \in 0 .. MaxLines

Live == {c \in Clients : thread[c] # "none"}

\* active_clients counts the threads, and from its registration the one that
\* is about to be created (server.c 131, 184, 189).
ActiveCounts ==
  active_clients = Cardinality(Live) + IF main = "create" THEN 1 ELSE 0

\* The server returns (line 201) only when no client's thread runs and no
\* child of a request is left to collect.
NoThreadOutlivesMain ==
  main = "done" => \A c \in Clients : thread[c] = "none" /\ child[c] = "none"

\* The copy of the remaining room and of the notice (lines 59, 61) stay inside
\* the buffer although it is only grown after the test for the limit, and no
\* answer, cut or not, is longer than the client accepts (client.c 26).
BufferSafe ==
  \A c \in Clients :
    /\ thread[c] \in {"reading", "waiting"} => len[c] <= cap[c]
    /\ answer[c] <= Max + Slack

\* The answer carries all that the command wrote unless it was cut: an end of
\* file is never seen before the last byte (lines 48 to 74).
OutputWhole ==
  \A c \in Clients :
    /\ thread[c] = "waiting" /\ ~cut[c] /\ ~failed[c] => len[c] = cmd[c].size
    /\ thread[c] = "reading" => len[c] <= Max

\* Requests that are cut, or have no buffer, while the children of the others
\* hold their read ends: each command waits for room in a pipe nobody reads.
Locked ==
  \E S \in SUBSET Clients \ {{}} : \A c \in S :
    /\ thread[c] = "waiting" /\ child[c] = "running" /\ todo[c] > 0
    /\ \E d \in S \ {c} : R(c) \in held[d]
Stopped == \E c \in Clients : child[c] = "stopped"
Idle(c) == thread[c] = "recv" /\ inbox[c] = <<>> /\ ~Gone(c)

\* A request is answered or its client dropped, unless a command is stopped by
\* the terminal (shell.c 273) or cut requests hold each other's pipes (line 35).
AnswersArrive ==
  \A c \in Clients : thread[c] \in Working ~> thread[c] \notin Working \/ Stopped \/ Locked

\* After a stop signal the server ends, except that accept goes on until a next
\* client comes (line 157), and that an idle client (line 199), a stopped
\* command or a lock-up as above keeps it waiting.
ShutdownEnds ==
  <>[](stop_server =>
         \/ main = "done"
         \/ main = "accept" /\ backlog = <<>>
         \/ \E c \in Clients : Idle(c)
         \/ Stopped \/ Locked)
=============================================================================
