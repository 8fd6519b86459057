---------------------------- MODULE TargetServer ----------------------------
(***************************************************************************)
(* The socket service of the target simulator and its clients:             *)
(* target/target_server.c, target/target_client.c and, of                  *)
(* target/target_core.c, what mlrt_target_handle_packet answers (what it   *)
(* does to the runtime's threads is in TargetRuntime).                     *)
(*                                                                         *)
(* The service is one thread and serves one connection at a time.  A stop  *)
(* signal sets g_stop and interrupts accept4; a read is retried.  Nothing  *)
(* ignores SIGPIPE, so that an answer to a client that is gone ends the    *)
(* process.                                                                *)
(*                                                                         *)
(* The project's client sends one request and waits for the answer, or     *)
(* sends one frame with a wrong CRC and leaves.  The service answers any   *)
(* number of frames per connection, and anything may connect: clients here *)
(* send several frames, and frames with other damage.                      *)
(***************************************************************************)
EXTENDS EmbeddedProtocol, SequencesExt

CONSTANTS N,             \* clients, numbered in the order in which they connect
          Requests,      \* packets that are sent intact
          Garbled,       \* what else is sent: sequences of cells
          MaxFrames      \* bound: frames sent, over all clients

ASSUME NAssumption == N \in Nat /\ MaxFrames \in Nat

\* Damage begins where a header is due; what is read as its frame has not the
\* CRC of that frame; and a CRC in it was computed over one frame at most.
Damaged(cells) ==
  /\ cells \in Seq(Range(cells)) /\ cells # <<>> /\ cells[1] \in HeaderCells
  /\ LET n == Wanted(cells)
     IN  n \in 2 .. Len(cells) => cells[n] # Crc(SubSeq(cells, 1, n - 1))
  /\ \A i \in 1 .. Len(cells) : cells[i].cell = "crc" => OneHeader(cells[i].of)

\* A request fits its frame, and what is not a request is damage.
Sendable ==
  /\ \A req \in Requests : req \in Packets /\ Len(req.payload) <= MAX_PAYLOAD
  /\ \A cells \in Garbled : Damaged(cells)

ASSUME SendAssumption == Sendable

Clients == 1 .. N
NoClient == 0

VARIABLES main,      \* where the service is
          signal,    \* where it was when the stop signal came, or "none"
          cur,       \* the client being served
          rsp,       \* the answer being written
          rate, crc_errors, freezes,
          peer,      \* client -> "off", "open", "left", "killed"
          backlog,   \* connections not yet accepted
          stream,    \* client -> cells on the way to the service
          closed,    \* client -> the service closed the connection
          answers,   \* client -> answers it received
          sent,      \* history: client -> what it sent, frame by frame
          got        \* history: client -> packets handled for it

service == <<main, signal, cur, rsp>>
target == <<rate, crc_errors, freezes>>
clients == <<peer, backlog, stream, sent>>
serviceVars == <<service, target, clients, closed, answers, got>>

NoPacket == [type |-> "none", seq |-> 0, payload |-> <<>>]
g_stop == signal # "none"
Over == main \in {"ended", "killed", "failed"}

ServerInit ==
  /\ main = "start" /\ signal = "none" /\ cur = NoClient /\ rsp = NoPacket
  /\ rate = 100 /\ crc_errors = 0 /\ freezes = 0
  /\ peer = [c \in Clients |-> "off"] /\ backlog = <<>>
  /\ stream = [c \in Clients |-> <<>>] /\ closed = [c \in Clients |-> FALSE]
  /\ answers = [c \in Clients |-> <<>>]
  /\ sent = [c \in Clients |-> <<>>] /\ got = [c \in Clients |-> <<>>]

-----------------------------------------------------------------------------
(* mlrt_target_handle_packet *)

Answer(req, type, payload) == [type |-> type, seq |-> req.seq, payload |-> payload]
ValidRate(req) == Len(req.payload) = 1 /\ req.payload[1] \in 1 .. 1000
ValidFault(req) == req.payload = <<1>>

\* A status shows the rate and the CRC errors.
Response(req) ==
  CASE req.type = "STATUS_REQ" -> Answer(req, "STATUS_RSP", <<rate, crc_errors>>)
    [] req.type = "CONFIG_SET" /\ ValidRate(req) -> Answer(req, "CONFIG_ACK", req.payload)
    [] req.type = "FAULT_INJECT" /\ ValidFault(req) -> Answer(req, "CONFIG_ACK", <<1>>)
    [] req.type = "RESET" -> Answer(req, "RESET_ACK", <<>>)
    [] req.type = "FW_INFO_REQ" -> Answer(req, "FW_INFO_RSP", <<>>)
    [] OTHER -> Answer(req, "ERROR", <<>>)

Effect(req) ==
  /\ rate' = IF req.type = "CONFIG_SET" /\ ValidRate(req) THEN req.payload[1] ELSE rate
  /\ freezes' = IF req.type = "FAULT_INJECT" /\ ValidFault(req) THEN freezes + 1 ELSE freezes
  /\ crc_errors' = IF req.type = "RESET" THEN 0 ELSE crc_errors

-----------------------------------------------------------------------------
(* run_server and serve_client *)

\* The runtime starts, or the process gives up.
Start ==
  /\ main = "start"
  /\ main' \in {"test", "failed"}
  /\ UNCHANGED <<signal, cur, rsp, target, clients, closed, answers, got>>

\* The loop's test; accept4 is entered in a step of its own.
TestStop ==
  /\ main = "test"
  /\ main' = IF g_stop THEN "stop" ELSE "enter"
  /\ UNCHANGED <<signal, cur, rsp, target, clients, closed, answers, got>>

Enter ==
  /\ main = "enter" /\ main' = "accept"
  /\ UNCHANGED <<signal, cur, rsp, target, clients, closed, answers, got>>

Accept ==
  /\ main = "accept" /\ backlog # <<>>
  /\ cur' = Head(backlog) /\ backlog' = Tail(backlog)
  /\ main' = "read"
  /\ UNCHANGED <<signal, rsp, target, peer, stream, sent, closed, answers, got>>

AcceptFails ==
  /\ main = "accept" /\ backlog # <<>>
  /\ main' = "stop"
  /\ UNCHANGED <<signal, cur, rsp, target, clients, closed, answers, got>>

\* Fault: an interrupted accept4 is simply called again.
CallAgain == main'= main
Interrupted == main' = IF main = "accept" THEN "test" ELSE main

on_signal ==
  /\ ~g_stop /\ ~Over /\ main # "start"
  /\ signal' = main
  /\ Interrupted
  /\ UNCHANGED <<cur, rsp, target, clients, closed, answers, got>>

PeerGone(c) == peer[c] \in {"left", "killed"}
Outcome == mlrt_packet_read_fd(stream[cur], PeerGone(cur))
Frame == SubSeq(stream[cur], 1, Wanted(stream[cur]))

ReadRequest ==
  /\ main = "read" /\ Outcome = "OK"
  /\ stream' = [stream EXCEPT ![cur] = SubSeq(@, Len(Frame) + 1, Len(@))]
  /\ got' = [got EXCEPT ![cur] = Append(@, Decoded(Frame))]
  /\ rsp' = Response(Decoded(Frame)) /\ Effect(Decoded(Frame))
  /\ main' = "write"
  /\ UNCHANGED <<signal, cur, peer, backlog, sent, closed, answers>>

CloseClient ==
  /\ main' = "test" /\ cur' = NoClient
  /\ closed' = [closed EXCEPT ![cur] = TRUE]
  /\ UNCHANGED rsp

\* Fault: a frame with a wrong CRC is answered too.
AnswerError ==
  /\ main' = "write" /\ rsp' = [NoPacket EXCEPT !.type = "ERROR"]
  /\ UNCHANGED <<cur, closed>>
HangUp == CloseClient

RejectCrc ==
  /\ main = "read" /\ Outcome = "ECRC"
  /\ crc_errors' = crc_errors + 1
  /\ HangUp
  /\ UNCHANGED <<signal, rate, freezes, clients, answers, got>>

\* The end of the stream, or a frame that is none.
EndService ==
  /\ main = "read" /\ Outcome \in {"EOF", "EFORMAT", "ETOOBIG"}
  /\ CloseClient
  /\ UNCHANGED <<signal, target, clients, answers, got>>

\* To a client that is gone the write raises SIGPIPE.
WriteResponse ==
  /\ main = "write" /\ rsp' = NoPacket
  /\ IF PeerGone(cur)
     THEN main' = "killed" /\ UNCHANGED answers
     ELSE main' = "read" /\ answers' = [answers EXCEPT ![cur] = Append(@, rsp)]
  /\ UNCHANGED <<signal, cur, target, clients, closed, got>>

\* mlrt_target_stop; the socket is closed and unlinked.
Stop ==
  /\ main = "stop" /\ main' = "ended"
  /\ UNCHANGED <<signal, cur, rsp, target, clients, closed, answers, got>>

-----------------------------------------------------------------------------
(* Clients *)

OnlyClient == UNCHANGED <<service, target, closed, answers, got>>

connect_target(c) ==
  /\ peer[c] = "off" /\ \A d \in 1 .. c - 1 : peer[d] # "off"
  /\ ~Over /\ main # "start"
  /\ peer' = [peer EXCEPT ![c] = "open"] /\ backlog' = Append(backlog, c)
  /\ UNCHANGED <<stream, sent>> /\ OnlyClient

Frames(c) == Len(sent[c])
Total == FoldFunction(LAMBDA s, n : Len(s) + n, 0, sent)
Puts(c, cells) ==
  /\ peer[c] = "open" /\ ~closed[c] /\ ~Over /\ Total < MaxFrames
  /\ stream' = [stream EXCEPT ![c] = @ \o cells]
  /\ sent' = [sent EXCEPT ![c] = Append(@, cells)]

\* transact, to the write.
SendRequest(c, req) ==
  /\ Puts(c, mlrt_packet_encode(req))
  /\ UNCHANGED <<peer, backlog>> /\ OnlyClient

\* send_corrupt_crc: the last byte is changed, and the client leaves.
send_corrupt_crc(c, req) ==
  LET frame == mlrt_packet_encode(req)
  IN  /\ sent[c] = <<>>
      /\ Puts(c, [frame EXCEPT ![Len(frame)] = Crc(<<>>)])
      /\ peer' = [peer EXCEPT ![c] = "left"]
      /\ UNCHANGED backlog /\ OnlyClient

\* Other damage, by other programs.
SendGarbled(c, cells) ==
  /\ Puts(c, cells)
  /\ UNCHANGED <<peer, backlog>> /\ OnlyClient

\* All is answered, or the connection was closed.
Finish(c) ==
  /\ peer[c] = "open" /\ (closed[c] \/ Len(answers[c]) = Frames(c))
  /\ peer' = [peer EXCEPT ![c] = "left"]
  /\ UNCHANGED <<backlog, stream, sent>> /\ OnlyClient

Killed(c) ==
  /\ peer[c] = "open" /\ Len(answers[c]) < Frames(c)
  /\ peer' = [peer EXCEPT ![c] = "killed"]
  /\ UNCHANGED <<backlog, stream, sent>> /\ OnlyClient

-----------------------------------------------------------------------------
Service ==
  \/ Start \/ TestStop \/ Enter \/ Accept \/ ReadRequest \/ RejectCrc \/ EndService
  \/ WriteResponse \/ Stop

ServerNext ==
  \/ Service \/ AcceptFails \/ on_signal
  \/ \E c \in Clients :
       \/ connect_target(c) \/ Finish(c) \/ Killed(c)
       \/ \E req \in Requests : SendRequest(c, req) \/ send_corrupt_crc(c, req)
       \/ \E cells \in Garbled : SendGarbled(c, cells)

\* The service runs; nothing is asked of clients and signals.
ServerSpec == ServerInit /\ [][ServerNext]_serviceVars /\ WF_serviceVars(Service)

-----------------------------------------------------------------------------
ServerTypeOK ==
  /\ main \in {"start", "test", "enter", "accept", "read", "write", "stop",
               "ended", "killed", "failed"}
  /\ cur \in Clients \cup {NoClient}
  /\ rate \in 1 .. 1000 /\ crc_errors \in Nat /\ freezes \in Nat
  /\ peer \in [Clients -> {"off", "open", "left", "killed"}]

\* The requests a client sent up to the first frame that is not one.
Intact(c) ==
  LET encoded == {mlrt_packet_encode(req) : req \in Requests}
      n == CHOOSE n \in 0 .. Frames(c) :
             /\ \A i \in 1 .. n : sent[c][i] \in encoded
             /\ n < Frames(c) => sent[c][n + 1] \notin encoded
  IN  [i \in 1 .. n |-> Decoded(sent[c][i])]

\* However frames are damaged, run into each other or end early, what is
\* handled for a client are its intact requests, in order, each once, none
\* beyond the first bad frame; and its answers are those to them, by sequence
\* number (target_server.c 25 to 36, embedded_protocol.c 133 to 145).
HandledInOrder ==
  \A c \in Clients :
    /\ IsPrefix(got[c], Intact(c))
    /\ Len(answers[c]) <= Len(got[c])
    /\ \A i \in DOMAIN answers[c] : answers[c][i].seq = got[c][i].seq

\* Only a client that was killed before its answer ends the process; a frame
\* with a wrong CRC, whose sender never waits, does not (lines 27 to 30, 36).
KilledByLostClient == main = "killed" => peer[cur] = "killed" /\ got[cur] # <<>>

\* Blocked in a read on a client that says nothing more.
Silent == main = "read" /\ Outcome = "BLOCKED"

\* In the end the service has ended, reads from a silent client (line 25), or
\* sits in accept4 with nobody waiting; with a stop signal the last only if it
\* came between the test and accept4 (lines 81, 82).
ServiceProgress ==
  <>[](\/ Over \/ Silent
       \/ main = "accept" /\ backlog = <<>> /\ signal \in {"none", "enter"})
=============================================================================
