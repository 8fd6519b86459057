-------------------------- MODULE EmbeddedProtocol --------------------------
(***************************************************************************)
(* The framed protocol between host and target: protocol/embedded_-        *)
(* protocol.c.                                                             *)
(*                                                                         *)
(* A stream is a sequence of cells: the fixed header, the units of the     *)
(* payload, the CRC.  A cell is what damage can hit: a header that lost    *)
(* its magic or version, another length, another payload, another CRC.     *)
(* The CRC stands for what it was computed over, that is, it tells every   *)
(* two frames apart.                                                       *)
(***************************************************************************)
EXTENDS Integers, Sequences

CONSTANT MAX_PAYLOAD      \* MLRT_PROTO_MAX_PAYLOAD

ASSUME PayloadAssumption == MAX_PAYLOAD \in Nat

\* Packets, what stands in the place of a header, and cells of one frame at most.
Packets == [type : STRING, seq : Nat, payload : Seq(Nat)]
HeaderCells ==
  [cell : {"header"}, magic : BOOLEAN, type : STRING, seq : Nat, length : Nat]
OneHeader(cells) == \A i \in 2 .. Len(cells) : cells[i].cell # "header"

Header(packet) ==
  [cell |-> "header", magic |-> TRUE, type |-> packet.type, seq |-> packet.seq,
   length |-> Len(packet.payload)]
Payload(packet) ==
  [i \in DOMAIN packet.payload |-> [cell |-> "data", unit |-> packet.payload[i]]]
Crc(cells) == [cell |-> "crc", of |-> cells]

mlrt_packet_encode(packet) ==
  LET covered == <<Header(packet)>> \o Payload(packet) IN Append(covered, Crc(covered))

\* What a reader takes for a header is one only with magic and version in place.
WellFormed(cell) == cell.cell = "header" /\ cell.magic

\* Fault: the CRC is not compared.
TakeAll(frame) == "OK"
CheckCrc(frame) ==
  IF frame[Len(frame)] = Crc(SubSeq(frame, 1, Len(frame) - 1)) THEN "OK" ELSE "ECRC"

mlrt_packet_decode(frame) ==
  CASE ~WellFormed(frame[1])                 -> "EFORMAT"
    [] frame[1].length > MAX_PAYLOAD         -> "ETOOBIG"
    [] Len(frame) # frame[1].length + 2      -> "EFORMAT"
    [] OTHER                                 -> CheckCrc(frame)

Decoded(frame) ==
  [type |-> frame[1].type, seq |-> frame[1].seq,
   payload |-> [i \in 1 .. Len(frame) - 2 |-> frame[i + 1].unit]]

\* How many cells a read takes from the stream, once it has them.
Wanted(stream) ==
  IF WellFormed(stream[1]) /\ stream[1].length <= MAX_PAYLOAD THEN stream[1].length + 2 ELSE 1

\* A read on the stream, whose other end is closed or not: it blocks, meets
\* the end of the stream, or returns what decode says.
mlrt_packet_read_fd(stream, closed) ==
  CASE stream = <<>> -> IF closed THEN "EOF" ELSE "BLOCKED"
    [] stream # <<>> /\ Len(stream) < Wanted(stream) -> IF closed THEN "EOF" ELSE "BLOCKED"
    [] stream # <<>> /\ Len(stream) >= Wanted(stream) ->
         CASE ~WellFormed(stream[1])           -> "EFORMAT"
           [] stream[1].length > MAX_PAYLOAD   -> "ETOOBIG"
           [] OTHER -> mlrt_packet_decode(SubSeq(stream, 1, Wanted(stream)))
=============================================================================
