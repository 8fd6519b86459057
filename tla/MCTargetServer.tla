--------------------------- MODULE MCTargetServer ---------------------------
EXTENDS TargetServer

Request(type, seq, payload) == [type |-> type, seq |-> seq, payload |-> payload]

\* A request with a payload, one without, one that is refused.
TestRequests ==
  {Request("CONFIG_SET", 1, <<50>>), Request("RESET", 2, <<>>), Request("SENSOR_DATA", 3, <<>>)}

Whole == mlrt_packet_encode(Request("CONFIG_SET", 4, <<50>>))

\* The length one too long, so that the frame reaches into the next one; too
\* short; beyond the limit; another version; a frame that stops short.
TestGarbled ==
  {[Whole EXCEPT ![1].length = 2], [Whole EXCEPT ![1].length = 0],
   [Whole EXCEPT ![1].length = 3], [Whole EXCEPT ![1].magic = FALSE], SubSeq(Whole, 1, 2)}
=============================================================================
