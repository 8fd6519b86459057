------------------------------ MODULE Datapath ------------------------------
(***************************************************************************)
(* projects/network-verification-lab/src/datapath.cpp: a UDP service that  *)
(* validates each datagram, keeps the last sequence number of every        *)
(* session, acknowledges what is newer and counts the rest by reason.      *)
(*                                                                         *)
(* The service is one thread: one call of process() is one action, and     *)
(* each of its early returns is an action of its own.  Around it are       *)
(* senders that number their datagrams 0, 1, 2, ... and put the number     *)
(* modulo Modulus on the wire, and a network that delays, reorders,        *)
(* repeats and loses datagrams.  What is damaged on the way carries no     *)
(* information but the check it fails.  The replies change no state, and   *)
(* bytes_accepted, a sum that is only reported, is left out.               *)
(***************************************************************************)
EXTENDS Integers, FiniteSets

CONSTANTS Sessions,
          MaxSessions,              \* MAX_SESSIONS, 64 in the code
          Half,                     \* 0x80000000 in the code
          MaxSends,                 \* bound: datagrams of each sender
          MaxHandled, MaxControl    \* bounds: deliveries since a reset, control requests

ASSUME SessionsAssumption == IsFiniteSet(Sessions) /\ MaxSessions \in Nat \ {0}
ASSUME HalfAssumption == Half \in Nat \ {0, 1}   \* a first delta of 1 is below it
ASSUME BoundsAssumption == MaxSends \in Nat /\ MaxHandled \in Nat /\ MaxControl \in Nat

VARIABLES last_seq,   \* last_seq_: admitted session -> last sequence number
          counts,     \* counts_
          next,       \* sender of a session -> its next datagram
          net,        \* datagrams on the way, as <<session, number>>
          top,        \* history: session -> number last accepted, or None
          given,      \* history: the datagram the service handled last
          served,     \* history: STATS requests since the last reset
          control     \* history: what MaxControl counts

vars == <<last_seq, counts, next, net, top, given, served, control>>
sender == <<next, net, control>>

Modulus == 2 * Half
None == -1
Reasons == {"length", "header", "crc", "type", "session", "replay"}
NoCounts == [datagrams |-> 0, accepted |-> 0, invalid |-> 0,
             errors |-> [r \in Reasons |-> 0]]

Init ==
  /\ last_seq = [s \in {} |-> 0]
  /\ counts = NoCounts
  /\ next = [s \in Sessions |-> 0]
  /\ net = {}
  /\ top = [s \in Sessions |-> None]
  /\ given = <<>>
  /\ served = 0 /\ control = 0

-----------------------------------------------------------------------------
(* Datapath::process *)

Sequence(n) == n % Modulus

\* Fault: the reason is counted and the total is not.
RejectUncounted(reason) ==
  /\ counts' = [counts EXCEPT !.datagrams = @ + 1, !.errors[reason] = @ + 1]
  /\ UNCHANGED <<last_seq, top, served>>

\* Nothing is answered; the sessions are left alone.
Reject(reason) ==
  /\ counts' = [counts EXCEPT !.datagrams = @ + 1, !.invalid = @ + 1,
                              !.errors[reason] = @ + 1]
  /\ UNCHANGED <<last_seq, top, served>>

\* Fewer bytes than a header, a bad header, a length that disagrees with the
\* datagram, a bad checksum; then a kind, or a control request, that is unknown.
Damaged(reason) ==
  /\ reason \in {"length", "header", "crc", "type"}
  /\ counts.datagrams < MaxHandled
  /\ Reject(reason)
  /\ given' = <<>>
  /\ UNCHANGED sender

Full(s) == s \notin DOMAIN last_seq /\ Cardinality(DOMAIN last_seq) = MaxSessions

\* Unsigned subtraction; a session's first datagram is always new.
Delta(s, n) ==
  IF s \in DOMAIN last_seq THEN (Sequence(n) - last_seq[s]) % Modulus ELSE 1

\* Faults: the half of the space itself is accepted; plain comparison of the
\* numbers on the wire.
FreshAtHalf(s, n) == Delta(s, n) # 0 /\ Delta(s, n) <= Half
FreshCompared(s, n) == IF s \in DOMAIN last_seq THEN Sequence(n) > last_seq[s] ELSE TRUE
Fresh(s, n) == Delta(s, n) # 0 /\ Delta(s, n) < Half

Keep(s, n) ==
  last_seq' = [t \in DOMAIN last_seq \cup {s} |-> IF t = s THEN Sequence(n) ELSE last_seq[t]]

NoRoom(s) == Full(s) /\ Reject("session")
Replay(s, n) == ~Full(s) /\ ~Fresh(s, n) /\ Reject("replay")
Accept(s, n) ==
  /\ ~Full(s) /\ Fresh(s, n)
  /\ Keep(s, n)
  /\ counts' = [counts EXCEPT !.datagrams = @ + 1, !.accepted = @ + 1]
  /\ top' = [top EXCEPT ![s] = n]
  /\ UNCHANGED served

\* An undamaged DATA datagram arrives; the network may deliver it again.
Data ==
  \E d \in net :
    /\ counts.datagrams < MaxHandled
    /\ NoRoom(d[1]) \/ Replay(d[1], d[2]) \/ Accept(d[1], d[2])
    /\ given' = d
    /\ UNCHANGED sender

\* STATS_REQUEST only reads; the request itself is counted as a datagram.
Stats ==
  /\ control < MaxControl
  /\ counts' = [counts EXCEPT !.datagrams = @ + 1]
  /\ served' = served + 1 /\ control' = control + 1 /\ given' = <<>>
  /\ UNCHANGED <<last_seq, top, next, net>>

\* RESET_REQUEST forgets the sessions and every count, its own included.
ResetRequest ==
  /\ control < MaxControl
  /\ counts' = NoCounts /\ last_seq' = [s \in {} |-> 0]
  /\ top' = [s \in Sessions |-> None]
  /\ served' = 0 /\ control' = control + 1 /\ given' = <<>>
  /\ UNCHANGED <<next, net>>

-----------------------------------------------------------------------------
(* Senders and network *)

\* No datagram outlives the half of the number space that was sent after it:
\* what serial-number arithmetic needs of the network.
Send(s) ==
  /\ next[s] < MaxSends
  /\ \A d \in net : d[1] = s => next[s] - d[2] <= Half
  /\ net' = net \cup {<<s, next[s]>>}
  /\ next' = [next EXCEPT ![s] = @ + 1]
  /\ UNCHANGED <<last_seq, counts, top, given, served, control>>

\* A datagram and its copies are gone, delivered or not.
Gone(d) ==
  /\ net' = net \ {d}
  /\ UNCHANGED <<last_seq, counts, next, top, given, served, control>>

Next ==
  \/ Data \/ Stats \/ ResetRequest
  \/ \E reason \in Reasons : Damaged(reason)
  \/ \E s \in Sessions : Send(s)
  \/ \E d \in net : Gone(d)

Spec == Init /\ [][Next]_vars

-----------------------------------------------------------------------------
(* Properties *)

Admitted == {s \in Sessions : top[s] # None}

\* Every variable keeps its type; sequence numbers keep their width.
TypeOK ==
  /\ DOMAIN last_seq = Admitted
  /\ \A s \in Admitted : last_seq[s] \in 0 .. Modulus - 1
  /\ counts \in [datagrams : Nat, accepted : Nat, invalid : Nat, errors : [Reasons -> Nat]]
  /\ next \in [Sessions -> Nat] /\ net \subseteq Sessions \X Nat
  /\ top \in [Sessions -> Nat \cup {None}]
  /\ given \in {<<>>} \cup (Sessions \X Nat)
  /\ served \in Nat /\ control \in Nat

\* What tests/test_datapath.py:122 asserts of one exchange, for any traffic: each
\* datagram since the reset was accepted, refused for one reason, or a control request.
CountsAddUp ==
  /\ counts.datagrams = counts.accepted + counts.invalid + served
  /\ LET e == counts.errors
     IN  counts.invalid = e["length"] + e["header"] + e["crc"] + e["type"]
                          + e["session"] + e["replay"]

\* "The server admits at most 64 active sessions."
SessionsBounded == Cardinality(DOMAIN last_seq) <= MaxSessions

\* "Duplicates, older packets, and ambiguous half-range jumps are rejected": what
\* is accepted is newer than all that was accepted in its session, although the
\* numbers wrap and the network repeats and reorders.
NoReplay ==
  [][counts'.accepted > counts.accepted
       => /\ given'[2] > top[given'[1]]
          /\ \A s \in Sessions \ {given'[1]} : top'[s] = top[s]]_vars

\* "Wraparound is accepted for forward distances below half the number space":
\* nothing that is newer by less than that is refused as a replay.  (So the
\* project's README.md:103, its rollover test and datapath.cpp:136; its
\* docs/TEST_PLAN.md:53 denies it.)
NoFalseReplay ==
  [][counts'.errors["replay"] > counts.errors["replay"]
       => LET s == given'[1] n == given'[2]
          IN  top[s] # None /\ (n <= top[s] \/ n - top[s] >= Half)]_vars
=============================================================================
