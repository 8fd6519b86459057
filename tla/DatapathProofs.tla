--------------------------- MODULE DatapathProofs ---------------------------
(***************************************************************************)
(* Proofs about module Datapath: the counters, the bound on sessions, and  *)
(* that serial-number arithmetic neither accepts a replay nor refuses a    *)
(* newer datagram, for every half of the number space.                     *)
(***************************************************************************)
EXTENDS Datapath, FiniteSetTheorems, TLAPS

-----------------------------------------------------------------------------
(* Serial-number arithmetic *)

\* A number in the space is its own residue; one below zero gains a modulus.
LEMMA Residue ==
  ASSUME NEW M \in Nat \ {0}, NEW x \in Int, -M <= x, x < M
  PROVE  x % M = IF x < 0 THEN x + M ELSE x
<1>1. CASE x < 0
  <2>1. x % M = x + M  BY <1>1, SMT
  <2> QED  BY <1>1, <2>1
<1>2. CASE x >= 0
  <2>1. x % M = x  BY <1>2, SMT
  <2> QED  BY <1>2, <2>1, SMT
<1> QED  BY <1>1, <1>2

\* Division with remainder.
LEMMA Divide ==
  ASSUME NEW M \in Nat \ {0}, NEW a \in Nat
  PROVE  a % M \in 0 .. M - 1 /\ \E q \in Int : a = M * q + (a % M)
<1>1. a % M \in 0 .. M - 1  BY SMT
<1>2. a = M * (a \div M) + (a % M) /\ a \div M \in Int  BY SMT
<1> QED  BY <1>1, <1>2

\* A multiple of M in a range of three M is one of two.
LEMMA Multiple ==
  ASSUME NEW M \in Nat \ {0}, NEW k \in Int
  PROVE  /\ -M < M * k /\ M * k < 2 * M => k = 0 \/ k = 1
         /\ -(2 * M) < M * k /\ M * k < M => k = 0 \/ k = -1
<1>1. k <= -1 => M * k <= -M  BY SMT
<1>2. k >= 2 => M * k >= 2 * M  BY SMT
<1>3. k <= -2 => M * k <= -(2 * M)  BY SMT
<1>4. k >= 1 => M * k >= M  BY SMT
<1> QED  BY <1>1, <1>2, <1>3, <1>4, SMT

\* The unsigned difference of two sequence numbers is the distance of the
\* numbers they stand for, when the first is newer by less than Half, and is
\* zero or at least Half when it is older by at most Half.
LEMMA SerialDistance ==
  ASSUME NEW a \in Nat, NEW b \in Nat
  PROVE  LET delta == (Sequence(a) - Sequence(b)) % Modulus
         IN  /\ a > b /\ a - b < Half => delta = a - b
             /\ a <= b /\ b - a <= Half => delta = 0 \/ delta >= Half
<1> DEFINE M == Modulus
<1>1. M \in Nat \ {0} /\ M = 2 * Half /\ Half \in Nat \ {0}
  BY HalfAssumption DEF Modulus
<1> HIDE DEF M
<1>2. PICK x, p \in Int : x = a % M /\ x \in 0 .. M - 1 /\ a = M * p + x
  <2>1. a % M \in Int  BY <1>1, Divide
  <2> QED  BY <1>1, <2>1, Divide
<1>3. PICK y, q \in Int : y = b % M /\ y \in 0 .. M - 1 /\ b = M * q + y
  <2>1. b % M \in Int  BY <1>1, Divide
  <2> QED  BY <1>1, <2>1, Divide
<1>4. PICK k \in Int : k = p - q  OBVIOUS
<1>5. M * k = M * p - M * q  BY <1>1, <1>4, SMT
<1>6. PICK m \in Int : m = M * k  BY <1>1, SMT
<1>7. PICK mp, mq \in Int : mp = M * p /\ mq = M * q  BY <1>1, SMT
<1>8. m = (a - b) - (x - y)
  <2>1. m = mp - mq /\ a = mp + x /\ b = mq + y  BY <1>2, <1>3, <1>5, <1>6, <1>7
  <2> QED  BY <2>1, SMT
<1>9. x - y \in Int /\ -M <= x - y /\ x - y < M  BY <1>1, <1>2, <1>3, SMT
<1>10. (x - y) % M = IF x - y < 0 THEN (x - y) + M ELSE x - y
  BY <1>1, <1>9, Residue
<1>11. Sequence(a) = x /\ Sequence(b) = y  BY <1>2, <1>3 DEF Sequence, M
<1>12. k = 0 => m = 0  BY <1>1, <1>6, SMT
<1>13. k = 1 => m = M  BY <1>1, <1>6, SMT
<1>14. k = -1 => m = -M  BY <1>1, <1>6, SMT
<1>15. PICK delta \in Int : delta = (x - y) % M  BY <1>1, <1>9, <1>10, SMT
<1>16. delta = IF x - y < 0 THEN (x - y) + M ELSE x - y  BY <1>10, <1>15
<1>17. ASSUME a > b, a - b < Half  PROVE delta = a - b
  <2>1. -M < m /\ m < 2 * M  BY <1>1, <1>2, <1>3, <1>8, <1>17, SMT
  <2>2. k = 0 \/ k = 1  BY <1>1, <1>6, <2>1, Multiple
  <2>3. m = 0 \/ m = M  BY <2>2, <1>12, <1>13
  <2> QED  BY <1>1, <1>2, <1>3, <1>8, <1>16, <1>17, <2>3, SMT
<1>18. ASSUME a <= b, b - a <= Half  PROVE delta = 0 \/ delta >= Half
  <2>1. -(2 * M) < m /\ m < M  BY <1>1, <1>2, <1>3, <1>8, <1>18, SMT
  <2>2. k = 0 \/ k = -1  BY <1>1, <1>6, <2>1, Multiple
  <2>3. m = 0 \/ m = -M  BY <2>2, <1>12, <1>14
  <2> QED  BY <1>1, <1>2, <1>3, <1>8, <1>16, <1>18, <2>3, SMT
<1> QED  BY <1>11, <1>15, <1>17, <1>18 DEF M

-----------------------------------------------------------------------------
(* The inductive invariant *)

\* The wire number kept for a session is that of the datagram it last accepted;
\* nothing was accepted or is on the way that was not sent; what is on the way
\* is at most Half older than the newest datagram of its session.
Window ==
  /\ \A s \in Admitted : last_seq[s] = Sequence(top[s])
  /\ \A s \in Sessions : top[s] < next[s]
  /\ \A d \in net : d[2] < next[d[1]] /\ next[d[1]] - d[2] <= Half + 1
IInv == TypeOK /\ CountsAddUp /\ Window

\* Sequence numbers keep their width.
LEMMA SequenceType == ASSUME NEW n \in Nat PROVE Sequence(n) \in 0 .. Modulus - 1
<1>1. Modulus \in Nat \ {0}  BY HalfAssumption DEF Modulus
<1> QED  BY <1>1, Divide DEF Sequence

LEMMA InitIInv == Init => IInv
<1> SUFFICES ASSUME Init PROVE IInv  OBVIOUS
<1> USE DEF Init, NoCounts, None
<1>1. Admitted = {}  BY DEF Admitted
<1>2. TypeOK  BY <1>1 DEF TypeOK, Reasons
<1>3. CountsAddUp  BY DEF CountsAddUp, Reasons
<1>4. Window  BY <1>1 DEF Window
<1> QED  BY <1>2, <1>3, <1>4 DEF IInv

CountsSet == [datagrams : Nat, accepted : Nat, invalid : Nat, errors : [Reasons -> Nat]]

\* One more error of one reason is one more in the sum over the reasons.
LEMMA OneMoreError ==
  ASSUME NEW e \in [Reasons -> Nat], NEW reason \in Reasons,
         NEW f, f = [e EXCEPT ![reason] = e[reason] + 1]
  PROVE  /\ f \in [Reasons -> Nat]
         /\ f["length"] + f["header"] + f["crc"] + f["type"] + f["session"] + f["replay"]
              = e["length"] + e["header"] + e["crc"] + e["type"] + e["session"] + e["replay"] + 1
<1>1. f \in [Reasons -> Nat]  OBVIOUS
<1>2. \A r \in Reasons : f[r] = IF r = reason THEN e[r] + 1 ELSE e[r]  OBVIOUS
<1>3. \A r \in Reasons : e[r] \in Nat  OBVIOUS
<1>4. PICK l, h, c, t, s, p \in Nat :
        /\ l = e["length"] /\ h = e["header"] /\ c = e["crc"]
        /\ t = e["type"] /\ s = e["session"] /\ p = e["replay"]
  BY <1>3 DEF Reasons
<1>5. /\ f["length"] = IF reason = "length" THEN l + 1 ELSE l
      /\ f["header"] = IF reason = "header" THEN h + 1 ELSE h
      /\ f["crc"] = IF reason = "crc" THEN c + 1 ELSE c
      /\ f["type"] = IF reason = "type" THEN t + 1 ELSE t
      /\ f["session"] = IF reason = "session" THEN s + 1 ELSE s
      /\ f["replay"] = IF reason = "replay" THEN p + 1 ELSE p
  BY <1>2, <1>4, Zenon DEF Reasons
<1>6. f["length"] + f["header"] + f["crc"] + f["type"] + f["session"] + f["replay"]
        = l + h + c + t + s + p + 1
  <2>1. reason \in {"length", "header", "crc", "type", "session", "replay"}  BY DEF Reasons
  <2> QED  BY <1>5, <2>1, SMT
<1> QED  BY <1>1, <1>4, <1>6

\* Rejecting counts the datagram once and leaves the sessions alone.
LEMMA RejectIInv ==
  ASSUME IInv, NEW reason \in Reasons, Reject(reason), UNCHANGED sender,
         given' \in {<<>>} \cup (Sessions \X Nat)
  PROVE  IInv'
<1> USE DEF IInv, Reject, sender
<1> DEFINE e == counts.errors  f == [e EXCEPT ![reason] = e[reason] + 1]
<1>1. Admitted' = Admitted  BY DEF Admitted
<1>2. counts \in CountsSet /\ served \in Nat  BY DEF TypeOK, CountsSet
<1>3. e \in [Reasons -> Nat]  BY <1>2 DEF CountsSet
<1>4. counts' = [datagrams |-> counts.datagrams + 1, accepted |-> counts.accepted,
                 invalid |-> counts.invalid + 1, errors |-> f]
  BY <1>2 DEF CountsSet
<1> HIDE DEF e, Reject
<1>5. /\ f \in [Reasons -> Nat]
      /\ f["length"] + f["header"] + f["crc"] + f["type"] + f["session"] + f["replay"]
           = e["length"] + e["header"] + e["crc"] + e["type"] + e["session"] + e["replay"] + 1
  BY <1>3, OneMoreError, Zenon
<1> HIDE DEF f
<1>6. counts' \in CountsSet
  <2>1. counts.datagrams + 1 \in Nat /\ counts.accepted \in Nat /\ counts.invalid + 1 \in Nat
    BY <1>2 DEF CountsSet
  <2> QED  BY <1>4, <1>5, <2>1 DEF CountsSet
<1>7. TypeOK'  BY <1>1, <1>6 DEF TypeOK, CountsSet, Reject
<1>8. CountsAddUp'
  <2>1. /\ counts'.datagrams = counts.datagrams + 1 /\ counts'.accepted = counts.accepted
        /\ counts'.invalid = counts.invalid + 1 /\ counts'.errors = f
    BY <1>4
  <2>2. counts.datagrams = counts.accepted + counts.invalid + served
        /\ counts.invalid = e["length"] + e["header"] + e["crc"] + e["type"]
                             + e["session"] + e["replay"]
    BY DEF CountsAddUp, e
  <2>3. counts.datagrams \in Nat /\ counts.accepted \in Nat /\ counts.invalid \in Nat
    BY <1>2 DEF CountsSet
  <2>4. served' = served  BY DEF Reject
  <2>5. counts'.datagrams = counts'.accepted + counts'.invalid + served'
    BY <1>2, <2>1, <2>2, <2>3, <2>4
  <2>6. counts'.invalid = f["length"] + f["header"] + f["crc"] + f["type"]
                          + f["session"] + f["replay"]
    BY <1>5, <2>1, <2>2
  <2> QED  BY <2>1, <2>5, <2>6 DEF CountsAddUp
<1>9. Window'  BY <1>1 DEF Window, TypeOK, Reject
<1> QED  BY <1>7, <1>8, <1>9

\* An accepted datagram becomes the last of its session.
LEMMA AcceptIInv ==
  ASSUME IInv, NEW d \in net, Accept(d[1], d[2]), UNCHANGED sender, given' = d
  PROVE  IInv'
<1> DEFINE s == d[1]  n == d[2]
<1> USE DEF IInv, Accept, sender
<1>1. s \in Sessions /\ n \in Nat /\ d \in Sessions \X Nat  BY DEF TypeOK
<1>2. top' = [top EXCEPT ![s] = n] /\ top \in [Sessions -> Nat \cup {None}]
  BY DEF TypeOK
<1>3. Sequence(n) \in 0 .. Modulus - 1  BY <1>1, SequenceType
<1>4. last_seq' = [t \in DOMAIN last_seq \cup {s} |-> IF t = s THEN Sequence(n) ELSE last_seq[t]]
  BY DEF Keep
<1>5. counts' = [counts EXCEPT !.datagrams = @ + 1, !.accepted = @ + 1] /\ served' = served
  OBVIOUS
<1>6. n < next[s]  BY DEF Window
<1>7. UNCHANGED <<next, net, control>>  OBVIOUS
<1> HIDE DEF s, n, Accept
<1>8. n # None  BY <1>1 DEF None
<1>9. Admitted' = Admitted \cup {s}  BY <1>1, <1>2, <1>8 DEF Admitted
<1>10. DOMAIN last_seq = Admitted  BY DEF TypeOK
<1>11. DOMAIN last_seq' = Admitted'  BY <1>4, <1>9, <1>10
<1>12. TypeOK'
  <2>1. \A t \in Admitted' : last_seq'[t] \in 0 .. Modulus - 1
    BY <1>3, <1>4, <1>9, <1>10 DEF TypeOK
  <2>2. counts' \in CountsSet
    <3>1. counts \in CountsSet  BY DEF TypeOK, CountsSet
    <3>2. counts' = [datagrams |-> counts.datagrams + 1, accepted |-> counts.accepted + 1,
                     invalid |-> counts.invalid, errors |-> counts.errors]
      BY <1>5, <3>1 DEF CountsSet
    <3> QED  BY <3>1, <3>2 DEF CountsSet
  <2>3. top' \in [Sessions -> Nat \cup {None}]  BY <1>1, <1>2
  <2> QED  BY <1>1, <1>5, <1>7, <1>11, <2>1, <2>2, <2>3 DEF TypeOK, CountsSet
<1>13. CountsAddUp'
  <2>1. counts \in [datagrams : Nat, accepted : Nat, invalid : Nat, errors : [Reasons -> Nat]]
        /\ served \in Nat
    BY DEF TypeOK
  <2>2. /\ counts'.datagrams = counts.datagrams + 1 /\ counts'.accepted = counts.accepted + 1
        /\ counts'.invalid = counts.invalid /\ counts'.errors = counts.errors
    BY <1>5, <2>1
  <2> QED  BY <1>5, <2>1, <2>2 DEF CountsAddUp
<1>14. Window'
  <2>1. \A t \in Admitted' : last_seq'[t] = Sequence(top'[t])
    BY <1>1, <1>2, <1>4, <1>9, <1>10 DEF Window, Admitted
  <2>2. \A t \in Sessions : top'[t] < next'[t]
    BY <1>1, <1>2, <1>6, <1>7 DEF Window
  <2> QED  BY <1>7, <2>1, <2>2 DEF Window
<1> QED  BY <1>12, <1>13, <1>14

LEMMA NextIInv == IInv /\ [Next]_vars => IInv'
<1> SUFFICES ASSUME IInv, [Next]_vars PROVE IInv'  OBVIOUS
<1>1. CASE Data
  <2>1. PICK d \in net : /\ NoRoom(d[1]) \/ Replay(d[1], d[2]) \/ Accept(d[1], d[2])
                        /\ given' = d /\ UNCHANGED sender
    BY <1>1 DEF Data
  <2>2. d \in Sessions \X Nat  BY DEF IInv, TypeOK
  <2>3. CASE NoRoom(d[1])
    BY <2>1, <2>2, <2>3, RejectIInv DEF NoRoom, Reasons
  <2>4. CASE Replay(d[1], d[2])
    BY <2>1, <2>2, <2>4, RejectIInv DEF Replay, Reasons
  <2>5. CASE Accept(d[1], d[2])  BY <2>1, <2>5, AcceptIInv
  <2> QED  BY <2>1, <2>3, <2>4, <2>5
<1>2. CASE Stats
  <2> USE <1>2 DEF IInv, Stats
  <2>1. Admitted' = Admitted  BY DEF Admitted
  <2>2. counts \in [datagrams : Nat, accepted : Nat, invalid : Nat, errors : [Reasons -> Nat]]
        /\ served \in Nat
    BY DEF TypeOK
  <2>3. /\ counts'.datagrams = counts.datagrams + 1 /\ counts'.accepted = counts.accepted
        /\ counts'.invalid = counts.invalid /\ counts'.errors = counts.errors
    BY <2>2
  <2>4. TypeOK'
    <3>1. counts' = [datagrams |-> counts.datagrams + 1, accepted |-> counts.accepted,
                     invalid |-> counts.invalid, errors |-> counts.errors]
      BY <2>2
    <3>2. counts' \in [datagrams : Nat, accepted : Nat, invalid : Nat, errors : [Reasons -> Nat]]
      BY <2>2, <3>1
    <3>3. served' \in Nat /\ control' \in Nat /\ given' = <<>>  BY DEF TypeOK
    <3> QED  BY <2>1, <3>2, <3>3 DEF TypeOK
  <2>5. CountsAddUp'  BY <2>2, <2>3 DEF CountsAddUp
  <2>6. Window'  BY <2>1 DEF Window
  <2> QED  BY <2>4, <2>5, <2>6
<1>3. CASE ResetRequest
  <2> USE <1>3 DEF IInv, ResetRequest, NoCounts, None
  <2>1. Admitted' = {}  BY DEF Admitted
  <2>2. TypeOK'  BY <2>1 DEF TypeOK, Reasons
  <2>3. CountsAddUp'  BY DEF CountsAddUp, Reasons
  <2>4. Window'  BY <2>1 DEF Window, TypeOK
  <2> QED  BY <2>2, <2>3, <2>4
<1>4. ASSUME NEW reason \in Reasons, Damaged(reason) PROVE IInv'
  BY <1>4, RejectIInv DEF Damaged
<1>5. ASSUME NEW s \in Sessions, Send(s) PROVE IInv'
  <2> USE <1>5 DEF IInv, Send
  <2>1. Admitted' = Admitted  BY DEF Admitted
  <2>2. next \in [Sessions -> Nat]  BY DEF TypeOK
  <2>3. TypeOK'  BY <2>1 DEF TypeOK
  <2>4. CountsAddUp'  BY DEF CountsAddUp
  <2>5. \A t \in Sessions : top'[t] < next'[t]
    BY <2>2 DEF Window, TypeOK, None
  <2>6. ASSUME NEW d \in net' PROVE d[2] < next'[d[1]] /\ next'[d[1]] - d[2] <= Half + 1
    <3>1. CASE d = <<s, next[s]>>  BY <2>2, <3>1, HalfAssumption
    <3>2. CASE d \in net /\ d[1] = s
      <4>1. d \in Sessions \X Nat  BY <3>2 DEF TypeOK
      <4>2. d[2] \in Nat /\ next[s] - d[2] <= Half /\ d[2] < next[s]  BY <3>2, <4>1 DEF Window
      <4> QED  BY <2>2, <3>2, <4>2, HalfAssumption
    <3>3. CASE d \in net /\ d[1] # s
      <4>1. d \in Sessions \X Nat  BY <3>3 DEF TypeOK
      <4>2. next'[d[1]] = next[d[1]]  BY <2>2, <3>3, <4>1
      <4> QED  BY <3>3, <4>2 DEF Window
    <3> QED  BY <3>1, <3>2, <3>3
  <2>7. Window'  BY <2>1, <2>5, <2>6 DEF Window
  <2> QED  BY <2>3, <2>4, <2>7
<1>6. ASSUME NEW d \in net, Gone(d) PROVE IInv'
  <2> USE <1>6 DEF IInv, Gone
  <2>1. Admitted' = Admitted  BY DEF Admitted
  <2>2. TypeOK'  BY <2>1 DEF TypeOK
  <2>3. CountsAddUp'  BY DEF CountsAddUp
  <2>4. Window'  BY <2>1 DEF Window
  <2> QED  BY <2>2, <2>3, <2>4
<1>7. CASE UNCHANGED vars
  BY <1>7 DEF IInv, vars, TypeOK, CountsAddUp, Window, Admitted
<1> QED  BY <1>1, <1>2, <1>3, <1>4, <1>5, <1>6, <1>7 DEF Next

\* The invariant the theorems below rest on holds in every state.
THEOREM DatapathInvariant == Spec => []IInv
<1> QED  BY InitIInv, NextIInv, PTL DEF Spec

\* Every variable keeps its type, and sequence numbers their width, for every Half.
THEOREM DatapathTypes == Spec => []TypeOK
<1>1. IInv => TypeOK  BY DEF IInv
<1> QED  BY DatapathInvariant, <1>1, PTL

\* Every datagram is accepted, refused for one reason or a control request.
THEOREM DatapathCounts == Spec => []CountsAddUp
<1>1. IInv => CountsAddUp  BY DEF IInv
<1> QED  BY DatapathInvariant, <1>1, PTL

-----------------------------------------------------------------------------
(* Sessions *)

\* Only an accepted datagram of a new session adds one, and only below the limit.
LEMMA NextBounded ==
  IInv /\ SessionsBounded /\ [Next]_vars => SessionsBounded'
<1> SUFFICES ASSUME IInv, SessionsBounded, [Next]_vars PROVE SessionsBounded'  OBVIOUS
<1>1. CASE last_seq' = last_seq  BY <1>1 DEF SessionsBounded
<1>2. CASE last_seq' = [s \in {} |-> 0]
  <2>1. DOMAIN last_seq' = {}  BY <1>2
  <2>2. Cardinality(DOMAIN last_seq') = 0  BY <2>1, FS_EmptySet
  <2> QED  BY <2>2, SessionsAssumption DEF SessionsBounded
<1>3. ASSUME NEW d \in net, Accept(d[1], d[2]) PROVE SessionsBounded'
  <2> DEFINE s == d[1]  D == DOMAIN last_seq
  <2>1. s \in Sessions /\ D \subseteq Sessions  BY DEF IInv, TypeOK, Admitted
  <2>2. IsFiniteSet(D)  BY <2>1, SessionsAssumption, FS_Subset
  <2>3. DOMAIN last_seq' = D \cup {s}  BY <1>3 DEF Accept, Keep
  <2>4. ~(s \notin D /\ Cardinality(D) = MaxSessions)  BY <1>3 DEF Accept, Full
  <2>5. Cardinality(D) \in Nat /\ Cardinality(D) <= MaxSessions /\ MaxSessions \in Nat
    BY <2>2, FS_CardinalityType, SessionsAssumption DEF SessionsBounded
  <2>6. Cardinality(D \cup {s}) = IF s \in D THEN Cardinality(D) ELSE Cardinality(D) + 1
    BY <2>2, FS_AddElement
  <2> HIDE DEF D, s
  <2>7. Cardinality(D \cup {s}) <= MaxSessions  BY <2>4, <2>5, <2>6
  <2> QED  BY <2>3, <2>7 DEF SessionsBounded
<1> QED
  BY <1>1, <1>2, <1>3 DEF Next, vars, Data, NoRoom, Replay, Reject, Stats, ResetRequest,
                          Damaged, Send, Gone

\* The table of sessions never outgrows its limit, for every limit.
THEOREM DatapathBounded == Spec => []SessionsBounded
<1>1. Init => SessionsBounded
  <2> SUFFICES ASSUME Init PROVE SessionsBounded  OBVIOUS
  <2>1. DOMAIN last_seq = {}  BY DEF Init
  <2> QED  BY <2>1, FS_EmptySet, SessionsAssumption DEF SessionsBounded
<1> QED  BY <1>1, NextBounded, DatapathInvariant, PTL DEF Spec

-----------------------------------------------------------------------------
(* Replays *)

\* The test of freshness decides as the numbers behind the wire numbers do.
LEMMA FreshDecides ==
  ASSUME IInv, NEW d \in net
  PROVE  LET s == d[1] n == d[2]
         IN  /\ Fresh(s, n) => n > top[s]
             /\ ~Fresh(s, n) => top[s] # None /\ (n <= top[s] \/ n - top[s] >= Half)
<1> DEFINE s == d[1]  n == d[2]  t == top[s]
<1>1. s \in Sessions /\ n \in Nat /\ t \in Nat \cup {None}  BY DEF IInv, TypeOK
<1>2. n < next[s] /\ next[s] - n <= Half + 1 /\ t < next[s] /\ next[s] \in Nat
  BY <1>1 DEF IInv, Window, TypeOK
<1>3. Half \in Nat /\ Half > 1  BY HalfAssumption
<1>4. s \in DOMAIN last_seq <=> t # None  BY <1>1 DEF IInv, TypeOK, Admitted
<1>5. CASE t = None
  <2>1. Delta(s, n) = 1  BY <1>4, <1>5 DEF Delta
  <2>2. Fresh(s, n)  BY <1>3, <2>1 DEF Fresh
  <2>3. n > t  BY <1>1, <1>5 DEF None
  <2> QED  BY <2>2, <2>3
<1>6. CASE t # None
  <2>1. t \in Nat  BY <1>1, <1>6
  <2>2. last_seq[s] = Sequence(t)  BY <1>1, <1>6 DEF IInv, Window, Admitted
  <2>3. Delta(s, n) = (Sequence(n) - Sequence(t)) % Modulus  BY <1>4, <1>6, <2>2 DEF Delta
  <2> HIDE DEF s, n, t
  <2>4. /\ n > t /\ n - t < Half => Delta(s, n) = n - t
        /\ n <= t /\ t - n <= Half => Delta(s, n) = 0 \/ Delta(s, n) >= Half
    BY <1>1, <2>1, <2>3, SerialDistance
  <2>5. n <= t => t - n <= Half  BY <1>1, <1>2, <1>3, <2>1
  <2>6. ASSUME Fresh(s, n) PROVE n > t
    <3>1. Delta(s, n) # 0 /\ Delta(s, n) < Half  BY <2>6 DEF Fresh
    <3>2. Delta(s, n) \in Int
      <4>1. Sequence(n) \in Int /\ Sequence(t) \in Int  BY <1>1, <2>1, SequenceType
      <4>2. Modulus \in Nat \ {0}  BY <1>3 DEF Modulus
      <4>3. (Sequence(n) - Sequence(t)) % Modulus \in Int  BY <4>1, <4>2, SMT
      <4> QED  BY <2>3, <4>3
    <3> QED  BY <1>1, <1>3, <2>1, <2>4, <2>5, <3>1, <3>2
  <2>7. ASSUME ~Fresh(s, n) PROVE n <= t \/ n - t >= Half
    <3>1. n > t /\ n - t < Half => Delta(s, n) # 0 /\ Delta(s, n) < Half
      BY <1>1, <1>3, <2>1, <2>4
    <3> QED  BY <1>1, <1>3, <2>1, <2>7, <3>1 DEF Fresh
  <2> QED  BY <1>6, <2>6, <2>7 DEF s, n, t
<1> QED  BY <1>5, <1>6

\* What process() accepts is newer than all it accepted in that session, for every
\* width of the sequence numbers, on a network that repeats and reorders.
THEOREM DatapathNoReplay == Spec => NoReplay
<1> DEFINE Step == counts'.accepted > counts.accepted
                     => /\ given'[2] > top[given'[1]]
                        /\ \A s \in Sessions \ {given'[1]} : top'[s] = top[s]
<1>1. ASSUME IInv, [Next]_vars PROVE Step
  <2>1. counts \in CountsSet  BY <1>1 DEF IInv, TypeOK, CountsSet
  <2>2. counts.accepted \in Nat  BY <2>1 DEF CountsSet
  <2>3. CASE counts'.accepted = counts.accepted \/ counts'.accepted = 0  BY <2>2, <2>3
  <2>4. ASSUME NEW reason, Reject(reason) PROVE counts'.accepted = counts.accepted
    BY <2>1, <2>4 DEF Reject, CountsSet
  <2>5. Stats => counts'.accepted = counts.accepted  BY <2>1 DEF Stats, CountsSet
  <2>6. ResetRequest => counts'.accepted = 0  BY DEF ResetRequest, NoCounts
  <2>7. ASSUME NEW d \in net, Accept(d[1], d[2]), given' = d PROVE Step
    <3>1. d[2] > top[d[1]]  BY <1>1, <2>7, FreshDecides DEF Accept
    <3>2. \A s \in Sessions \ {d[1]} : top'[s] = top[s]
      BY <1>1, <2>7 DEF Accept, IInv, TypeOK
    <3> QED  BY <2>7, <3>1, <3>2
  <2>8. CASE UNCHANGED counts  BY <2>3, <2>8
  <2> HIDE DEF Step
  <2> QED
    BY <1>1, <2>3, <2>4, <2>5, <2>6, <2>7, <2>8
       DEF Next, vars, Data, NoRoom, Replay, Damaged, Send, Gone
<1> QED  BY <1>1, DatapathInvariant, PTL DEF Spec, NoReplay

\* What process() refuses as a replay is no newer than the last it accepted, or
\* ahead of it by at least half the number space.
THEOREM DatapathNoFalseReplay == Spec => NoFalseReplay
<1> DEFINE Step == counts'.errors["replay"] > counts.errors["replay"]
                     => LET s == given'[1] n == given'[2]
                        IN  top[s] # None /\ (n <= top[s] \/ n - top[s] >= Half)
<1>1. ASSUME IInv, [Next]_vars PROVE Step
  <2>1. counts \in CountsSet  BY <1>1 DEF IInv, TypeOK, CountsSet
  <2>2. counts.errors["replay"] \in Nat  BY <2>1 DEF CountsSet, Reasons
  <2> DEFINE Same == counts'.errors["replay"] = counts.errors["replay"]
  <2>3. CASE Same \/ counts'.errors["replay"] = 0  BY <2>2, <2>3
  <2>4. ASSUME NEW reason, Reject(reason), reason # "replay" PROVE Same
    BY <2>1, <2>4 DEF Reject, CountsSet
  <2>5. Stats => Same  BY <2>1 DEF Stats, CountsSet
  <2>6. ResetRequest => counts'.errors["replay"] = 0  BY DEF ResetRequest, NoCounts, Reasons
  <2>7. \A d \in net : Accept(d[1], d[2]) => Same  BY <2>1 DEF Accept, CountsSet
  <2>8. ASSUME NEW d \in net, Replay(d[1], d[2]), given' = d PROVE Step
    BY <1>1, <2>8, FreshDecides DEF Replay
  <2>9. CASE UNCHANGED counts  BY <2>3, <2>9
  <2> HIDE DEF Step, Same
  <2> QED
    BY <1>1, <2>3, <2>4, <2>5, <2>6, <2>7, <2>8, <2>9
       DEF Next, vars, Data, NoRoom, Damaged, Send, Gone
<1> QED  BY <1>1, DatapathInvariant, PTL DEF Spec, NoFalseReplay
=============================================================================
