-------------------------- MODULE RingBufferProofs --------------------------
(***************************************************************************)
(* Proofs about RingBuffer, for every capacity, every set of items and     *)
(* every finite set of consumers.  The four state invariants are proved    *)
(* together: result's type needs that the slot at tail holds an item       *)
(* (IndicesAgree), and nothing else is needed to make them inductive.      *)
(***************************************************************************)
EXTENDS RingBuffer, FiniteSetTheorems, SequenceTheorems, TLAPS

IInv == TypeOK /\ IndicesAgree /\ Accounting /\ NoLostWakeup

-----------------------------------------------------------------------------
(* Arithmetic of the ring *)

\* The remainder of a sum of an index and at most one turn of the ring.
LEMMA WrapOnce ==
  ASSUME NEW t \in Slots, NEW k \in 0 .. Capacity
  PROVE  (t + k) % Capacity = IF t + k < Capacity THEN t + k
                                                  ELSE t + k - Capacity
<1> USE CapacityAssumption DEF Slots
<1>1. CASE t + k < Capacity
  <2>1. t + k \in 0 .. Capacity - 1  BY <1>1
  <2>2. (t + k) % Capacity = t + k
    <3> DEFINE x == t + k
    <3>1. x \in 0 .. Capacity - 1  BY <2>1
    <3> HIDE DEF x
    <3>2. x % Capacity = x  BY <3>1, SMT
    <3> QED  BY <3>2 DEF x
  <2> QED  BY <1>1, <2>2
<1>2. CASE ~(t + k < Capacity)
  <2>1. t + k \in Capacity .. 2 * Capacity - 1  BY <1>2
  <2>2. (t + k) % Capacity = t + k - Capacity
    <3> DEFINE x == t + k
    <3>1. x \in Capacity .. 2 * Capacity - 1  BY <2>1
    <3> HIDE DEF x
    <3>2. x % Capacity = x - Capacity  BY <3>1, SMT
    <3> QED  BY <3>2 DEF x
  <2> QED  BY <1>2, <2>2
<1> QED  BY <1>1, <1>2

\* Advancing the index and then counting i is counting i + 1.
LEMMA WrapStep ==
  ASSUME NEW t \in Slots, NEW i \in 0 .. Capacity - 1
  PROVE  /\ (t + 1) % Capacity \in Slots
         /\ (((t + 1) % Capacity) + i) % Capacity = (t + (i + 1)) % Capacity
<1> USE CapacityAssumption DEF Slots
<1>1. PICK u : u = (t + 1) % Capacity  OBVIOUS
<1>2. u = IF t + 1 < Capacity THEN t + 1 ELSE t + 1 - Capacity
  BY <1>1, WrapOnce
<1>3. u \in Slots  BY <1>2
<1>4. (u + i) % Capacity = IF u + i < Capacity THEN u + i ELSE u + i - Capacity
  BY <1>3, WrapOnce
<1>5. (t + (i + 1)) % Capacity
        = IF t + (i + 1) < Capacity THEN t + (i + 1) ELSE t + (i + 1) - Capacity
  <2>1. i + 1 \in 0 .. Capacity  OBVIOUS
  <2> HIDE DEF Slots
  <2> QED  BY <2>1, WrapOnce
<1>6. (u + i) % Capacity = (t + (i + 1)) % Capacity
  BY <1>2, <1>4, <1>5
<1> QED  BY <1>1, <1>3, <1>6

\* deadline_from_now always yields a normalised timespec (timedwait never
\* answers EINVAL) that lies exactly timeout_ms after the time it started from.
THEOREM DeadlineIsExact ==
  ASSUME NEW sec \in Nat, NEW nsec \in 0 .. NsPerSec - 1, NEW timeout_ms \in Nat
  PROVE  /\ DeadlineNsec(nsec, timeout_ms) \in 0 .. NsPerSec - 1
         /\ DeadlineSec(sec, nsec, timeout_ms) * NsPerSec + DeadlineNsec(nsec, timeout_ms)
              = sec * NsPerSec + nsec + timeout_ms * NsPerMs
<1>1. PICK q \in Nat, r \in 0 .. 999 :
        /\ timeout_ms \div 1000 = q /\ timeout_ms % 1000 = r
        /\ timeout_ms = 1000 * q + r
  BY SMT
<1>2. NsPerMs \in Nat \ {0}  BY SMT DEF NsPerMs
<1>3. r * NsPerMs \in Nat /\ r * NsPerMs <= 999 * NsPerMs  BY <1>2, SMT
<1>4. CASE nsec + r * NsPerMs >= NsPerSec
  <2>1. /\ DeadlineNsec(nsec, timeout_ms) = nsec + r * NsPerMs - NsPerSec
        /\ DeadlineSec(sec, nsec, timeout_ms) = sec + q + 1
    BY <1>1, <1>4 DEF DeadlineSec, DeadlineNsec, DeadlineCarries
  <2>2. nsec + r * NsPerMs - NsPerSec \in 0 .. NsPerSec - 1
    BY <1>2, <1>3, <1>4, SMT DEF NsPerSec
  <2>3. (sec + q + 1) * NsPerSec + (nsec + r * NsPerMs - NsPerSec)
          = sec * NsPerSec + nsec + (1000 * q + r) * NsPerMs
    BY <1>2, SMT DEF NsPerSec
  <2> QED  BY <1>1, <2>1, <2>2, <2>3
<1>5. CASE ~(nsec + r * NsPerMs >= NsPerSec)
  <2>1. /\ DeadlineNsec(nsec, timeout_ms) = nsec + r * NsPerMs
        /\ DeadlineSec(sec, nsec, timeout_ms) = sec + q
    BY <1>1, <1>2, <1>3, <1>5, SMT DEF DeadlineSec, DeadlineNsec, DeadlineCarries, NsPerSec
  <2>2. nsec + r * NsPerMs \in 0 .. NsPerSec - 1
    BY <1>2, <1>3, <1>5, SMT DEF NsPerSec
  <2>3. (sec + q) * NsPerSec + (nsec + r * NsPerMs)
          = sec * NsPerSec + nsec + (1000 * q + r) * NsPerMs
    BY <1>2, SMT DEF NsPerSec
  <2> QED  BY <1>1, <2>1, <2>2, <2>3
<1> QED  BY <1>4, <1>5

-----------------------------------------------------------------------------
(* The ring's fields *)

RingTypeOK ==
  /\ storage \in [Slots -> Items \cup {NoItem}]
  /\ head \in Slots /\ tail \in Slots
  /\ count \in 0 .. Capacity /\ high_water \in 0 .. Capacity

\* Storing an item keeps the indices in step and every queued slot filled.
LEMMA StoreKeepsRing ==
  ASSUME RingTypeOK, IndicesAgree, NEW item \in Items, PushStore(item)
  PROVE  RingTypeOK' /\ IndicesAgree'
<1> USE CapacityAssumption
<1> DEFINE At(i) == (tail + i) % Capacity
<1>1. \A i \in 0 .. Capacity : At(i) = IF tail + i < Capacity THEN tail + i
                                                      ELSE tail + i - Capacity
  BY WrapOnce DEF RingTypeOK
<1>2. (head + 1) % Capacity = IF head + 1 < Capacity THEN head + 1 ELSE head + 1 - Capacity
  BY WrapOnce DEF RingTypeOK
<1>3. (tail + 1) % Capacity = IF tail + 1 < Capacity THEN tail + 1 ELSE tail + 1 - Capacity
  BY WrapOnce DEF RingTypeOK
<1>4. head = At(count)  BY DEF IndicesAgree
<1>5. \A i \in 0 .. count - 1 : storage[At(i)] \in Items
  BY DEF IndicesAgree
<1>6. head' \in Slots /\ head' = (head + 1) % Capacity
  BY <1>2 DEF RingTypeOK, PushStore, Slots
<1>7. storage' \in [Slots -> Items \cup {NoItem}]
  BY DEF RingTypeOK, PushStore
<1>8. /\ storage'[head] = item
      /\ \A j \in Slots : j # head => storage'[j] = storage[j]
  BY DEF RingTypeOK, PushStore
<1>9. CASE count = Capacity
  <2>1. tail' = (tail + 1) % Capacity /\ count' = Capacity
    BY <1>9, SMT DEF PushStore, RingTypeOK
  <2>2. tail' \in Slots /\ count' \in 0 .. Capacity
    BY <1>3, <2>1 DEF RingTypeOK, Slots
  <2>3. high_water' \in 0 .. Capacity
    BY <1>9 DEF PushStore, RingTypeOK
  <2>4. head = tail
    BY <1>1, <1>4, <1>9 DEF RingTypeOK, Slots
  <2>5. head' = tail'  BY <1>6, <2>1, <2>4
  <2>6. \A i \in 0 .. Capacity : (tail' + i) % Capacity =
           IF tail' + i < Capacity THEN tail' + i ELSE tail' + i - Capacity
    BY <2>2, WrapOnce
  <2>7. head' = (tail' + count') % Capacity
    BY <2>1, <2>2, <2>5, <2>6 DEF Slots
  <2>8. ASSUME NEW i \in 0 .. Capacity - 1
        PROVE  storage'[(tail' + i) % Capacity] \in Items
    <3>1. CASE i = Capacity - 1
      <4>1. (tail' + i) % Capacity = At(i + 1)
        BY <2>1, WrapStep DEF RingTypeOK
      <4>2. At(i + 1) = head
        BY <1>1, <2>4, <3>1 DEF RingTypeOK, Slots
      <4> QED  BY <4>1, <4>2, <1>8
    <3>2. CASE i # Capacity - 1
      <4>1. (tail' + i) % Capacity = At(i + 1)
        BY <2>1, WrapStep DEF RingTypeOK
      <4>2. At(i + 1) # head /\ At(i + 1) \in Slots
        BY <1>1, <2>4, <3>2 DEF RingTypeOK, Slots
      <4>3. i + 1 \in 0 .. count - 1  BY <1>9, <3>2
      <4> QED  BY <4>1, <4>2, <4>3, <1>5, <1>8
    <3> QED  BY <3>1, <3>2
  <2> QED
    BY <1>6, <1>7, <2>1, <2>2, <2>3, <2>7, <2>8 DEF RingTypeOK, IndicesAgree
<1>10. CASE count # Capacity
  <2>1. tail' = tail /\ count' = count + 1 /\ count < Capacity
    BY <1>10 DEF PushStore, RingTypeOK
  <2>2. high_water' \in 0 .. Capacity /\ count' \in 0 .. Capacity
    BY <1>10, <2>1 DEF PushStore, RingTypeOK
  <2>3. head' = (tail' + count') % Capacity
    BY <1>1, <1>2, <1>4, <1>6, <2>1, <2>2 DEF RingTypeOK, Slots
  <2>4. ASSUME NEW i \in 0 .. count
        PROVE  storage'[At(i)] \in Items
    <3>1. CASE i = count  BY <3>1, <1>4, <1>8
    <3>2. CASE i # count
      <4>1. At(i) # head /\ At(i) \in Slots
        BY <1>1, <1>4, <2>1, <3>2 DEF RingTypeOK, Slots
      <4>2. i \in 0 .. count - 1  BY <3>2 DEF RingTypeOK
      <4> QED  BY <4>1, <4>2, <1>5, <1>8
    <3> QED  BY <3>1, <3>2
  <2>5. \A i \in 0 .. count' - 1 : storage'[(tail' + i) % Capacity] \in Items
    BY <2>1, <2>4 DEF RingTypeOK
  <2> QED
    BY <1>6, <1>7, <2>1, <2>2, <2>3, <2>5 DEF RingTypeOK, IndicesAgree
<1> QED  BY <1>9, <1>10

\* Taking the tail item does so too, and what is handed out is an item.
LEMMA TakeKeepsRing ==
  ASSUME RingTypeOK, IndicesAgree, count # 0, NEW c \in Consumers, TakeTail(c)
  PROVE  /\ RingTypeOK' /\ IndicesAgree'
         /\ count' = count - 1
         /\ storage[tail] \in Items
<1> USE CapacityAssumption
<1> DEFINE At(i) == (tail + i) % Capacity
<1>1. \A i \in 0 .. Capacity : At(i) = IF tail + i < Capacity THEN tail + i
                                                      ELSE tail + i - Capacity
  BY WrapOnce DEF RingTypeOK
<1>2. tail' = At(1) /\ tail' \in Slots
  BY <1>1 DEF TakeTail, RingTypeOK, Slots
<1>3. \A i \in 0 .. Capacity : (tail' + i) % Capacity =
         IF tail' + i < Capacity THEN tail' + i ELSE tail' + i - Capacity
  BY <1>2, WrapOnce
<1>4. count' = count - 1 /\ storage' = storage /\ head' = head /\ high_water' = high_water
  BY DEF TakeTail
<1>5. count \in 1 .. Capacity  BY DEF RingTypeOK
<1>6. RingTypeOK'  BY <1>2, <1>4, <1>5 DEF RingTypeOK
<1>7. \A i \in 0 .. Capacity - 1 : (tail' + i) % Capacity = At(i + 1)
  BY <1>2, WrapStep DEF RingTypeOK
<1>8. head' = (tail' + count') % Capacity
  <2>1. count - 1 \in 0 .. Capacity - 1 /\ (count - 1) + 1 = count  BY <1>5
  <2> QED  BY <1>4, <1>7, <2>1 DEF IndicesAgree
<1>9. \A i \in 0 .. count' - 1 : storage'[(tail' + i) % Capacity] \in Items
  BY <1>4, <1>5, <1>7 DEF IndicesAgree
<1>10. storage[tail] \in Items
  <2>1. At(0) = tail  BY <1>1 DEF RingTypeOK, Slots
  <2> QED  BY <1>5, <2>1 DEF IndicesAgree
<1> QED  BY <1>4, <1>6, <1>8, <1>9, <1>10 DEF IndicesAgree

-----------------------------------------------------------------------------
(* The condition variable *)

PcTypeOK == pc \in [Consumers -> {"idle", "waiting", "woken", "expired"}]

\* The sets of sleeping and woken consumers are finite, so they can be counted.
LEMMA WokenFinite ==
  /\ IsFiniteSet(Woken) /\ Cardinality(Woken) \in Nat
  /\ IsFiniteSet(Woken') /\ Cardinality(Woken') \in Nat
<1>1. Woken \subseteq Consumers /\ Woken' \subseteq Consumers  BY DEF Woken
<1> QED  BY <1>1, ConsumersAssumption, FS_Subset, FS_CardinalityType

\* A consumer that wakes, for whichever reason, adds one to the woken ones.
LEMMA WakeCounts ==
  ASSUME PcTypeOK, NEW c \in Waiting, pc' = [pc EXCEPT ![c] = "woken"]
  PROVE  PcTypeOK' /\ Cardinality(Woken') = Cardinality(Woken) + 1
<1>1. c \in Consumers /\ c \notin Woken  BY DEF Waiting, Woken
<1>2. Woken' = Woken \cup {c}  BY <1>1 DEF PcTypeOK, Woken
<1>3. PcTypeOK'  BY <1>1 DEF PcTypeOK
<1> QED  BY <1>1, <1>2, <1>3, WokenFinite, FS_AddElement

\* A woken consumer that goes on takes one away.
LEMMA LeaveCounts ==
  ASSUME PcTypeOK, NEW c \in Woken, NEW where \in {"idle", "waiting", "expired"},
         pc' = [pc EXCEPT ![c] = where]
  PROVE  PcTypeOK' /\ Cardinality(Woken') = Cardinality(Woken) - 1
<1>1. c \in Consumers /\ pc[c] = "woken"  BY DEF Woken
<1>2. Woken' = Woken \ {c}  BY <1>1 DEF PcTypeOK, Woken
<1>3. PcTypeOK'  BY <1>1 DEF PcTypeOK
<1> QED  BY <1>2, <1>3, WokenFinite, FS_RemoveElement

\* After a push, if anyone still sleeps, one more consumer is awake.
LEMMA SignalCounts ==
  ASSUME PcTypeOK, Signal
  PROVE  /\ PcTypeOK'
         /\ Waiting' # {} => /\ Waiting # {}
                             /\ Cardinality(Woken') = Cardinality(Woken) + 1
<1>1. CASE Waiting = {} /\ UNCHANGED pc  BY <1>1 DEF Waiting, PcTypeOK
<1>2. ASSUME NEW c \in Waiting, pc' = [pc EXCEPT ![c] = "woken"]
      PROVE  PcTypeOK' /\ Cardinality(Woken') = Cardinality(Woken) + 1
  BY <1>2, WakeCounts
<1> QED  BY <1>1, <1>2 DEF Signal

-----------------------------------------------------------------------------
(* The inductive invariant *)

\* The initial state satisfies the invariant.
LEMMA InitIInv == Init => IInv
<1> SUFFICES ASSUME Init PROVE IInv  OBVIOUS
<1> USE CapacityAssumption, MaxPushesAssumption
<1>1. TypeOK  BY DEF Init, TypeOK, Slots, Results
<1>2. IndicesAgree
  <2>1. (0 + 0) % Capacity = 0  BY WrapOnce DEF Slots
  <2> QED  BY <2>1 DEF Init, IndicesAgree
<1>3. Accounting  BY DEF Init, Accounting
<1>4. NoLostWakeup  BY DEF Init, NoLostWakeup, Waiting
<1> QED  BY <1>1, <1>2, <1>3, <1>4 DEF IInv

\* A push, refused, stored or overwriting, keeps the invariant.
LEMMA PushIInv ==
  ASSUME IInv, NEW item \in Items, NEW ow \in BOOLEAN, Push(item, ow)
  PROVE  IInv'
<1> USE CapacityAssumption, MaxPushesAssumption
<1>0. TypeOK /\ IndicesAgree /\ Accounting /\ NoLostWakeup  BY DEF IInv
<1>1. RingTypeOK /\ PcTypeOK  BY <1>0 DEF TypeOK, RingTypeOK, PcTypeOK
<1>2. /\ pushes' = pushes + 1 /\ pushes' \in 0 .. MaxPushes
      /\ deadline' = deadline /\ result' = result /\ popped' = popped
  BY <1>0 DEF Push, TypeOK
<1>3. CASE PushFull
  <2>1. TypeOK'  BY <1>0, <1>2, <1>3 DEF TypeOK, PushFull
  <2>2. IndicesAgree'  BY <1>0, <1>3 DEF IndicesAgree, PushFull
  <2>3. Accounting'  BY <1>0, <1>2, <1>3 DEF Accounting, PushFull, TypeOK
  <2>4. NoLostWakeup'
    BY <1>0, <1>3 DEF NoLostWakeup, PushFull, Waiting, Woken
  <2> QED  BY <2>1, <2>2, <2>3, <2>4 DEF IInv
<1>4. CASE PushStore(item)
  <2>1. RingTypeOK' /\ IndicesAgree'  BY <1>0, <1>1, <1>4, StoreKeepsRing
  <2>2. Signal  BY <1>4 DEF PushStore
  <2>3. PcTypeOK'  BY <1>1, <2>2, SignalCounts
  <2>4. /\ \/ count' = count /\ dropped' = dropped + 1
           \/ count' = count + 1 /\ dropped' = dropped
        /\ dropped' \in Nat /\ count' \in Nat
        /\ count' <= count + 1
    BY <1>0, <1>4, <2>1 DEF PushStore, TypeOK, RingTypeOK
  <2>5. TypeOK'
    BY <1>0, <1>2, <2>1, <2>3, <2>4 DEF TypeOK, RingTypeOK, PcTypeOK
  <2>6. Accounting'
    <3>1. pushes \in Nat /\ popped \in Nat /\ count \in Nat /\ dropped \in Nat
      BY <1>0 DEF TypeOK
    <3>2. pushes = popped + count + dropped  BY <1>0 DEF Accounting
    <3>3. CASE count' = count /\ dropped' = dropped + 1
      BY <1>2, <3>1, <3>2, <3>3 DEF Accounting
    <3>4. CASE count' = count + 1 /\ dropped' = dropped
      BY <1>2, <3>1, <3>2, <3>4 DEF Accounting
    <3> QED  BY <2>4, <3>3, <3>4
  <2>7. NoLostWakeup'
    <3>1. ASSUME Waiting' # {} PROVE count' <= Cardinality(Woken')
      <4>1. Waiting # {} /\ Cardinality(Woken') = Cardinality(Woken) + 1
        BY <1>1, <2>2, <3>1, SignalCounts
      <4>2. count <= Cardinality(Woken)  BY <1>0, <4>1 DEF NoLostWakeup
      <4> QED  BY <1>0, <2>4, <4>1, <4>2, WokenFinite DEF TypeOK
    <3> QED  BY <3>1 DEF NoLostWakeup
  <2> QED  BY <2>1, <2>5, <2>6, <2>7 DEF IInv
<1> QED  BY <1>3, <1>4 DEF Push

\* Handing an item to consumer c, who is idle or was woken, keeps the invariant.
LEMMA TakeIInv ==
  ASSUME IInv, NEW c \in Consumers, count # 0, TakeTail(c), pushes' = pushes,
         deadline' \in [Consumers -> {"never", "future", "past"}],
         \/ pc' = pc
         \/ c \in Woken /\ pc' = [pc EXCEPT ![c] = "idle"]
  PROVE  IInv'
<1>0. TypeOK /\ IndicesAgree /\ Accounting /\ NoLostWakeup  BY DEF IInv
<1>1. RingTypeOK /\ PcTypeOK  BY <1>0 DEF TypeOK, RingTypeOK, PcTypeOK
<1>2. RingTypeOK' /\ IndicesAgree' /\ count' = count - 1 /\ storage[tail] \in Items
  BY <1>0, <1>1, TakeKeepsRing
<1>3. result' \in [Consumers -> Results]
  BY <1>0, <1>2 DEF TakeTail, TypeOK, Results
<1>4. popped' = popped + 1 /\ dropped' = dropped  BY DEF TakeTail
<1>5. PcTypeOK'
  BY <1>1, LeaveCounts DEF PcTypeOK
<1>6. TypeOK'
  BY <1>0, <1>2, <1>3, <1>4, <1>5 DEF TypeOK, RingTypeOK, PcTypeOK
<1>7. Accounting'  BY <1>0, <1>2, <1>4 DEF Accounting, TypeOK
<1>8. NoLostWakeup'
  <2>1. CASE pc' = pc
    <3>1. Waiting' = Waiting /\ Woken' = Woken  BY <2>1 DEF Waiting, Woken
    <3> QED  BY <1>0, <1>2, <3>1, WokenFinite DEF NoLostWakeup, TypeOK
  <2>2. CASE c \in Woken /\ pc' = [pc EXCEPT ![c] = "idle"]
    <3>1. Cardinality(Woken') = Cardinality(Woken) - 1
      BY <1>1, <2>2, LeaveCounts
    <3>2. Waiting' = Waiting  BY <2>2, <1>1 DEF Waiting, Woken, PcTypeOK
    <3> QED  BY <1>0, <1>2, <3>1, <3>2, WokenFinite DEF NoLostWakeup, TypeOK
  <2> QED  BY <2>1, <2>2
<1> QED  BY <1>2, <1>6, <1>7, <1>8 DEF IInv

\* A step that leaves the ring alone keeps the invariant if the ring is empty
\* or if it lets no woken consumer go and puts none to sleep.
LEMMA IdleIInv ==
  ASSUME IInv, UNCHANGED <<ringVars, popped, pushes>>,
         PcTypeOK',
         deadline' \in [Consumers -> {"never", "future", "past"}],
         result' \in [Consumers -> Results],
         \/ count = 0
         \/ Waiting' \subseteq Waiting /\ Woken \subseteq Woken'
  PROVE  IInv'
<1>0. TypeOK /\ IndicesAgree /\ Accounting /\ NoLostWakeup  BY DEF IInv
<1>1. TypeOK'  BY <1>0 DEF TypeOK, PcTypeOK, ringVars
<1>2. IndicesAgree'  BY <1>0 DEF IndicesAgree, ringVars
<1>3. Accounting'  BY <1>0 DEF Accounting, ringVars
<1>4. NoLostWakeup'
  <2>1. count' = count /\ count \in Nat  BY <1>0 DEF ringVars, TypeOK
  <2>2. CASE count = 0  BY <2>1, <2>2, WokenFinite DEF NoLostWakeup
  <2>3. CASE Waiting' \subseteq Waiting /\ Woken \subseteq Woken'
    <3>1. Cardinality(Woken) <= Cardinality(Woken')
      BY <2>3, WokenFinite, FS_Subset
    <3> QED  BY <1>0, <2>1, <2>3, <3>1, WokenFinite DEF NoLostWakeup
  <2> QED  BY <2>2, <2>3
<1> QED  BY <1>1, <1>2, <1>3, <1>4 DEF IInv

\* Every step keeps the invariant.
LEMMA NextIInv == IInv /\ [Next]_vars => IInv'
<1> SUFFICES ASSUME IInv, [Next]_vars PROVE IInv'  OBVIOUS
<1> USE CapacityAssumption
<1>0. /\ TypeOK /\ PcTypeOK
      /\ deadline \in [Consumers -> {"never", "future", "past"}]
      /\ result \in [Consumers -> Results]
  BY DEF IInv, TypeOK, PcTypeOK
<1>1. ASSUME NEW item \in Items, NEW ow \in BOOLEAN, Push(item, ow)
      PROVE  IInv'
  BY <1>1, PushIInv
<1>2. ASSUME NEW c \in Consumers, Pop(c) PROVE IInv'
  <2>1. CASE count = 0
    <3>1. result' \in [Consumers -> Results]
      BY <1>0, <1>2, <2>1 DEF Pop, Return, Results
    <3> QED  BY <1>0, <1>2, <2>1, <3>1, IdleIInv DEF Pop, Return, waitVars, PcTypeOK
  <2>2. CASE count # 0
    BY <1>0, <1>2, <2>2, TakeIInv DEF Pop, waitVars
  <2> QED  BY <2>1, <2>2
<1>3. ASSUME NEW c \in Consumers, NEW t \in {"never", "future"}, WaitPop(c, t)
      PROVE  IInv'
  <2>0. deadline' \in [Consumers -> {"never", "future", "past"}]
    BY <1>0, <1>3 DEF WaitPop
  <2>1. CASE count = 0
    <3>1. result' \in [Consumers -> Results] /\ PcTypeOK'
      BY <1>0, <1>3, <2>1 DEF WaitPop, Return, Results, PcTypeOK
    <3>2. UNCHANGED <<ringVars, popped, pushes>>
      BY <1>3, <2>1 DEF WaitPop, Return
    <3> QED  BY <2>0, <2>1, <3>1, <3>2, IdleIInv
  <2>2. CASE count # 0
    BY <1>3, <2>0, <2>2, TakeIInv DEF WaitPop
  <2> QED  BY <2>1, <2>2
<1>4. ASSUME NEW c \in Consumers, Resume(c) PROVE IInv'
  <2>0. c \in Woken /\ deadline' = deadline /\ pushes' = pushes
    BY <1>4 DEF Resume, Woken
  <2>1. CASE count = 0
    <3>1. PcTypeOK' /\ UNCHANGED <<ringVars, result, popped>>
      BY <1>0, <1>4, <2>1 DEF Resume, PcTypeOK
    <3> QED  BY <1>0, <2>0, <2>1, <3>1, IdleIInv
  <2>2. CASE count # 0
    <3>1. TakeTail(c) /\ pc' = [pc EXCEPT ![c] = "idle"]  BY <1>4, <2>2 DEF Resume
    <3> QED  BY <1>0, <2>0, <2>2, <3>1, TakeIInv
  <2> QED  BY <2>1, <2>2
<1>5. ASSUME NEW c \in Consumers, WaitError(c) PROVE IInv'
  <2>1. PcTypeOK' /\ result' \in [Consumers -> Results]
    BY <1>0, <1>5 DEF WaitError, Return, Results, PcTypeOK
  <2> QED  BY <1>0, <1>5, <2>1, IdleIInv DEF WaitError, Return
<1>6. ASSUME NEW c \in Consumers, TimeoutReturn(c) PROVE IInv'
  <2>1. PcTypeOK' /\ result' \in [Consumers -> Results]
    BY <1>0, <1>6 DEF TimeoutReturn, Return, Results, PcTypeOK
  <2>2. Waiting' \subseteq Waiting /\ Woken \subseteq Woken'
    BY <1>0, <1>6 DEF TimeoutReturn, Waiting, Woken, PcTypeOK
  <2> QED  BY <1>0, <1>6, <2>1, <2>2, IdleIInv DEF TimeoutReturn, Return
<1>7. ASSUME NEW c \in Consumers, DeadlinePasses(c) PROVE IInv'
  <2>1. deadline' \in [Consumers -> {"never", "future", "past"}]
    BY <1>0, <1>7 DEF DeadlinePasses
  <2>2. Waiting' \subseteq Waiting /\ Woken \subseteq Woken' /\ PcTypeOK'
    BY <1>0, <1>7 DEF DeadlinePasses, Waiting, Woken, PcTypeOK
  <2> QED  BY <1>0, <1>7, <2>1, <2>2, IdleIInv DEF DeadlinePasses
<1>8. ASSUME NEW c \in Consumers, Expire(c) PROVE IInv'
  <2>1. Waiting' \subseteq Waiting /\ Woken \subseteq Woken' /\ PcTypeOK'
    BY <1>0, <1>8 DEF Expire, Waiting, Woken, PcTypeOK
  <2> QED  BY <1>0, <1>8, <2>1, IdleIInv DEF Expire
<1>9. ASSUME NEW c \in Consumers, SpuriousWakeup(c) PROVE IInv'
  <2>1. Waiting' \subseteq Waiting /\ Woken \subseteq Woken' /\ PcTypeOK'
    BY <1>0, <1>9 DEF SpuriousWakeup, Waiting, Woken, PcTypeOK
  <2> QED  BY <1>0, <1>9, <2>1, IdleIInv DEF SpuriousWakeup
<1>10. CASE UNCHANGED vars
  <2>1. Waiting' \subseteq Waiting /\ Woken \subseteq Woken' /\ PcTypeOK'
    BY <1>0, <1>10 DEF vars, Waiting, Woken, PcTypeOK
  <2> QED  BY <1>0, <1>10, <2>1, IdleIInv DEF vars, ringVars
<1> QED
  BY <1>1, <1>2, <1>3, <1>4, <1>5, <1>6, <1>7, <1>8, <1>9, <1>10 DEF Next

\* The ring keeps its types, its indices agree, every item offered is accounted
\* for and no wakeup is lost, whatever the capacity and the number of consumers.
THEOREM RingInvariant == Spec => []IInv
BY InitIInv, NextIInv, PTL DEF Spec

\* mlrt_ring_push and mlrt_ring_pop never leave the storage array.
THEOREM RingTypes == Spec => []TypeOK
<1>1. IInv => TypeOK  BY DEF IInv
<1> QED  BY <1>1, RingInvariant, PTL

\* Every pushed item is delivered, queued or counted in dropped.
THEOREM RingAccounting == Spec => []Accounting
<1>1. IInv => Accounting  BY DEF IInv
<1> QED  BY <1>1, RingInvariant, PTL

\* One pthread_cond_signal per push never strands an item behind a sleeper.
THEOREM RingNoLostWakeup == Spec => []NoLostWakeup
<1>1. IInv => NoLostWakeup  BY DEF IInv
<1> QED  BY <1>1, RingInvariant, PTL

-----------------------------------------------------------------------------
(* Refinement: the slots from tail on are the abstract queue *)

\* high_water never falls behind count, so displacing an item cannot move it.
HighWaterCovers == count <= high_water

\* high_water never falls behind count.
LEMMA NextHighWater == IInv /\ HighWaterCovers /\ [Next]_vars => HighWaterCovers'
<1> SUFFICES ASSUME IInv, HighWaterCovers, [Next]_vars PROVE HighWaterCovers'
  OBVIOUS
<1>0. count \in Nat /\ high_water \in Nat  BY CapacityAssumption DEF IInv, TypeOK
<1>1. CASE count' = count /\ high_water' = high_water
  BY <1>1 DEF HighWaterCovers
<1>2. CASE count' = count - 1 /\ high_water' = high_water
  BY <1>0, <1>2 DEF HighWaterCovers
<1>3. ASSUME NEW item \in Items, PushStore(item) PROVE HighWaterCovers'
  BY <1>0, <1>3, CapacityAssumption DEF PushStore, HighWaterCovers
<1> QED
  BY <1>1, <1>2, <1>3
  DEF Next, Push, PushFull, Pop, WaitPop, Resume, WaitError, TimeoutReturn, TakeTail,
      Return, DeadlinePasses, Expire, SpuriousWakeup, ringVars, vars

\* The queue seen from outside is a sequence of count items.  (Stated for any
\* values of the three fields, to be used before and after a step.)
Unrolled(st, t, n) == [i \in 1 .. n |-> st[(t + i - 1) % Capacity]]

\* The items from tail on, count of them, are a sequence of items.
LEMMA ContentsSeq ==
  ASSUME NEW st, NEW t \in Slots, NEW n \in 0 .. Capacity,
         \A i \in 0 .. n - 1 : st[(t + i) % Capacity] \in Items
  PROVE  /\ Unrolled(st, t, n) \in Seq(Items)
         /\ Len(Unrolled(st, t, n)) = n
         /\ \A i \in 1 .. n : Unrolled(st, t, n)[i] = st[(t + (i - 1)) % Capacity]
         /\ Unrolled(st, t, n) = << >> <=> n = 0
<1> USE CapacityAssumption
<1> DEFINE s == Unrolled(st, t, n)
<1>1. \A i \in 1 .. n : t + i - 1 = t + (i - 1) /\ i - 1 \in 0 .. n - 1
  BY DEF Slots
<1>2. s = [i \in 1 .. n |-> st[(t + (i - 1)) % Capacity]]
  BY <1>1 DEF Unrolled
<1> HIDE DEF s
<1>3. s \in [1 .. n -> Items]  BY <1>1, <1>2
<1>4. n \in Nat  OBVIOUS
<1>5. s \in Seq(Items)  BY <1>3, <1>4, SeqDef
<1>6. Len(s) = n
  <2>1. DOMAIN s = 1 .. n /\ DOMAIN s = 1 .. Len(s) /\ Len(s) \in Nat
    BY <1>3, <1>5, LenProperties
  <2> QED  BY <1>4, <2>1
<1>7. \A i \in 1 .. n : s[i] = st[(t + (i - 1)) % Capacity]
  BY <1>2
<1>8. s = << >> <=> n = 0
  <2>1. s = << >> => n = 0  BY <1>6, EmptySeq
  <2>2. s # << >> => n # 0  BY <1>5, <1>6, EmptySeq
  <2> QED  BY <2>1, <2>2
<1> QED  BY <1>5, <1>6, <1>7, <1>8 DEF s

\* Contents, before a step, is that sequence.
LEMMA ContentsNow ==
  ASSUME RingTypeOK, IndicesAgree
  PROVE  /\ Contents \in Seq(Items) /\ Len(Contents) = count
         /\ \A i \in 1 .. count : Contents[i] = storage[(tail + (i - 1)) % Capacity]
         /\ Contents = << >> <=> count = 0
<1>1. /\ tail \in Slots /\ count \in 0 .. Capacity
      /\ \A i \in 0 .. count - 1 : storage[(tail + i) % Capacity] \in Items
  BY DEF RingTypeOK, IndicesAgree
<1>2. Contents = Unrolled(storage, tail, count)  BY DEF Contents, Unrolled
<1> QED  BY <1>1, <1>2, ContentsSeq, Zenon

\* Contents, after a step, is that sequence of the new fields.
LEMMA ContentsNext ==
  ASSUME RingTypeOK', IndicesAgree'
  PROVE  /\ Contents' \in Seq(Items) /\ Len(Contents') = count'
         /\ \A i \in 1 .. count' : Contents'[i] = storage'[(tail' + (i - 1)) % Capacity]
<1>1. /\ tail' \in Slots /\ count' \in 0 .. Capacity
      /\ \A i \in 0 .. count' - 1 : storage'[(tail' + i) % Capacity] \in Items
  BY DEF RingTypeOK, IndicesAgree
<1>2. Contents' = Unrolled(storage', tail', count')  BY DEF Contents, Unrolled
<1> QED  BY <1>1, <1>2, ContentsSeq, Zenon

\* Advancing tail drops the first item of the contents and no other.
LEMMA TakeIsTail ==
  ASSUME RingTypeOK, IndicesAgree, count # 0, NEW c \in Consumers, TakeTail(c)
  PROVE  /\ storage[tail] = Head(Contents)
         /\ Contents' = Tail(Contents)
<1> USE CapacityAssumption
<1>1. RingTypeOK' /\ IndicesAgree' /\ count' = count - 1  BY TakeKeepsRing
<1>2. count \in 1 .. Capacity /\ storage' = storage /\ tail' = (tail + 1) % Capacity
  BY DEF RingTypeOK, TakeTail
<1>3. /\ Contents \in Seq(Items) /\ Len(Contents) = count /\ Contents # << >>
      /\ \A i \in 1 .. count : Contents[i] = storage[(tail + (i - 1)) % Capacity]
  BY ContentsNow
<1>4. /\ Contents' \in Seq(Items) /\ Len(Contents') = count - 1
      /\ \A i \in 1 .. count - 1 : Contents'[i] = storage[(tail' + (i - 1)) % Capacity]
  <2>1. /\ Contents' \in Seq(Items) /\ Len(Contents') = count'
        /\ \A i \in 1 .. count' : Contents'[i] = storage'[(tail' + (i - 1)) % Capacity]
    BY <1>1, ContentsNext
  <2> QED  BY <1>1, <1>2, <2>1
<1>5. storage[tail] = Head(Contents)
  <2>0. tail \in Slots /\ 0 \in 0 .. Capacity  BY DEF RingTypeOK
  <2>1. (tail + 0) % Capacity = tail
    <3>1. (tail + 0) % Capacity = IF tail + 0 < Capacity THEN tail + 0 ELSE tail + 0 - Capacity
      BY <2>0, WrapOnce, Zenon
    <3> QED  BY <2>0, <3>1 DEF Slots
  <2>2. Contents[1] = storage[(tail + 0) % Capacity]  BY <1>2, <1>3
  <2>3. Head(Contents) = Contents[1]  BY <1>3
  <2> QED  BY <2>1, <2>2, <2>3
<1>6. /\ Tail(Contents) \in Seq(Items) /\ Len(Tail(Contents)) = count - 1
      /\ \A i \in 1 .. count - 1 : Tail(Contents)[i] = Contents[i + 1]
  BY <1>3, HeadTailProperties
<1>7. ASSUME NEW i \in 1 .. count - 1
      PROVE  Contents'[i] = Tail(Contents)[i]
  <2>1. i - 1 \in 0 .. Capacity - 1 /\ (i - 1) + 1 = (i + 1) - 1 /\ i + 1 \in 1 .. count
    BY <1>2
  <2>2. (tail' + (i - 1)) % Capacity = (tail + ((i + 1) - 1)) % Capacity
    BY <1>2, <2>1, WrapStep DEF RingTypeOK
  <2> QED  BY <1>3, <1>4, <1>6, <2>1, <2>2
<1>8. Contents' = Tail(Contents)  BY <1>4, <1>6, <1>7, SeqEqual
<1> QED  BY <1>5, <1>8

\* Storing at head appends the item to the contents.
LEMMA StoreIsAppend ==
  ASSUME RingTypeOK, IndicesAgree, NEW item \in Items, PushStore(item)
  PROVE  /\ count # Capacity => Contents' = Append(Contents, item)
         /\ count = Capacity => Contents' = Append(Tail(Contents), item)
<1> USE CapacityAssumption
<1>0. RingTypeOK' /\ IndicesAgree'  BY StoreKeepsRing
<1>1. /\ Contents \in Seq(Items) /\ Len(Contents) = count /\ (Contents = << >> <=> count = 0)
      /\ \A i \in 1 .. count : Contents[i] = storage[(tail + (i - 1)) % Capacity]
  BY ContentsNow
<1>2. /\ Contents' \in Seq(Items) /\ Len(Contents') = count'
      /\ \A i \in 1 .. count' : Contents'[i] = storage'[(tail' + (i - 1)) % Capacity]
  BY <1>0, ContentsNext
<1>3. /\ storage'[head] = item
      /\ \A j \in Slots : j # head => storage'[j] = storage[j]
  BY DEF RingTypeOK, PushStore
<1>4. \A k \in 0 .. Capacity : (tail + k) % Capacity =
         IF tail + k < Capacity THEN tail + k ELSE tail + k - Capacity
  BY WrapOnce DEF RingTypeOK
<1>5. head = (tail + count) % Capacity /\ count \in 0 .. Capacity  /\ tail \in Slots
  BY DEF IndicesAgree, RingTypeOK
<1>6. CASE count # Capacity
  <2>1. tail' = tail /\ count' = count + 1 /\ count < Capacity
    BY <1>6 DEF PushStore, RingTypeOK
  <2>2. /\ Append(Contents, item) \in Seq(Items)
        /\ Len(Append(Contents, item)) = count + 1
        /\ \A i \in 1 .. count : Append(Contents, item)[i] = Contents[i]
        /\ Append(Contents, item)[count + 1] = item
    BY <1>1, AppendProperties
  <2>3. ASSUME NEW i \in 1 .. count + 1
        PROVE  Contents'[i] = Append(Contents, item)[i]
    <3>1. Contents'[i] = storage'[(tail + (i - 1)) % Capacity]
      BY <1>2, <2>1
    <3>2. CASE i = count + 1
      BY <1>3, <1>5, <2>2, <3>1, <3>2
    <3>3. CASE i # count + 1
      <4>1. i \in 1 .. count /\ i - 1 \in 0 .. Capacity /\ i - 1 < count  BY <1>5, <3>3
      <4>2. (tail + (i - 1)) % Capacity # head /\ (tail + (i - 1)) % Capacity \in Slots
        <5>1. (tail + (i - 1)) % Capacity = IF tail + (i - 1) < Capacity
                         THEN tail + (i - 1) ELSE tail + (i - 1) - Capacity
          BY <1>4, <4>1
        <5>2. head = IF tail + count < Capacity THEN tail + count ELSE tail + count - Capacity
          BY <1>4, <1>5
        <5> QED  BY <1>5, <2>1, <4>1, <5>1, <5>2 DEF Slots
      <4> QED  BY <1>1, <1>3, <2>2, <3>1, <4>1, <4>2
    <3> QED  BY <3>2, <3>3
  <2> QED  BY <1>2, <1>6, <2>1, <2>2, <2>3, SeqEqual
<1>7. CASE count = Capacity
  <2>1. tail' = (tail + 1) % Capacity /\ count' = count
    BY <1>7, SMT DEF PushStore, RingTypeOK
  <2>2. head = tail  BY <1>4, <1>5, <1>7 DEF Slots
  <2>3. /\ Tail(Contents) \in Seq(Items) /\ Len(Tail(Contents)) = count - 1
        /\ \A i \in 1 .. count - 1 : Tail(Contents)[i] = Contents[i + 1]
    BY <1>1, <1>7, HeadTailProperties
  <2> DEFINE app == Append(Tail(Contents), item)
  <2>4. /\ app \in Seq(Items) /\ Len(app) = count - 1 + 1
        /\ \A i \in 1 .. count - 1 : app[i] = Tail(Contents)[i]
        /\ app[count - 1 + 1] = item
    BY <2>3, AppendProperties
  <2>5. count - 1 + 1 = count /\ count >= 1  BY <1>5, <1>7
  <2> HIDE DEF app
  <2>6. ASSUME NEW i \in 1 .. count
        PROVE  Contents'[i] = app[i]
    <3>1. i - 1 \in 0 .. Capacity - 1 /\ (i - 1) + 1 = i  BY <1>7
    <3>2. (tail' + (i - 1)) % Capacity = (tail + i) % Capacity
      BY <1>5, <2>1, <3>1, WrapStep
    <3>3. Contents'[i] = storage'[(tail + i) % Capacity]  BY <1>2, <2>1, <3>2
    <3>4. (tail + i) % Capacity = IF tail + i < Capacity THEN tail + i ELSE tail + i - Capacity
      BY <1>4, <1>7
    <3>5. CASE i = count
      <4>1. (tail + i) % Capacity = head  BY <1>5, <1>7, <2>2, <3>4, <3>5 DEF Slots
      <4> QED  BY <1>3, <2>4, <2>5, <3>3, <3>5, <4>1
    <3>6. CASE i # count
      <4>1. (tail + i) % Capacity # head /\ (tail + i) % Capacity \in Slots
        BY <1>5, <1>7, <2>2, <3>4, <3>6 DEF Slots
      <4>2. i \in 1 .. count - 1 /\ i + 1 \in 1 .. count /\ (i + 1) - 1 = i
        BY <1>5, <3>6
      <4>3. storage'[(tail + i) % Capacity] = Contents[i + 1]
        BY <1>1, <1>3, <4>1, <4>2
      <4> QED  BY <2>3, <2>4, <3>3, <4>2, <4>3
    <3> QED  BY <3>5, <3>6
  <2>7. Contents' = app  BY <1>2, <2>1, <2>4, <2>5, <2>6, SeqEqual
  <2> QED  BY <1>7, <2>7 DEF app
<1> QED  BY <1>6, <1>7

\* The initial ring is the initial queue.
LEMMA QueueInit == Init => Queue!BQInit
<1> SUFFICES ASSUME Init PROVE Queue!BQInit  OBVIOUS
<1>1. IInv  BY InitIInv
<1>2. Contents = << >>
  BY <1>1, ContentsNow DEF Init, IInv, TypeOK, RingTypeOK
<1> QED  BY <1>2 DEF Init, Queue!BQInit

\* Every step of the ring is a step of the queue or leaves it alone.
LEMMA QueueStep ==
  IInv /\ HighWaterCovers /\ [Next]_vars => [Queue!BQNext]_(Queue!bqVars)
<1> SUFFICES ASSUME IInv, HighWaterCovers, [Next]_vars
             PROVE  [Queue!BQNext]_(Queue!bqVars)
  OBVIOUS
<1> USE CapacityAssumption
<1>0. RingTypeOK /\ IndicesAgree  BY DEF IInv, TypeOK, RingTypeOK
<1>1. Len(Contents) = count /\ (Contents = << >> <=> count = 0)
  BY <1>0, ContentsNow
<1>2. count \in 0 .. Capacity /\ high_water \in 0 .. Capacity  BY <1>0 DEF RingTypeOK
<1>3. ASSUME NEW item \in Items, NEW ow \in BOOLEAN, Push(item, ow)
      PROVE  Queue!BQNext
  <2>1. result' = result  BY <1>3 DEF Push
  <2>2. CASE count = Capacity /\ ~ow
    <3>1. PushFull  BY <1>3, <2>2 DEF Push
    <3>2. Contents' = Contents  BY <3>1 DEF PushFull, Contents
    <3>3. Queue!Refuse
      BY <1>1, <2>1, <2>2, <3>1, <3>2 DEF PushFull, Queue!Refuse
    <3> QED  BY <3>3 DEF Queue!BQNext
  <2>3. CASE ~(count = Capacity /\ ~ow)
    <3>1. PushStore(item)  BY <1>3, <2>3 DEF Push
    <3>2. CASE count = Capacity
      <4>1. Contents' = Append(Tail(Contents), item)
        BY <1>0, <3>1, <3>2, StoreIsAppend
      <4>2. dropped' = dropped + 1  BY <3>1, <3>2 DEF PushStore
      <4>3. high_water' = high_water
        BY <1>2, <3>1, <3>2 DEF PushStore, HighWaterCovers
      <4>4. Queue!Displace(item)
        BY <1>1, <2>1, <3>2, <4>1, <4>2, <4>3 DEF Queue!Displace
      <4> QED  BY <4>4 DEF Queue!BQNext
    <3>3. CASE count # Capacity
      <4>1. Contents' = Append(Contents, item)
        BY <1>0, <3>1, <3>3, StoreIsAppend
      <4>2. dropped' = dropped  BY <3>1, <3>3 DEF PushStore
      <4>3. high_water' = Queue!Higher(count + 1, high_water)
        BY <3>1, <3>3 DEF PushStore, Queue!Higher
      <4>4. count < Capacity  BY <1>2, <3>3
      <4>5. Queue!Put(item)
        BY <1>1, <2>1, <4>1, <4>2, <4>3, <4>4 DEF Queue!Put
      <4> QED  BY <4>5 DEF Queue!BQNext
    <3> QED  BY <3>2, <3>3
  <2> QED  BY <2>2, <2>3
<1>4. ASSUME NEW c \in Consumers, count # 0, TakeTail(c)
      PROVE  Queue!BQNext
  <2>1. storage[tail] = Head(Contents) /\ Contents' = Tail(Contents)
    BY <1>0, <1>4, TakeIsTail
  <2>2. Queue!Take(c)  BY <1>1, <1>4, <2>1 DEF TakeTail, Queue!Take
  <2> QED  BY <2>2 DEF Queue!BQNext
<1>5. ASSUME UNCHANGED ringVars
      PROVE  Contents' = Contents /\ dropped' = dropped /\ high_water' = high_water
  BY <1>5 DEF ringVars, Contents
<1>6. ASSUME NEW c \in Consumers, NEW r \in {"empty", "error"}, count = 0, Return(c, r)
      PROVE  Queue!BQNext
  <2>1. Queue!ReportEmpty(c)
    BY <1>1, <1>5, <1>6 DEF Return, Queue!ReportEmpty
  <2> QED  BY <2>1 DEF Queue!BQNext
<1>7. ASSUME NEW c \in Consumers, Pop(c) PROVE Queue!BQNext
  BY <1>4, <1>6, <1>7 DEF Pop
<1>8. ASSUME NEW c \in Consumers, NEW t, WaitPop(c, t) PROVE Queue!BQNext
  <2>1. CASE count = 0
    <3>1. Return(c, "none")  BY <1>8, <2>1 DEF WaitPop
    <3>2. Queue!Block(c)  BY <1>1, <1>5, <2>1, <3>1 DEF Return, Queue!Block
    <3> QED  BY <3>2 DEF Queue!BQNext
  <2>2. CASE count # 0  BY <1>4, <1>8, <2>2 DEF WaitPop
  <2> QED  BY <2>1, <2>2
<1>9. ASSUME UNCHANGED <<ringVars, result>> PROVE UNCHANGED Queue!bqVars
  BY <1>5, <1>9 DEF Queue!bqVars
<1>10. ASSUME NEW c \in Consumers, Resume(c) PROVE [Queue!BQNext]_(Queue!bqVars)
  <2>1. CASE count = 0
    <3>1. UNCHANGED <<ringVars, result>>  BY <1>10, <2>1 DEF Resume
    <3> QED  BY <1>9, <3>1
  <2>2. CASE count # 0  BY <1>4, <1>10, <2>2 DEF Resume
  <2> QED  BY <2>1, <2>2
<1>11. ASSUME NEW c \in Consumers, WaitError(c) PROVE Queue!BQNext
  BY <1>6, <1>11 DEF WaitError
<1>12. ASSUME NEW c \in Consumers, TimeoutReturn(c) PROVE Queue!BQNext
  <2>1. Return(c, "timeout")  BY <1>12 DEF TimeoutReturn
  <2>2. Queue!GiveUp(c)  BY <1>5, <2>1 DEF Return, Queue!GiveUp
  <2> QED  BY <2>2 DEF Queue!BQNext
<1>13. ASSUME NEW c \in Consumers, DeadlinePasses(c) \/ Expire(c) \/ SpuriousWakeup(c)
       PROVE  UNCHANGED Queue!bqVars
  <2>1. UNCHANGED <<ringVars, result>>
    BY <1>13 DEF DeadlinePasses, Expire, SpuriousWakeup
  <2> QED  BY <1>9, <2>1
<1>14. CASE UNCHANGED vars
  <2>1. UNCHANGED <<ringVars, result>>  BY <1>14 DEF vars, ringVars
  <2> QED  BY <1>9, <2>1
<1> QED
  BY <1>3, <1>7, <1>8, <1>10, <1>11, <1>12, <1>13, <1>14 DEF Next

\* The ring of ring_buffer.c implements a FIFO queue of at most Capacity items
\* that loses exactly what it counts, for every capacity.
THEOREM RingImplementsQueue == Spec => ImplementsQueue
<1>1. Init => HighWaterCovers  BY DEF Init, HighWaterCovers
<1>2. Spec => []HighWaterCovers
  BY <1>1, NextHighWater, RingInvariant, PTL DEF Spec
<1> QED
  BY <1>2, RingInvariant, QueueInit, QueueStep, PTL DEF Spec, ImplementsQueue, Queue!BQSpec
=============================================================================
