--------------------------- MODULE NicModelProofs ---------------------------
(***************************************************************************)
(* Proofs about NicModel for every ring size and any number of frames,     *)
(* faults and resets.  Race freedom needs no argument about the layout of  *)
(* the rings: the owner word alone is inductive (Ownership), because only  *)
(* the thread it names ever changes it.  That the rings deliver in order   *)
(* (the refinement of LossyLink, at the end) does need it: the descriptors *)
(* of one owner are one segment of the ring between two cursors.           *)
(***************************************************************************)
EXTENDS NicModel, FiniteSetTheorems, SequenceTheorems, TLAPS

\* The statistics in the middle of a frame: it has been counted once as
\* delivered, dropped or failed but not yet as completed.
CountsExact ==
  count.rx + count.nobuf + count.err
    = IF dev.pc = "finish" THEN count.tx + 1 ELSE count.tx

\* The loop bounds of nic_tx_reclaim and of a poll.
TurnsExact == drv.pc = "read" => drv.turns < Capacity
InPoll == dev.pc \in {"fault", "error", "rxcheck", "copy", "irqrx", "finish"}
PollExact ==
  /\ dev.budget <= Capacity /\ dev.done <= dev.budget
  /\ InPoll => dev.done < dev.budget

\* A fault taken by the device and not yet counted was armed, too.
FaultExact ==
  /\ inject_fault /\ dev.pc = "error" => count.err + 2 <= injected
  /\ inject_fault \/ dev.pc = "error" => count.err + 1 <= injected
  /\ count.err <= injected

IInv ==
  /\ TypeOK /\ Ownership /\ CountsExact /\ TurnsExact /\ PollExact
  /\ FaultExact /\ NoLostInterrupt

\* A cursor that is stepped stays in the ring.
LEMMA StepInRing == ASSUME NEW c \in Slots PROVE Step(c) \in Slots
<1>1. CASE c + 1 < Capacity
  <2> DEFINE x == c + 1
  <2>1. x \in 0 .. Capacity - 1  BY <1>1, CapacityAssumption DEF Slots
  <2> HIDE DEF x
  <2>2. x % Capacity = x  BY <2>1, CapacityAssumption, SMT
  <2> QED  BY <2>1, <2>2 DEF Step, Slots, x
<1>2. CASE ~(c + 1 < Capacity)
  <2>1. c + 1 = Capacity  BY <1>2, CapacityAssumption DEF Slots
  <2>2. Capacity % Capacity = 0  BY CapacityAssumption, SMT
  <2> QED  BY <2>1, <2>2, CapacityAssumption DEF Step, Slots
<1> QED  BY <1>1, <1>2

-----------------------------------------------------------------------------
(* What the assignments of the two threads leave well typed *)

\* One descriptor of a ring is handed over, or filled.
LEMMA RingUpdate ==
  ASSUME NEW owners, NEW ring \in Rings(owners), NEW s \in Slots,
         NEW who \in owners, NEW f \in Nat
  PROVE  /\ [ring EXCEPT ![s].owner = who] \in Rings(owners)
         /\ [ring EXCEPT ![s].error = TRUE] \in Rings(owners)
         /\ [ring EXCEPT ![s] = [owner |-> who, frame |-> f, error |-> FALSE]]
              \in Rings(owners)
BY DEF Rings

\* The driver moves on, with or without one of its cursors.
LEMMA DriverUpdate ==
  ASSUME NEW d \in Drivers, NEW p \in DriverPcs, NEW c \in Slots,
         NEW n \in 0 .. Capacity
  PROVE  /\ [d EXCEPT !.pc = p] \in Drivers
         /\ [d EXCEPT !.pc = p, !.submit = c] \in Drivers
         /\ [d EXCEPT !.pc = p, !.turns = n] \in Drivers
         /\ [d EXCEPT !.pc = p, !.reclaim = c, !.turns = n] \in Drivers
         /\ [d EXCEPT !.pc = p, !.consume = c] \in Drivers
<1>1. [d EXCEPT !.pc = p] \in Drivers  BY DEF Drivers
<1>2. [d EXCEPT !.pc = p, !.submit = c] \in Drivers  BY DEF Drivers
<1>3. [d EXCEPT !.pc = p, !.turns = n] \in Drivers  BY DEF Drivers
<1>4. [d EXCEPT !.pc = p, !.reclaim = c, !.turns = n] \in Drivers  BY DEF Drivers
<1>5. [d EXCEPT !.pc = p, !.consume = c] \in Drivers  BY DEF Drivers
<1> QED  BY <1>1, <1>2, <1>3, <1>4, <1>5

\* The device moves on, with or without one of its cursors.
LEMMA DeviceUpdate ==
  ASSUME NEW d \in Devices, NEW p \in DevicePcs, NEW c \in Slots, NEW b \in Nat,
         NEW n \in Nat
  PROVE  /\ [d EXCEPT !.pc = p] \in Devices
         /\ [d EXCEPT !.pc = p, !.budget = b, !.done = n] \in Devices
         /\ [d EXCEPT !.pc = p, !.rx = c] \in Devices
         /\ [d EXCEPT !.pc = p, !.tx = c, !.done = n] \in Devices
<1>1. [d EXCEPT !.pc = p] \in Devices  BY DEF Devices
<1>2. [d EXCEPT !.pc = p, !.budget = b, !.done = n] \in Devices  BY DEF Devices
<1>3. [d EXCEPT !.pc = p, !.rx = c] \in Devices  BY DEF Devices
<1>4. [d EXCEPT !.pc = p, !.tx = c, !.done = n] \in Devices  BY DEF Devices
<1> QED  BY <1>1, <1>2, <1>3, <1>4

\* The rings and cursors that nic_model_init sets up.
LEMMA FreshTypes ==
  /\ Empty("FREE") \in TxRings /\ Empty("DEVICE") \in RxRings
  /\ NoCounts \in Counters
BY DEF Empty, TxRings, RxRings, Rings, NoCounts, Counters

\* The initial state satisfies the invariant.
LEMMA InitIInv == Init => IInv
<1> SUFFICES ASSUME Init PROVE IInv  OBVIOUS
<1> USE CapacityAssumption DEF Init
<1>1. TypeOK
  <2>1. drv \in Drivers  BY DEF Drivers, DriverPcs, Slots
  <2>2. dev \in Devices  BY DEF Devices, DevicePcs, Slots
  <2> QED  BY <2>1, <2>2, FreshTypes DEF TypeOK
<1>2. Ownership  BY DEF Ownership, DeviceTx, DeviceRx, DevicePcs
<1>3. CountsExact /\ TurnsExact /\ PollExact /\ FaultExact
  BY DEF CountsExact, TurnsExact, PollExact, FaultExact, InPoll, NoCounts
<1>4. NoLostInterrupt  BY DEF NoLostInterrupt
<1> QED  BY <1>1, <1>2, <1>3, <1>4 DEF IInv

\* The device's part of the invariant does not mention the driver.
LEMMA DeviceSideKept ==
  ASSUME IInv, UNCHANGED deviceSide
  PROVE  CountsExact' /\ PollExact' /\ FaultExact' /\ NoLostInterrupt'
BY DEF IInv, CountsExact, PollExact, FaultExact, InPoll, NoLostInterrupt, deviceSide

\* A step of the driver keeps the invariant.
LEMMA DriverIInv == ASSUME IInv, DriverStep PROVE IInv'
<1>0. TypeOK /\ Ownership  BY DEF IInv
<1>1. UNCHANGED deviceSide  BY DEF DriverStep, ReclaimStep
<1>2. dev' = dev  BY <1>1 DEF deviceSide
<1>3. CountsExact' /\ PollExact' /\ FaultExact' /\ NoLostInterrupt'
  BY <1>1, DeviceSideKept
<1>t. ASSUME tx' \in TxRings, rx' \in RxRings, drv' \in Drivers, received' \in Nat,
             submitted' \in Nat
      PROVE  TypeOK'
  BY <1>0, <1>1, <1>t DEF TypeOK, deviceSide
<1>s. /\ tx \in TxRings /\ rx \in RxRings /\ drv \in Drivers
      /\ received \in Nat /\ submitted \in Nat
  BY <1>0 DEF TypeOK
<1>r. TurnsExact'
  BY <1>0, <1>s
  DEF DriverStep, SubmitBegin, SubmitPublish, ReclaimStep, ReclaimBegin, ReclaimCheck,
      ReclaimFree, ReceiveBegin, ReceiveShort, ReceiveRepost, DriverGoto, Drivers,
      TurnsExact
<1>4. ASSUME TypeOK', Ownership' PROVE IInv'  BY <1>3, <1>4, <1>r DEF IInv
<1>c. /\ drv.submit \in Slots /\ drv.reclaim \in Slots /\ drv.consume \in Slots
      /\ drv.turns \in 0 .. Capacity
  BY <1>s DEF Drivers
<1>p. /\ Step(drv.submit) \in Slots /\ Step(drv.reclaim) \in Slots
      /\ Step(drv.consume) \in Slots
  BY <1>c, StepInRing
<1>5. ASSUME NEW from, NEW to \in DriverPcs, DriverGoto(from, to) PROVE TypeOK'
  BY <1>s, <1>t, <1>5, DriverUpdate, <1>c DEF DriverGoto
<1>6. CASE SubmitBegin
  <2>1. Ownership'
    BY <1>0, <1>2, <1>6
    DEF SubmitBegin, DriverGoto, TypeOK, TxRings, RxRings, Rings, Drivers, Ownership, DeviceTx, DeviceRx
  <2> QED  BY <1>4, <1>5, <1>6, <2>1 DEF SubmitBegin, DriverPcs
<1>7. CASE SubmitPublish
  <2>1. TypeOK'
    <3>1. drv' \in Drivers
      BY <1>s, <1>c, <1>p, <1>7, DriverUpdate DEF SubmitPublish, DriverPcs
    <3>2. tx' \in TxRings
      <4>1. submitted + 1 \in Nat /\ "DEVICE" \in {"FREE", "DEVICE", "DONE"}  BY <1>s
      <4> QED  BY <1>s, <1>c, <1>7, <4>1, RingUpdate, Zenon DEF SubmitPublish, TxRings
    <3> QED  BY <1>s, <1>t, <1>7, <3>1, <3>2 DEF SubmitPublish
  <2>2. Ownership'
    BY <1>0, <1>2, <1>7
    DEF SubmitPublish, TypeOK, TxRings, RxRings, Rings, Drivers, Ownership, DeviceTx, DeviceRx
  <2> QED  BY <1>4, <2>1, <2>2
<1>8. CASE ReclaimBegin
  <2>1. TypeOK'
    <3>1. drv' \in Drivers
      <4>1. 0 \in 0 .. Capacity /\ "more" \in DriverPcs
        BY CapacityAssumption DEF DriverPcs
      <4> QED  BY <1>s, <1>c, <1>8, <4>1, DriverUpdate, Zenon DEF ReclaimBegin
    <3> QED  BY <1>s, <1>t, <1>8, <3>1 DEF ReclaimBegin
  <2>2. Ownership'
    BY <1>0, <1>2, <1>8 DEF ReclaimBegin, TypeOK, TxRings, RxRings, Rings, Drivers, Ownership, DeviceTx, DeviceRx
  <2> QED  BY <1>4, <2>1, <2>2
<1>9. CASE ReclaimCheck
  <2>1. Ownership'
    BY <1>0, <1>2, <1>9
    DEF ReclaimCheck, DriverGoto, TypeOK, TxRings, RxRings, Rings, Drivers, Ownership, DeviceTx, DeviceRx
  <2> QED  BY <1>4, <1>5, <1>9, <2>1 DEF ReclaimCheck, DriverPcs
<1>10. CASE ReclaimFree
  <2>1. TypeOK'
    <3>1. drv' \in Drivers
      <4>1. drv.turns + 1 \in 0 .. Capacity  
          BY <1>c, <1>10, CapacityAssumption DEF IInv, ReclaimFree, TurnsExact
      <4> QED  BY <1>s, <1>c, <1>p, <1>10, <4>1, DriverUpdate DEF ReclaimFree, DriverPcs
    <3>2. tx' \in TxRings
      BY <1>s, <1>c, <1>10, RingUpdate DEF ReclaimFree, TxRings
    <3> QED  BY <1>s, <1>t, <1>10, <3>1, <3>2 DEF ReclaimFree
  <2>2. Ownership'
    BY <1>0, <1>2, <1>10 DEF ReclaimFree, TypeOK, TxRings, RxRings, Rings, Drivers, Ownership, DeviceTx, DeviceRx
  <2> QED  BY <1>4, <2>1, <2>2
<1>11. CASE ReceiveBegin
  <2>1. Ownership'
    BY <1>0, <1>2, <1>11
    DEF ReceiveBegin, DriverGoto, TypeOK, TxRings, RxRings, Rings, Drivers, Ownership, DeviceTx, DeviceRx
  <2> QED  BY <1>4, <1>5, <1>11, <2>1 DEF ReceiveBegin, DriverPcs
<1>12. CASE ReceiveShort
  <2>1. Ownership'
    BY <1>0, <1>2, <1>12
    DEF ReceiveShort, DriverGoto, TypeOK, TxRings, RxRings, Rings, Drivers, Ownership, DeviceTx, DeviceRx
  <2> QED  BY <1>4, <1>5, <1>12, <2>1 DEF ReceiveShort, DriverPcs
<1>13. CASE ReceiveRepost
  <2>1. TypeOK'
    <3>1. drv' \in Drivers
      BY <1>s, <1>c, <1>p, <1>13, DriverUpdate DEF ReceiveRepost, DriverPcs
    <3>2. rx' \in RxRings
      BY <1>s, <1>c, <1>13, RingUpdate DEF ReceiveRepost, RxRings
    <3>3. received' \in Nat
      BY <1>s, <1>c, <1>13 DEF ReceiveRepost, RxRings, Rings
    <3> QED  BY <1>s, <1>t, <1>13, <3>1, <3>2, <3>3 DEF ReceiveRepost
  <2>2. Ownership'
    BY <1>0, <1>2, <1>13 DEF ReceiveRepost, TypeOK, TxRings, RxRings, Rings, Drivers, Ownership, DeviceTx, DeviceRx
  <2> QED  BY <1>4, <2>1, <2>2
<1> QED
  BY <1>6, <1>7, <1>8, <1>9, <1>10, <1>11, <1>12, <1>13 DEF DriverStep, ReclaimStep

\* A step of the device keeps the invariant.
LEMMA DeviceIInv == ASSUME IInv, DeviceStep PROVE IInv'
<1>0. TypeOK /\ Ownership /\ CountsExact /\ PollExact /\ FaultExact /\ NoLostInterrupt
  BY DEF IInv
<1>1. UNCHANGED driverSide  BY DEF DeviceStep
<1>s. /\ tx \in TxRings /\ rx \in RxRings /\ dev \in Devices /\ count \in Counters
      /\ drv \in Drivers
      /\ irq_status \subseteq {"TX", "RX", "ERROR"} /\ unseen \subseteq {"TX", "RX"}
      /\ inject_fault \in BOOLEAN /\ injected \in Nat
  BY <1>0 DEF TypeOK
<1>c. /\ dev.tx \in Slots /\ dev.rx \in Slots /\ dev.done \in Nat /\ dev.budget \in Nat
      /\ Step(dev.tx) \in Slots /\ Step(dev.rx) \in Slots
  BY <1>s, StepInRing DEF Devices
<1>n. count.tx \in Nat /\ count.rx \in Nat /\ count.nobuf \in Nat /\ count.err \in Nat
  BY <1>s DEF Counters
<1>g. ASSUME NEW from, NEW to \in DevicePcs, DeviceGoto(from, to) PROVE dev' \in Devices
  BY <1>s, <1>c, <1>g, DeviceUpdate DEF DeviceGoto
<1>t. ASSUME tx' \in TxRings, rx' \in RxRings, dev' \in Devices, count' \in Counters,
             irq_status' \subseteq {"TX", "RX", "ERROR"}, unseen' \subseteq {"TX", "RX"},
             inject_fault' \in BOOLEAN
      PROVE  TypeOK'
  BY <1>0, <1>1, <1>t DEF TypeOK, driverSide
<1>2. TypeOK'
  <2>1. CASE Check
    BY <1>s, <1>t, <1>g, <2>1 DEF Check, DevicePcs
  <2>2. CASE FaultCheck
    BY <1>s, <1>t, <1>g, <2>2 DEF FaultCheck, DevicePcs
  <2>3. CASE TxError
    <3>1. tx' \in TxRings  BY <1>s, <1>c, <2>3, RingUpdate DEF TxError, TxRings
    <3>2. count' \in Counters  BY <1>s, <2>3 DEF TxError, Counters
    <3> QED  BY <1>s, <1>t, <1>g, <2>3, <3>1, <3>2 DEF TxError, DevicePcs
  <2>4. CASE RxCheck
    <3>1. count' \in Counters  BY <1>s, <2>4 DEF RxCheck, Counters
    <3>2. dev' \in Devices  BY <1>g, <2>4 DEF RxCheck, DevicePcs
    <3> QED  BY <1>s, <1>t, <2>4, <3>1, <3>2 DEF RxCheck
  <2>5. CASE RxPublish
    <3>1. rx' \in RxRings
      <4>1. tx[dev.tx].frame \in Nat /\ "DONE" \in {"DEVICE", "DONE"}
        BY <1>s, <1>c DEF TxRings, Rings
      <4> QED  BY <1>s, <1>c, <2>5, <4>1, RingUpdate, Zenon DEF RxPublish, RxRings
    <3>2. dev' \in Devices  BY <1>s, <1>c, <2>5, DeviceUpdate DEF RxPublish, DevicePcs
    <3> QED  BY <1>s, <1>t, <2>5, <3>1, <3>2 DEF RxPublish
  <2>6. CASE RxInterrupt
    <3>1. count' \in Counters  BY <1>s, <2>6 DEF RxInterrupt, Counters
    <3> QED  BY <1>s, <1>t, <1>g, <2>6, <3>1 DEF RxInterrupt, DevicePcs
  <2>7. CASE TxFinish
    <3>1. tx' \in TxRings  BY <1>s, <1>c, <2>7, RingUpdate DEF TxFinish, FinishAs, TxRings
    <3>2. dev' \in Devices
      <4>1. dev.done + 1 \in Nat /\ "irqtx" \in DevicePcs  BY <1>c DEF DevicePcs
      <4> QED  BY <1>s, <1>c, <2>7, <4>1, DeviceUpdate, Zenon DEF TxFinish, FinishAs
    <3>3. count' \in Counters  BY <1>s, <2>7 DEF TxFinish, FinishAs, Counters
    <3> QED  BY <1>s, <1>t, <2>7, <3>1, <3>2, <3>3 DEF TxFinish, FinishAs
  <2>8. CASE TxInterrupt
    BY <1>s, <1>t, <1>g, <2>8 DEF TxInterrupt, DevicePcs
  <2> QED  BY <2>1, <2>2, <2>3, <2>4, <2>5, <2>6, <2>7, <2>8 DEF DeviceStep
<1>3. Ownership'
  <2> USE <1>0, <1>1, <1>s, <1>c
      DEF driverSide, Ownership, DeviceTx, DeviceRx, DevicePcs, TxRings, RxRings, Rings,
          Devices, DeviceGoto
  <2>1. CASE Check  BY <2>1 DEF Check
  <2>2. CASE FaultCheck  BY <2>2 DEF FaultCheck
  <2>3. CASE TxError  BY <2>3 DEF TxError
  <2>4. CASE RxCheck  BY <2>4 DEF RxCheck
  <2>5. CASE RxPublish  BY <2>5 DEF RxPublish
  <2>6. CASE RxInterrupt  BY <2>6 DEF RxInterrupt
  <2>7. CASE TxFinish  BY <2>7 DEF TxFinish, FinishAs
  <2>8. CASE TxInterrupt  BY <2>8 DEF TxInterrupt
  <2> QED  BY <2>1, <2>2, <2>3, <2>4, <2>5, <2>6, <2>7, <2>8 DEF DeviceStep
<1>4. CountsExact' /\ PollExact' /\ FaultExact'
  <2> USE <1>0, <1>1, <1>s, <1>n, <1>c
      DEF driverSide, CountsExact, PollExact, InPoll, FaultExact, Devices, Counters, DeviceGoto
  <2>1. CASE Check  BY <2>1 DEF Check
  <2>2. CASE FaultCheck  BY <2>2 DEF FaultCheck
  <2>3. CASE TxError  BY <2>3 DEF TxError
  <2>4. CASE RxCheck  BY <2>4 DEF RxCheck
  <2>5. CASE RxPublish  BY <2>5 DEF RxPublish
  <2>6. CASE RxInterrupt  BY <2>6 DEF RxInterrupt
  <2>7. CASE TxFinish  BY <2>7 DEF TxFinish, FinishAs
  <2>8. CASE TxInterrupt  BY <2>8 DEF TxInterrupt
  <2> QED  BY <2>1, <2>2, <2>3, <2>4, <2>5, <2>6, <2>7, <2>8 DEF DeviceStep
<1>5. NoLostInterrupt' /\ TurnsExact'
  BY <1>0, <1>1, <1>s
  DEF IInv, driverSide, NoLostInterrupt, TurnsExact, DeviceStep, Check, FaultCheck, TxError,
      RxCheck, RxPublish, RxInterrupt, TxFinish, FinishAs, TxInterrupt, DeviceGoto, Devices
<1> QED  BY <1>2, <1>3, <1>4, <1>5 DEF IInv

\* The start of a poll, the two calls that any thread may make, and a new
\* nic_model_init keep the invariant.
LEMMA OtherIInv ==
  ASSUME IInv,
         \/ \E b \in 0 .. Capacity + 1 : PollBegin(b)
         \/ TakeInterrupts \/ InjectTxError \/ Reset
  PROVE  IInv'
<1>0. /\ TypeOK /\ Ownership /\ CountsExact /\ TurnsExact /\ PollExact /\ FaultExact
      /\ NoLostInterrupt
  BY DEF IInv
<1>1. CASE \E b \in 0 .. Capacity + 1 : PollBegin(b)
  <2>1. PICK b \in 0 .. Capacity + 1 : PollBegin(b)  BY <1>1
  <2> DEFINE cap == IF b > Capacity THEN Capacity ELSE b
  <2>2. cap \in Nat /\ cap <= Capacity /\ 0 \in Nat /\ "check" \in DevicePcs
    BY CapacityAssumption DEF DevicePcs
  <2>3. /\ dev.pc = "idle" /\ dev' = [dev EXCEPT !.pc = "check", !.budget = cap, !.done = 0]
        /\ UNCHANGED <<tx, rx, driverSide, irq_status, inject_fault, count, unseen>>
    BY <2>1 DEF PollBegin, Poll
  <2> HIDE DEF cap
  <2>4. dev \in Devices  BY <1>0 DEF TypeOK
  <2>5. dev.tx \in Slots  BY <2>4 DEF Devices
  <2>6. dev' \in Devices  BY <2>2, <2>3, <2>4, <2>5, DeviceUpdate, Zenon
  <2>7. TypeOK'  BY <1>0, <2>3, <2>6 DEF TypeOK, driverSide
  <2>8. dev'.pc = "check" /\ dev'.budget = cap /\ dev'.done = 0  BY <2>3, <2>4 DEF Devices
  <2>9. Ownership'
    BY <1>0, <2>3, <2>8 DEF Ownership, DeviceTx, DeviceRx, DevicePcs, driverSide
  <2>10. CountsExact' /\ TurnsExact' /\ PollExact' /\ FaultExact' /\ NoLostInterrupt'
    BY <1>0, <2>2, <2>3, <2>8
    DEF CountsExact, TurnsExact, PollExact, InPoll, FaultExact, NoLostInterrupt, driverSide
  <2> QED  BY <2>7, <2>9, <2>10 DEF IInv
<1>2. CASE TakeInterrupts
  <2>1. TypeOK'  BY <1>0, <1>2 DEF TakeInterrupts, TypeOK, driverSide
  <2>2. Ownership'
    BY <1>0, <1>2 DEF TakeInterrupts, Ownership, DeviceTx, DeviceRx, driverSide
  <2>3. CountsExact' /\ TurnsExact' /\ PollExact' /\ FaultExact' /\ NoLostInterrupt'
    BY <1>0, <1>2
    DEF TakeInterrupts, CountsExact, TurnsExact, PollExact, InPoll, FaultExact,
        NoLostInterrupt, driverSide
  <2> QED  BY <2>1, <2>2, <2>3 DEF IInv
<1>3. CASE InjectTxError
  <2>1. TypeOK'  BY <1>0, <1>3 DEF InjectTxError, TypeOK
  <2>2. Ownership'  BY <1>0, <1>3 DEF InjectTxError, Ownership, DeviceTx, DeviceRx
  <2>3. CountsExact' /\ TurnsExact' /\ PollExact' /\ NoLostInterrupt'
    BY <1>0, <1>3
    DEF InjectTxError, CountsExact, TurnsExact, PollExact, InPoll, NoLostInterrupt
  <2>4. FaultExact'
    <3>1. injected \in Nat /\ count.err \in Nat  BY <1>0 DEF TypeOK, Counters
    <3> QED  BY <1>0, <1>3, <3>1 DEF InjectTxError, FaultExact
  <2> QED  BY <2>1, <2>2, <2>3, <2>4 DEF IInv
<1>4. CASE Reset
  <2>1. drv \in Drivers /\ dev \in Devices /\ resets \in Nat  BY <1>0 DEF TypeOK
  <2>2. 0 \in Slots  BY CapacityAssumption DEF Slots
  <2>3. drv' \in Drivers /\ drv'.pc = "idle"  BY <1>4, <2>1, <2>2 DEF Reset, Drivers
  <2>4. dev' \in Devices /\ dev'.pc = "idle" /\ dev'.budget = dev.budget /\ dev'.done = dev.done
    BY <1>4, <2>1, <2>2 DEF Reset, Devices
  <2>5. TypeOK'
    <3>1. tx' \in TxRings /\ rx' \in RxRings /\ count' \in Counters
      BY <1>4, FreshTypes DEF Reset
    <3>2. injected' \in Nat /\ resets' \in Nat  BY <1>4, <2>1 DEF Reset
    <3>3. /\ irq_status' \subseteq {"TX", "RX", "ERROR"} /\ unseen' \subseteq {"TX", "RX"}
          /\ inject_fault' \in BOOLEAN /\ received' \in Nat /\ submitted' \in Nat
      BY <1>0, <1>4 DEF Reset, TypeOK
    <3> QED  BY <2>3, <2>4, <3>1, <3>2, <3>3 DEF TypeOK
  <2>6. Ownership'  BY <2>3, <2>4 DEF Ownership, DeviceTx, DeviceRx, DevicePcs
  <2>7. CountsExact' /\ FaultExact'
    BY <1>4, <2>4 DEF Reset, CountsExact, FaultExact, NoCounts
  <2>8. TurnsExact' /\ PollExact' /\ NoLostInterrupt'
    BY <1>0, <1>4, <2>3, <2>4 DEF Reset, TurnsExact, PollExact, InPoll, NoLostInterrupt
  <2> QED  BY <2>5, <2>6, <2>7, <2>8 DEF IInv
<1> QED  BY <1>1, <1>2, <1>3, <1>4

\* Every step, stuttering included, keeps the invariant.
LEMMA NextIInv == IInv /\ [Next]_vars => IInv'
<1> SUFFICES ASSUME IInv, [Next]_vars PROVE IInv'  OBVIOUS
<1>1. CASE Next  BY <1>1, DriverIInv, DeviceIInv, OtherIInv DEF Next
<1>2. CASE UNCHANGED vars
  BY <1>2
  DEF vars, IInv, TypeOK, Ownership, DeviceTx, DeviceRx, CountsExact, TurnsExact, PollExact,
      InPoll, FaultExact, NoLostInterrupt
<1> QED  BY <1>1, <1>2

-----------------------------------------------------------------------------
(* The theorems *)

\* The strengthened invariant holds in every reachable state.
THEOREM NicInvariant == Spec => []IInv
BY InitIInv, NextIInv, PTL DEF Spec

\* Every variable keeps its type; in particular no cursor leaves the ring.
THEOREM NicTypes == Spec => []TypeOK
<1>1. IInv => TypeOK  BY DEF IInv
<1> QED  BY <1>1, NicInvariant, PTL

\* The driver and the device are never inside the same descriptor, for any ring
\* size and any interleaving: their owner words would have to differ.
THEOREM NicNoRace == Spec => []NoRace
<1>1. IInv => NoRace
  BY DEF IInv, Ownership, NoRace, DriverTx, DeviceTx, DriverRx, DeviceRx
<1> QED  BY <1>1, NicInvariant, PTL

\* Whoever is inside a descriptor is its owner.
THEOREM NicOwnership == Spec => []Ownership
<1>1. IInv => Ownership  BY DEF IInv
<1> QED  BY <1>1, NicInvariant, PTL

\* Between polls the statistics account for every transmitted frame.
THEOREM NicCounters == Spec => []CountersAddUp
<1>1. IInv => CountersAddUp  BY DEF IInv, CountsExact, CountersAddUp
<1> QED  BY <1>1, NicInvariant, PTL

\* Clear-on-read of the interrupt word loses no completion.
THEOREM NicNoLostInterrupt == Spec => []NoLostInterrupt
<1>1. IInv => NoLostInterrupt  BY DEF IInv
<1> QED  BY <1>1, NicInvariant, PTL

\* An armed fault fails one frame at most.
THEOREM NicOneShotFault == Spec => []OneShotFault
<1>1. IInv => OneShotFault
  <2>1. SUFFICES ASSUME IInv PROVE OneShotFault  OBVIOUS
  <2>2. count.err \in Nat /\ injected \in Nat  BY <2>1 DEF IInv, TypeOK, Counters
  <2> QED  BY <2>1, <2>2 DEF IInv, FaultExact, OneShotFault
<1> QED  BY <1>1, NicInvariant, PTL

\* A poll ends after one ring's worth of frames.
THEOREM NicPollBounded == Spec => []PollBounded
<1>1. IInv => PollBounded
  <2>1. SUFFICES ASSUME IInv PROVE PollBounded  OBVIOUS
  <2>2. dev.done \in Nat /\ dev.budget \in Nat  BY <2>1 DEF IInv, TypeOK, Devices
  <2> QED  BY <2>1, <2>2, CapacityAssumption DEF IInv, PollExact, PollBounded
<1> QED  BY <1>1, NicInvariant, PTL

\* One step moves a descriptor along FREE -> DEVICE -> DONE -> FREE, and takes an
\* RX descriptor from the driver only by returning its frame.
LEMMA StepCycle ==
  ASSUME IInv, [Next]_vars, resets' = resets, NEW s \in Slots
  PROVE  /\ \/ tx'[s].owner = tx[s].owner
            \/ <<tx[s].owner, tx'[s].owner>> \in TxMoves
         /\ rx[s].owner = "DONE" /\ rx'[s] # rx[s] => received' = rx[s].frame
<1>0. TypeOK /\ Ownership  BY DEF IInv
<1>s. tx \in TxRings /\ rx \in RxRings /\ drv \in Drivers /\ dev \in Devices /\ resets \in Nat
  BY <1>0 DEF TypeOK
<1>c. drv.submit \in Slots /\ drv.reclaim \in Slots /\ drv.consume \in Slots
      /\ dev.tx \in Slots /\ dev.rx \in Slots
  BY <1>s DEF Drivers, Devices
<1> USE <1>0, <1>s, <1>c DEF TxMoves, TxRings, RxRings, Rings, Ownership, DeviceTx, DeviceRx,
    DevicePcs
<1>1. CASE SubmitPublish  BY <1>1 DEF SubmitPublish
<1>2. CASE ReclaimFree  BY <1>2 DEF ReclaimFree
<1>3. CASE ReceiveRepost  BY <1>3 DEF ReceiveRepost
<1>4. CASE TxError  BY <1>4 DEF TxError, DeviceGoto
<1>5. CASE RxPublish  BY <1>5 DEF RxPublish
<1>6. CASE TxFinish  BY <1>6 DEF TxFinish, FinishAs
<1>7. CASE UNCHANGED <<tx, rx>>  BY <1>7
<1>8. ASSUME Next
      PROVE  \/ SubmitPublish \/ ReclaimFree \/ ReceiveRepost \/ TxError \/ RxPublish
             \/ TxFinish \/ UNCHANGED <<tx, rx>>
  <2>1. ~Reset  BY DEF Reset
  <2>2. CASE DriverStep
    BY <2>2
    DEF DriverStep, SubmitBegin, ReclaimBegin, ReclaimStep, ReclaimCheck, ReceiveBegin,
        ReceiveShort, DriverGoto
  <2>3. CASE DeviceStep
    BY <2>3 DEF DeviceStep, Check, FaultCheck, RxCheck, RxInterrupt, TxInterrupt
  <2>4. CASE (\E b \in 0 .. Capacity + 1 : PollBegin(b)) \/ TakeInterrupts \/ InjectTxError
    BY <2>4 DEF PollBegin, Poll, TakeInterrupts, InjectTxError
  <2> QED  BY <1>8, <2>1, <2>2, <2>3, <2>4 DEF Next
<1>9. CASE UNCHANGED vars  BY <1>7, <1>9 DEF vars
<1> QED  BY <1>1, <1>2, <1>3, <1>4, <1>5, <1>6, <1>7, <1>8, <1>9

\* The ownership cycle of docs/nic-descriptor-model.md, for every ring size.
THEOREM NicOwnershipCycle == Spec => OwnershipCycle
<1>1. IInv /\ [Next]_vars =>
        [\/ resets' # resets
         \/ \A s \in Slots :
              /\ \/ tx'[s].owner = tx[s].owner
                 \/ <<tx[s].owner, tx'[s].owner>> \in TxMoves
              /\ rx[s].owner = "DONE" /\ rx'[s] # rx[s] => received' = rx[s].frame]_vars
  BY StepCycle
<1> QED  BY <1>1, NicInvariant, PTL DEF Spec, OwnershipCycle

-----------------------------------------------------------------------------
(* The layout of the rings, which the refinement needs *)

\* The i-th slot from a cursor on, and a ring whose n slots from there on, and
\* no others, belong to somebody.
Place(from, i) == (from + i - 1) % Capacity
Segment(ring, who, from, n) ==
  /\ n \in 0 .. Capacity
  /\ \A i \in 1 .. Capacity : ring[Place(from, i)].owner = who <=> i <= n

\* Where a slot is.
LEMMA PlaceIs ==
  ASSUME NEW from \in Slots, NEW i \in 1 .. Capacity + 1
  PROVE  /\ Place(from, i) = IF from + i - 1 < Capacity THEN from + i - 1
                             ELSE from + i - 1 - Capacity
         /\ Place(from, i) \in Slots
<1> USE CapacityAssumption
<1> DEFINE x == from + i - 1
<1>0. x \in 0 .. 2 * Capacity - 1  BY DEF Slots
<1>1. CASE x < Capacity
  <2> HIDE DEF x
  <2>1. x % Capacity = x  BY <1>0, <1>1, SMT
  <2> QED  BY <1>0, <1>1, <2>1 DEF Place, Slots, x
<1>2. CASE x >= Capacity
  <2> HIDE DEF x
  <2>1. x % Capacity = x - Capacity  BY <1>0, <1>2, SMT
  <2> QED  BY <1>0, <1>2, <2>1 DEF Place, Slots, x
<1> QED  BY <1>0, <1>1, <1>2

\* Going round the ring from any cursor meets every slot once.
LEMMA PlaceCovers ==
  ASSUME NEW from \in Slots
  PROVE  /\ \A s \in Slots : \E i \in 1 .. Capacity : s = Place(from, i)
         /\ \A i, j \in 1 .. Capacity : Place(from, i) = Place(from, j) => i = j
<1> USE CapacityAssumption
<1>1. ASSUME NEW s \in Slots PROVE \E i \in 1 .. Capacity : s = Place(from, i)
  <2> DEFINE i == IF s >= from THEN s - from + 1 ELSE s - from + 1 + Capacity
  <2>1. i \in 1 .. Capacity  BY DEF Slots
  <2>2. from + i - 1 = s \/ from + i - 1 = s + Capacity  BY DEF Slots
  <2> HIDE DEF i
  <2>3. i \in 1 .. Capacity + 1  BY <2>1
  <2>4. Place(from, i) = IF from + i - 1 < Capacity THEN from + i - 1 ELSE from + i - 1 - Capacity
    BY <2>3, PlaceIs
  <2>5. CASE from + i - 1 = s  BY <2>1, <2>4, <2>5 DEF Slots
  <2>6. CASE from + i - 1 = s + Capacity
    <3>1. ~(from + i - 1 < Capacity) /\ from + i - 1 - Capacity = s  BY <2>1, <2>6 DEF Slots
    <3> QED  BY <2>1, <2>4, <3>1
  <2> QED  BY <2>2, <2>5, <2>6
<1>2. ASSUME NEW i \in 1 .. Capacity, NEW j \in 1 .. Capacity, Place(from, i) = Place(from, j)
      PROVE  i = j
  <2>0. i \in 1 .. Capacity + 1 /\ j \in 1 .. Capacity + 1  OBVIOUS
  <2>1. Place(from, i) = IF from + i - 1 < Capacity THEN from + i - 1 ELSE from + i - 1 - Capacity
    BY <2>0, PlaceIs
  <2>2. Place(from, j) = IF from + j - 1 < Capacity THEN from + j - 1 ELSE from + j - 1 - Capacity
    BY <2>0, PlaceIs
  <2>3. PICK p : p = Place(from, i) /\ p = Place(from, j)  BY <1>2
  <2> QED  BY <2>1, <2>2, <2>3 DEF Slots
<1> QED  BY <1>1, <1>2

\* One slot on is one place on, and after the whole ring one is back.
LEMMA PlaceStep ==
  ASSUME NEW from \in Slots
  PROVE  /\ Place(from, 1) = from /\ Place(from, Capacity + 1) = from
         /\ \A i \in 1 .. Capacity : Place(Step(from), i) = Place(from, i + 1)
         /\ \A i \in 1 .. Capacity : Step(Place(from, i)) = Place(from, i + 1)
<1> USE CapacityAssumption
<1>0. \A c \in Slots : Step(c) = (IF c + 1 < Capacity THEN c + 1 ELSE 0) /\ Step(c) \in Slots
  <2> TAKE c \in Slots
  <2>1. Step(c) = Place(c, 2)
    <3>1. c + 2 - 1 = c + 1  BY DEF Slots
    <3> QED  BY <3>1 DEF Step, Place
  <2>2. 2 \in 1 .. Capacity + 1  OBVIOUS
  <2> QED  BY <2>1, <2>2, PlaceIs DEF Slots
<1>1. Place(from, 1) = from /\ Place(from, Capacity + 1) = from  BY PlaceIs DEF Slots
<1>a. ASSUME NEW i \in 1 .. Capacity
      PROVE  /\ Place(from, i) = IF from + i - 1 < Capacity THEN from + i - 1
                                 ELSE from + i - 1 - Capacity
             /\ Place(from, i) \in Slots
             /\ Place(from, i + 1) = IF from + i < Capacity THEN from + i ELSE from + i - Capacity
  <2>1. i \in 1 .. Capacity + 1 /\ i + 1 \in 1 .. Capacity + 1  OBVIOUS
  <2>2. from + (i + 1) - 1 = from + i  BY DEF Slots
  <2> QED  BY <2>1, <2>2, PlaceIs
<1>2. ASSUME NEW i \in 1 .. Capacity PROVE Place(Step(from), i) = Place(from, i + 1)
  <2>1. PICK c \in Slots : c = Step(from)  BY <1>0
  <2>2. Place(c, i) = IF c + i - 1 < Capacity THEN c + i - 1 ELSE c + i - 1 - Capacity
    <3>1. i \in 1 .. Capacity + 1  OBVIOUS
    <3> QED  BY <3>1, PlaceIs
  <2>3. c = IF from + 1 < Capacity THEN from + 1 ELSE 0  BY <1>0, <2>1
  <2>4. Place(c, i) = Place(from, i + 1)  BY <1>a, <2>2, <2>3 DEF Slots
  <2> QED  BY <2>1, <2>4
<1>3. ASSUME NEW i \in 1 .. Capacity PROVE Step(Place(from, i)) = Place(from, i + 1)
  <2>1. PICK c \in Slots : c = Place(from, i)  BY <1>a
  <2>2. Step(c) = IF c + 1 < Capacity THEN c + 1 ELSE 0  BY <1>0
  <2>3. Step(c) = Place(from, i + 1)  BY <1>a, <2>1, <2>2 DEF Slots
  <2> QED  BY <2>1, <2>3
<1> QED  BY <1>1, <1>2, <1>3

\* A segment has as many slots as it is long.
LEMMA SegmentCount ==
  ASSUME NEW ring, NEW who, NEW from \in Slots, NEW n, Segment(ring, who, from, n)
  PROVE  OwnedBy(ring, who) = n
<1> USE CapacityAssumption
<1> DEFINE S == {s \in Slots : ring[s].owner = who}
           f == [i \in 1 .. n |-> Place(from, i)]
<1>0. n \in 0 .. Capacity /\ \A i \in 1 .. n : i \in 1 .. Capacity /\ i <= n
  BY DEF Segment
<1>1. \A i \in 1 .. n : f[i] \in S  BY <1>0, PlaceIs DEF Segment
<1>2. \A i, j \in 1 .. n : f[i] = f[j] => i = j  BY <1>0, PlaceCovers
<1>3. \A s \in S : \E i \in 1 .. n : f[i] = s
  <2> TAKE s \in S
  <2>1. PICK i \in 1 .. Capacity : s = Place(from, i)  BY PlaceCovers
  <2>2. i <= n  BY <2>1 DEF Segment
  <2>3. i \in 1 .. n  BY <1>0, <2>2
  <2> QED  BY <2>1, <2>3
<1>4. f \in Bijection(1 .. n, S)
  <2>1. f \in [1 .. n -> S]  BY <1>1
  <2> HIDE DEF f, S
  <2> QED  BY <1>2, <1>3, <2>1 DEF Bijection, Injection, Surjection, IsInjective
<1>5. ExistsBijection(1 .. n, S)
  <2> HIDE DEF f, S
  <2> QED  BY <1>4 DEF ExistsBijection
<1>6. n \in Nat  BY <1>0
<1>7. Cardinality(S) = n
  <2> HIDE DEF S
  <2> QED  BY <1>5, <1>6, FS_CountingElements
<1> QED  BY <1>7 DEF OwnedBy

\* The frames of a segment.
LEMMA UnrollIsSeq ==
  ASSUME NEW owners, NEW ring \in Rings(owners), NEW from \in Slots, NEW n \in 0 .. Capacity
  PROVE  /\ Unroll(ring, from, n) \in Seq(Nat) /\ Len(Unroll(ring, from, n)) = n
         /\ \A i \in 1 .. n : /\ Place(from, i) \in Slots
                              /\ Unroll(ring, from, n)[i] = ring[Place(from, i)].frame
<1>1. ASSUME NEW i \in 1 .. n PROVE Place(from, i) \in Slots
  <2>1. i \in 1 .. Capacity + 1  BY CapacityAssumption
  <2> QED  BY <2>1, PlaceIs
<1>2. \A i \in 1 .. n : ring[Place(from, i)].frame \in Nat  BY <1>1 DEF Rings
<1>3. Unroll(ring, from, n) = [i \in 1 .. n |-> ring[Place(from, i)].frame]
  BY DEF Unroll, Place
<1>4. n \in Nat  BY CapacityAssumption
<1> QED  BY <1>1, <1>2, <1>3, <1>4

\* Two rings with the same frames in the same hands.
LEMMA SegmentSame ==
  ASSUME NEW ring, NEW next, NEW who, NEW from \in Slots, NEW n, Segment(ring, who, from, n),
         \A s \in Slots : (next[s].owner = who <=> ring[s].owner = who)
                          /\ next[s].frame = ring[s].frame
  PROVE  /\ Segment(next, who, from, n) /\ OwnedBy(next, who) = n
         /\ Unroll(next, from, n) = Unroll(ring, from, n)
<1> USE CapacityAssumption
<1>1. \A i \in 1 .. Capacity : Place(from, i) \in Slots
  <2> TAKE i \in 1 .. Capacity
  <2>1. i \in 1 .. Capacity + 1  OBVIOUS
  <2> QED  BY <2>1, PlaceIs
<1>2. Segment(next, who, from, n)  BY <1>1 DEF Segment
<1>3. \A i \in 1 .. n : next[Place(from, i)].frame = ring[Place(from, i)].frame
  BY <1>1 DEF Segment
<1> QED  BY <1>2, <1>3, SegmentCount DEF Unroll, Place

\* The slot after a segment joins it, with its frame.
LEMMA SegmentGrows ==
  ASSUME NEW owners, NEW ring \in Rings(owners), NEW next \in Rings(owners), NEW who, NEW from \in Slots,
         NEW n, Segment(ring, who, from, n), NEW here \in Slots, here = Place(from, n + 1),
         ring[here].owner # who, next[here].owner = who,
         \A s \in Slots \ {here} : next[s] = ring[s]
  PROVE  /\ n < Capacity /\ Segment(next, who, from, n + 1) /\ OwnedBy(next, who) = n + 1
         /\ Step(here) = Place(from, n + 2)
         /\ Unroll(next, from, n + 1) = Append(Unroll(ring, from, n), next[here].frame)
<1> USE CapacityAssumption
<1>0. n \in 0 .. Capacity  BY DEF Segment
<1>1. n < Capacity
  <2> SUFFICES ASSUME n = Capacity PROVE FALSE  BY <1>0
  <2>1. Place(from, 1) = here  BY PlaceStep
  <2>2. 1 \in 1 .. Capacity /\ 1 <= n  OBVIOUS
  <2> QED  BY <2>1, <2>2 DEF Segment
<1>2. n + 1 \in 1 .. Capacity  BY <1>0, <1>1
<1>3. \A i \in 1 .. Capacity : Place(from, i) \in Slots /\ (i # n + 1 => Place(from, i) # here)
  <2> TAKE i \in 1 .. Capacity
  <2>1. i \in 1 .. Capacity + 1  OBVIOUS
  <2> QED  BY <1>2, <2>1, PlaceIs, PlaceCovers
<1>4. Segment(next, who, from, n + 1)
  <2>1. ASSUME NEW i \in 1 .. Capacity PROVE next[Place(from, i)].owner = who <=> i <= n + 1
    <3>1. CASE i = n + 1  BY <1>0, <3>1
    <3>2. CASE i # n + 1
      <4>1. next[Place(from, i)] = ring[Place(from, i)]  BY <1>3, <3>2
      <4>2. i <= n + 1 <=> i <= n  BY <1>0, <3>2
      <4> QED  BY <4>1, <4>2 DEF Segment
    <3> QED  BY <3>1, <3>2
  <2> QED  BY <1>0, <1>1, <2>1 DEF Segment
<1>5. OwnedBy(next, who) = n + 1
  <2>1. PICK m : m = n + 1  OBVIOUS
  <2> QED  BY <1>4, <2>1, SegmentCount
<1>6. Step(here) = Place(from, n + 2)
  <2>1. Step(Place(from, n + 1)) = Place(from, (n + 1) + 1)  BY <1>2, PlaceStep
  <2>2. (n + 1) + 1 = n + 2  BY <1>0
  <2> QED  BY <2>1, <2>2
<1>7. Unroll(next, from, n + 1) = Append(Unroll(ring, from, n), next[here].frame)
  <2>1. PICK m \in 0 .. Capacity : m = n + 1  BY <1>2
  <2>2. /\ Unroll(next, from, m) \in Seq(Nat) /\ Len(Unroll(next, from, m)) = m
        /\ \A i \in 1 .. m : Unroll(next, from, m)[i] = next[Place(from, i)].frame
    BY UnrollIsSeq
  <2>u. /\ Unroll(ring, from, n) \in Seq(Nat) /\ Len(Unroll(ring, from, n)) = n
        /\ \A i \in 1 .. n : Unroll(ring, from, n)[i] = ring[Place(from, i)].frame
    BY <1>0, UnrollIsSeq
  <2>3. PICK u \in Seq(Nat) : u = Unroll(ring, from, n)  BY <2>u
  <2>4. Len(u) = n /\ \A i \in 1 .. n : u[i] = ring[Place(from, i)].frame  BY <2>u, <2>3
  <2>5. PICK e \in Nat : e = next[here].frame
    <3>1. next[here] \in [owner : owners, frame : Nat, error : BOOLEAN]  BY DEF Rings
    <3> QED  BY <3>1
  <2>6. /\ Append(u, e) \in Seq(Nat) /\ Len(Append(u, e)) = m
        /\ \A i \in 1 .. n : Append(u, e)[i] = u[i]
        /\ Append(u, e)[m] = e
    <3>1. /\ Append(u, e) \in Seq(Nat) /\ Len(Append(u, e)) = Len(u) + 1
          /\ \A i \in 1 .. Len(u) : Append(u, e)[i] = u[i]
          /\ Append(u, e)[Len(u) + 1] = e
      BY AppendProperties
    <3> QED  BY <2>1, <2>4, <3>1
  <2>7. ASSUME NEW i \in 1 .. m PROVE Unroll(next, from, m)[i] = Append(u, e)[i]
    <3>1. CASE i = m  BY <2>1, <2>2, <2>5, <2>6, <3>1
    <3>2. CASE i # m
      <4>1. i \in 1 .. n /\ i \in 1 .. Capacity /\ i # n + 1  BY <1>0, <2>1, <3>2
      <4>2. next[Place(from, i)] = ring[Place(from, i)]  BY <1>3, <4>1
      <4> QED  BY <2>2, <2>4, <2>6, <4>1, <4>2
    <3> QED  BY <3>1, <3>2
  <2>8. Unroll(next, from, m) = Append(u, e)  BY <2>2, <2>6, <2>7, SeqEqual
  <2> QED  BY <2>1, <2>3, <2>5, <2>8
<1> QED  BY <1>1, <1>4, <1>5, <1>6, <1>7

\* The first slot of a segment leaves it, and its frame the front.
LEMMA SegmentShrinks ==
  ASSUME NEW owners, NEW ring \in Rings(owners), NEW next \in Rings(owners), NEW who,
         NEW from \in Slots, NEW n, Segment(ring, who, from, n),
         ring[from].owner = who, next[from].owner # who,
         \A s \in Slots \ {from} : next[s] = ring[s]
  PROVE  /\ n > 0 /\ Segment(next, who, Step(from), n - 1) /\ OwnedBy(next, who) = n - 1
         /\ Place(Step(from), n) = Place(from, n + 1)
         /\ Unroll(next, Step(from), n - 1) = Tail(Unroll(ring, from, n))
         /\ Unroll(ring, from, n) # <<>> /\ Head(Unroll(ring, from, n)) = ring[from].frame
<1> USE CapacityAssumption
<1>0. n \in 0 .. Capacity  BY DEF Segment
<1>1. n > 0
  <2>1. 1 \in 1 .. Capacity /\ Place(from, 1) = from  BY PlaceStep
  <2> QED  BY <1>0, <2>1 DEF Segment
<1>2. PICK to \in Slots : to = Step(from)  BY StepInRing
<1>3. PICK m \in 0 .. Capacity : m = n - 1  BY <1>0, <1>1
<1>4. \A i \in 1 .. Capacity : Place(to, i) = Place(from, i + 1)  BY <1>2, PlaceStep
<1>5. Place(to, Capacity) = from  BY <1>4, PlaceStep
<1>6. \A i \in 1 .. Capacity : Place(to, i) \in Slots /\ (i # Capacity => Place(to, i) # from)
  <2> TAKE i \in 1 .. Capacity
  <2>1. i \in 1 .. Capacity + 1 /\ Capacity \in 1 .. Capacity  OBVIOUS
  <2> QED  BY <1>5, <2>1, PlaceIs, PlaceCovers
<1>7. Segment(next, who, to, m)
  <2>1. ASSUME NEW i \in 1 .. Capacity PROVE next[Place(to, i)].owner = who <=> i <= m
    <3>1. CASE i = Capacity  BY <1>0, <1>3, <1>5, <3>1
    <3>2. CASE i # Capacity
      <4>1. next[Place(to, i)] = ring[Place(from, i + 1)]  BY <1>4, <1>6, <3>2
      <4>2. i + 1 \in 1 .. Capacity  BY <3>2
      <4>3. i <= m <=> i + 1 <= n  BY <1>0, <1>3
      <4> QED  BY <4>1, <4>2, <4>3 DEF Segment
    <3> QED  BY <3>1, <3>2
  <2> QED  BY <2>1 DEF Segment
<1>8. OwnedBy(next, who) = m  BY <1>7, SegmentCount
<1>9. Place(to, n) = Place(from, n + 1)  BY <1>0, <1>1, <1>4
<1>u. /\ Unroll(ring, from, n) \in Seq(Nat) /\ Len(Unroll(ring, from, n)) = n
      /\ \A i \in 1 .. n : Unroll(ring, from, n)[i] = ring[Place(from, i)].frame
  BY <1>0, UnrollIsSeq
<1>10. PICK u \in Seq(Nat) : u = Unroll(ring, from, n)  BY <1>u
<1>11. Len(u) = n /\ \A i \in 1 .. n : u[i] = ring[Place(from, i)].frame  BY <1>u, <1>10
<1>12. u # <<>>  BY <1>0, <1>1, <1>11
<1>13. Head(u) = ring[from].frame
  <2>1. 1 \in 1 .. n  BY <1>0, <1>1
  <2>2. Head(u) = u[1]  BY <1>12
  <2> QED  BY <1>11, <2>1, <2>2, PlaceStep
<1>14. Unroll(next, to, m) = Tail(u)
  <2>1. /\ Unroll(next, to, m) \in Seq(Nat) /\ Len(Unroll(next, to, m)) = m
        /\ \A i \in 1 .. m : Unroll(next, to, m)[i] = next[Place(to, i)].frame
    BY UnrollIsSeq
  <2>2. /\ Tail(u) \in Seq(Nat) /\ Len(Tail(u)) = m
        /\ \A i \in 1 .. m : Tail(u)[i] = u[i + 1]
    <3>1. /\ Tail(u) \in Seq(Nat) /\ Len(Tail(u)) = Len(u) - 1
          /\ \A i \in 1 .. Len(Tail(u)) : Tail(u)[i] = u[i + 1]
      BY <1>12, HeadTailProperties
    <3> QED  BY <1>3, <1>11, <3>1
  <2>3. ASSUME NEW i \in 1 .. m PROVE Unroll(next, to, m)[i] = Tail(u)[i]
    <3>1. i \in 1 .. Capacity /\ i # Capacity /\ i + 1 \in 1 .. n  BY <1>0, <1>3
    <3>2. next[Place(to, i)] = ring[Place(from, i + 1)]  BY <1>4, <1>6, <3>1
    <3> QED  BY <1>11, <2>1, <2>2, <3>1, <3>2
  <2> QED  BY <2>1, <2>2, <2>3, SeqEqual
<1> QED  BY <1>1, <1>2, <1>3, <1>7, <1>8, <1>9, <1>10, <1>12, <1>13, <1>14

\* The device's descriptors are the ones from its cursor to the driver's submit
\* cursor, and the received frames the ones from the driver's cursor to the
\* device's: so a cursor meets them in the order in which they were filled.
TxLen == OwnedBy(tx, "DEVICE")
RxLen == OwnedBy(rx, "DONE")
TxLayout == Segment(tx, "DEVICE", dev.tx, TxLen) /\ drv.submit = Place(dev.tx, TxLen + 1)
RxLayout == Segment(rx, "DONE", drv.consume, RxLen) /\ dev.rx = Place(drv.consume, RxLen + 1)
Layout == TxLayout /\ RxLayout /\ (drv.pc = "fill" => submitted < MaxFrames)

\* What the mapping to LossyLink shows of the rings.
Sent == Unroll(tx, dev.tx, TxLen)
Inbox == Unroll(rx, drv.consume, RxLen)
Failed == count.err + (IF dev.pc = "error" THEN 1 ELSE 0)
Decided == dev.pc \in {"irqrx", "error", "finish"}

\* The rings and the cursors.
LEMMA Cursors ==
  ASSUME IInv
  PROVE  /\ tx \in TxRings /\ rx \in RxRings
         /\ drv.submit \in Slots /\ drv.reclaim \in Slots /\ drv.consume \in Slots
         /\ dev.tx \in Slots /\ dev.rx \in Slots
<1>1. tx \in TxRings /\ rx \in RxRings /\ drv \in Drivers /\ dev \in Devices
  BY DEF IInv, TypeOK
<1> QED  BY <1>1 DEF Drivers, Devices

\* The two sequences.
LEMMA Sequences ==
  ASSUME IInv, Layout
  PROVE  /\ TxLen \in 0 .. Capacity /\ Sent \in Seq(Nat) /\ Len(Sent) = TxLen
         /\ RxLen \in 0 .. Capacity /\ Inbox \in Seq(Nat) /\ Len(Inbox) = RxLen
<1>1. PICK a \in TxRings, p \in Slots, n \in 0 .. Capacity : a = tx /\ p = dev.tx /\ n = TxLen
  BY Cursors DEF Layout, TxLayout, Segment
<1>2. Unroll(a, p, n) \in Seq(Nat) /\ Len(Unroll(a, p, n)) = n  BY UnrollIsSeq DEF TxRings
<1>3. PICK b \in RxRings, q \in Slots, m \in 0 .. Capacity : b = rx /\ q = drv.consume /\ m = RxLen
  BY Cursors DEF Layout, RxLayout, Segment
<1>4. Unroll(b, q, m) \in Seq(Nat) /\ Len(Unroll(b, q, m)) = m  BY UnrollIsSeq DEF RxRings
<1> QED  BY <1>1, <1>2, <1>3, <1>4 DEF Sent, Inbox

\* A step that leaves the device's descriptors with the device.
LEMMA TxStill ==
  ASSUME IInv, TxLayout, dev'.tx = dev.tx, drv'.submit = drv.submit,
         \A s \in Slots : (tx'[s].owner = "DEVICE" <=> tx[s].owner = "DEVICE")
                          /\ tx'[s].frame = tx[s].frame
  PROVE  TxLayout' /\ Sent' = Sent
<1>0. PICK p \in Slots : p = dev.tx  BY Cursors
<1>1. PICK a, b, n, w : a = tx /\ b = tx' /\ n = TxLen /\ w = "DEVICE"  OBVIOUS
<1>2. Segment(a, w, p, n)  BY <1>0, <1>1 DEF TxLayout
<1>3. \A s \in Slots : (b[s].owner = w <=> a[s].owner = w) /\ b[s].frame = a[s].frame
  BY <1>1
<1>4. /\ Segment(b, w, p, n) /\ OwnedBy(b, w) = n
      /\ Unroll(b, p, n) = Unroll(a, p, n)
  BY <1>2, <1>3, SegmentSame
<1>5. TxLen' = n  BY <1>1, <1>4 DEF TxLen
<1> QED  BY <1>0, <1>1, <1>4, <1>5 DEF TxLayout, Sent

\* A step that leaves the receive ring alone.
LEMMA RxStill ==
  ASSUME RxLayout, rx' = rx, dev'.rx = dev.rx, drv'.consume = drv.consume
  PROVE  RxLayout' /\ Inbox' = Inbox
BY DEF RxLayout, Inbox, RxLen

\* A submitted frame goes to the back of the device's descriptors.
LEMMA TxSend ==
  ASSUME IInv, IInv', TxLayout, SubmitPublish, dev' = dev
  PROVE  TxLayout' /\ Sent' = Append(Sent, submitted + 1) /\ TxLen < Capacity
<1>0. PICK p \in Slots, h \in Slots : p = dev.tx /\ h = drv.submit  BY Cursors
<1>1. PICK o, n, w : o = {"FREE", "DEVICE", "DONE"} /\ n = TxLen /\ w = "DEVICE"  OBVIOUS
<1>t. tx \in Rings(o) /\ tx' \in Rings(o)  BY <1>1 DEF IInv, TypeOK, TxRings
<1>2. PICK a \in Rings(o), b \in Rings(o) : a = tx /\ b = tx'  BY <1>t
<1>3. Segment(a, w, p, n) /\ h = Place(p, n + 1)  BY <1>0, <1>1, <1>2 DEF TxLayout
<1>4. /\ a[h].owner # w /\ b[h].owner = w /\ b[h].frame = submitted + 1
      /\ \A s \in Slots \ {h} : b[s] = a[s]
  <2>1. tx[h].owner = "FREE"  BY <1>0 DEF IInv, Ownership, SubmitPublish
  <2>2. b = [a EXCEPT ![h] = [owner |-> "DEVICE", frame |-> submitted + 1, error |-> FALSE]]
    BY <1>0, <1>2 DEF SubmitPublish
  <2> QED  BY <1>1, <1>2, <2>1, <2>2 DEF Rings
<1>5. /\ n < Capacity /\ Segment(b, w, p, n + 1) /\ OwnedBy(b, w) = n + 1
      /\ Step(h) = Place(p, n + 2)
      /\ Unroll(b, p, n + 1) = Append(Unroll(a, p, n), b[h].frame)
  BY <1>3, <1>4, SegmentGrows
<1>6. TxLen' = n + 1  BY <1>1, <1>2, <1>5 DEF TxLen
<1>7. drv'.submit = Step(h) /\ dev'.tx = p  BY <1>0 DEF SubmitPublish, IInv, TypeOK, Drivers
<1>8. (n + 1) + 1 = n + 2  BY <1>3, CapacityAssumption DEF Segment
<1>9. TxLayout'  BY <1>1, <1>2, <1>5, <1>6, <1>7, <1>8 DEF TxLayout
<1>10. Sent' = Append(Sent, submitted + 1)
  BY <1>0, <1>1, <1>2, <1>4, <1>5, <1>6, <1>7 DEF Sent
<1> QED  BY <1>1, <1>5, <1>9, <1>10

\* A completed frame leaves the front of the device's descriptors.
LEMMA TxDone ==
  ASSUME IInv, IInv', TxLayout, TxFinish, drv' = drv
  PROVE  TxLayout' /\ Sent' = Tail(Sent)
<1>0. PICK p \in Slots : p = dev.tx  BY Cursors
<1>1. PICK o, n, w : o = {"FREE", "DEVICE", "DONE"} /\ n = TxLen /\ w = "DEVICE"  OBVIOUS
<1>t. tx \in Rings(o) /\ tx' \in Rings(o)  BY <1>1 DEF IInv, TypeOK, TxRings
<1>2. PICK a \in Rings(o), b \in Rings(o) : a = tx /\ b = tx'  BY <1>t
<1>3. Segment(a, w, p, n) /\ drv.submit = Place(p, n + 1)  BY <1>0, <1>1, <1>2 DEF TxLayout
<1>4. /\ a[p].owner = w /\ b[p].owner # w
      /\ \A s \in Slots \ {p} : b[s] = a[s]
  <2>1. tx[p].owner = "DEVICE"
    BY <1>0 DEF IInv, Ownership, DeviceTx, DevicePcs, TxFinish, FinishAs
  <2>2. b = [a EXCEPT ![p].owner = "DONE"]  BY <1>0, <1>2 DEF TxFinish, FinishAs
  <2> QED  BY <1>1, <1>2, <2>1, <2>2 DEF Rings
<1>5. /\ n > 0 /\ Segment(b, w, Step(p), n - 1) /\ OwnedBy(b, w) = n - 1
      /\ Place(Step(p), n) = Place(p, n + 1)
      /\ Unroll(b, Step(p), n - 1) = Tail(Unroll(a, p, n))
  BY <1>3, <1>4, SegmentShrinks
<1>6. TxLen' = n - 1  BY <1>1, <1>2, <1>5 DEF TxLen
<1>7. dev'.tx = Step(p) /\ drv'.submit = drv.submit
  BY <1>0 DEF TxFinish, FinishAs, IInv, TypeOK, Devices
<1>8. (n - 1) + 1 = n  BY <1>3, CapacityAssumption DEF Segment
<1>9. TxLayout'  BY <1>1, <1>2, <1>3, <1>5, <1>6, <1>7, <1>8 DEF TxLayout
<1>10. Sent' = Tail(Sent)  BY <1>0, <1>1, <1>2, <1>5, <1>6, <1>7 DEF Sent
<1> QED  BY <1>9, <1>10

\* While the device holds a descriptor, it is the first of the pending ones.
LEMMA TxFirst ==
  ASSUME IInv, TxLayout, tx[dev.tx].owner = "DEVICE"
  PROVE  TxLen > 0 /\ Sent # <<>> /\ Head(Sent) = tx[dev.tx].frame
<1> USE CapacityAssumption
<1>0. PICK p \in Slots : p = dev.tx  BY Cursors
<1>1. PICK n \in 0 .. Capacity : n = TxLen  BY DEF TxLayout, Segment
<1>2. Segment(tx, "DEVICE", p, n)  BY <1>0, <1>1 DEF TxLayout
<1>3. Place(p, 1) = p /\ 1 \in 1 .. Capacity  BY PlaceStep
<1>4. n > 0  BY <1>0, <1>2, <1>3 DEF Segment
<1>t. tx \in Rings({"FREE", "DEVICE", "DONE"})  BY DEF IInv, TypeOK, TxRings
<1>5. PICK a \in Rings({"FREE", "DEVICE", "DONE"}) : a = tx  BY <1>t
<1>6. /\ Unroll(a, p, n) \in Seq(Nat) /\ Len(Unroll(a, p, n)) = n
      /\ \A i \in 1 .. n : Unroll(a, p, n)[i] = a[Place(p, i)].frame
  BY UnrollIsSeq
<1>7. PICK u \in Seq(Nat) : u = Unroll(a, p, n)  BY <1>6
<1>8. Len(u) = n /\ u[1] = a[p].frame
  <2>1. 1 \in 1 .. n  BY <1>4
  <2> QED  BY <1>3, <1>6, <1>7, <2>1
<1>9. u # <<>>  BY <1>4, <1>8
<1>10. Head(u) = u[1]  BY <1>9
<1> QED  BY <1>0, <1>1, <1>4, <1>5, <1>7, <1>8, <1>9, <1>10 DEF Sent

\* A delivered frame goes to the back of the receive ring.
LEMMA RxPut ==
  ASSUME IInv, IInv', RxLayout, RxPublish, drv' = drv
  PROVE  RxLayout' /\ Inbox' = Append(Inbox, tx[dev.tx].frame) /\ RxLen < Capacity
<1>0. PICK p \in Slots, h \in Slots : p = drv.consume /\ h = dev.rx  BY Cursors
<1>1. PICK o, n, w : o = {"DEVICE", "DONE"} /\ n = RxLen /\ w = "DONE"  OBVIOUS
<1>t. rx \in Rings(o) /\ rx' \in Rings(o)  BY <1>1 DEF IInv, TypeOK, RxRings
<1>2. PICK a \in Rings(o), b \in Rings(o) : a = rx /\ b = rx'  BY <1>t
<1>3. Segment(a, w, p, n) /\ h = Place(p, n + 1)  BY <1>0, <1>1, <1>2 DEF RxLayout
<1>4. /\ a[h].owner # w /\ b[h].owner = w /\ b[h].frame = tx[dev.tx].frame
      /\ \A s \in Slots \ {h} : b[s] = a[s]
  <2>1. rx[h].owner = "DEVICE"  BY <1>0 DEF IInv, Ownership, DeviceRx, RxPublish
  <2>2. b = [a EXCEPT ![h] = [owner |-> "DONE", frame |-> tx[dev.tx].frame, error |-> FALSE]]
    BY <1>0, <1>2 DEF RxPublish
  <2> QED  BY <1>1, <1>2, <2>1, <2>2 DEF Rings
<1>5. /\ n < Capacity /\ Segment(b, w, p, n + 1) /\ OwnedBy(b, w) = n + 1
      /\ Step(h) = Place(p, n + 2)
      /\ Unroll(b, p, n + 1) = Append(Unroll(a, p, n), b[h].frame)
  BY <1>3, <1>4, SegmentGrows
<1>6. RxLen' = n + 1  BY <1>1, <1>2, <1>5 DEF RxLen
<1>7. dev'.rx = Step(h) /\ drv'.consume = p  BY <1>0 DEF RxPublish, IInv, TypeOK, Devices
<1>8. (n + 1) + 1 = n + 2  BY <1>3, CapacityAssumption DEF Segment
<1>9. RxLayout'  BY <1>1, <1>2, <1>5, <1>6, <1>7, <1>8 DEF RxLayout
<1>10. Inbox' = Append(Inbox, tx[dev.tx].frame)
  BY <1>0, <1>1, <1>2, <1>4, <1>5, <1>6, <1>7 DEF Inbox
<1> QED  BY <1>1, <1>5, <1>9, <1>10

\* A received frame leaves the front of the receive ring.
LEMMA RxGet ==
  ASSUME IInv, IInv', RxLayout, ReceiveRepost, dev' = dev
  PROVE  /\ RxLayout' /\ Inbox' = Tail(Inbox)
         /\ Inbox # <<>> /\ received' = Head(Inbox)
<1>0. PICK p \in Slots : p = drv.consume  BY Cursors
<1>1. PICK o, n, w : o = {"DEVICE", "DONE"} /\ n = RxLen /\ w = "DONE"  OBVIOUS
<1>t. rx \in Rings(o) /\ rx' \in Rings(o)  BY <1>1 DEF IInv, TypeOK, RxRings
<1>2. PICK a \in Rings(o), b \in Rings(o) : a = rx /\ b = rx'  BY <1>t
<1>3. Segment(a, w, p, n) /\ dev.rx = Place(p, n + 1)  BY <1>0, <1>1, <1>2 DEF RxLayout
<1>4. /\ a[p].owner = w /\ b[p].owner # w
      /\ \A s \in Slots \ {p} : b[s] = a[s]
  <2>1. rx[p].owner = "DONE"  BY <1>0 DEF IInv, Ownership, ReceiveRepost
  <2>2. b = [a EXCEPT ![p].owner = "DEVICE"]  BY <1>0, <1>2 DEF ReceiveRepost
  <2> QED  BY <1>1, <1>2, <2>1, <2>2 DEF Rings
<1>5. /\ n > 0 /\ Segment(b, w, Step(p), n - 1) /\ OwnedBy(b, w) = n - 1
      /\ Place(Step(p), n) = Place(p, n + 1)
      /\ Unroll(b, Step(p), n - 1) = Tail(Unroll(a, p, n))
      /\ Unroll(a, p, n) # <<>> /\ Head(Unroll(a, p, n)) = a[p].frame
  BY <1>3, <1>4, SegmentShrinks
<1>6. RxLen' = n - 1  BY <1>1, <1>2, <1>5 DEF RxLen
<1>7. drv'.consume = Step(p) /\ dev'.rx = dev.rx
  BY <1>0 DEF ReceiveRepost, IInv, TypeOK, Drivers
<1>8. (n - 1) + 1 = n  BY <1>3, CapacityAssumption DEF Segment
<1>9. RxLayout'  BY <1>1, <1>2, <1>3, <1>5, <1>6, <1>7, <1>8 DEF RxLayout
<1>10. Inbox' = Tail(Inbox)  BY <1>0, <1>1, <1>2, <1>5, <1>6, <1>7 DEF Inbox
<1>11. received' = a[p].frame  BY <1>0, <1>2 DEF ReceiveRepost
<1>12. Inbox = Unroll(a, p, n)  BY <1>0, <1>1, <1>2 DEF Inbox
<1> QED  BY <1>5, <1>9, <1>10, <1>11, <1>12

\* The device finds no receive buffer only when every one holds a frame.
LEMMA RxFull ==
  ASSUME IInv, RxLayout, rx[dev.rx].owner # "DEVICE"
  PROVE  RxLen = Capacity
<1> USE CapacityAssumption
<1>1. PICK n \in 0 .. Capacity : n = RxLen  BY DEF RxLayout, Segment
<1>2. rx[dev.rx].owner = "DONE"  BY Cursors DEF RxRings, Rings
<1>3. CASE n < Capacity
  <2>1. n + 1 \in 1 .. Capacity /\ ~(n + 1 <= n)  BY <1>3
  <2> QED  BY <1>1, <1>2, <2>1 DEF RxLayout, Segment
<1> QED  BY <1>1, <1>3

\* Re-initialised rings hold no frame.
LEMMA EmptyRings ==
  ASSUME NEW has, NEW who, has # who
  PROVE  /\ Segment(Empty(has), who, 0, 0) /\ OwnedBy(Empty(has), who) = 0
         /\ Unroll(Empty(has), 0, 0) = <<>> /\ Place(0, 1) = 0
<1> USE CapacityAssumption
<1>1. PICK z \in Slots : z = 0  BY DEF Slots
<1>2. \A i \in 1 .. Capacity : Place(z, i) \in Slots
  <2> TAKE i \in 1 .. Capacity
  <2>1. i \in 1 .. Capacity + 1  OBVIOUS
  <2> QED  BY <2>1, PlaceIs
<1>3. PICK r : r = Empty(has)  OBVIOUS
<1>4. \A s \in Slots : r[s].owner # who  BY <1>3 DEF Empty
<1>5. PICK n : n = 0  OBVIOUS
<1>6. Segment(r, who, z, n)  BY <1>2, <1>4, <1>5 DEF Segment
<1>7. OwnedBy(r, who) = n  BY <1>6, SegmentCount
<1>8. Unroll(r, 0, 0) = <<>>  BY DEF Unroll
<1>9. Place(z, 1) = z  BY PlaceStep
<1> QED  BY <1>1, <1>3, <1>5, <1>6, <1>7, <1>8, <1>9

-----------------------------------------------------------------------------
(* The refinement of LossyLink *)

\* Nothing that the link shows has changed.
LEMMA SameLink ==
  ASSUME Pending' = Pending, Inbox' = Inbox, Failed' = Failed, count'.nobuf = count.nobuf,
         inject_fault' = inject_fault, received' = received
  PROVE  UNCHANGED Link!linkVars
BY DEF Link!linkVars, Inbox, RxLen, Failed

\* A frame in the device's hands is the first of the sent ones.
LEMMA InHand ==
  ASSUME IInv, TxLayout, dev.pc \in DevicePcs \ {"idle", "check", "irqtx"}
  PROVE  TxLen > 0 /\ Sent # <<>> /\ Head(Sent) = tx[dev.tx].frame
<1>1. tx[dev.tx].owner = "DEVICE"  BY DEF IInv, Ownership, DeviceTx
<1> QED  BY <1>1, TxFirst

\* Every step of the driver keeps the layout and is a step of the link or none.
LEMMA DriverLink ==
  ASSUME IInv, IInv', Layout, DriverStep
  PROVE  Layout' /\ [Link!LinkNext]_(Link!linkVars)
<1>0. TxLayout /\ RxLayout /\ (drv.pc = "fill" => submitted < MaxFrames)  BY DEF Layout
<1>1. UNCHANGED deviceSide  BY DEF DriverStep, ReclaimStep
<1>2. dev' = dev /\ inject_fault' = inject_fault /\ count' = count  BY <1>1 DEF deviceSide
<1>3. Failed' = Failed /\ (Decided' <=> Decided)  BY <1>2 DEF Failed, Decided
<1>4. Pending = (IF Decided THEN Tail(Sent) ELSE Sent)
      /\ Pending' = (IF Decided THEN Tail(Sent') ELSE Sent')
  BY <1>3 DEF Pending, Decided, Sent, TxLen
<1>5. drv \in Drivers /\ submitted \in Nat /\ tx \in TxRings  BY DEF IInv, TypeOK
<1>6. /\ TxLen \in 0 .. Capacity /\ Sent \in Seq(Nat) /\ Len(Sent) = TxLen
      /\ RxLen \in 0 .. Capacity /\ Inbox \in Seq(Nat) /\ Len(Inbox) = RxLen
  BY Sequences
<1>7. ASSUME TxLayout', Sent' = Sent, rx' = rx, drv'.consume = drv.consume,
             received' = received, drv'.pc = "fill" => submitted' < MaxFrames
      PROVE  Layout' /\ UNCHANGED Link!linkVars
  <2>1. RxLayout' /\ Inbox' = Inbox  BY <1>0, <1>2, <1>7, RxStill
  <2>2. Pending' = Pending  BY <1>4, <1>7
  <2> QED  BY <1>2, <1>3, <1>7, <2>1, <2>2, SameLink DEF Layout
<1>8. CASE SubmitPublish
  <2>1. TxLayout' /\ Sent' = Append(Sent, submitted + 1) /\ TxLen < Capacity
    BY <1>0, <1>2, <1>8, TxSend
  <2>2. rx' = rx /\ received' = received /\ drv'.consume = drv.consume /\ drv'.pc = "idle"
    BY <1>5, <1>8 DEF SubmitPublish, Drivers
  <2>3. RxLayout' /\ Inbox' = Inbox  BY <1>0, <1>2, <2>2, RxStill
  <2>4. PICK f \in 1 .. MaxFrames : f = submitted + 1
    BY <1>0, <1>5, <1>8, BoundsAssumption DEF SubmitPublish
  <2>5. PICK u \in Seq(Nat) : u = Sent  BY <1>6
  <2>6. Len(Pending) < Capacity /\ Pending' = Append(Pending, f)
    <3>1. CASE ~Decided  BY <1>4, <1>6, <2>1, <2>4, <3>1
    <3>2. CASE Decided
      <4>1. u # <<>> /\ TxLen > 0  BY <1>0, <2>5, <3>2, InHand DEF Decided, DevicePcs
      <4>2. Tail(Append(u, f)) = Append(Tail(u), f)  BY <4>1, HeadTailAppend
      <4>3. Len(Tail(u)) = Len(u) - 1  BY <4>1, HeadTailProperties
      <4>4. Len(Tail(u)) < Capacity  BY <1>6, <2>1, <2>5, <4>3, CapacityAssumption
      <4> QED  BY <1>4, <2>1, <2>4, <2>5, <3>2, <4>2, <4>4
    <3> QED  BY <3>1, <3>2
  <2>7. Link!Send
    BY <1>2, <1>3, <2>2, <2>3, <2>6 DEF Link!Send, Inbox, RxLen, Failed
  <2> QED  BY <2>1, <2>2, <2>3, <2>7 DEF Layout, Link!LinkNext
<1>9. CASE ReceiveRepost
  <2>1. /\ RxLayout' /\ Inbox' = Tail(Inbox)
        /\ Inbox # <<>> /\ received' = Head(Inbox)
    BY <1>0, <1>2, <1>9, RxGet
  <2>2. tx' = tx /\ drv'.submit = drv.submit /\ drv'.pc = "idle"
    BY <1>5, <1>9 DEF ReceiveRepost, Drivers
  <2>3. TxLayout' /\ Sent' = Sent  BY <1>0, <1>2, <2>2 DEF TxLayout, Sent, TxLen
  <2>4. Pending' = Pending  BY <1>4, <2>3
  <2>5. Link!Receive
    BY <1>2, <1>3, <2>1, <2>4 DEF Link!Receive, Inbox, RxLen, Failed
  <2> QED  BY <2>1, <2>2, <2>3, <2>5 DEF Layout, Link!LinkNext
<1>10. CASE ReclaimFree
  <2>1. tx' = [tx EXCEPT ![drv.reclaim].owner = "FREE"] /\ tx[drv.reclaim].owner = "DONE"
    BY <1>10 DEF ReclaimFree, IInv, Ownership
  <2>2. \A s \in Slots : (tx'[s].owner = "DEVICE" <=> tx[s].owner = "DEVICE")
                          /\ tx'[s].frame = tx[s].frame
    BY <1>5, <2>1 DEF TxRings, Rings
  <2>3. /\ rx' = rx /\ received' = received /\ drv'.consume = drv.consume
        /\ drv'.submit = drv.submit /\ drv'.pc = "more"
    BY <1>5, <1>10 DEF ReclaimFree, Drivers
  <2>4. TxLayout' /\ Sent' = Sent  BY <1>0, <1>2, <2>2, <2>3, TxStill
  <2> QED  BY <1>7, <2>3, <2>4
<1>11. CASE SubmitBegin \/ ReclaimBegin \/ ReclaimCheck \/ ReceiveBegin \/ ReceiveShort
  <2>1. /\ tx' = tx /\ rx' = rx /\ received' = received /\ submitted' = submitted
        /\ drv'.consume = drv.consume /\ drv'.submit = drv.submit
        /\ (drv'.pc = "fill" => submitted < MaxFrames)
    BY <1>5, <1>11
    DEF SubmitBegin, ReclaimBegin, ReclaimCheck, ReceiveBegin, ReceiveShort, DriverGoto, Drivers
  <2>2. TxLayout' /\ Sent' = Sent  BY <1>0, <1>2, <2>1 DEF TxLayout, Sent, TxLen
  <2> QED  BY <1>7, <2>1, <2>2
<1> QED
  BY <1>8, <1>9, <1>10, <1>11 DEF DriverStep, ReclaimStep

\* Every step of the device keeps the layout and is a step of the link or none.
LEMMA DeviceLink ==
  ASSUME IInv, IInv', Layout, DeviceStep
  PROVE  Layout' /\ [Link!LinkNext]_(Link!linkVars)
<1>0. TxLayout /\ RxLayout /\ (drv.pc = "fill" => submitted < MaxFrames)  BY DEF Layout
<1>1. drv' = drv /\ received' = received /\ submitted' = submitted
  BY DEF DeviceStep, driverSide
<1>2. dev \in Devices /\ tx \in TxRings /\ count \in Counters /\ inject_fault \in BOOLEAN
  BY DEF IInv, TypeOK
<1>3. /\ Pending = (IF Decided THEN Tail(Sent) ELSE Sent)
      /\ Pending' = (IF Decided' THEN Tail(Sent') ELSE Sent')
  BY DEF Pending, Decided, Sent, TxLen
<1>4. /\ TxLen \in 0 .. Capacity /\ Sent \in Seq(Nat) /\ Len(Sent) = TxLen
      /\ RxLen \in 0 .. Capacity /\ Inbox \in Seq(Nat) /\ Len(Inbox) = RxLen
  BY Sequences
<1>5. ASSUME TxLayout', RxLayout' PROVE Layout'  BY <1>0, <1>1, <1>5 DEF Layout
<1>6. ASSUME UNCHANGED <<tx, rx>>, dev'.tx = dev.tx, dev'.rx = dev.rx
      PROVE  Layout' /\ Sent' = Sent /\ Inbox' = Inbox
  <2>1. TxLayout' /\ Sent' = Sent  BY <1>0, <1>1, <1>6 DEF TxLayout, Sent, TxLen
  <2>2. RxLayout' /\ Inbox' = Inbox  BY <1>0, <1>1, <1>6, RxStill
  <2> QED  BY <1>5, <2>1, <2>2
<1>7. CASE Check \/ TxInterrupt
  <2>1. /\ UNCHANGED <<tx, rx, inject_fault, count>>
        /\ dev'.tx = dev.tx /\ dev'.rx = dev.rx
        /\ ~Decided /\ ~Decided' /\ dev.pc # "error" /\ dev'.pc # "error"
    BY <1>2, <1>7 DEF Check, TxInterrupt, DeviceGoto, Devices, Decided
  <2>2. Failed' = Failed  BY <2>1 DEF Failed
  <2>3. Layout' /\ Sent' = Sent /\ Inbox' = Inbox  BY <1>6, <2>1
  <2> QED  BY <1>1, <1>3, <2>1, <2>2, <2>3, SameLink
<1>8. CASE FaultCheck
  <2>1. /\ UNCHANGED <<tx, rx, count>> /\ inject_fault' = FALSE
        /\ dev'.tx = dev.tx /\ dev'.rx = dev.rx /\ dev.pc = "fault"
        /\ dev'.pc = IF inject_fault THEN "error" ELSE "rxcheck"
    BY <1>2, <1>8 DEF FaultCheck, DeviceGoto, Devices
  <2>2. Layout' /\ Sent' = Sent /\ Inbox' = Inbox  BY <1>6, <2>1
  <2>3. CASE inject_fault
    <3>1. Pending = Sent /\ Pending' = Tail(Sent)  BY <1>3, <2>1, <2>2, <2>3 DEF Decided
    <3>2. Failed' = Failed + 1  BY <1>2, <2>1, <2>3 DEF Failed, Counters
    <3>3. Sent # <<>>  BY <1>0, <2>1, InHand DEF DevicePcs
    <3>4. Link!Fail
      BY <1>1, <2>1, <2>2, <2>3, <3>1, <3>2, <3>3 DEF Link!Fail, Inbox, RxLen, Failed
    <3> QED  BY <2>2, <3>4 DEF Link!LinkNext
  <2>4. CASE ~inject_fault
    <3>1. Pending' = Pending  BY <1>3, <2>1, <2>2, <2>4 DEF Decided
    <3>2. Failed' = Failed  BY <2>1, <2>4 DEF Failed
    <3>3. inject_fault' = inject_fault  BY <1>2, <2>1, <2>4
    <3> QED  BY <1>1, <2>1, <2>2, <3>1, <3>2, <3>3, SameLink
  <2> QED  BY <2>3, <2>4
<1>9. CASE TxError
  <2>1. /\ rx' = rx /\ inject_fault' = inject_fault /\ dev'.tx = dev.tx /\ dev'.rx = dev.rx
        /\ dev.pc = "error" /\ dev'.pc = "finish"
        /\ tx' = [tx EXCEPT ![dev.tx].error = TRUE]
        /\ count' = [count EXCEPT !.err = @ + 1]
    BY <1>2, <1>9 DEF TxError, DeviceGoto, Devices
  <2>2. \A s \in Slots : (tx'[s].owner = "DEVICE" <=> tx[s].owner = "DEVICE")
                          /\ tx'[s].frame = tx[s].frame
    BY <1>2, <2>1 DEF TxRings, Rings
  <2>3. TxLayout' /\ Sent' = Sent  BY <1>0, <1>1, <2>1, <2>2, TxStill
  <2>4. RxLayout' /\ Inbox' = Inbox  BY <1>0, <1>1, <2>1, RxStill
  <2>5. Failed' = Failed /\ count'.nobuf = count.nobuf  BY <1>2, <2>1 DEF Failed, Counters
  <2>6. Pending' = Pending  BY <1>3, <2>1, <2>3 DEF Decided
  <2> QED  BY <1>1, <1>5, <2>1, <2>3, <2>4, <2>5, <2>6, SameLink
<1>10. CASE RxCheck
  <2>1. /\ UNCHANGED <<tx, rx, inject_fault>>
        /\ dev'.tx = dev.tx /\ dev'.rx = dev.rx /\ dev.pc = "rxcheck"
        /\ dev'.pc = IF rx[dev.rx].owner = "DEVICE" THEN "copy" ELSE "finish"
        /\ count' = IF rx[dev.rx].owner = "DEVICE" THEN count
                    ELSE [count EXCEPT !.nobuf = @ + 1]
    BY <1>2, <1>10 DEF RxCheck, DeviceGoto, Devices
  <2>2. Layout' /\ Sent' = Sent /\ Inbox' = Inbox  BY <1>6, <2>1
  <2>3. Failed' = Failed  BY <1>2, <2>1 DEF Failed, Counters
  <2>4. CASE rx[dev.rx].owner = "DEVICE"
    <3>1. Pending' = Pending  BY <1>3, <2>1, <2>2, <2>4 DEF Decided
    <3> QED  BY <1>1, <2>1, <2>2, <2>3, <2>4, <3>1, SameLink
  <2>5. CASE rx[dev.rx].owner # "DEVICE"
    <3>1. Pending = Sent /\ Pending' = Tail(Sent)  BY <1>3, <2>1, <2>2, <2>5 DEF Decided
    <3>2. Len(Inbox) = Capacity  BY <1>0, <1>4, <2>5, RxFull
    <3>3. count'.nobuf = count.nobuf + 1  BY <1>2, <2>1, <2>5 DEF Counters
    <3>4. Sent # <<>>  BY <1>0, <2>1, InHand DEF DevicePcs
    <3>5. Link!Lose
      BY <1>1, <2>1, <2>2, <2>3, <3>1, <3>2, <3>3, <3>4 DEF Link!Lose, Inbox, RxLen, Failed
    <3> QED  BY <2>2, <3>5 DEF Link!LinkNext
  <2> QED  BY <2>4, <2>5
<1>11. CASE RxPublish
  <2>1. RxLayout' /\ Inbox' = Append(Inbox, tx[dev.tx].frame) /\ RxLen < Capacity
    BY <1>0, <1>1, <1>11, RxPut
  <2>2. /\ tx' = tx /\ inject_fault' = inject_fault /\ count' = count
        /\ dev'.tx = dev.tx /\ dev.pc = "copy" /\ dev'.pc = "irqrx"
    BY <1>2, <1>11 DEF RxPublish, Devices
  <2>3. TxLayout' /\ Sent' = Sent  BY <1>0, <1>1, <2>2 DEF TxLayout, Sent, TxLen
  <2>4. Pending = Sent /\ Pending' = Tail(Sent)  BY <1>3, <2>2, <2>3 DEF Decided
  <2>5. Sent # <<>> /\ Head(Sent) = tx[dev.tx].frame  BY <1>0, <2>2, InHand DEF DevicePcs
  <2>6. Failed' = Failed  BY <2>2 DEF Failed
  <2>7. Inbox' = Append(Inbox, Head(Pending)) /\ Len(Inbox) < Capacity
    BY <1>4, <2>1, <2>4, <2>5
  <2>8. Link!Deliver
    BY <1>1, <2>2, <2>4, <2>5, <2>6, <2>7 DEF Link!Deliver, Inbox, RxLen, Failed
  <2> QED  BY <1>5, <2>1, <2>3, <2>8 DEF Link!LinkNext
<1>12. CASE RxInterrupt
  <2>1. /\ UNCHANGED <<tx, rx, inject_fault>> /\ dev'.tx = dev.tx /\ dev'.rx = dev.rx
        /\ dev.pc = "irqrx" /\ dev'.pc = "finish"
        /\ count'.nobuf = count.nobuf /\ count'.err = count.err
    BY <1>2, <1>12 DEF RxInterrupt, DeviceGoto, Devices, Counters
  <2>2. Layout' /\ Sent' = Sent /\ Inbox' = Inbox  BY <1>6, <2>1
  <2>3. Failed' = Failed  BY <2>1 DEF Failed
  <2>4. Pending' = Pending  BY <1>3, <2>1, <2>2 DEF Decided
  <2> QED  BY <1>1, <2>1, <2>2, <2>3, <2>4, SameLink
<1>13. CASE TxFinish
  <2>1. TxLayout' /\ Sent' = Tail(Sent)  BY <1>0, <1>1, <1>13, TxDone
  <2>2. /\ rx' = rx /\ inject_fault' = inject_fault /\ dev'.rx = dev.rx
        /\ dev.pc = "finish" /\ dev'.pc = "irqtx"
        /\ count'.nobuf = count.nobuf /\ count'.err = count.err
    BY <1>2, <1>13 DEF TxFinish, FinishAs, Devices, Counters
  <2>3. RxLayout' /\ Inbox' = Inbox  BY <1>0, <1>1, <2>2, RxStill
  <2>4. Failed' = Failed  BY <2>2 DEF Failed
  <2>5. Pending' = Pending  BY <1>3, <2>1, <2>2 DEF Decided
  <2> QED  BY <1>1, <1>5, <2>1, <2>2, <2>3, <2>4, <2>5, SameLink
<1> QED
  BY <1>7, <1>8, <1>9, <1>10, <1>11, <1>12, <1>13 DEF DeviceStep

\* So do the start of a poll, the calls of any thread, and a new nic_model_init.
LEMMA OtherLink ==
  ASSUME IInv, IInv', Layout,
         \/ \E b \in 0 .. Capacity + 1 : PollBegin(b)
         \/ TakeInterrupts \/ InjectTxError \/ Reset
         \/ UNCHANGED vars
  PROVE  Layout' /\ [Link!LinkNext]_(Link!linkVars)
<1>0. TxLayout /\ RxLayout /\ (drv.pc = "fill" => submitted < MaxFrames)  BY DEF Layout
<1>2. dev \in Devices /\ drv \in Drivers  BY DEF IInv, TypeOK
<1>3. /\ Pending = (IF Decided THEN Tail(Sent) ELSE Sent)
      /\ Pending' = (IF Decided' THEN Tail(Sent') ELSE Sent')
  BY DEF Pending, Decided, Sent, TxLen
<1>4. ASSUME UNCHANGED <<tx, rx, drv, submitted>>, dev'.tx = dev.tx, dev'.rx = dev.rx
      PROVE  Layout' /\ Sent' = Sent /\ Inbox' = Inbox
  <2>1. TxLayout' /\ Sent' = Sent  BY <1>0, <1>4 DEF TxLayout, Sent, TxLen
  <2>2. RxLayout' /\ Inbox' = Inbox  BY <1>0, <1>4, RxStill
  <2> QED  BY <1>0, <1>4, <2>1, <2>2 DEF Layout
<1>5. ASSUME UNCHANGED <<tx, rx, drv, submitted>>, dev'.tx = dev.tx, dev'.rx = dev.rx,
             Decided' <=> Decided
      PROVE  Layout' /\ Inbox' = Inbox /\ Pending' = Pending
  <2>1. Layout' /\ Sent' = Sent /\ Inbox' = Inbox  BY <1>4, <1>5
  <2> QED  BY <1>3, <1>5, <2>1
<1>6. CASE \E b \in 0 .. Capacity + 1 : PollBegin(b)
  <2>1. PICK b \in 0 .. Capacity + 1 : PollBegin(b)  BY <1>6
  <2>2. /\ UNCHANGED <<tx, rx, drv, submitted, count, inject_fault, received>>
        /\ dev'.tx = dev.tx /\ dev'.rx = dev.rx /\ dev.pc = "idle" /\ dev'.pc = "check"
    BY <1>2, <2>1 DEF PollBegin, Poll, driverSide, Devices
  <2>3. (Decided' <=> Decided) /\ Failed' = Failed  BY <2>2 DEF Decided, Failed
  <2>4. Layout' /\ Inbox' = Inbox /\ Pending' = Pending  BY <1>5, <2>2, <2>3
  <2> QED  BY <2>2, <2>3, <2>4, SameLink
<1>7. CASE TakeInterrupts \/ UNCHANGED vars
  <2>1. UNCHANGED <<tx, rx, drv, dev, submitted, count, inject_fault, received>>
    BY <1>7 DEF TakeInterrupts, driverSide, vars
  <2>2. (Decided' <=> Decided) /\ Failed' = Failed  BY <2>1 DEF Decided, Failed
  <2>3. Layout' /\ Inbox' = Inbox /\ Pending' = Pending  BY <1>5, <2>1, <2>2
  <2> QED  BY <2>1, <2>2, <2>3, SameLink
<1>8. CASE InjectTxError
  <2>1. UNCHANGED <<tx, rx, drv, dev, submitted, count, received>> /\ inject_fault' = TRUE
    BY <1>8 DEF InjectTxError
  <2>2. (Decided' <=> Decided) /\ Failed' = Failed  BY <2>1 DEF Decided, Failed
  <2>3. Layout' /\ Inbox' = Inbox /\ Pending' = Pending  BY <1>5, <2>1, <2>2
  <2>4. Link!Arm  BY <2>1, <2>2, <2>3 DEF Link!Arm, Inbox, RxLen, Failed
  <2> QED  BY <2>3, <2>4 DEF Link!LinkNext
<1>9. CASE Reset
  <2>1. /\ tx' = Empty("FREE") /\ rx' = Empty("DEVICE") /\ count' = NoCounts
        /\ inject_fault' = FALSE /\ received' = received
        /\ drv'.submit = 0 /\ drv'.consume = 0 /\ drv'.pc = "idle"
        /\ dev'.tx = 0 /\ dev'.rx = 0 /\ dev'.pc = "idle"
    BY <1>2, <1>9 DEF Reset, Devices, Drivers
  <2>2. /\ Segment(Empty("FREE"), "DEVICE", 0, 0) /\ OwnedBy(Empty("FREE"), "DEVICE") = 0
        /\ Unroll(Empty("FREE"), 0, 0) = <<>> /\ Place(0, 1) = 0
    BY EmptyRings
  <2>3. /\ Segment(Empty("DEVICE"), "DONE", 0, 0) /\ OwnedBy(Empty("DEVICE"), "DONE") = 0
        /\ Unroll(Empty("DEVICE"), 0, 0) = <<>>
    BY EmptyRings
  <2>4. TxLen' = 0 /\ RxLen' = 0  BY <2>1, <2>2, <2>3 DEF TxLen, RxLen
  <2>5. TxLayout' /\ Sent' = <<>>  BY <2>1, <2>2, <2>4 DEF TxLayout, Sent
  <2>6. RxLayout' /\ Inbox' = <<>>  BY <2>1, <2>2, <2>3, <2>4 DEF RxLayout, Inbox
  <2>7. Pending' = <<>>  BY <1>3, <2>1, <2>5 DEF Decided
  <2>8. Failed' = 0 /\ count'.nobuf = 0  BY <2>1 DEF Failed, NoCounts
  <2>9. Link!Restart
    BY <2>1, <2>6, <2>7, <2>8 DEF Link!Restart, Inbox, RxLen, Failed
  <2> QED  BY <2>1, <2>5, <2>6, <2>9 DEF Layout, Link!LinkNext
<1> QED  BY <1>6, <1>7, <1>8, <1>9

\* The rings start empty, as the link does.
LEMMA InitLink == Init => Layout /\ Link!LinkInit
<1> SUFFICES ASSUME Init PROVE Layout /\ Link!LinkInit  OBVIOUS
<1> USE DEF Init
<1>1. /\ Segment(tx, "DEVICE", 0, 0) /\ OwnedBy(tx, "DEVICE") = 0
      /\ Unroll(tx, 0, 0) = <<>> /\ Place(0, 1) = 0
  BY EmptyRings
<1>2. /\ Segment(rx, "DONE", 0, 0) /\ OwnedBy(rx, "DONE") = 0
      /\ Unroll(rx, 0, 0) = <<>>
  BY EmptyRings
<1>3. Layout  BY <1>1, <1>2 DEF Layout, TxLayout, RxLayout, TxLen, RxLen
<1>4. Pending = <<>>  BY <1>1 DEF Pending
<1> QED  BY <1>2, <1>3, <1>4 DEF Link!LinkInit, NoCounts

\* For every ring size the two rings are a loopback link: frames arrive in order
\* and once, and are lost only to a full receive ring or an armed fault, and then
\* counted, although driver and device share no lock.
THEOREM NicImplementsLink == Spec => ImplementsLink
<1>1. IInv /\ IInv' /\ Layout /\ [Next]_vars => Layout' /\ [Link!LinkNext]_(Link!linkVars)
  BY DriverLink, DeviceLink, OtherLink DEF Next
<1> QED
  BY <1>1, NicInvariant, InitLink, PTL DEF Spec, ImplementsLink, Link!LinkSpec
=============================================================================
