------------------------------ MODULE NicModel ------------------------------
(***************************************************************************)
(* firmware/nic_model.c: one driver thread and one device thread share two *)
(* descriptor rings without a lock.  A descriptor's owner word is atomic;  *)
(* its buffer, length and error are plain memory that belongs to whoever   *)
(* the owner word names.                                                   *)
(*                                                                         *)
(* One action is one atomic operation that the other thread can notice,    *)
(* with the private and owner-protected assignments around it.  The pc     *)
(* says what a thread does next; at "fill", "read" and "copy" it is inside *)
(* a descriptor's plain fields.  Three things are folded into a step:      *)
(*   - the statistics, which only the device writes and no step reads, are *)
(*     added in the neighbouring step of the device;                       *)
(*   - tx_head, tx_tail, rx_head and rx_tail are stored right after the    *)
(*     cursor they copy and read by nobody: the cursors stand for them;    *)
(*   - frames are numbered as they are submitted, which is all that the    *)
(*     properties ask of their bytes.  nic_tx_submit turns away a length   *)
(*     outside 1..NIC_MTU, so the device's own length test never fires.    *)
(***************************************************************************)
EXTENDS Integers, FiniteSets, Sequences

CONSTANTS Capacity,    \* n->capacity
          MaxFrames,   \* bound: frames the driver submits
          MaxInject,   \* bound: calls of nic_inject_tx_error
          MaxResets    \* bound: calls of nic_model_init after the first

ASSUME CapacityAssumption == Capacity \in Nat \ {0}
ASSUME BoundsAssumption ==
  MaxFrames \in Nat /\ MaxInject \in Nat /\ MaxResets \in Nat

VARIABLES tx, rx,         \* the rings: slot -> [owner, frame, error]
          drv,            \* the driver: pc, cursors, turns of the reclaim loop
          dev,            \* the device: pc, cursors, budget and frames done
          irq_status,     \* the set of pending interrupt bits
          inject_fault,
          count,          \* tx_completed, rx_completed, rx_no_buffer, tx_errors
          received,       \* the frame nic_rx_receive last returned
          submitted,      \* history: frames submitted so far
          injected,       \* history: faults armed since the last init
          resets,         \* history: re-initialisations
          unseen          \* history: events since the last take_interrupts

\* What the driver's steps leave alone, and what the device's do.
deviceSide == <<dev, irq_status, inject_fault, count, injected, resets, unseen>>
driverSide == <<drv, received, submitted, injected, resets>>
vars == <<tx, rx, drv, dev, irq_status, inject_fault, count,
          received, submitted, injected, resets, unseen>>

Slots == 0 .. Capacity - 1

Step(cursor) == (cursor + 1) % Capacity
Empty(who) == [i \in Slots |-> [owner |-> who, frame |-> 0, error |-> FALSE]]
NoCounts == [tx |-> 0, rx |-> 0, nobuf |-> 0, err |-> 0]

Init ==
  /\ tx = Empty("FREE") /\ rx = Empty("DEVICE")
  /\ drv = [pc |-> "idle", submit |-> 0, reclaim |-> 0, consume |-> 0, turns |-> 0]
  /\ dev = [pc |-> "idle", tx |-> 0, rx |-> 0, budget |-> 0, done |-> 0]
  /\ irq_status = {} /\ inject_fault = FALSE /\ count = NoCounts
  /\ received = 0 /\ submitted = 0 /\ injected = 0 /\ resets = 0 /\ unseen = {}

\* nic_model_init again, which nic_model.h allows when both threads are quiescent.
Reset ==
  /\ drv.pc = "idle" /\ dev.pc = "idle" /\ resets < MaxResets
  /\ tx' = Empty("FREE") /\ rx' = Empty("DEVICE")
  /\ drv' = [drv EXCEPT !.submit = 0, !.reclaim = 0, !.consume = 0]
  /\ dev' = [dev EXCEPT !.tx = 0, !.rx = 0]
  /\ irq_status' = {} /\ inject_fault' = FALSE /\ count' = NoCounts
  /\ injected' = 0 /\ resets' = resets + 1 /\ unseen' = {}
  /\ UNCHANGED <<received, submitted>>

-----------------------------------------------------------------------------
(* The driver thread *)

DriverGoto(from, to) ==
  /\ drv.pc = from
  /\ drv' = [drv EXCEPT !.pc = to]
  /\ UNCHANGED <<tx, rx, received, submitted>>

\* Fault: a completed descriptor is reused before it was reclaimed.
SubmitBeginDone ==
  submitted < MaxFrames /\ tx[drv.submit].owner # "DEVICE" /\ DriverGoto("idle", "fill")

\* nic_tx_submit; a descriptor that is not FREE means the ring is full.
SubmitBegin ==
  submitted < MaxFrames /\ tx[drv.submit].owner = "FREE" /\ DriverGoto("idle", "fill")

SubmitPublish ==
  /\ drv.pc = "fill"
  /\ submitted' = submitted + 1
  /\ tx' = [tx EXCEPT ![drv.submit] =
              [owner |-> "DEVICE", frame |-> submitted + 1, error |-> FALSE]]
  /\ drv' = [drv EXCEPT !.pc = "idle", !.submit = Step(@)]
  /\ UNCHANGED <<rx, received>>

\* nic_tx_reclaim: up to Capacity turns, each of one DONE descriptor.
ReclaimBegin ==
  /\ drv.pc = "idle"
  /\ drv' = [drv EXCEPT !.pc = "more", !.turns = 0]
  /\ UNCHANGED <<tx, rx, received, submitted>>

\* Fault: whatever is not FREE is reclaimed.
ReclaimCheckNotFree ==
  DriverGoto("more", IF drv.turns < Capacity /\ tx[drv.reclaim].owner # "FREE"
                       THEN "read" ELSE "idle")

ReclaimCheck ==
  DriverGoto("more", IF drv.turns < Capacity /\ tx[drv.reclaim].owner = "DONE"
                       THEN "read" ELSE "idle")

ReclaimFree ==
  /\ drv.pc = "read"
  /\ tx' = [tx EXCEPT ![drv.reclaim].owner = "FREE"]
  /\ drv' = [drv EXCEPT !.pc = "more", !.reclaim = Step(@), !.turns = @ + 1]
  /\ UNCHANGED <<rx, received, submitted>>

\* nic_rx_receive
ReceiveBegin == rx[drv.consume].owner = "DONE" /\ DriverGoto("idle", "copy")

\* Fault: a short buffer costs the frame.
ReceiveShortLose ==
  /\ drv.pc = "copy"
  /\ rx' = [rx EXCEPT ![drv.consume].owner = "DEVICE"]
  /\ drv' = [drv EXCEPT !.pc = "idle", !.consume = Step(@)]
  /\ UNCHANGED <<tx, received, submitted>>

\* The caller's buffer is too small: the frame stays for a retry.
ReceiveShort == DriverGoto("copy", "idle")

ReceiveRepost ==
  /\ drv.pc = "copy"
  /\ received' = rx[drv.consume].frame
  /\ rx' = [rx EXCEPT ![drv.consume].owner = "DEVICE"]
  /\ drv' = [drv EXCEPT !.pc = "idle", !.consume = Step(@)]
  /\ UNCHANGED <<tx, submitted>>

-----------------------------------------------------------------------------
(* The device thread: nic_device_step *)

Poll(b) ==
  /\ dev.pc = "idle"
  /\ dev' = [dev EXCEPT !.pc = "check", !.budget = b, !.done = 0]
  /\ UNCHANGED <<tx, rx, driverSide, irq_status, inject_fault, count, unseen>>

PollBegin(b) == Poll(IF b > Capacity THEN Capacity ELSE b)

DeviceGoto(from, to) ==
  /\ dev.pc = from
  /\ dev' = [dev EXCEPT !.pc = to]

Check ==
  /\ DeviceGoto("check", IF dev.done < dev.budget /\ tx[dev.tx].owner = "DEVICE"
                           THEN "fault" ELSE "idle")
  /\ UNCHANGED <<tx, rx, irq_status, inject_fault, count, unseen>>

\* atomic_exchange(&n->inject_fault, 0)
FaultCheck ==
  /\ DeviceGoto("fault", IF inject_fault THEN "error" ELSE "rxcheck")
  /\ inject_fault' = FALSE
  /\ UNCHANGED <<tx, rx, irq_status, count, unseen>>

TxError ==
  /\ DeviceGoto("error", "finish")
  /\ tx' = [tx EXCEPT ![dev.tx].error = TRUE]
  /\ count' = [count EXCEPT !.err = @ + 1]
  /\ irq_status' = irq_status \cup {"ERROR"}
  /\ UNCHANGED <<rx, inject_fault, unseen>>

\* Fault: a frame without a receive buffer is kept for the next poll.
RxCheckWait ==
  /\ DeviceGoto("rxcheck", IF rx[dev.rx].owner = "DEVICE" THEN "copy" ELSE "idle")
  /\ UNCHANGED <<tx, rx, irq_status, inject_fault, count, unseen>>

\* Without a receive buffer the frame is dropped and counted.
RxCheck ==
  LET ready == rx[dev.rx].owner = "DEVICE"
  IN  /\ DeviceGoto("rxcheck", IF ready THEN "copy" ELSE "finish")
      /\ count' = IF ready THEN count ELSE [count EXCEPT !.nobuf = @ + 1]
      /\ UNCHANGED <<tx, rx, irq_status, inject_fault, unseen>>

RxPublish ==
  /\ dev.pc = "copy"
  /\ rx' = [rx EXCEPT ![dev.rx] =
              [owner |-> "DONE", frame |-> tx[dev.tx].frame, error |-> FALSE]]
  /\ dev' = [dev EXCEPT !.pc = "irqrx", !.rx = Step(@)]
  /\ unseen' = unseen \cup {"RX"}
  /\ UNCHANGED <<tx, irq_status, inject_fault, count>>

\* Fault: no RX interrupt while another bit is pending.
RxInterruptIfQuiet ==
  /\ DeviceGoto("irqrx", "finish")
  /\ count' = [count EXCEPT !.rx = @ + 1]
  /\ irq_status' = IF irq_status = {} THEN {"RX"} ELSE irq_status
  /\ UNCHANGED <<tx, rx, inject_fault, unseen>>

RxInterrupt ==
  /\ DeviceGoto("irqrx", "finish")
  /\ count' = [count EXCEPT !.rx = @ + 1]
  /\ irq_status' = irq_status \cup {"RX"}
  /\ UNCHANGED <<tx, rx, inject_fault, unseen>>

FinishAs(owner) ==
  /\ dev.pc = "finish"
  /\ count' = [count EXCEPT !.tx = @ + 1]
  /\ tx' = [tx EXCEPT ![dev.tx].owner = owner]
  /\ dev' = [dev EXCEPT !.pc = "irqtx", !.tx = Step(@), !.done = @ + 1]
  /\ unseen' = unseen \cup {"TX"}
  /\ UNCHANGED <<rx, irq_status, inject_fault>>

\* Fault: the descriptor goes straight back to the driver.
TxFinishFree == FinishAs("FREE")

TxFinish == FinishAs("DONE")

TxInterrupt ==
  /\ DeviceGoto("irqtx", "check")
  /\ irq_status' = irq_status \cup {"TX"}
  /\ UNCHANGED <<tx, rx, inject_fault, count, unseen>>

-----------------------------------------------------------------------------
(* nic_take_interrupts and nic_inject_tx_error, from any thread *)

TakeInterrupts ==
  /\ irq_status' = {} /\ unseen' = {}
  /\ UNCHANGED <<tx, rx, driverSide, dev, inject_fault, count>>

InjectTxError ==
  /\ injected < MaxInject
  /\ injected' = injected + 1
  /\ inject_fault' = TRUE
  /\ UNCHANGED <<tx, rx, drv, dev, irq_status, count, received, submitted, resets, unseen>>

-----------------------------------------------------------------------------
ReclaimStep == (ReclaimCheck \/ ReclaimFree) /\ UNCHANGED deviceSide
DriverStep ==
  \/ (\/ SubmitBegin \/ SubmitPublish \/ ReclaimBegin
      \/ ReceiveBegin \/ ReceiveShort \/ ReceiveRepost) /\ UNCHANGED deviceSide
  \/ ReclaimStep
DeviceStep ==
  /\ \/ Check \/ FaultCheck \/ TxError \/ RxCheck \/ RxPublish \/ RxInterrupt
     \/ TxFinish \/ TxInterrupt
  /\ UNCHANGED driverSide

Next ==
  \/ DriverStep
  \/ \E b \in 0 .. Capacity + 1 : PollBegin(b)
  \/ DeviceStep
  \/ TakeInterrupts \/ InjectTxError \/ Reset

Spec == Init /\ [][Next]_vars

\* The device thread polls again and again with a positive budget and the driver
\* keeps finishing its calls and reclaiming: the loops of device_worker and
\* concurrent_ownership in tests/test_nic_model.c.  Polls with a zero budget and
\* the driver's other calls may come in between, hence strong fairness.
Fairness ==
  /\ WF_vars(DeviceStep)
  /\ SF_vars(\E b \in 1 .. Capacity + 1 : PollBegin(b))
  /\ WF_vars(ReclaimStep)
  /\ WF_vars(SubmitPublish /\ UNCHANGED deviceSide)
  /\ WF_vars((ReceiveRepost \/ ReceiveShort) /\ UNCHANGED deviceSide)
  /\ SF_vars(ReclaimBegin /\ UNCHANGED deviceSide)

FairSpec == Spec /\ Fairness

-----------------------------------------------------------------------------
(* Properties *)

DriverPcs == {"idle", "fill", "more", "read", "copy"}
DevicePcs == {"idle", "check", "fault", "error", "rxcheck", "copy", "irqrx",
              "finish", "irqtx"}
Rings(owners) ==
  [Slots -> [owner : owners, frame : Nat, error : BOOLEAN]]
TxRings == Rings({"FREE", "DEVICE", "DONE"})
RxRings == Rings({"DEVICE", "DONE"})
Drivers == [pc : DriverPcs, submit : Slots, reclaim : Slots, consume : Slots,
            turns : 0 .. Capacity]
Devices == [pc : DevicePcs, tx : Slots, rx : Slots, budget : Nat, done : Nat]
Counters == [tx : Nat, rx : Nat, nobuf : Nat, err : Nat]

\* Every variable keeps its type and every cursor stays inside the ring.
TypeOK ==
  /\ tx \in TxRings /\ rx \in RxRings /\ drv \in Drivers /\ dev \in Devices
  /\ irq_status \subseteq {"TX", "RX", "ERROR"} /\ unseen \subseteq {"TX", "RX"}
  /\ inject_fault \in BOOLEAN
  /\ count \in Counters
  /\ received \in Nat /\ submitted \in Nat /\ injected \in Nat /\ resets \in Nat

\* The descriptors whose plain fields each thread is using now.
DriverTx == IF drv.pc = "fill" THEN {drv.submit}
            ELSE IF drv.pc = "read" THEN {drv.reclaim} ELSE {}
DeviceTx == IF dev.pc \in DevicePcs \ {"idle", "check", "irqtx"} THEN {dev.tx} ELSE {}
DriverRx == IF drv.pc = "copy" THEN {drv.consume} ELSE {}
DeviceRx == IF dev.pc = "copy" THEN {dev.rx} ELSE {}

\* No data race: the two threads are never inside the plain fields of the same
\* descriptor, although no lock protects them (nic_tx_submit, nic_tx_reclaim and
\* nic_rx_receive against nic_device_step).
NoRace == DriverTx \cap DeviceTx = {} /\ DriverRx \cap DeviceRx = {}

\* Whoever uses a descriptor's plain fields is the one its owner word names.
Ownership ==
  /\ drv.pc = "fill" => tx[drv.submit].owner = "FREE"
  /\ drv.pc = "read" => tx[drv.reclaim].owner = "DONE"
  /\ drv.pc = "copy" => rx[drv.consume].owner = "DONE"
  /\ \A s \in DeviceTx : tx[s].owner = "DEVICE"
  /\ \A s \in DeviceRx : rx[s].owner = "DEVICE"

TxMoves == {<<"FREE", "DEVICE">>, <<"DEVICE", "DONE">>, <<"DONE", "FREE">>}

\* TX descriptors go FREE -> DEVICE -> DONE -> FREE and an RX descriptor is given
\* back only by handing its frame to the caller (docs/nic-descriptor-model.md),
\* except when both rings are re-initialised.
OwnershipCycle ==
  [][\/ resets' # resets
     \/ \A s \in Slots :
          /\ \/ tx'[s].owner = tx[s].owner
             \/ <<tx[s].owner, tx'[s].owner>> \in TxMoves
          /\ rx[s].owner = "DONE" /\ rx'[s] # rx[s] => received' = rx[s].frame]_vars

\* Between polls every transmitted frame was delivered, dropped for want of a
\* buffer, or failed, and each counter says how many.
CountersAddUp == dev.pc = "idle" => count.tx = count.rx + count.nobuf + count.err

\* A completion since the last take_interrupts has its bit set, unless the device
\* is still on its way from the descriptor to the bit: clear-on-read by another
\* thread loses no event.
NoLostInterrupt ==
  /\ "RX" \in unseen => "RX" \in irq_status \/ dev.pc = "irqrx"
  /\ "TX" \in unseen => "TX" \in irq_status \/ dev.pc = "irqtx"

\* A fault is one-shot: no more frames fail than faults were armed.
OneShotFault == count.err + (IF inject_fault THEN 1 ELSE 0) <= injected

\* One poll completes at most one ring's worth of frames, although the driver
\* refills the ring meanwhile (the comment above the cap in nic_device_step).
PollBounded == dev.done <= Capacity

\* The frames between the device's and the submit cursor, less the one whose
\* fate is decided; and the frames waiting to be received.
Unroll(ring, from, n) == [i \in 1 .. n |-> ring[(from + i - 1) % Capacity].frame]
OwnedBy(ring, who) == Cardinality({s \in Slots : ring[s].owner = who})
Pending ==
  LET all == Unroll(tx, dev.tx, OwnedBy(tx, "DEVICE"))
  IN  IF dev.pc \in {"irqrx", "error", "finish"} THEN Tail(all) ELSE all

Link == INSTANCE LossyLink
          WITH Frames  <- 1 .. MaxFrames,
               pending <- Pending,
               inbox   <- Unroll(rx, drv.consume, OwnedBy(rx, "DONE")),
               armed   <- inject_fault,
               lost    <- count.nobuf,
               failed  <- count.err + (IF dev.pc = "error" THEN 1 ELSE 0)

\* The two rings are a loopback link: frames arrive in order and once, and are
\* lost only to a full receive ring or an armed fault, and then counted.
ImplementsLink == Link!LinkSpec

\* A descriptor given to the device comes back to the driver, also when its
\* frame is dropped or fails ("still completes TX so the driver can reclaim
\* resources", docs/nic-descriptor-model.md).
TxComesBack == \A s \in Slots : (tx[s].owner = "DEVICE") ~> (tx[s].owner = "FREE")
=============================================================================
