------------------------------ MODULE LossyLink ------------------------------
(***************************************************************************)
(* What the descriptor rings of firmware/nic_model.c promise the driver: a *)
(* loopback link that delivers frames in the order they were submitted,    *)
(* never twice, and loses one only when the receive side has no buffer or  *)
(* a fault was armed, counting it.  NicModel implements this module.       *)
(***************************************************************************)
EXTENDS Naturals, Sequences

CONSTANTS Capacity,    \* frames each side can hold
          Frames       \* the frames that can be submitted

VARIABLES pending,     \* submitted, not yet decided by the device
          inbox,       \* delivered, not yet received
          lost,        \* how many found no receive buffer
          failed,      \* how many were completed with an error
          armed,       \* a one-shot fault is waiting for the next frame
          received     \* the frame last handed to the driver, 0 if none

linkVars == <<pending, inbox, lost, failed, armed, received>>

LinkInit ==
  /\ pending = << >> /\ inbox = << >>
  /\ lost = 0 /\ failed = 0
  /\ armed = FALSE
  /\ received = 0

Send ==
  /\ Len(pending) < Capacity
  /\ \E f \in Frames : pending' = Append(pending, f)
  /\ UNCHANGED <<inbox, lost, failed, armed, received>>

Deliver ==
  /\ pending # << >> /\ Len(inbox) < Capacity
  /\ inbox' = Append(inbox, Head(pending))
  /\ pending' = Tail(pending)
  /\ UNCHANGED <<lost, failed, armed, received>>

Lose ==
  /\ pending # << >> /\ Len(inbox) = Capacity
  /\ lost' = lost + 1
  /\ pending' = Tail(pending)
  /\ UNCHANGED <<inbox, failed, armed, received>>

Fail ==
  /\ pending # << >> /\ armed
  /\ armed' = FALSE
  /\ failed' = failed + 1
  /\ pending' = Tail(pending)
  /\ UNCHANGED <<inbox, lost, received>>

Receive ==
  /\ inbox # << >>
  /\ received' = Head(inbox)
  /\ inbox' = Tail(inbox)
  /\ UNCHANGED <<pending, lost, failed, armed>>

Arm ==
  /\ armed' = TRUE
  /\ UNCHANGED <<pending, inbox, lost, failed, received>>

Restart ==
  /\ pending' = << >> /\ inbox' = << >>
  /\ lost' = 0 /\ failed' = 0
  /\ armed' = FALSE
  /\ UNCHANGED received

LinkNext == Send \/ Deliver \/ Lose \/ Fail \/ Receive \/ Arm \/ Restart

LinkSpec == LinkInit /\ [][LinkNext]_linkVars
=============================================================================
