---------------------------- MODULE BoundedQueue ----------------------------
(***************************************************************************)
(* What the ring buffer of realtime/ring_buffer.c promises its callers: a  *)
(* FIFO queue of at most Capacity items.  A producer either appends, is    *)
(* refused when the queue is full, or displaces the oldest item; either    *)
(* loss is counted.  A consumer takes the oldest item, finds the queue     *)
(* empty, or gives up waiting.  Nothing is said of indices, of locks or of *)
(* wakeups: module RingBuffer implements this one.                         *)
(***************************************************************************)
EXTENDS Naturals, Sequences

CONSTANTS Capacity,   \* the number of slots
          Items,      \* the samples that can be queued
          Consumers   \* the threads that call pop and wait_pop

VARIABLES queue,      \* the queued items, oldest first
          lost,       \* how many items were refused or displaced
          peak,       \* the longest the queue has ever been
          result      \* what each consumer's last call returned

bqVars == <<queue, lost, peak, result>>

BQInit ==
  /\ queue = << >>
  /\ lost = 0
  /\ peak = 0
  /\ result = [c \in Consumers |-> "none"]

Higher(a, b) == IF a > b THEN a ELSE b

\* The queue has room: the item joins at the end.
Put(item) ==
  /\ Len(queue) < Capacity
  /\ queue' = Append(queue, item)
  /\ peak' = Higher(Len(queue) + 1, peak)
  /\ UNCHANGED <<lost, result>>

\* The queue is full: the new item is refused.
Refuse ==
  /\ Len(queue) = Capacity
  /\ lost' = lost + 1
  /\ UNCHANGED <<queue, peak, result>>

\* The queue is full: the oldest item makes room for the new one.
Displace(item) ==
  /\ Len(queue) = Capacity
  /\ queue' = Append(Tail(queue), item)
  /\ lost' = lost + 1
  /\ UNCHANGED <<peak, result>>

\* A consumer takes the oldest item.
Take(c) ==
  /\ queue # << >>
  /\ result' = [result EXCEPT ![c] = Head(queue)]
  /\ queue' = Tail(queue)
  /\ UNCHANGED <<lost, peak>>

\* A consumer is told that there is nothing to take, or that its wait
\* failed, which can only be so of an empty queue ...
ReportEmpty(c) ==
  /\ queue = << >>
  /\ \E r \in {"empty", "error"} : result' = [result EXCEPT ![c] = r]
  /\ UNCHANGED <<queue, lost, peak>>

\* ... while a timed wait may give up whatever the queue holds by then.
GiveUp(c) ==
  /\ result' = [result EXCEPT ![c] = "timeout"]
  /\ UNCHANGED <<queue, lost, peak>>

\* A new blocking call has not returned yet.
Block(c) ==
  /\ queue = << >>
  /\ result' = [result EXCEPT ![c] = "none"]
  /\ UNCHANGED <<queue, lost, peak>>

BQNext ==
  \/ Refuse
  \/ \E item \in Items : Put(item) \/ Displace(item)
  \/ \E c \in Consumers : Take(c) \/ ReportEmpty(c) \/ GiveUp(c) \/ Block(c)

BQSpec == BQInit /\ [][BQNext]_bqVars
=============================================================================
