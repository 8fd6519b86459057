----------------------------- MODULE RingBuffer -----------------------------
(***************************************************************************)
(* realtime/ring_buffer.c: a fixed ring of Capacity slots under one mutex, *)
(* with a condition variable for consumers that find it empty.             *)
(*                                                                         *)
(* Every operation runs between pthread_mutex_lock and its unlock (or      *)
(* cond_wait, which releases the mutex and queues the thread in one step), *)
(* so one critical section is one action.  A consumer blocked in wait_pop  *)
(* is between critical sections:                                           *)
(*   "waiting"  queued on not_empty;                                       *)
(*   "woken"    chosen by a signal, or woken for no reason, and not yet    *)
(*              holding the mutex again;                                   *)
(*   "expired"  timedwait has decided on ETIMEDOUT, mutex not yet held.    *)
(* Producers keep no state between calls, so they need no names.           *)
(***************************************************************************)
EXTENDS Integers, FiniteSets, Sequences

CONSTANTS Capacity,   \* rb->capacity
          Items,      \* the samples a producer can push
          NoItem,     \* what an unused slot holds
          Consumers,  \* the threads that call pop and wait_pop
          MaxPushes   \* bound: how often producers call push

ASSUME CapacityAssumption == Capacity \in Nat \ {0}
ASSUME MaxPushesAssumption == MaxPushes \in Nat
ASSUME ConsumersAssumption == IsFiniteSet(Consumers)

VARIABLES storage,    \* slot index -> item
          head,       \* slot the next push fills
          tail,       \* slot the next pop empties
          count,
          high_water,
          dropped,
          pc,         \* consumer -> where it is, see above
          deadline,   \* consumer -> "never", "future" or "past"
          result,     \* consumer -> what its last call returned
          pushes,     \* history: calls of push
          popped      \* history: items handed to consumers

ringVars == <<storage, head, tail, count, high_water, dropped>>
waitVars == <<pc, deadline>>
vars == <<storage, head, tail, count, high_water, dropped,
          pc, deadline, result, pushes, popped>>

Slots == 0 .. Capacity - 1

Waiting == {c \in Consumers : pc[c] = "waiting"}
Woken   == {c \in Consumers : pc[c] = "woken"}

Init ==
  /\ storage = [i \in Slots |-> NoItem]
  /\ head = 0 /\ tail = 0 /\ count = 0 /\ high_water = 0 /\ dropped = 0
  /\ pc = [c \in Consumers |-> "idle"]
  /\ deadline = [c \in Consumers |-> "never"]
  /\ result = [c \in Consumers |-> "none"]
  /\ pushes = 0 /\ popped = 0

-----------------------------------------------------------------------------
(* mlrt_ring_push *)

\* Faults: the signal is left out; it is sent only for an empty ring.
SignalNobody == UNCHANGED pc
SignalIfWasEmpty ==
  \/ (Waiting = {} \/ count > 0) /\ UNCHANGED pc
  \/ count = 0 /\ \E c \in Waiting : pc' = [pc EXCEPT ![c] = "woken"]

\* pthread_cond_signal: one queued thread, if there is any, is chosen.
Signal ==
  \/ Waiting = {} /\ UNCHANGED pc
  \/ \E c \in Waiting : pc' = [pc EXCEPT ![c] = "woken"]

\* A full ring and no leave to overwrite: the item is dropped.
PushFull ==
  /\ count = Capacity
  /\ dropped' = dropped + 1
  /\ UNCHANGED <<storage, head, tail, count, high_water, pc>>

\* Fault: overwriting forgets to advance tail.
PushStoreKeepTail(item) ==
  /\ storage' = [storage EXCEPT ![head] = item]
  /\ head' = (head + 1) % Capacity
  /\ count' = IF count = Capacity THEN count ELSE count + 1
  /\ dropped' = IF count = Capacity THEN dropped + 1 ELSE dropped
  /\ high_water' = IF count' > high_water THEN count' ELSE high_water
  /\ Signal
  /\ UNCHANGED tail

\* The item is stored at head; when the ring is full the oldest one goes first.
PushStore(item) ==
  LET full == count = Capacity
      kept == IF full THEN count - 1 ELSE count
  IN  /\ tail' = IF full THEN (tail + 1) % Capacity ELSE tail
      /\ dropped' = IF full THEN dropped + 1 ELSE dropped
      /\ storage' = [storage EXCEPT ![head] = item]
      /\ head' = (head + 1) % Capacity
      /\ count' = kept + 1
      /\ high_water' = IF kept + 1 > high_water THEN kept + 1 ELSE high_water
      /\ Signal

Push(item, overwrite_oldest) ==
  /\ pushes < MaxPushes
  /\ pushes' = pushes + 1
  /\ IF count = Capacity /\ ~overwrite_oldest THEN PushFull ELSE PushStore(item)
  /\ UNCHANGED <<deadline, result, popped>>

-----------------------------------------------------------------------------
(* mlrt_ring_pop and mlrt_ring_wait_pop *)

\* The tail item leaves the ring and is handed to consumer c.
TakeTail(c) ==
  /\ result' = [result EXCEPT ![c] = storage[tail]]
  /\ tail' = (tail + 1) % Capacity
  /\ count' = count - 1
  /\ popped' = popped + 1
  /\ UNCHANGED <<storage, head, high_water, dropped>>

Return(c, value) ==
  /\ result' = [result EXCEPT ![c] = value]
  /\ UNCHANGED <<ringVars, popped>>

Pop(c) ==
  /\ pc[c] = "idle"
  /\ IF count = 0 THEN Return(c, "empty") ELSE TakeTail(c)
  /\ UNCHANGED <<waitVars, pushes>>

\* deadline_from_now: the absolute time timeout_ms milliseconds after <<sec, nsec>>.
NsPerMs == 1000 * 1000
NsPerSec == 1000 * NsPerMs
DeadlineCarries(nsec, timeout_ms) ==
  nsec + (timeout_ms % 1000) * NsPerMs >= NsPerSec
DeadlineSec(sec, nsec, timeout_ms) ==
  sec + timeout_ms \div 1000 + (IF DeadlineCarries(nsec, timeout_ms) THEN 1 ELSE 0)
DeadlineNsec(nsec, timeout_ms) ==
  nsec + (timeout_ms % 1000) * NsPerMs
    - (IF DeadlineCarries(nsec, timeout_ms) THEN NsPerSec ELSE 0)

\* The first test of the loop.  timeout_ms < 0 has no deadline; otherwise it is
\* computed once, before the mutex is taken.
WaitPop(c, timeout) ==
  /\ pc[c] = "idle"
  /\ deadline' = [deadline EXCEPT ![c] = timeout]
  /\ IF count = 0
       THEN pc' = [pc EXCEPT ![c] = "waiting"] /\ Return(c, "none")
       ELSE UNCHANGED pc /\ TakeTail(c)
  /\ UNCHANGED pushes

\* Faults: `if' for `while'; a fresh deadline for every turn of the loop.
ResumeNoRecheck(c) ==
  /\ pc[c] = "woken"
  /\ pc' = [pc EXCEPT ![c] = "idle"]
  /\ TakeTail(c)
  /\ UNCHANGED <<deadline, pushes>>
ResumeFreshDeadline(c) ==
  /\ pc[c] = "woken"
  /\ IF count = 0
       THEN /\ pc' = [pc EXCEPT ![c] = "waiting"]
            /\ deadline' = [deadline EXCEPT ![c] =
                              IF @ = "past" THEN "future" ELSE @]
            /\ UNCHANGED <<ringVars, result, popped>>
       ELSE /\ pc' = [pc EXCEPT ![c] = "idle"]
            /\ TakeTail(c) /\ UNCHANGED deadline
  /\ UNCHANGED pushes

\* cond_wait returned 0 and c holds the mutex: the loop tests count again.  On
\* an empty ring it waits once more for the same deadline; timedwait called
\* after the deadline answers ETIMEDOUT at once.
Resume(c) ==
  /\ pc[c] = "woken"
  /\ IF count = 0
       THEN /\ pc' = [pc EXCEPT ![c] =
                        IF deadline[c] = "past" THEN "expired" ELSE "waiting"]
            /\ UNCHANGED <<ringVars, result, popped>>
       ELSE /\ pc' = [pc EXCEPT ![c] = "idle"]
            /\ TakeTail(c)
  /\ UNCHANGED <<deadline, pushes>>

\* cond_wait or timedwait fails instead of waiting: wait_pop returns -1.
WaitError(c) ==
  /\ pc[c] \in {"idle", "woken"}
  /\ count = 0
  /\ pc' = [pc EXCEPT ![c] = "idle"]
  /\ Return(c, "error")
  /\ UNCHANGED <<deadline, pushes>>

\* timedwait returned ETIMEDOUT and c holds the mutex: wait_pop returns 1
\* without looking at count again.
TimeoutReturn(c) ==
  /\ pc[c] = "expired"
  /\ pc' = [pc EXCEPT ![c] = "idle"]
  /\ Return(c, "timeout")
  /\ UNCHANGED <<deadline, pushes>>

-----------------------------------------------------------------------------
(* The clock and the condition variable, which belong to the platform. *)

DeadlinePasses(c) ==
  /\ pc[c] # "idle"
  /\ deadline[c] = "future"
  /\ deadline' = [deadline EXCEPT ![c] = "past"]
  /\ UNCHANGED <<ringVars, pc, result, pushes, popped>>

Expire(c) ==
  /\ pc[c] = "waiting"
  /\ deadline[c] = "past"
  /\ pc' = [pc EXCEPT ![c] = "expired"]
  /\ UNCHANGED <<ringVars, deadline, result, pushes, popped>>

SpuriousWakeup(c) ==
  /\ pc[c] = "waiting"
  /\ pc' = [pc EXCEPT ![c] = "woken"]
  /\ UNCHANGED <<ringVars, deadline, result, pushes, popped>>

-----------------------------------------------------------------------------
Next ==
  \/ \E item \in Items, overwrite \in BOOLEAN : Push(item, overwrite)
  \/ \E c \in Consumers :
       \/ Pop(c)
       \/ \E timeout \in {"never", "future"} : WaitPop(c, timeout)
       \/ Resume(c)
       \/ WaitError(c)
       \/ TimeoutReturn(c)
       \/ DeadlinePasses(c)
       \/ Expire(c)
       \/ SpuriousWakeup(c)

Spec == Init /\ [][Next]_vars

\* Time passes and every thread that can run runs, since no critical section
\* blocks while it holds the mutex; producers and new calls owe nothing.
Fairness ==
  \A c \in Consumers :
    /\ WF_vars(Resume(c))
    /\ WF_vars(TimeoutReturn(c))
    /\ WF_vars(DeadlinePasses(c))
    /\ WF_vars(Expire(c))

FairSpec == Spec /\ Fairness

-----------------------------------------------------------------------------
(* Properties *)

Results == Items \cup {"none", "empty", "timeout", "error"}

\* Every variable keeps its type; in particular head and tail stay inside the
\* storage array and count inside 0..capacity (ring_buffer.h, mlrt_ring_buffer).
TypeOK ==
  /\ storage \in [Slots -> Items \cup {NoItem}]
  /\ head \in Slots
  /\ tail \in Slots
  /\ count \in 0 .. Capacity
  /\ high_water \in 0 .. Capacity
  /\ dropped \in Nat
  /\ pc \in [Consumers -> {"idle", "waiting", "woken", "expired"}]
  /\ deadline \in [Consumers -> {"never", "future", "past"}]
  /\ result \in [Consumers -> Results]
  /\ pushes \in 0 .. MaxPushes
  /\ popped \in Nat

\* head is always count slots ahead of tail: the three fields that push and pop
\* update separately never disagree about which slots are occupied, and every
\* occupied slot holds an item some producer stored.
IndicesAgree ==
  /\ head = (tail + count) % Capacity
  /\ \A i \in 0 .. count - 1 : storage[(tail + i) % Capacity] \in Items

\* Every item ever offered to push is exactly one of: delivered, still queued,
\* or counted in dropped, whichever mix of refusing and overwriting was used.
Accounting == pushes = popped + count + dropped

\* While a consumer sleeps on not_empty there are at least as many woken
\* consumers as queued items, so one cond_signal per push is enough and no
\* item is stranded behind a sleeping consumer.
NoLostWakeup == Waiting # {} => count <= Cardinality(Woken)

\* The queue an outside observer sees, oldest item first.
Contents == [i \in 1 .. count |-> storage[(tail + i - 1) % Capacity]]

Queue == INSTANCE BoundedQueue
           WITH queue <- Contents, lost <- dropped, peak <- high_water

\* The ring is a FIFO queue that loses only what it counts: every step is a
\* step of BoundedQueue on the items between tail and head.
ImplementsQueue == Queue!BQSpec

\* A timed wait_pop returns although signals keep waking it, because its
\* deadline is computed once (tests/test_ring_buffer.c, spurious_waker).
TimedWaitReturns ==
  \A c \in Consumers :
    (pc[c] # "idle" /\ deadline[c] # "never") ~> (pc[c] = "idle")

\* When items are queued and consumers sleep, either the queue drains or no
\* consumer is left asleep: what push signals does reach the sleepers.
ItemsReachSleepers ==
  (Waiting # {} /\ count > 0) ~> (Waiting = {} \/ count = 0)
=============================================================================
