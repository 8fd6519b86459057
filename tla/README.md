# Verification of the embedded systems runtime

TLA+ models of the concurrent and stateful parts of this repository, the TLC
configurations that check them on small instances, and TLAPS proofs of their
main properties for every value of the parameters.

Paths below are relative to the repository; modules are in this directory.

## 1. Inventory

| Component | State | Operations | Interacts with | What is hard | What makes it correct |
|---|---|---|---|---|---|
| Ring buffer, `realtime/ring_buffer.c` | slots, head, tail, count, high water, dropped; a mutex and a condition variable | init, push (drop or overwrite), pop, wait_pop (for ever or with a deadline), stats, destroy | target runtime, rt demo | lost and spurious wakeups, deadlines, wrap | a bounded FIFO; no sleeper while items wait; a timed wait ends |
| NIC model, `firmware/nic_model.c` | two descriptor rings with owner words, five private cursors, irq word, one-shot fault, counters | submit, device step, reclaim, receive, take interrupts, inject, init | driver and device threads share the rings without a lock | ownership handover, refill during a poll, no receive buffer, clear-on-read | no buffer in two hands; in-order lossy link; descriptors come back; nothing uncounted |
| Target runtime, `target/target_core.c` | state word, heartbeat, freeze deadline, counters, three threads | start, stop, the requests of the protocol | ring buffer; requests from the target server | atomics without a lock, watchdog against reset and injection, partial start | stalls are seen, recovery is confirmed and comes, stop leaves nobody behind |
| Target server and client, `target/target_server.c`, `target_client.c` | listening socket, stop flag, CRC errors | accept, serve one client, signals | target runtime, embedded protocol | silent clients, clients that die, a stop signal between two calls | requests are executed as sent and in order; the service goes on or stops |
| Embedded protocol, `protocol/embedded_protocol.c`; virtual UART, `serial/virtual_uart.c` | none, a byte stream | encode, decode, read and write frames | server, client, PTY | partial reads, damage | what is decoded was encoded; damage is found or ends the stream |
| rt demo, event loop, `realtime/` | counters, a ring; epoll descriptors | three threads; one loop | ring buffer | failing start; last events | as the target runtime; no event lost |
| Firmware image, `firmware/image.c` | a file | pack, inspect, verify, update check | file system | failure half-way | an incomplete file does not verify |
| Datapath, `projects/network-verification-lab/src/datapath.cpp` | last sequence number per session, counters | process a datagram (data, stats, reset) | UDP clients | repeated, late, reordered datagrams; wrap; full table | nothing old accepted, nothing new refused, all counted, table bounded |
| Traffic lab, `projects/network-verification-lab/python` | a client's progress | send, damage, replay, compare counters | datapath | lost replies | its verdict is that of the service |
| Shell and jobs, `shell/` | job list, SIGCHLD flag, terminal group, history | run a pipeline, fg, bg, jobs, reap | kernel processes | events of several processes, races of wait and signal, failing fork | a job is done when all its processes are; the terminal comes back |
| Network server and client, `network/` | active clients, stop flag, one buffer and child per request | accept, execute and capture, shutdown; prompt, send, receive | shell (non-interactive) | inherited descriptors, restarted accept, truncation, failing calls | output that is not cut is whole; every command is answered; shutdown ends after the last thread |
| Allocator, `allocator/allocator.c` | list of blocks, mapped bytes | my_malloc, my_free, statistics | mmap | split and coalesce over arenas placed anywhere, size overflow | blocks tile the arenas, grants are large enough and disjoint |
| Loader, ELF parser, tracer | mappings; none; a tracee | map, unmap, run; parse; trace | kernel | rollback; offsets; stops | a failed load leaves no mapping |
| Transport, `projects/ai-networking-benchmark-lab` | a window of frames | batch send, echo | TCP | both sides writing | every frame is echoed |
| Host management, `projects/host-management-qa-lab/src` | power state, generation, events, network | reset, patch, read, lab reset | BMC to host agent over HTTP | timeouts against late effects, replacing the model | what is answered is what happened |
| Fab yield, CLI, logger, benchmarks, assembly | files, none | batch, read, print | - | - | not modelled, see section 7 |

`PROJECT.json` lists every component with its sources and status, the hazards
with their lines, and for every definition the lines it models.

## 2. Modules

| Module | Models | Kind |
|---|---|---|
| `RingBuffer` | `realtime/ring_buffer.c` | component |
| `BoundedQueue` | what a user of the ring sees: a queue of at most Capacity items, what was lost, the highest depth, each consumer's result | abstract specification |
| `NicModel` | `firmware/nic_model.c` with a driver and a device | component |
| `LossyLink` | what a pair of rings promises: frames in order, some lost for want of a buffer, some failed on request | abstract specification |
| `TargetRuntime` | `target/target_core.c`; the ring is its depth | component |
| `Datapath` | `datapath.cpp` with senders and a network | component |
| `ShellJobs` | `shell/jobs.c` and the job control of `shell/shell.c` and `shell/main.c`, over the kernel's processes | component |
| `NetworkServer` | `network/server.c`, `protocol.c`, `client.c`, the non-interactive run of `shell/shell.c` | component |
| `EmbeddedProtocol` | `protocol/embedded_protocol.c`: frames and the read of one from a stream | operators |
| `TargetServer` | `target/target_server.c`, `target_client.c`, on `EmbeddedProtocol`; what a request is answered | composition |
| `HostManagement` | `bmc.py` and `host_agent.py` | two components and the calls between them |
| `Allocator` | `allocator/allocator.c` | component |
| `RingBufferProofs`, `NicModelProofs`, `TargetRuntimeProofs`, `DatapathProofs`, `ShellJobsProofs`, `NetworkServerProofs`, `HostManagementProofs`, `AllocatorProofs` | theorems; those about `TargetServer` and `EmbeddedProtocol` are in `TargetRuntimeProofs` | proofs |
| `MCRingBuffer`, `MCNicModel`, `MCTargetRuntime`, `MCDatapath`, `MCShellJobs`, `MCNetworkServer`, `MCTargetServer`, `MCHostManagement`, `MCAllocator` | the same modules for TLC; constants are in the cfg files | model checking |

Operators whose comment begins with "Fault" are deliberate mistakes (a dropped
guard, a missing reset). No specification uses them; substituted for the
definition that follows them, each makes one property fail.

### RingBuffer

The mutex makes push, pop and each stretch of wait_pop between two waits one
action. A consumer is `idle`, `waiting` (inside the condition wait), `woken`
(it will hold the mutex next) or timed out; `deadline` says whether it waits
for ever, with time left, or with its deadline past. `pthread_cond_signal`
wakes any one waiter; a wait may also return for no reason or with an error.
`deadline_from_now` is two operators on seconds and nanoseconds. An item is a
model value; `pushes` and `popped` are history.

### NicModel

One action per atomic access, because that is where the other side can come
in: `SubmitBegin` is the load of the owner and `SubmitPublish` the copy and the
releasing store, with the private cursor behind it; a poll is `PollBegin`,
`Check`, `FaultCheck`, then `TxError` or `RxCheck` and its followers, then
`TxFinish` and `TxInterrupt`. A buffer's content is the number of its frame.
`Reset` is nic_model_init between uses, when neither side is inside a call.
`unseen` is history: the completions whose interrupt nobody has taken.

### TargetRuntime

Four threads, one action per atomic operation on a shared word. Times are kept
relative to the clock in ticks; `hbAge` and `wdAge` saturate above every
threshold. `Prompt` chooses between two schedulers: with it no thread that can
run is left waiting for a whole tick, so the code's timing can be checked;
without it a thread can be preempted between any two operations for any time.
A timed-out wait_pop does not look at the queue again, so the worker may time
out with a sample queued.
The operand order of `now_ns() - atomic_load(...)` is the one that compilers
choose for this expression, the call first.

### Datapath

One call of process() is one action. A sender numbers its datagrams from 0;
the wire carries the number modulo `2 * Half`. The network delivers any
datagram any number of times until it is `Gone`. Its one assumption, in `Send`,
is the one serial-number arithmetic needs: no datagram is still on the way when
more than `Half` newer ones of its session have been sent.

### ShellJobs

The interactive shell is one thread; what it does between two system calls is
one action, and `pc` is the system call it comes to next. Its children end,
stop and are continued between any two actions. The kernel is modelled as far
as the shell can see it: one pending report per child (its end, else the later
of a stop and a continuation), groups, the terminal's group, and process
numbers that are given out again once neither a process nor a group has them.
`jobs_reap` is a loop that takes one report per action; what follows it depends
on who called it (prompt loop, shell_run_line, jobs, or fg and bg). fork and the
two setpgid calls are one action, since parent and child both make the call
before either goes on. The list is a function of the job id: jobs_add links in
front and ids count up, so list order is descending id. `owner`, the job a
child was started for, is history. The history list, descriptors and printing
are left out: no job depends on them.

### NetworkServer

`main` is the accept loop, `thread[c]` the thread of client c, `child[c]` the
process a request forks. A thread's position is the system call it comes to
next. Descriptors are values: `srv` is what the server has open, `held[c]` what
the child of c's request inherited at its fork; nothing is close-on-exec, and
`Open(d)` asks both. That decides when a read sees the end of file, when a
writer gets SIGPIPE, and whether a client can still connect. Output is counted
in bytes: `todo` still to be written, `pipe` on the way, `len` of `cap` in the
buffer. Three facts of the platform enter. The Makefile compiles with
`_GNU_SOURCE`, so `signal()` restarts accept, recv and waitpid. The child runs
the shell's code without exec and so keeps the handler of the server: the kill
at `server.c:62` only sets a flag in it. A read from the terminal stops a
command, since its group is never given the terminal (`shell.c:273`). Clients
are numbered in the order in which they connect. `accept` fails only when there
is a connection to be taken; `pipe`, `fork`, `malloc`, `realloc` and
`pthread_create` may fail at any time.

### EmbeddedProtocol and TargetServer

A stream is a sequence of cells: a header, units of payload, a CRC. A read
takes what the header's length says, so a damaged length runs into the next
frame. The CRC stands for what it was computed over. `TargetServer` has one
action per system call of run_server and serve_client; the test of `g_stop` and
the entry into accept4 are two, because the signal can come in between. A
write to a client that has gone ends the process: SIGPIPE is not ignored.
Clients are the project's own and others, which send several frames, damage
them or are killed. Its specification is `ServerSpec`: the module of proofs
extends it together with `TargetRuntime`. What damage may be is the assumption `Sendable`, which TLC
evaluates for the run.

### HostManagement

Each request is a thread in the controller, and its call of the agent a job in
the agent. `Model` and `HostState` objects are numbered as they are made; the
lab reset makes new ones, and `server.model` is read again at each statement
that names it, as in Python. `x += 1` is a load and a store. Locks are
re-entrant, so a thread may take the lock it holds. A thread that has to wait
for a lock waits for that of the object it named (`LockRef` then `Lock`,
`GetRef` then `GetLock`), also when `server.model` is another one by then. The
controller gives up on a call at any time before the answer; the job goes on.

The reads of the controller and of its network are modelled because they write
their answer with the Model's lock held (`bmc.py:151-154`, `161-162`), on a
socket without a time-out: `sending` lasts as long as the client pleases, and
`Sent` is its doing. The other reads hold no lock while they answer (the log is
copied under it first), and the answers of the requests that write are sent
after their locks are released, so that a client that does not read them holds
up nobody else; a request is `done` when its answer is ready to be sent.

### Allocator

Every operation holds the one lock, so it is one action. The linked list is a
sequence of headers, arithmetic is modulo `Word`, and `mmap` gives any free run
of pages or fails. After a wrapped size the code writes outside the block; the
model sets `wrapped` and stops there.

## 3. Runs

| Run | Configuration | Bounds | Shows |
|---|---|---|---|
| `ring` | `MCRingBuffer.cfg` | 3 slots, 2 items, 2 consumers, 5 pushes | refinement of `BoundedQueue`; no lost wakeup; timed waits end; items reach sleepers |
| `nic` | `MCNicModel.cfg` | 2 descriptors, 3 frames, 1 fault, 1 re-initialisation | refinement of `LossyLink`; no race; ownership cycle; interrupts; descriptors come back |
| `target_timing` | `MCTargetTiming.cfg` | ticks of 50 ms, the code's 200, 500, 900 and 100 ms; 1 freeze, 1 reset, 1 sample | stalls noticed within a period; no false stall at low rates; recovery and stop come |
| `target_races` | `MCTargetRaces.cfg` | any preemption; the smallest thresholds; 4 samples, 1 reset | no use after stop; counters related; recovery confirmed by the worker |
| `target_healthy` | `MCTargetHealthy.cfg` | as timing, no fault | **violated**, section 6 |
| `target_freeze` | `MCTargetFreeze.cfg` | as timing, 1 freeze, no sample | **violated**, section 6 |
| `datapath` | `MCDatapath.cfg` | 2 sessions of which 1 fits, sequence numbers modulo 4, 5 datagrams each, 4 deliveries between resets, 1 control request | no replay, no false replay, counters add up |
| `shell` | `MCShellJobs.cfg` | 2 process numbers, pipelines of at most 2, 3 lines, 2 stops | jobs count their own processes; no child forgotten; groups and terminal; the foreground wait and the cleanup after a failed fork end |
| `server` | `MCNetworkServer.cfg` | 2 clients, 2 lines typed, 1 client killed, chunks, pipe and limit of 2 bytes, a command of 1 byte that may read the terminal and one of 6 | output that is not cut is whole; buffer never overrun; no thread outlives main; answers arrive; shutdown ends |
| `target_server` | `MCTargetServer.cfg` | 2 clients, 3 frames, payloads of at most 2, damaged headers, lengths and CRCs | requests executed as sent and in order; what kills the service; it goes on or stops |
| `host` | `MCHostManagement.cfg` | any 3 concurrent requests, a log of 2 | log against host; model consistent; own outcome; every request ends unless it is behind a client that does not read |
| `allocator` | `MCAllocator.cfg` | words modulo 56, alignment 2, pages of 8, arenas of at least 16, 4 live blocks | tiling; statistics; grants; coalescing |

Why the bounds are enough. Three slots give a ring with a proper middle and
five pushes fill it and wrap it; two consumers are one that sleeps and one that
steals. Two descriptors make the cursors wrap and both rings run full within
three frames. The timing run keeps the ratios of the code's constants, and one
freeze of 18 ticks spans the threshold of 10. In the races run every heartbeat
older than zero ticks is a stall, so the watchdog can act between any two steps
of the others; four samples against a queue of one are one more than
`ProcessedBounded` allows to be processed unaccounted for, and its bound is
reached: with one less the run finds a violation. Five numbers modulo four wrap, and a datagram can be exactly
half the space old, the boundary of the code's comparison. With two process
numbers and three lines every later job reuses numbers, of finished jobs that
are still listed and of ended members of a job that still runs, and two stops
let a job be stopped, continued and stopped again. Two requests are enough for
one child to hold the other's pipe, for both to hold each other's, and for a
client to leave while another is served; six bytes against a limit of two are
cut, with and without room for the notice, depending on how the reads fall,
and what is left fills the pipe. In that run a chunk is as large as the limit,
so the buffer grows once at most; growth over several chunks is left to
`ServerBufferSafe`, which holds for every size. Three frames are a damaged one between two good ones.
Three requests are two that race and a lab reset between them, or one that
waits for another that waits behind a client; a log of two overflows. In 56 addresses there is room for three arenas, apart or side by
side, and the sizes include the largest before and the smallest after a wrap.
The proofs remove these
bounds for what they cover.

Deadlock is checked in every run except four, which may really stop: `datapath`
and `target_server` wait for clients for ever once these have stopped, and
`server` and `host` end; what must not wait for ever there is stated as liveness.

## 4. Fairness

- `ring`: weak fairness of a woken consumer's next step (it gets the mutex), of
  a passed deadline being noticed, and of time passing. Pushes, errors and
  spurious wakeups are never forced.
- `nic`: weak fairness of each step inside a call, and strong fairness of
  starting a poll and of starting a reclaim: both are called again and again, as
  `tests/test_nic_model.c` does in its loops, but neither can start while its
  thread is inside another call, so that weak fairness would not say it.
  Submitting, receiving and resets are not forced.
- `target_timing`: weak fairness of each thread and of the clock. Requests,
  failing thread creation and stop are not forced.
- `shell`: weak fairness of the shell's own steps, and of the end of a running
  program that SIGTERM was sent to (its default action). What the user types,
  and when programs end or stop, is not forced; a failing fork neither.
- `server`: weak fairness of the accept loop, of each thread and of each
  running command. Clients, signals and failing calls are not forced, so an
  idle client stays idle.
- `target_server`: weak fairness of the service's own steps; nothing is asked
  of clients.
- `host`: weak fairness of each of the controller's threads, which includes
  the time-out of its call; nothing is asked of the agent, nor of a client that
  an answer is being sent to. Weak fairness is enough for the locks: a request
  takes finitely many steps, so a lock that is released is in the end free.
- `datapath`, `target_races`, `allocator` and the violated runs check safety; they need none.

## 5. Proofs

Each module of proofs shows `Init => IInv`, `IInv /\ [Next]_vars => IInv'` and
what follows from IInv, for every value of the constants allowed by the named
assumptions of the component's module (positive sizes, finite sets; in
`Datapath` a half of the number space above 1; in `Allocator` what the code's
header of 40 bytes, unit of 16, page and arena of 64 KiB satisfy).

- **RingBuffer.** IInv adds to the types that `head` is `tail + count` round the
  ring, that the occupied slots hold items, that a consumer that waits has an
  unexpired or absent deadline, and the wakeup count. It is needed because the
  types alone do not say which slots the next pop reads. `RingImplementsQueue`
  maps the slots from tail on to the abstract queue and goes through push, pop
  and wait_pop; `DeadlineIsExact` is about deadline_from_now alone.
- **NicModel.** IInv adds to the types who owns the descriptor each side works
  on, the counters inside a poll, and that the poll's budget is capped. From it
  follow absence of races and, with a lemma on one step, `OwnershipCycle`. For
  `NicImplementsLink` this is not enough: `Layout` adds that the descriptors the
  device owns are exactly the segment of the ring from its cursor to the
  driver's submit cursor, and the received frames the segment from the driver's
  cursor to the device's. Lemmas on segments, for any ring, say what happens
  when the slot after one joins it (`SegmentGrows`: an Append) and when its
  first slot leaves it (`SegmentShrinks`: a Tail); each step of the two threads
  is then one step of `LossyLink` or none. A frame is pending until its fate is
  decided, one step before the descriptor is handed back.
- **TargetRuntime.** `Lives` relates the server's progress, `threads_started`
  and the joins to which threads exist; it gives `NoUseAfterStop`. `Counted`
  relates the two counters with the queue and the samples in flight.
  `StallKept` and `Stalled` say that between a stall and its confirmation only
  the worker's heartbeat makes an age fresh, unless a reset does: this gives
  `ConfirmedUnlessReset`. The two timing theorems assume `Prompt`, that no
  thread is preempted for a whole tick; without it they are false. `Watched`
  bounds the heartbeat's age plus what is left of the watchdog's sleep, and
  says that the age the watchdog has read is still an upper bound when it
  decides; a reset stores RUNNING at most one tick after its heartbeat, hence
  `Prompt => FaultAge >= 1` among the assumptions. `Beating` does the same with
  the worker's wait.
- **TargetServer** (in `TargetRuntimeProofs`, which extends both parts of the
  target). `Sendable` says what may be sent: requests that fit a frame, and damage, which
  begins where a header is due, whose frame has not the CRC of that frame, and
  whose CRCs were each computed over one frame at most. Without this the
  property is false: two pieces could together be a good frame, which the
  service rightly handles. `RoundTrip` is decode after encode. `Cut` says that
  a stream is the pieces not yet read, one after the other, by giving the end of
  each: a send adds an end (`FramedSend`), a read drops the first and moves the
  others (`FramedRead`), and no induction over the stream is needed.
  `ReadsNext` is the core: what a read accepts is the next piece, and an
  intact one; a length that reaches into the next piece makes the frame hold two
  headers, and no CRC that is sent covers two. `Answered`, `Leavers` and `Serving`
  count packets, answers and frames of a client: one that left has got all or
  was closed, or sent a single frame with a wrong CRC, so the service is never
  about to write to it. The invariant was checked with TLC first, on the run's
  instance with two frames.
- **Datapath.** `Window` says that the wire number kept for a session is that of
  the datagram it last accepted and that nothing on the way is more than Half
  behind. `SerialDistance` is the arithmetic: the difference modulo `2 * Half`
  of two numbers is their distance if the first is newer by less than Half, and
  0 or at least Half if it is older by at most Half.
- **ShellJobs.** `Listed` says that a child is in its job's list of numbers and
  in that of no newer job, which is why jobs_find_pid, searching the newest
  first, finds the right one although finished jobs keep their numbers.
  `Starting` identifies the children of the pipeline being started with those
  of the next id, so that jobs_add starts from the right count. `Groups` says
  that children share a group exactly when they share a job: a group number is
  taken as long as a member is not collected, so it cannot become another's.
- **NetworkServer.** `ActiveCounts` says that active_clients is the number of
  live threads; `Queue` says that a connection is in one place (backlog, accept
  loop or thread), without which a thread could be counted twice. `Buffer` says
  that while the buffer is filled its capacity is a number of chunks and more
  than it holds: since the limit is a number of chunks too, what is below the
  limit fits. `Output` adds up what is read, in the pipe and still to be written
  to the command's size, and says that a running child keeps the write end, so
  that the end of file comes after the last byte.
- **HostManagement.** `Job` and `Path` relate where a request is with where its
  call of the agent is, `Outcome` says that the host's lock is held from the
  change to the snapshot, `Locks` which Model locks a request holds. `Log` says
  that a log is the last numbers of its sequence, or lacks the one number whose
  taker still holds the lock. `Fresh` (Models made and requests running) shows
  that the numbers the model gives to Models never run out.
- **Allocator.** Until a size wraps, `Heap` says that no arithmetic wraps on a
  block (it starts at the second page at the earliest and ends within the address
  space, which is why the sum in split_block cannot wrap once the block was large
  enough), that every block ends before all later ones start, and that a byte is
  in a block exactly when it is in an arena. `Held` says that grants and
  allocated blocks correspond, `Loose` where two free blocks may touch. Loose
  has a parameter, the positions that are excepted: freeing the i-th block
  excepts i - 1 and i, merging with the next takes i out, merging with the block
  before takes i - 1 out, which is the order of the code. `Inserted`, `Split` and
  `Coalesced` say this of insert_sorted, split_block and coalesce_with_next for
  any list; that the block above a new arena starts an arena itself is in
  `Inserted`. `Aligned` and `Arena` bound the two roundings, so a size that wraps
  comes from a request at the top of size_t. That the statistics add up is
  `m = Bulk(l)` in `Whole`. `Sums` is the fold of the community modules as a
  function on the sets of positions, and `SumsAre`, `SumWithout`, `SumMoves` and
  `SumParts` are inductions on the number of positions, each over the set of the
  numbers for which it holds (`Induction`, from a least counterexample), which
  needs no operator parameter.

Some theorems state what no run repeats, because the proof covers every
instance: the type invariants, `RoundTrip`, `RingAccounting`, `NicOwnership`, `NicCounters`,
`NicOneShotFault`, `NicPollBounded` and `DatapathBounded`.

Checked by TLC only: all liveness (`TimedWaitReturns`, `ItemsReachSleepers`,
`TxComesBack`, `Recovers`, `StopReturns`, `ForegroundReturns`, `CleanupEnds`,
`AnswersArrive`, `ShutdownEnds`, `ServiceProgress`, `RequestsEnd`), since the
prover has no rules for fairness. Every invariant and action property of the
passing runs is proved.

## 6. Findings

1. **A healthy target can fault** (`target_healthy`). `target_core.c:110` reads
   the clock, then the heartbeat. A heartbeat stored in between is newer, the
   unsigned difference wraps, and the watchdog declares a stall and counts a
   recovery. `tests/test_target_runtime.c:17` asserts that none is counted.
2. **An acknowledged freeze can be lost** (`target_freeze`). One FAULT_INJECT is
   stored and acknowledged while the worker is inside wait_pop. When that times
   out, the worker's heartbeat falls between the two operands of
   `target_core.c:110`; the age wraps as in finding 1, and the store at `:117`,
   which releases a stall that is none, erases the freeze before the worker has
   loaded it. The worker never pauses, while `README.md:329` says that
   freeze-worker pauses processing until the watchdog detects a missed
   heartbeat. (The worker's own store at `:92` clears whatever freeze is there,
   too; the run does not need it.)

One disagreement among the documents has no run of its own, since two of the
three agree with the code. `docs/TEST_PLAN.md:53` of the network verification
lab says that the demo is without "resilience to sequence-number wrap-around;
sessions should be short-lived". The code compares modulo 2^32
(`datapath.cpp:136-139`) and a session goes on across the wrap, as the lab's
`README.md:103-105` promises and `tests/test_datapath.py:159` tests; `NoReplay`
and `NoFalseReplay` follow these, and the `datapath` run passes on the very case
that the plan excludes. How far the resilience goes is the assumption in `Send`:
no datagram is still on the way when more than `Half` newer ones of its session
have been sent. A copy that is older than that looks new again after the wrap.
Nothing in the code prevents this, and to that extent the plan's advice stands.

Limits that came up and that the properties state as exceptions; none
contradicts a document, or no run is spent on it:

- A reset during a recovery refreshes the heartbeat and stores RUNNING itself
  (`target_core.c:222`, `:224`); only without a reset is a recovery confirmed by
  the worker (`ConfirmedUnlessReset`).
- After a failed fork a stopped child does not act on SIGTERM (`shell.c:234`),
  and the wait at `shell.c:236` does not return (`CleanupEnds`). A foreground
  program that reads the terminal before `shell.c:291` hands it over is
  stopped; the prompt comes back and fg resumes it (`ForegroundReturns`).
- A command of the network server that reads the server's terminal is stopped
  for good. Two requests whose output is cut, each child holding the other's
  read end, wait for each other for ever: neither gets SIGPIPE, and the kill at
  `server.c:62` is handled, not obeyed (`Locked` in `AnswersArrive`).
- After SIGTERM the network server stays in accept until a next client comes
  and then waits for clients that idle (`ShutdownEnds`).
- The target service reads from a silent client without end; a stop signal
  between the test and accept4 waits for the next client; a client killed
  before its answer takes the service with it (`ServiceProgress`,
  `KilledByLostClient`).
- A host reset that was carried out too late is answered 503 and not logged
  (`AuditAgrees`). A BMC restart that overlaps a lab reset can be lost from the
  generation of the new model (`crossed` in `ModelConsistent`).
- A client that reads the controller's or its network's state and then stops
  reading the answer keeps the Model's lock; whoever needs that lock waits, and
  so do those who wait for them (`Behind` in `RequestsEnd`). The lab reset ends
  this for later requests, since they find another Model.
- At the limit the output of a command can be cut without the notice: it is
  appended only if the buffer happens to have room (`server.c:61`). The client
  then cannot tell a cut answer from a whole one; `OutputWhole` speaks of answers
  that were not cut.
- A request within a header and a unit of the top of size_t gets a small block
  (`GrantsHold`); an arena mapped next to another is not merged with a free
  block at its border until that block is freed again (`FullyCoalesced`).

## 7. Plan

Modelled: all that is listed above as a module. Every safety property of the
passing runs is proved; liveness stays with TLC. What could come next is code
that is not modelled yet, of which the transport of the AI networking lab and
the failing start of the rt demo have hazards of their own.

Not modelled, and why:

- shell history and expansion, `--script`, redirections: sequential, and no job
  depends on them; the parser is a pure function on characters;
- rt demo: the ring and threads of the target runtime again; its failing start
  returns without joins, which needs no model to be seen;
- event loop, virtual UART, loader, tracer, ELF parser: one thread around a
  kernel interface, or bounds checks and printing;
- firmware image: sequential formatting and a digest over a file;
- traffic lab: a test client of the datapath, whose model has freer senders;
- AI networking transport: whether it can block is a matter of the kernel's
  buffer sizes, which the code leaves alone;
- CLI, logger, common helpers, benchmarks, assembly and the fab yield project:
  dispatch, printing, timing and batch files.
