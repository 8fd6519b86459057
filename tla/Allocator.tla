------------------------------ MODULE Allocator ------------------------------
(***************************************************************************)
(* The first-fit allocator of allocator/allocator.c.                       *)
(*                                                                         *)
(* The doubly linked list of headers is the sequence list; every operation *)
(* holds allocator_lock from its first read of the list to its last write, *)
(* so it is one step whichever thread calls it.  Arithmetic on size_t and  *)
(* on addresses is modulo Word.  mmap is the kernel's: it gives any free   *)
(* run of pages, next to another arena or not, or fails.                   *)
(*                                                                         *)
(* The program frees only what it was given and only once.  A request      *)
(* whose size wraps writes outside the block (split_block), after which    *)
(* nothing is known: wrapped is set and the model stops.                   *)
(***************************************************************************)
EXTENDS Integers, Sequences, FiniteSets, SequencesExt

CONSTANTS Word,         \* size_t and addresses are modulo Word
          ALIGNMENT, ARENA_MIN, Page,
          HeaderSize,   \* sizeof(BlockHeader)
          Sizes,        \* sizes the program asks for
          MaxLive       \* blocks it holds at a time

ASSUME SizeAssumption ==
  /\ {Word, ALIGNMENT, ARENA_MIN, Page, HeaderSize} \subseteq Nat \ {0}
  /\ Page % ALIGNMENT = 0 /\ ARENA_MIN % Page = 0 /\ Word % Page = 0
  /\ HeaderSize + ALIGNMENT <= ARENA_MIN /\ ARENA_MIN < Word /\ ALIGNMENT < Page
  /\ Sizes \subseteq 0 .. Word - 1 /\ MaxLive \in Nat

VARIABLES list,         \* the headers from head on: [addr, size, free]
          mapped_bytes,
          arenas,       \* kernel: what mmap gave, [addr, total]
          live,         \* the program's blocks: [ptr, size], the size it asked for
          wrapped       \* a size has wrapped

vars == <<list, mapped_bytes, arenas, live, wrapped>>

mlrt_round_up(n, a) == (IF n % a = 0 THEN n ELSE n + (a - (n % a))) % Word
aligned_size(n) == mlrt_round_up(n, ALIGNMENT)
Header == aligned_size(HeaderSize)
Payload(b) == (b.addr + Header) % Word

Init == list = <<>> /\ mapped_bytes = 0 /\ arenas = {} /\ live = {} /\ wrapped = FALSE

-----------------------------------------------------------------------------
\* Fault: every new header becomes the head of the list.
InsertFirst(l, b) == <<b>> \o l
insert_sorted(l, b) ==
  LET n == Cardinality({i \in 1 .. Len(l) : l[i].addr < b.addr})
  IN  InsertAt(l, n + 1, b)

\* Fault: the first free block, whatever its size.
AnyFree(size) == {i \in 1 .. Len(list) : list[i].free}
find_fit(size) == {i \in 1 .. Len(list) : list[i].free /\ list[i].size >= size}

\* The pages of one arena, whose size may have wrapped.
ArenaTotal(size) ==
  LET total == (Header + size) % Word
  IN  mlrt_round_up(IF total < ARENA_MIN THEN ARENA_MIN ELSE total, Page)

FreeRun(addr, total) ==
  /\ total > 0 /\ addr % Page = 0 /\ addr > 0 /\ addr + total <= Word
  /\ \A a \in arenas : a.addr + a.total <= addr \/ addr + total <= a.addr

Splits(b, size) == b.size >= (size + Header + ALIGNMENT) % Word

\* split_block and free = 0, on the i-th header of l.
Taken(l, i, size) ==
  LET b == l[i]
      tail == [addr |-> (Payload(b) + size) % Word, free |-> TRUE,
               size |-> (b.size - size - Header) % Word]
  IN  IF Splits(b, size)
      THEN InsertAt([l EXCEPT ![i] = [@ EXCEPT !.size = size, !.free = FALSE]], i + 1, tail)
      ELSE [l EXCEPT ![i].free = FALSE]

\* split_block, and the block handed out.  It is a wrong one when rounding
\* wrapped, or the size of the arena did.
Give(l, i, n, size) ==
  /\ list' = Taken(l, i, size)
  /\ live' = live \cup {[ptr |-> Payload(l[i]), size |-> n]}
  /\ wrapped' = (size < n \/ size > l[i].size)

\* my_malloc from the list: the first block that fits.
MallocFit(n) ==
  LET size == aligned_size(n)
  IN  /\ ~wrapped /\ n > 0 /\ Cardinality(live) < MaxLive /\ find_fit(size) # {}
      /\ Give(list, Min(find_fit(size)), n, size)
      /\ UNCHANGED <<mapped_bytes, arenas>>

\* my_malloc with map_arena.
MallocMap(n) ==
  LET size == aligned_size(n)
      total == ArenaTotal(size)
  IN  /\ ~wrapped /\ n > 0 /\ Cardinality(live) < MaxLive /\ find_fit(size) = {}
      /\ \E addr \in {p \in 0 .. Word : FreeRun(p, total)} :
           LET b == [addr |-> addr, size |-> total - Header, free |-> TRUE]
               l == insert_sorted(list, b)
           IN  /\ Give(l, SelectInSeq(l, LAMBDA x : x = b), n, size)
               /\ arenas' = arenas \cup {[addr |-> addr, total |-> total]}
      /\ mapped_bytes' = mapped_bytes + total

\* my_malloc(0), or mmap fails: NULL.
MallocNull(n) == (n = 0 \/ find_fit(aligned_size(n)) = {}) /\ UNCHANGED vars

adjacent(a, b) == (a.addr + Header + a.size) % Word = b.addr

\* The list after coalesce_with_next on its i-th header.
coalesce_with_next(l, i) ==
  IF i < Len(l) /\ l[i + 1].free /\ adjacent(l[i], l[i + 1])
  THEN RemoveAt([l EXCEPT ![i].size = @ + Header + l[i + 1].size], i + 1)
  ELSE l

\* Fault: the block before is not looked at.
FreedForward(l, i) == l
FreedBackward(l, i) ==
  IF i > 1 /\ l[i - 1].free /\ adjacent(l[i - 1], l[i]) THEN coalesce_with_next(l, i - 1) ELSE l

my_free(p) ==
  LET i == SelectInSeq(list, LAMBDA b : Payload(b) = p.ptr)
      freed == [list EXCEPT ![i].free = TRUE]
  IN  /\ ~wrapped
      /\ list' = FreedBackward(coalesce_with_next(freed, i), i)
      /\ live' = live \ {p}
      /\ UNCHANGED <<mapped_bytes, arenas, wrapped>>

Next == \/ \E n \in Sizes : MallocFit(n) \/ MallocMap(n) \/ MallocNull(n)
        \/ \E p \in live : my_free(p)

Spec == Init /\ [][Next]_vars

-----------------------------------------------------------------------------
TypeOK ==
  /\ list \in Seq([addr : 0 .. Word - 1, size : 0 .. Word - 1, free : BOOLEAN])
  /\ mapped_bytes \in Nat /\ wrapped \in BOOLEAN
  /\ arenas \subseteq [addr : 0 .. Word - 1, total : 1 .. Word]
  /\ live \subseteq [ptr : 0 .. Word - 1, size : Sizes]

\* my_allocator_get_stats
my_allocator_get_stats ==
  LET Blocks(f) == {i \in 1 .. Len(list) : list[i].free = f}
      Sum(f) == MapThenSumSet(LAMBDA i : list[i].size, Blocks(f))
  IN  [mapped |-> mapped_bytes,
       allocated_blocks |-> Cardinality(Blocks(FALSE)), allocated_bytes |-> Sum(FALSE),
       free_blocks |-> Cardinality(Blocks(TRUE)), free_bytes |-> Sum(TRUE)]

Overflows(n) == n + ALIGNMENT + Header > Word
Bytes(b) == b.addr .. b.addr + Header + b.size - 1
Mapped == UNION {a.addr .. a.addr + a.total - 1 : a \in arenas}

\* The list is in address order, its blocks share no byte and with their
\* headers fill the arenas exactly, also where a block reaches across two
\* arenas that mmap put side by side (insert_sorted, split_block,
\* coalesce_with_next); and what my_allocator_get_stats reports adds up to
\* the bytes mapped.
HeapTiled ==
  ~wrapped =>
    /\ \A i \in 1 .. Len(list) - 1 : list[i].addr + Header + list[i].size <= list[i + 1].addr
    /\ UNION {Bytes(list[i]) : i \in 1 .. Len(list)} = Mapped
    /\ LET s == my_allocator_get_stats
       IN  s.mapped = s.allocated_bytes + s.free_bytes
                        + Header * (s.allocated_blocks + s.free_blocks)

\* What the program holds is exactly what the list calls allocated, aligned and
\* at least as large as it asked for; only a request within a header and a
\* unit of the top of size_t gets a block that is too small (lines 28 and 50).
GrantsHold ==
  /\ ~wrapped =>
       /\ \A p \in live : \E i \in 1 .. Len(list) :
            /\ Payload(list[i]) = p.ptr /\ ~list[i].free /\ list[i].size >= p.size
            /\ p.ptr % ALIGNMENT = 0
       /\ Cardinality(live) = my_allocator_get_stats.allocated_blocks
  /\ wrapped => \E p \in live : Overflows(p.size)

\* Free blocks that touch are always merged, but where an arena was mapped
\* next to another (lines 61 and 127 to 132).
FullyCoalesced ==
  ~wrapped =>
    \A i \in 1 .. Len(list) - 1 :
      list[i].free /\ list[i + 1].free /\ adjacent(list[i], list[i + 1])
        => \E a \in arenas : a.addr = list[i + 1].addr
=============================================================================
