--------------------------- MODULE AllocatorProofs ---------------------------
(***************************************************************************)
(* The allocator's list tiles its arenas, backs every grant and is merged  *)
(* as far as the code merges it, for every width, alignment and arena      *)
(* size, until a size has wrapped; and a size wraps only for a request at  *)
(* the top of size_t.                                                      *)
(***************************************************************************)
EXTENDS Allocator, FiniteSetTheorems, SequenceTheorems, WellFoundedInduction, TLAPS

Block == [addr : 0 .. Word - 1, size : 0 .. Word - 1, free : BOOLEAN]
End(b) == b.addr + Header + b.size

OnUnit(n) == n % ALIGNMENT = 0

\* A block the arithmetic of the code treats as one expects: nothing wraps on it.
Sound(b) == b.addr >= Page /\ OnUnit(b.addr) /\ b.size > 0 /\ End(b) <= Word
Fits(a) == a.addr >= Page /\ a.addr + a.total <= Word

Sorted(l) == \A i, j \in 1 .. Len(l) : i < j => End(l[i]) <= l[j].addr
Tiled(l, R) ==
  \A x \in 0 .. Word - 1 :
    (\E i \in 1 .. Len(l) : l[i].addr <= x /\ x < End(l[i]))
      <=> (\E a \in R : a.addr <= x /\ x < a.addr + a.total)

\* The list l covers the arenas R.
Heap(l, R) ==
  /\ l \in Seq(Block)
  /\ \A i \in 1 .. Len(l) : Sound(l[i])
  /\ Sorted(l)
  /\ Tiled(l, R)

\* The program holds V: the allocated blocks of l, each once.
Held(l, V) ==
  /\ \A p \in V : \E i \in 1 .. Len(l) :
       ~l[i].free /\ l[i].addr + Header = p.ptr /\ p.size <= l[i].size
  /\ \A i \in 1 .. Len(l) : ~l[i].free => \E p \in V : p.ptr = l[i].addr + Header
  /\ \A p, q \in V : p.ptr = q.ptr => p = q

\* Two free neighbours meet only where an arena of R starts, or at a position of N.
Loose(l, R, N) ==
  \A j \in 1 .. Len(l) - 1 :
    l[j].free /\ l[j + 1].free /\ End(l[j]) = l[j + 1].addr
      => j \in N \/ \E a \in R : a.addr = l[j + 1].addr

\* For every subset of S, the sum of the sizes at its positions in l.
Sums(l, S) ==
  CHOOSE g : g = [s \in SUBSET S |->
                    IF s = {} THEN 0 ELSE LET x == CHOOSE x \in s : TRUE
                                          IN  l[x].size + g[s \ {x}]]

\* The bytes of the blocks of l, and with their headers.
Total(l) == Sums(l, 1 .. Len(l))[1 .. Len(l)]
Bulk(l) == Total(l) + Header * Len(l)

\* The list l of a heap of m bytes in the arenas R, of which the program holds V.
Whole(l, R, V, m) == Heap(l, R) /\ Held(l, V) /\ Loose(l, R, {}) /\ m = Bulk(l)

IInv ==
  /\ TypeOK
  /\ \A a \in arenas : Fits(a)
  /\ wrapped => \E p \in live : Overflows(p.size)
  /\ ~wrapped => Whole(list, arenas, live, mapped_bytes)

-----------------------------------------------------------------------------
\* Arithmetic.

LEMMA Divide ==
  ASSUME NEW n \in Nat, NEW a \in Nat \ {0}
  PROVE  \E q \in Nat : n = a * q + (n % a) /\ n % a \in 0 .. a - 1
<1>1. n % a \in 0 .. a - 1  BY SMT
<1>2. n = a * (n \div a) + (n % a) /\ n \div a \in Nat  BY SMT
<1> QED  BY <1>1, <1>2

LEMMA Multiple ==
  ASSUME NEW a \in Nat \ {0}, NEW q \in Nat
  PROVE  (a * q) % a = 0
<1>1. PICK n \in Nat : n = a * q  BY SMT
<1>2. PICK p \in Nat : n = a * p + (n % a) /\ n % a \in 0 .. a - 1  BY Divide
<1>3. PICK r \in 0 .. a - 1 : r = n % a  BY <1>2
<1>4. a * (q - p) = r  BY <1>1, <1>2, <1>3, SMT
<1>5. CASE q - p = 0  BY <1>1, <1>3, <1>4, <1>5, SMT
<1>6. CASE q - p >= 1
  <2>1. a * (q - p) >= a  BY <1>6, SMT
  <2> QED  BY <1>4, <2>1, SMT
<1>7. CASE q - p <= -1
  <2>1. a * (q - p) <= -a  BY <1>7, SMT
  <2> QED  BY <1>4, <2>1, SMT
<1> QED  BY <1>5, <1>6, <1>7, SMT

LEMMA SumMultiple ==
  ASSUME NEW a \in Nat \ {0}, NEW m \in Nat, NEW n \in Nat, m % a = 0, n % a = 0
  PROVE  (m + n) % a = 0
<1>1. PICK p \in Nat : m = a * p + (m % a)  BY Divide
<1>2. PICK q \in Nat : n = a * q + (n % a)  BY Divide
<1>3. m + n = a * (p + q)  BY <1>1, <1>2, SMT
<1>4. PICK r \in Nat : r = p + q  BY SMT
<1>5. (a * r) % a = 0  BY Multiple
<1> QED  BY <1>3, <1>4, <1>5

LEMMA MultipleOfMultiple ==
  ASSUME NEW a \in Nat \ {0}, NEW b \in Nat \ {0}, NEW n \in Nat, n % b = 0, b % a = 0
  PROVE  n % a = 0
<1>1. PICK p \in Nat : n = b * p + (n % b)  BY Divide
<1>2. PICK q \in Nat : b = a * q + (b % a)  BY Divide
<1>3. n = b * p /\ b = a * q  BY <1>1, <1>2, SMT
<1>4. n = a * (q * p)  BY <1>3, SMT
<1>5. PICK r \in Nat : r = q * p  BY SMT
<1>6. (a * r) % a = 0  BY Multiple
<1> QED  BY <1>4, <1>5, <1>6

LEMMA Below ==
  ASSUME NEW a \in Nat \ {0}, NEW n \in 0 .. a - 1
  PROVE  n % a = n
BY SMT

\* n rounded up to a multiple of a, in unbounded arithmetic.
Up(n, a) == IF n % a = 0 THEN n ELSE n + (a - (n % a))

LEMMA UpIs ==
  ASSUME NEW n \in Nat, NEW a \in Nat \ {0}
  PROVE  Up(n, a) \in Nat /\ n <= Up(n, a) /\ Up(n, a) < n + a /\ Up(n, a) % a = 0
<1>1. PICK q \in Nat : n = a * q + (n % a) /\ n % a \in 0 .. a - 1  BY Divide
<1>2. PICK r \in 0 .. a - 1 : r = n % a  BY <1>1
<1>3. CASE r = 0  BY <1>2, <1>3 DEF Up
<1>4. CASE r # 0
  <2>1. Up(n, a) = n + (a - r)  BY <1>2, <1>4 DEF Up
  <2>2. n + (a - r) = a * (q + 1)  BY <1>1, <1>2, SMT
  <2>3. PICK p \in Nat : p = q + 1  BY SMT
  <2>4. (a * p) % a = 0  BY Multiple
  <2>5. Up(n, a) % a = 0  BY <2>1, <2>2, <2>3, <2>4
  <2> QED  BY <1>4, <2>1, <2>5, SMT
<1> QED  BY <1>3, <1>4

\* Rounding a number of bytes within the address space up to a page stays within it.
LEMMA UpWithin ==
  ASSUME NEW a \in Nat \ {0}, NEW w \in Nat, w % a = 0, NEW n \in 0 .. w
  PROVE  Up(n, a) <= w
<1>1. PICK u \in Nat : u = Up(n, a) /\ u < n + a /\ u % a = 0  BY UpIs
<1>2. PICK p \in Nat : u = a * p + (u % a)  BY Divide
<1>3. PICK q \in Nat : w = a * q + (w % a)  BY Divide
<1>4. u = a * p /\ w = a * q
  <2>1. u = a * p  BY <1>1, <1>2, SMT
  <2>2. w = a * q  BY <1>3, SMT
  <2> QED  BY <2>1, <2>2
<1>5. a * p < a * q + a  BY <1>1, <1>4, SMT
<1>6. CASE p <= q
  <2>1. a * p <= a * q  BY <1>6, SMT
  <2> QED  BY <1>1, <1>4, <2>1
<1>7. CASE p >= q + 1
  <2>1. a * p >= a * (q + 1)  BY <1>7, SMT
  <2>2. a * (q + 1) = a * q + a  BY SMT
  <2> QED  BY <1>5, <2>1, <2>2, SMT
<1> QED  BY <1>6, <1>7, SMT

LEMMA Constant ==
  /\ Word \in Nat \ {0} /\ ALIGNMENT \in Nat \ {0} /\ Page \in Nat \ {0}
  /\ ARENA_MIN \in Nat \ {0} /\ ARENA_MIN < Word /\ ALIGNMENT < Page
  /\ Header \in Nat /\ 0 < Header /\ Header < ARENA_MIN /\ OnUnit(Header)
<1>1. /\ Word \in Nat \ {0} /\ ALIGNMENT \in Nat \ {0} /\ Page \in Nat \ {0}
      /\ ARENA_MIN \in Nat \ {0} /\ HeaderSize \in Nat \ {0}
  BY SizeAssumption
<1>2. ARENA_MIN < Word /\ ALIGNMENT < Page /\ HeaderSize + ALIGNMENT <= ARENA_MIN
  BY SizeAssumption
<1>3. PICK u \in Nat : /\ u = Up(HeaderSize, ALIGNMENT) /\ HeaderSize <= u
                       /\ u < HeaderSize + ALIGNMENT /\ u % ALIGNMENT = 0
  BY <1>1, UpIs
<1>4. u \in 0 .. Word - 1  BY <1>1, <1>2, <1>3, SMT
<1>5. u % Word = u  BY <1>1, <1>4, Below
<1>6. Header = u  BY <1>3, <1>5 DEF Header, aligned_size, mlrt_round_up, Up
<1>7. 0 < u /\ u < ARENA_MIN  BY <1>1, <1>2, <1>3, SMT
<1> QED  BY <1>1, <1>2, <1>3, <1>6, <1>7 DEF OnUnit

\* aligned_size: too small only when the request is at the top of size_t.
LEMMA Aligned ==
  ASSUME NEW n \in 1 .. Word - 1
  PROVE  /\ aligned_size(n) \in 0 .. Word - 1 /\ aligned_size(n) < n + ALIGNMENT
         /\ aligned_size(n) >= n => OnUnit(aligned_size(n))
         /\ aligned_size(n) < n => n + ALIGNMENT >= Word
<1>0. n \in Nat /\ ALIGNMENT \in Nat \ {0}  BY Constant
<1>1. PICK u \in Nat : /\ u = Up(n, ALIGNMENT) /\ n <= u /\ u < n + ALIGNMENT
                       /\ OnUnit(u)
  BY <1>0, UpIs DEF OnUnit
<1>2. aligned_size(n) = u % Word  BY <1>1 DEF aligned_size, mlrt_round_up, Up
<1>3. CASE u < Word
  <2>1. u % Word = u  BY <1>3, Constant, Below
  <2> QED  BY <1>1, <1>2, <1>3, <2>1, Constant
<1>4. CASE u >= Word
  <2>1. ALIGNMENT < Word
    <3>1. Page <= Word
      <4>1. Word % Page = 0  BY SizeAssumption
      <4>2. CASE Word < Page
        <5>1. Word % Page = Word  BY <4>2, Constant, Below
        <5> QED  BY <4>1, <5>1, Constant
      <4> QED  BY <4>2, Constant, SMT
    <3> QED  BY <3>1, Constant, SMT
  <2>2. PICK r \in 0 .. Word - 1 : r = u - Word  BY <1>1, <1>4, <2>1, Constant, SMT
  <2>3. u % Word = r
    <3>1. (r + Word) % Word = r  BY Constant, SMT
    <3> QED  BY <2>2, <3>1, <1>1, Constant, SMT
  <2>4. r < n /\ n + ALIGNMENT >= Word  BY <1>1, <1>4, <2>1, <2>2, Constant, SMT
  <2> QED  BY <1>2, <2>3, <2>4, Constant
<1> QED  BY <1>1, <1>3, <1>4, Constant, SMT

\* The size of an arena that mmap can give: large enough unless the sum wrapped.
LEMMA Arena ==
  ASSUME NEW s \in 0 .. Word - 1, ArenaTotal(s) > 0
  PROVE  /\ ArenaTotal(s) \in 1 .. Word - 1 /\ ARENA_MIN <= ArenaTotal(s)
         /\ Header + s < Word => Header + s <= ArenaTotal(s)
<1> DEFINE t == (Header + s) % Word
           x == IF t < ARENA_MIN THEN ARENA_MIN ELSE t
<1>1. t \in 0 .. Word - 1
  <2>1. Header + s \in Nat  BY Constant
  <2> QED  BY <2>1, Constant, SMT
<1>2. x \in 0 .. Word /\ x \in Nat /\ ARENA_MIN <= x /\ t <= x  BY <1>1, Constant
<1>3. Header + s < Word => t = Header + s
  <2>1. Header + s < Word => Header + s \in 0 .. Word - 1  BY Constant, SMT
  <2> QED  BY <2>1, Constant, Below
<1>4. ArenaTotal(s) = Up(x, Page) % Word  BY DEF ArenaTotal, mlrt_round_up, Up
<1> HIDE DEF t, x
<1>5. PICK u \in Nat : u = Up(x, Page) /\ x <= u  BY <1>2, Constant, UpIs
<1>6. u <= Word
  <2>1. Word % Page = 0  BY SizeAssumption
  <2> QED  BY <1>2, <1>5, <2>1, Constant, UpWithin
<1>7. CASE u = Word
  <2>1. Word % Word = 0  BY Constant, SMT
  <2> QED  BY <1>4, <1>5, <1>7, <2>1
<1>8. CASE u < Word
  <2>1. u % Word = u  BY <1>8, Constant, Below
  <2>2. ArenaTotal(s) = u  BY <1>4, <1>5, <2>1
  <2> QED  BY <1>1, <1>2, <1>3, <1>5, <1>8, <2>2, Constant, SMT
<1> QED  BY <1>6, <1>7, <1>8, Constant, SMT

\* Nothing wraps on a sound block.
LEMMA PayloadIs ==
  ASSUME NEW b \in Block, Sound(b)
  PROVE  /\ Payload(b) = b.addr + Header /\ Payload(b) \in 0 .. Word - 1
         /\ OnUnit(Payload(b))
<1>1. b.addr \in Nat /\ b.size \in Nat  BY Constant DEF Block
<1>2. b.addr + Header \in 0 .. Word - 1  BY <1>1, Constant DEF Sound, End
<1>3. (b.addr + Header) % Word = b.addr + Header  BY <1>2, Constant, Below
<1>4. OnUnit(b.addr + Header)  BY <1>1, Constant, SumMultiple DEF Sound, OnUnit
<1> QED  BY <1>2, <1>3, <1>4 DEF Payload

LEMMA AdjacentIs ==
  ASSUME NEW b \in Block, NEW c \in Block, Sound(b), Sound(c)
  PROVE  adjacent(b, c) <=> End(b) = c.addr
<1>1. /\ End(b) \in 0 .. Word /\ c.addr \in 1 .. Word - 1
  BY Constant DEF Block, Sound, End
<1>2. CASE End(b) = Word
  <2>1. Word % Word = 0  BY Constant, SMT
  <2> QED  BY <1>1, <1>2, <2>1 DEF adjacent, End
<1>3. CASE End(b) \in 0 .. Word - 1
  <2>1. End(b) % Word = End(b)  BY <1>3, Constant, Below
  <2> QED  BY <2>1 DEF adjacent, End
<1> QED  BY <1>1, <1>2, <1>3, Constant, SMT

-----------------------------------------------------------------------------
\* Sequences and indices.

LEMMA InsertIs ==
  ASSUME NEW S, NEW l \in Seq(S), NEW k \in 1 .. Len(l) + 1, NEW e \in S
  PROVE  /\ InsertAt(l, k, e) \in Seq(S) /\ Len(InsertAt(l, k, e)) = Len(l) + 1
         /\ \A j \in 1 .. Len(l) + 1 :
              InsertAt(l, k, e)[j] = IF j < k THEN l[j] ELSE IF j = k THEN e ELSE l[j - 1]
<1>0. Len(l) \in Nat /\ \A j \in 1 .. Len(l) : l[j] \in S  BY LenProperties, ElementOfSeq
<1> DEFINE a == SubSeq(l, 1, k - 1)
           c == SubSeq(l, k, Len(l))
<1>1. a \in Seq(S) /\ Len(a) = k - 1 /\ \A j \in 1 .. k - 1 : a[j] = l[j]
  <2>1. /\ a \in Seq(S) /\ Len(a) = (IF 1 <= k - 1 THEN (k - 1) - 1 + 1 ELSE 0)
        /\ \A j \in 1 .. (k - 1) - 1 + 1 : a[j] = l[1 + j - 1]
    BY <1>0, SubSeqProperties
  <2> QED  BY <2>1
<1>2. /\ c \in Seq(S) /\ Len(c) = Len(l) - k + 1
      /\ \A j \in 1 .. Len(l) - k + 1 : c[j] = l[k + j - 1]
  <2>1. /\ c \in Seq(S) /\ Len(c) = (IF k <= Len(l) THEN Len(l) - k + 1 ELSE 0)
        /\ \A j \in 1 .. Len(l) - k + 1 : c[j] = l[k + j - 1]
    BY <1>0, SubSeqProperties
  <2> QED  BY <1>0, <2>1
<1>3. <<e>> \in Seq(S) /\ Len(<<e>>) = 1 /\ <<e>>[1] = e  OBVIOUS
<1> DEFINE d == a \o <<e>>
<1> HIDE DEF a, c
<1>4. /\ d \in Seq(S) /\ Len(d) = k
      /\ \A j \in 1 .. k : d[j] = IF j < k THEN l[j] ELSE e
  <2>1. /\ d \in Seq(S) /\ Len(d) = Len(a) + Len(<<e>>)
        /\ \A j \in 1 .. Len(a) + Len(<<e>>) :
             d[j] = IF j <= Len(a) THEN a[j] ELSE <<e>>[j - Len(a)]
    BY <1>1, <1>3, ConcatProperties
  <2> QED  BY <1>1, <1>3, <2>1
<1> HIDE DEF d
<1>5. /\ d \o c \in Seq(S) /\ Len(d \o c) = Len(d) + Len(c)
      /\ \A j \in 1 .. Len(d) + Len(c) :
           (d \o c)[j] = IF j <= Len(d) THEN d[j] ELSE c[j - Len(d)]
  BY <1>2, <1>4, ConcatProperties
<1>6. InsertAt(l, k, e) = d \o c  BY DEF InsertAt, a, c, d
<1>7. Len(d) + Len(c) = Len(l) + 1  BY <1>0, <1>2, <1>4
<1>8. ASSUME NEW j \in 1 .. Len(l) + 1
      PROVE  (d \o c)[j] = IF j < k THEN l[j] ELSE IF j = k THEN e ELSE l[j - 1]
  <2>1. (d \o c)[j] = IF j <= k THEN d[j] ELSE c[j - k]  BY <1>4, <1>5, <1>7
  <2>2. CASE j <= k  BY <1>4, <2>1, <2>2
  <2>3. CASE j > k
    <3>1. j - k \in 1 .. Len(l) - k + 1 /\ k + (j - k) - 1 = j - 1  BY <1>0, <2>3
    <3>2. c[j - k] = l[j - 1]  BY <1>2, <3>1
    <3> QED  BY <2>1, <2>3, <3>2
  <2>4. j <= k \/ j > k  BY <1>0
  <2> QED  BY <2>2, <2>3, <2>4
<1> QED  BY <1>5, <1>6, <1>7, <1>8

LEMMA RemoveIs ==
  ASSUME NEW S, NEW l \in Seq(S), NEW k \in 1 .. Len(l)
  PROVE  /\ RemoveAt(l, k) \in Seq(S) /\ Len(RemoveAt(l, k)) = Len(l) - 1
         /\ \A j \in 1 .. Len(l) - 1 :
              RemoveAt(l, k)[j] = IF j < k THEN l[j] ELSE l[j + 1]
<1>0. Len(l) \in Nat /\ \A j \in 1 .. Len(l) : l[j] \in S  BY LenProperties, ElementOfSeq
<1> DEFINE a == SubSeq(l, 1, k - 1)
           c == SubSeq(l, k + 1, Len(l))
<1>1. a \in Seq(S) /\ Len(a) = k - 1 /\ \A j \in 1 .. k - 1 : a[j] = l[j]
  <2>1. /\ a \in Seq(S) /\ Len(a) = (IF 1 <= k - 1 THEN (k - 1) - 1 + 1 ELSE 0)
        /\ \A j \in 1 .. (k - 1) - 1 + 1 : a[j] = l[1 + j - 1]
    BY <1>0, SubSeqProperties
  <2> QED  BY <2>1
<1>2. /\ c \in Seq(S) /\ Len(c) = Len(l) - k
      /\ \A j \in 1 .. Len(l) - k : c[j] = l[k + j]
  <2>1. /\ c \in Seq(S) /\ Len(c) = (IF k + 1 <= Len(l) THEN Len(l) - (k + 1) + 1 ELSE 0)
        /\ \A j \in 1 .. Len(l) - (k + 1) + 1 : c[j] = l[(k + 1) + j - 1]
    BY <1>0, SubSeqProperties
  <2> QED  BY <1>0, <2>1
<1> HIDE DEF a, c
<1>3. /\ a \o c \in Seq(S) /\ Len(a \o c) = Len(a) + Len(c)
      /\ \A j \in 1 .. Len(a) + Len(c) :
           (a \o c)[j] = IF j <= Len(a) THEN a[j] ELSE c[j - Len(a)]
  BY <1>1, <1>2, ConcatProperties
<1>4. RemoveAt(l, k) = a \o c  BY DEF RemoveAt, a, c
<1>5. Len(a) + Len(c) = Len(l) - 1  BY <1>0, <1>1, <1>2
<1>6. ASSUME NEW j \in 1 .. Len(l) - 1
      PROVE  (a \o c)[j] = IF j < k THEN l[j] ELSE l[j + 1]
  <2>1. (a \o c)[j] = IF j <= k - 1 THEN a[j] ELSE c[j - (k - 1)]  BY <1>1, <1>3, <1>5
  <2>2. CASE j < k  BY <1>1, <2>1, <2>2
  <2>3. CASE j >= k
    <3>1. j - (k - 1) \in 1 .. Len(l) - k /\ k + (j - (k - 1)) = j + 1  BY <1>0, <2>3
    <3>2. c[j - (k - 1)] = l[j + 1]  BY <1>2, <3>1
    <3> QED  BY <2>1, <2>3, <3>2
  <2>4. j < k \/ j >= k  BY <1>0
  <2> QED  BY <2>2, <2>3, <2>4
<1> QED  BY <1>3, <1>4, <1>5, <1>6

LEMMA MinIs ==
  ASSUME NEW T, T \subseteq Nat, T # {}
  PROVE  Min(T) \in T /\ \A y \in T : Min(T) <= y
<1> DEFINE R == {ss \in Nat \X Nat : ss[1] < ss[2]}
<1>1. IsWellFoundedOn(R, Nat)
  <2>1. R = OpToRel(<, Nat)  BY DEF OpToRel
  <2> QED  BY <2>1, NatLessThanWellFounded, Zenon
<1>2. PICK x \in T : \A y \in T : ~(<<y, x>> \in R)
  <2> HIDE DEF R
  <2> QED  BY <1>1, WFMin, Zenon
<1>3. \A y \in T : x <= y
  <2>1. ASSUME NEW y \in T PROVE ~(y < x)
    <3>1. y \in Nat /\ x \in Nat  OBVIOUS
    <3>2. ~(<<y, x>> \in R)  BY <1>2
    <3> QED  BY <3>1, <3>2
  <2> QED  BY <2>1
<1> QED  BY <1>3 DEF Min

LEMMA FoundIs ==
  ASSUME NEW l, Len(l) \in Nat, NEW b, \E i \in 1 .. Len(l) : l[i] = b
  PROVE  LET k == SelectInSeq(l, LAMBDA x : x = b)
         IN  k \in 1 .. Len(l) /\ l[k] = b
<1> DEFINE I == {i \in 1 .. Len(l) : l[i] = b}
<1>1. I \subseteq Nat /\ I # {}  OBVIOUS
<1>2. SelectInSeq(l, LAMBDA x : x = b) = Min(I)  BY <1>1 DEF SelectInSeq
<1>3. Min(I) \in I  BY <1>1, MinIs
<1> QED  BY <1>2, <1>3

-----------------------------------------------------------------------------
\* Sums over sets of positions, as my_allocator_get_stats forms them.  Every
\* induction here is on the number of positions, by a least counterexample.

Pick(s) == CHOOSE x \in s : TRUE

\* A property of numbers that holds for 0 and is passed on holds for all.
LEMMA Induction ==
  ASSUME NEW G, 0 \in G, \A n \in Nat : n \in G => n + 1 \in G
  PROVE  Nat \subseteq G
<1> DEFINE Bad == {n \in Nat : n \notin G}
<1>1. SUFFICES ASSUME Bad # {} PROVE FALSE  OBVIOUS
<1>2. PICK m \in Bad : \A y \in Bad : m <= y
  <2>1. Bad \subseteq Nat  OBVIOUS
  <2> HIDE DEF Bad
  <2>2. Min(Bad) \in Bad /\ \A y \in Bad : Min(Bad) <= y  BY <1>1, <2>1, MinIs
  <2> QED  BY <2>2
<1>3. m # 0 /\ m \in Nat  OBVIOUS
<1>4. m - 1 \in Nat /\ m - 1 \notin Bad  BY <1>2, <1>3
<1>5. (m - 1) + 1 \in G  BY <1>4
<1> QED  BY <1>3, <1>5

LEMMA Counted ==
  ASSUME NEW S, IsFiniteSet(S), NEW s \in SUBSET S
  PROVE  /\ Cardinality(s) \in Nat /\ (Cardinality(s) = 0 <=> s = {})
         /\ Cardinality(s) <= Cardinality(S)
         /\ \A x \in s : Cardinality(s \ {x}) = Cardinality(s) - 1
<1>1. IsFiniteSet(s) /\ Cardinality(s) <= Cardinality(S)  BY FS_Subset
<1>2. Cardinality(s) \in Nat  BY <1>1, FS_CardinalityType
<1>3. Cardinality(s) = 0 <=> s = {}  BY <1>1, FS_EmptySet
<1>4. \A x \in s : Cardinality(s \ {x}) = Cardinality(s) - 1  BY <1>1, FS_RemoveElement
<1> QED  BY <1>1, <1>2, <1>3, <1>4

Sized(l, S) == IsFiniteSet(S) /\ \A x \in S : l[x].size \in Nat

\* g adds up the sizes one by one.
Steps(g, l, S) == \A s \in SUBSET S : s # {} => \E z \in s : g[s] = l[z].size + g[s \ {z}]

LEMMA SumsAre ==
  ASSUME NEW l, NEW S, Sized(l, S)
  PROVE  /\ Sums(l, S) \in [SUBSET S -> Nat]
         /\ Sums(l, S)[{}] = 0
         /\ Steps(Sums(l, S), l, S)
<1> USE DEF Sized
<1> DEFINE Small(n) == {s \in SUBSET S : Cardinality(s) <= n}
           Step(f, s) == IF s = {} THEN 0 ELSE l[Pick(s)].size + f[s \ {Pick(s)}]
           Good(n) == \E f \in [Small(n) -> Nat] : \A s \in Small(n) : f[s] = Step(f, s)
           G == {n \in Nat : Good(n)}
<1>1. ASSUME NEW s \in SUBSET S
      PROVE  /\ Cardinality(s) \in Nat /\ (Cardinality(s) = 0 <=> s = {})
             /\ Cardinality(s) <= Cardinality(S)
             /\ \A x \in s : Cardinality(s \ {x}) = Cardinality(s) - 1
  BY Counted
<1>2. ASSUME NEW s \in SUBSET S, s # {}
      PROVE  /\ Pick(s) \in s /\ l[Pick(s)].size \in Nat /\ s \ {Pick(s)} \in SUBSET S
             /\ Cardinality(s \ {Pick(s)}) = Cardinality(s) - 1
  <2>1. Pick(s) \in s  BY <1>2 DEF Pick
  <2> QED  BY <1>1, <2>1
<1>3. Good(0)
  <2> DEFINE f == [s \in Small(0) |-> 0]
  <2>1. \A s \in Small(0) : s = {}  BY <1>1
  <2>2. f \in [Small(0) -> Nat] /\ \A s \in Small(0) : f[s] = Step(f, s)  BY <2>1
  <2> QED  BY <2>2
<1>4. ASSUME NEW n \in Nat, Good(n) PROVE Good(n + 1)
  <2>1. PICK f \in [Small(n) -> Nat] : \A s \in Small(n) : f[s] = Step(f, s)  BY <1>4
  <2> DEFINE e == [s \in Small(n + 1) |-> Step(f, s)]
  <2>2. ASSUME NEW s \in Small(n + 1), s # {}
        PROVE  /\ Pick(s) \in s /\ l[Pick(s)].size \in Nat
               /\ s \ {Pick(s)} \in Small(n) /\ s \ {Pick(s)} \in Small(n + 1)
    <3>1. /\ Pick(s) \in s /\ l[Pick(s)].size \in Nat /\ s \ {Pick(s)} \in SUBSET S
          /\ Cardinality(s \ {Pick(s)}) = Cardinality(s) - 1
      BY <1>2, <2>2
    <3>2. Cardinality(s) \in Nat /\ Cardinality(s) <= n + 1  BY <1>1
    <3>3. Cardinality(s \ {Pick(s)}) <= n /\ Cardinality(s \ {Pick(s)}) <= n + 1
      BY <3>1, <3>2
    <3> QED  BY <3>1, <3>3
  <2>3. \A s \in Small(n) : s \in Small(n + 1)  BY <1>1
  <2>4. ASSUME NEW s \in Small(n + 1) PROVE e[s] = Step(f, s) /\ e[s] \in Nat
    <3>1. e[s] = Step(f, s)  OBVIOUS
    <3>2. CASE s = {}  BY <3>1, <3>2
    <3>3. CASE s # {}
      <4>1. f[s \ {Pick(s)}] \in Nat /\ l[Pick(s)].size \in Nat  BY <2>1, <2>2, <3>3
      <4> HIDE DEF e
      <4> QED  BY <3>1, <3>3, <4>1
    <3> QED  BY <3>2, <3>3
  <2>5. e \in [Small(n + 1) -> Nat]  BY <2>4
  <2>6. ASSUME NEW s \in Small(n + 1) PROVE e[s] = Step(e, s)
    <3>1. CASE s = {}  BY <2>4, <3>1
    <3>2. CASE s # {}
      <4>1. s \ {Pick(s)} \in Small(n) /\ s \ {Pick(s)} \in Small(n + 1)  BY <2>2, <3>2
      <4>2. e[s \ {Pick(s)}] = f[s \ {Pick(s)}]
        <5> HIDE DEF e, Step, Small
        <5> QED  BY <2>1, <2>4, <4>1
      <4>3. e[s] = Step(f, s)  BY <2>4
      <4> HIDE DEF e
      <4> QED  BY <3>2, <4>2, <4>3
    <3> QED  BY <3>1, <3>2
  <2> HIDE DEF e, Small, Step
  <2> QED  BY <2>5, <2>6
<1>5. Good(Cardinality(S))
  <2>1. Nat \subseteq G
    <3>1. 0 \in G /\ \A n \in Nat : n \in G => n + 1 \in G
      <4> HIDE DEF Good
      <4> QED  BY <1>3, <1>4
    <3> HIDE DEF G
    <3> QED  BY <3>1, Induction
  <2>2. Cardinality(S) \in Nat  BY <1>1
  <2> HIDE DEF Good
  <2> QED  BY <2>1, <2>2
<1>6. Small(Cardinality(S)) = SUBSET S  BY <1>1
<1>7. PICK f \in [SUBSET S -> Nat] : \A s \in SUBSET S : f[s] = Step(f, s)
  <2> HIDE DEF Small, Step
  <2> QED  BY <1>5, <1>6
<1>8. f = [s \in SUBSET S |->
             IF s = {} THEN 0 ELSE LET x == CHOOSE x \in s : TRUE IN l[x].size + f[s \ {x}]]
  BY <1>7 DEF Pick
<1>9. Sums(l, S) = [s \in SUBSET S |->
             IF s = {} THEN 0 ELSE LET x == CHOOSE x \in s : TRUE
                                   IN  l[x].size + Sums(l, S)[s \ {x}]]
  BY <1>8, Zenon DEF Sums
<1>10. \A s \in SUBSET S : Sums(l, S)[s] = Step(Sums(l, S), s)  BY <1>9 DEF Pick
<1>11. \A s \in SUBSET S : Sums(l, S)[s] \in Nat
  <2> DEFINE H == {n \in Nat : \A s \in SUBSET S : Cardinality(s) = n => Sums(l, S)[s] \in Nat}
  <2>1. 0 \in H  BY <1>1, <1>10
  <2>2. ASSUME NEW n \in Nat, n \in H PROVE n + 1 \in H
    <3>1. SUFFICES ASSUME NEW s \in SUBSET S, Cardinality(s) = n + 1 PROVE Sums(l, S)[s] \in Nat
      OBVIOUS
    <3>2. s # {}  BY <1>1, <3>1
    <3>3. Cardinality(s \ {Pick(s)}) = n /\ s \ {Pick(s)} \in SUBSET S /\ l[Pick(s)].size \in Nat
      BY <1>2, <3>1, <3>2
    <3>4. Sums(l, S)[s \ {Pick(s)}] \in Nat  BY <2>2, <3>3
    <3>5. Sums(l, S)[s] = l[Pick(s)].size + Sums(l, S)[s \ {Pick(s)}]  BY <1>10, <3>2
    <3> QED  BY <3>3, <3>4, <3>5
  <2>3. Nat \subseteq H
    <3> HIDE DEF H
    <3> QED  BY <2>1, <2>2, Induction
  <2> QED  BY <1>1, <2>3
<1>12. Sums(l, S) \in [SUBSET S -> Nat]
  <2>1. Sums(l, S) = [s \in SUBSET S |-> Sums(l, S)[s]]  BY <1>9
  <2> QED  BY <1>11, <2>1
<1>13. ASSUME NEW s \in SUBSET S, s # {}
       PROVE  \E z \in s : Sums(l, S)[s] = l[z].size + Sums(l, S)[s \ {z}]
  BY <1>2, <1>10, <1>13
<1>14. Sums(l, S)[{}] = 0  BY <1>10
<1> QED  BY <1>12, <1>13, <1>14 DEF Steps

\* Any position can be taken out of a sum, not only the one picked.
LEMMA SumWithout ==
  ASSUME NEW l, NEW S, Sized(l, S), NEW s \in SUBSET S, NEW x \in s
  PROVE  Sums(l, S)[s] = l[x].size + Sums(l, S)[s \ {x}]
<1> DEFINE g == Sums(l, S)
           H == {n \in Nat : \A r \in SUBSET S : Cardinality(r) = n =>
                               \A y \in r : g[r] = l[y].size + g[r \ {y}]}
<1>0. IsFiniteSet(S) /\ \A y \in S : l[y].size \in Nat  BY DEF Sized
<1>1. /\ \A r \in SUBSET S : g[r] \in Nat
      /\ \A r \in SUBSET S : r # {} => \E z \in r : g[r] = l[z].size + g[r \ {z}]
  <2>1. Steps(g, l, S) /\ g \in [SUBSET S -> Nat]  BY SumsAre, Zenon
  <2> HIDE DEF g
  <2> QED  BY <2>1 DEF Steps
<1> HIDE DEF g
<1>2. 0 \in H  BY <1>0, Counted
<1>3. ASSUME NEW n \in Nat, n \in H PROVE n + 1 \in H
  <2>1. SUFFICES ASSUME NEW r \in SUBSET S, Cardinality(r) = n + 1, NEW y \in r
                 PROVE  g[r] = l[y].size + g[r \ {y}]
    OBVIOUS
  <2>2. PICK z \in r : g[r] = l[z].size + g[r \ {z}]  BY <1>1
  <2>3. CASE z = y  BY <2>2, <2>3
  <2>4. CASE z # y
    <3>1. /\ r \ {z} \in SUBSET S /\ r \ {y} \in SUBSET S
          /\ Cardinality(r \ {z}) = n /\ Cardinality(r \ {y}) = n
      BY <1>0, <2>1, Counted
    <3>2. g[r \ {z}] = l[y].size + g[(r \ {z}) \ {y}]  BY <1>3, <2>4, <3>1
    <3>3. g[r \ {y}] = l[z].size + g[(r \ {y}) \ {z}]  BY <1>3, <2>4, <3>1
    <3>4. (r \ {z}) \ {y} = (r \ {y}) \ {z} /\ (r \ {y}) \ {z} \in SUBSET S  OBVIOUS
    <3>5. PICK a, b, c \in Nat : a = l[y].size /\ b = l[z].size /\ c = g[(r \ {y}) \ {z}]
      BY <1>0, <1>1, <3>4
    <3>6. b + (a + c) = a + (b + c)  OBVIOUS
    <3> QED  BY <2>2, <3>2, <3>3, <3>4, <3>5, <3>6
  <2> QED  BY <2>3, <2>4
<1>4. Nat \subseteq H
  <2> HIDE DEF H
  <2> QED  BY <1>2, <1>3, Induction
<1>5. Cardinality(s) \in Nat  BY <1>0, Counted
<1> QED  BY <1>4, <1>5 DEF g

LEMMA SumWithoutOne ==
  ASSUME NEW l, NEW S, Sized(l, S), NEW x \in S
  PROVE  Sums(l, S)[S] = l[x].size + Sums(l, S)[S \ {x}]
<1>1. PICK s \in SUBSET S : s = S  OBVIOUS
<1>2. x \in s  BY <1>1
<1>3. Sums(l, S)[s] = l[x].size + Sums(l, S)[s \ {x}]  BY <1>2, SumWithout
<1> QED  BY <1>1, <1>3

\* h takes the positions A of l to the positions B of t, that hold the same sizes.
Moves(h, l, A, t, T, B) ==
  /\ B = {h[x] : x \in A} /\ h \in [A -> T] /\ \A x, y \in A : h[x] = h[y] => x = y
  /\ \A x \in A : t[h[x]].size = l[x].size

\* A sum is the same at other positions that hold the same sizes.
LEMMA SumMoves ==
  ASSUME NEW l, NEW S, Sized(l, S), NEW t, NEW T, Sized(t, T),
         NEW A \in SUBSET S, NEW B, NEW h, Moves(h, l, A, t, T, B)
  PROVE  Sums(l, S)[A] = Sums(t, T)[B]
<1> USE DEF Moves
<1> DEFINE Img(s) == {h[x] : x \in s}
           H == {n \in Nat : \A s \in SUBSET A : Cardinality(s) = n =>
                               Sums(l, S)[s] = Sums(t, T)[Img(s)]}
<1>0. IsFiniteSet(A)  BY FS_Subset DEF Sized
<1>1. 0 \in H
  <2>1. ASSUME NEW s \in SUBSET A, Cardinality(s) = 0
        PROVE  Sums(l, S)[s] = Sums(t, T)[Img(s)]
    <3>2. s = {} /\ Img(s) = {}  BY <1>0, <2>1, Counted
    <3>3. Sums(l, S)[{}] = 0 /\ Sums(t, T)[{}] = 0  BY SumsAre
    <3> QED  BY <3>2, <3>3
  <2>2. 0 \in Nat  OBVIOUS
  <2> HIDE DEF Img
  <2> QED  BY <2>1, <2>2
<1>2. ASSUME NEW n \in Nat, n \in H PROVE n + 1 \in H
  <2>1. ASSUME NEW s \in SUBSET A, Cardinality(s) = n + 1
        PROVE  Sums(l, S)[s] = Sums(t, T)[Img(s)]
    <3>2. s # {}  BY <1>0, <2>1, Counted
    <3>3. PICK x \in s : TRUE  BY <3>2
    <3>4. Cardinality(s \ {x}) = n /\ s \ {x} \in SUBSET A  BY <1>0, <2>1, Counted
    <3>5. Sums(l, S)[s \ {x}] = Sums(t, T)[Img(s \ {x})]  BY <1>2, <3>4
    <3>6. s \in SUBSET S /\ Img(s) \in SUBSET T /\ h[x] \in Img(s)  OBVIOUS
    <3>7. Img(s) \ {h[x]} = Img(s \ {x})
      <4>1. ASSUME NEW y \in Img(s) \ {h[x]} PROVE y \in Img(s \ {x})  OBVIOUS
      <4>2. ASSUME NEW y \in Img(s \ {x}) PROVE y \in Img(s) \ {h[x]}
        <5>1. PICK z \in s \ {x} : y = h[z]  OBVIOUS
        <5>2. z \in A /\ x \in A /\ z # x  OBVIOUS
        <5>3. h[z] # h[x]  BY <5>2
        <5> QED  BY <5>1, <5>3
      <4> HIDE DEF Img
      <4> QED  BY <4>1, <4>2
    <3> HIDE DEF Img
    <3>8. Sums(l, S)[s] = l[x].size + Sums(l, S)[s \ {x}]  BY <3>6, SumWithout
    <3>9. Sums(t, T)[Img(s)] = t[h[x]].size + Sums(t, T)[Img(s) \ {h[x]}]
      <4>1. PICK I \in SUBSET T : I = Img(s)  BY <3>6
      <4>0. PICK y \in I : y = h[x]  BY <3>6, <4>1
      <4>2. Sums(t, T)[I] = t[y].size + Sums(t, T)[I \ {y}]  BY SumWithout
      <4> QED  BY <4>0, <4>1, <4>2
    <3>10. t[h[x]].size = l[x].size  BY <3>6
    <3> QED  BY <3>5, <3>7, <3>8, <3>9, <3>10
  <2>2. n + 1 \in Nat  OBVIOUS
  <2> HIDE DEF Img
  <2> QED  BY <2>1, <2>2
<1>3. Nat \subseteq H
  <2> HIDE DEF H
  <2> QED  BY <1>1, <1>2, Induction
<1>4. Cardinality(A) \in Nat /\ A \in SUBSET A  BY <1>0, Counted
<1> HIDE DEF Img
<1>5. Sums(l, S)[A] = Sums(t, T)[Img(A)]  BY <1>3, <1>4
<1> QED  BY <1>5 DEF Img

\* The sums over two parts add up.
LEMMA SumParts ==
  ASSUME NEW l, NEW S, Sized(l, S),
         NEW A \in SUBSET S, NEW B \in SUBSET S, A \cap B = {}
  PROVE  Sums(l, S)[A \cup B] = Sums(l, S)[A] + Sums(l, S)[B]
<1> DEFINE g == Sums(l, S)
           H == {n \in Nat : \A s \in SUBSET B : Cardinality(s) = n => g[A \cup s] = g[A] + g[s]}
<1> HIDE DEF g
<1>0. IsFiniteSet(B) /\ g[A] \in Nat /\ g[{}] = 0 /\ \A s \in SUBSET B : g[s] \in Nat
  <2>1. IsFiniteSet(B)  BY FS_Subset DEF Sized
  <2>2. g \in [SUBSET S -> Nat] /\ g[{}] = 0  BY SumsAre DEF g
  <2> QED  BY <2>1, <2>2
<1>1. ASSUME NEW s \in SUBSET S, NEW x \in s PROVE g[s] = l[x].size + g[s \ {x}]
  BY SumWithout DEF g
<1>2. 0 \in H
  <2>1. SUFFICES ASSUME NEW s \in SUBSET B, Cardinality(s) = 0 PROVE g[A \cup s] = g[A] + g[s]
    OBVIOUS
  <2>2. s = {} /\ A \cup s = A  BY <1>0, <2>1, Counted
  <2> QED  BY <1>0, <2>2
<1>3. ASSUME NEW n \in Nat, n \in H PROVE n + 1 \in H
  <2>1. ASSUME NEW s \in SUBSET B, Cardinality(s) = n + 1
        PROVE  g[A \cup s] = g[A] + g[s]
    <3>2. s # {}  BY <1>0, <2>1, Counted
    <3>3. PICK x \in s : TRUE  BY <3>2
    <3>4. Cardinality(s \ {x}) = n /\ s \ {x} \in SUBSET B  BY <1>0, <2>1, Counted
    <3>5. g[A \cup (s \ {x})] = g[A] + g[s \ {x}]  BY <1>3, <3>4
    <3>6. (A \cup s) \ {x} = A \cup (s \ {x}) /\ A \cup s \in SUBSET S /\ x \in A \cup s  OBVIOUS
    <3>7. g[A \cup s] = l[x].size + g[A \cup (s \ {x})]  BY <1>1, <3>6
    <3>8. g[s] = l[x].size + g[s \ {x}]  BY <1>1
    <3>9. PICK a, b, c \in Nat : a = l[x].size /\ b = g[A] /\ c = g[s \ {x}]  BY <1>0, <3>4 DEF Sized
    <3>10. a + (b + c) = b + (a + c)  OBVIOUS
    <3> QED  BY <3>5, <3>7, <3>8, <3>9, <3>10
  <2>2. n + 1 \in Nat  OBVIOUS
  <2> QED  BY <2>1, <2>2
<1>4. Nat \subseteq H
  <2> HIDE DEF H
  <2> QED  BY <1>2, <1>3, Induction
<1>5. Cardinality(B) \in Nat /\ B \in SUBSET B  BY <1>0, Counted
<1> QED  BY <1>4, <1>5 DEF g

LEMMA SumWithin ==
  ASSUME NEW l, NEW S, Sized(l, S), NEW B \in SUBSET S
  PROVE  Sums(l, B)[B] = Sums(l, S)[B]
<1>1. Sized(l, B)  BY FS_Subset DEF Sized
<1>2. PICK h, A : h = [x \in B |-> x] /\ A = B  OBVIOUS
<1>3. A \in SUBSET B  BY <1>2
<1>4. Moves(h, l, A, l, S, B)  BY <1>2 DEF Moves
<1>5. Sums(l, B)[A] = Sums(l, S)[B]  BY <1>1, <1>3, <1>4, SumMoves
<1> QED  BY <1>2, <1>5

Listed(l) == Len(l) \in Nat /\ \A i \in 1 .. Len(l) : l[i].size \in Nat

LEMMA TotalIs ==
  ASSUME NEW l, Listed(l)
  PROVE  Sized(l, 1 .. Len(l)) /\ Total(l) \in Nat
<1> DEFINE S == 1 .. Len(l)
<1>1. IsFiniteSet(S)  BY FS_Interval DEF Listed
<1>2. Sized(l, S)  BY <1>1 DEF Listed, Sized
<1>3. Sums(l, S) \in [SUBSET S -> Nat]  BY <1>2, SumsAre
<1> QED  BY <1>2, <1>3 DEF Total

\* One block replaced.
LEMMA TotalExcept ==
  ASSUME NEW l, Listed(l), NEW t, Listed(t), Len(t) = Len(l), NEW i \in 1 .. Len(l),
         \A j \in 1 .. Len(l) : j # i => t[j].size = l[j].size
  PROVE  \E c \in Nat : Total(l) = l[i].size + c /\ Total(t) = t[i].size + c
<1>0. PICK S, A, h : S = 1 .. Len(l) /\ A = S \ {i} /\ h = [x \in A |-> x]  OBVIOUS
<1>1. Sized(l, S) /\ Sized(t, S)  BY <1>0, TotalIs
<1>2. A \in SUBSET S  BY <1>0
<1>4. i \in S  BY <1>0
<1>3. Moves(h, l, A, t, S, A)  BY <1>0 DEF Moves
<1>5. Sums(l, S)[A] = Sums(t, S)[A]  BY <1>1, <1>2, <1>3, SumMoves
<1>6. ASSUME NEW w, Sized(w, S) PROVE Sums(w, S)[S] = w[i].size + Sums(w, S)[S \ {i}]
  BY <1>4, <1>6, SumWithoutOne
<1>7. /\ Sums(l, S)[S] = l[i].size + Sums(l, S)[S \ {i}]
      /\ Sums(t, S)[S] = t[i].size + Sums(t, S)[S \ {i}]
  BY <1>1, <1>6
<1>8. Sums(l, S) \in [SUBSET S -> Nat]  BY <1>1, SumsAre
<1>9. Sums(l, S)[A] \in Nat  BY <1>2, <1>8
<1> QED  BY <1>0, <1>5, <1>7, <1>9 DEF Total

\* One block more, at k.
LEMMA TotalInsert ==
  ASSUME NEW l, Listed(l), NEW t, Listed(t), Len(t) = Len(l) + 1, NEW k \in 1 .. Len(t),
         \A j \in 1 .. Len(l) : t[IF j < k THEN j ELSE j + 1].size = l[j].size
  PROVE  Total(t) = t[k].size + Total(l)
<1>0. PICK S, T : S = 1 .. Len(l) /\ T = 1 .. Len(t)  OBVIOUS
<1> DEFINE h == [j \in S |-> IF j < k THEN j ELSE j + 1]
<1>1. Sized(l, S) /\ Sized(t, T)  BY <1>0, TotalIs
<1>2. Len(l) \in Nat /\ Len(t) \in Nat  BY DEF Listed
<1>3. h \in [S -> T] /\ \A j \in S : h[j] = IF j < k THEN j ELSE j + 1  BY <1>0, <1>2
<1>4. ASSUME NEW x \in S, NEW y \in S, h[x] = h[y] PROVE x = y
  <2>1. x \in Nat /\ y \in Nat /\ k \in Nat  BY <1>0, <1>2
  <2> HIDE DEF h
  <2> QED  BY <1>3, <1>4, <2>1
<1>5. {h[x] : x \in S} = T \ {k}
  <2>1. ASSUME NEW x \in S PROVE h[x] \in T \ {k}
    <3>1. x \in Nat /\ k \in Nat  BY <1>0, <1>2
    <3> QED  BY <1>0, <1>2, <3>1
  <2>2. ASSUME NEW y \in T \ {k} PROVE \E x \in S : h[x] = y
    <3>1. y \in Nat /\ k \in Nat /\ y # k  BY <1>0, <1>2
    <3>2. CASE y < k
      <4>1. y \in S  BY <1>0, <1>2, <3>1, <3>2
      <4> QED  BY <1>3, <3>2, <4>1
    <3>3. CASE y > k
      <4>1. y - 1 \in S /\ ~(y - 1 < k) /\ (y - 1) + 1 = y  BY <1>0, <1>2, <3>1, <3>3
      <4> QED  BY <1>3, <4>1
    <3> QED  BY <3>1, <3>2, <3>3
  <2> HIDE DEF h
  <2> QED  BY <2>1, <2>2
<1>6. \A x \in S : t[h[x]].size = l[x].size  BY <1>0
<1>7. S \in SUBSET S /\ T \in SUBSET T /\ k \in T  BY <1>0
<1> HIDE DEF h
<1>8. Moves(h, l, S, t, T, T \ {k})  BY <1>3, <1>4, <1>5, <1>6 DEF Moves
<1>9. Sums(l, S)[S] = Sums(t, T)[T \ {k}]
  <2>1. PICK f, B : f = h /\ B = T \ {k}  OBVIOUS
  <2>2. Moves(f, l, S, t, T, B)  BY <1>8, <2>1
  <2>3. Sums(l, S)[S] = Sums(t, T)[B]  BY <1>1, <1>7, <2>2, SumMoves
  <2> QED  BY <2>1, <2>3
<1>10. Sums(t, T)[T] = t[k].size + Sums(t, T)[T \ {k}]  BY <1>1, <1>7, SumWithoutOne
<1> QED  BY <1>0, <1>9, <1>10 DEF Total

LEMMA BulkIs ==
  ASSUME NEW l \in Seq(Block)
  PROVE  /\ Listed(l) /\ Len(l) \in Nat /\ Total(l) \in Nat
         /\ Header * Len(l) \in Nat /\ Bulk(l) \in Nat
<1>1. Len(l) \in Nat /\ \A j \in 1 .. Len(l) : l[j] \in Block  BY LenProperties, ElementOfSeq
<1>2. \A b \in Block : b.size \in Nat  BY Constant DEF Block
<1>3. Listed(l)  BY <1>1, <1>2 DEF Listed
<1>4. Total(l) \in Nat  BY <1>3, TotalIs
<1>5. Header * Len(l) \in Nat  BY <1>1, Constant, SMT
<1> QED  BY <1>1, <1>3, <1>4, <1>5 DEF Bulk

LEMMA BulkExcept ==
  ASSUME NEW l \in Seq(Block), NEW t \in Seq(Block), Len(t) = Len(l), NEW i \in 1 .. Len(l),
         \A j \in 1 .. Len(l) : j # i => t[j].size = l[j].size
  PROVE  Bulk(t) + l[i].size = Bulk(l) + t[i].size
<1>1. PICK c \in Nat : Total(l) = l[i].size + c /\ Total(t) = t[i].size + c
  <2>1. Listed(l) /\ Listed(t)  BY BulkIs
  <2> QED  BY <2>1, TotalExcept
<1>2. PICK x, y, h \in Nat : x = l[i].size /\ y = t[i].size /\ h = Header * Len(l)
  <2>1. Listed(l) /\ Listed(t) /\ Header * Len(l) \in Nat  BY BulkIs
  <2>2. i \in 1 .. Len(t)  OBVIOUS
  <2> QED  BY <2>1, <2>2 DEF Listed
<1>3. (y + c + h) + x = (x + c + h) + y  OBVIOUS
<1> QED  BY <1>1, <1>2, <1>3 DEF Bulk

LEMMA BulkInsert ==
  ASSUME NEW l \in Seq(Block), NEW t \in Seq(Block), Len(t) = Len(l) + 1, NEW k \in 1 .. Len(t),
         \A j \in 1 .. Len(l) : t[IF j < k THEN j ELSE j + 1].size = l[j].size
  PROVE  Bulk(t) = Bulk(l) + Header + t[k].size
<1>1. Listed(l) /\ Listed(t)  BY BulkIs
<1>2. Total(t) = t[k].size + Total(l)  BY <1>1, TotalInsert
<1>3. PICK n, h, x, c \in Nat : n = Len(l) /\ h = Header /\ x = t[k].size /\ c = Total(l)
  <2>1. Len(l) \in Nat /\ Total(l) \in Nat  BY BulkIs
  <2> QED  BY <1>1, <2>1, Constant DEF Listed
<1>4. h * (n + 1) = h * n + h  BY SMT
<1>5. PICK m \in Nat : m = h * n  BY SMT
<1>6. (x + c) + (m + h) = (c + m) + h + x  OBVIOUS
<1> QED  BY <1>2, <1>3, <1>4, <1>5, <1>6 DEF Bulk

-----------------------------------------------------------------------------
\* What each operation on the list does to the heap.

LEMMA Typed ==
  ASSUME NEW l, NEW R, Heap(l, R)
  PROVE  /\ Len(l) \in Nat
         /\ \A i \in 1 .. Len(l) :
              /\ l[i] \in Block /\ l[i].addr \in Nat /\ l[i].size \in Nat
              /\ l[i].free \in BOOLEAN /\ End(l[i]) = l[i].addr + Header + l[i].size
              /\ End(l[i]) \in Nat /\ l[i].addr + Header < End(l[i]) /\ End(l[i]) <= Word
              /\ l[i].addr < End(l[i])
<1>1. Len(l) \in Nat /\ \A i \in 1 .. Len(l) : l[i] \in Block
  BY LenProperties, ElementOfSeq DEF Heap
<1>2. ASSUME NEW b \in Block, Sound(b)
      PROVE  /\ b.addr \in Nat /\ b.size \in Nat /\ b.free \in BOOLEAN
             /\ End(b) = b.addr + Header + b.size /\ End(b) \in Nat
             /\ b.addr + Header < End(b) /\ End(b) <= Word /\ b.addr < End(b)
  <2>1. b.addr \in Nat /\ b.size \in Nat /\ b.free \in BOOLEAN  BY Constant DEF Block
  <2> QED  BY <1>2, <2>1, Constant DEF Sound, End
<1> QED  BY <1>1, <1>2 DEF Heap

LEMMA BytesAre ==
  ASSUME NEW l, NEW R, Heap(l, R), NEW i \in 1 .. Len(l)
  PROVE  Bytes(l[i]) = l[i].addr .. End(l[i]) - 1
<1>1. PICK a, z, h \in Nat : a = l[i].addr /\ z = l[i].size /\ h = Header  BY Typed, Constant
<1>2. a + h + z - 1 = (a + h + z) - 1  OBVIOUS
<1> QED  BY <1>1, <1>2 DEF Bytes, End

\* No two blocks share an address.
LEMMA Apart ==
  ASSUME NEW l, NEW R, Heap(l, R), NEW i \in 1 .. Len(l), NEW j \in 1 .. Len(l),
         l[i].addr = l[j].addr
  PROVE  i = j
<1>1. i \in Int /\ j \in Int  BY Typed
<1>2. ASSUME NEW m \in 1 .. Len(l), NEW n \in 1 .. Len(l), m < n PROVE l[m].addr # l[n].addr
  <2>1. End(l[m]) <= l[n].addr  BY <1>2 DEF Heap, Sorted
  <2>2. /\ l[m].addr \in Nat /\ l[n].addr \in Nat /\ End(l[m]) \in Nat
        /\ l[m].addr + Header < End(l[m])
    BY Typed
  <2> QED  BY <2>1, <2>2, Constant
<1> QED  BY <1>1, <1>2

\* block->free = f moves nothing.
Mark(l, i, f) == [l EXCEPT ![i].free = f]

LEMMA Marked ==
  ASSUME NEW l, NEW R, Heap(l, R), NEW i \in 1 .. Len(l), NEW f \in BOOLEAN
  PROVE  LET t == Mark(l, i, f)
         IN  /\ Heap(t, R) /\ Len(t) = Len(l) /\ Bulk(t) = Bulk(l)
             /\ \A j \in 1 .. Len(l) :
                  /\ t[j].addr = l[j].addr /\ t[j].size = l[j].size
                  /\ t[j].free = IF j = i THEN f ELSE l[j].free
<1> DEFINE t == [l EXCEPT ![i].free = f]
           e == [l[i] EXCEPT !.free = f]
<1>1. l \in Seq(Block) /\ l[i] \in Block  BY Typed DEF Heap
<1>2. e \in Block /\ e.addr = l[i].addr /\ e.size = l[i].size /\ e.free = f
  BY <1>1 DEF Block
<1>3. t = [l EXCEPT ![i] = e]  OBVIOUS
<1> HIDE DEF e, t
<1>4. /\ t \in Seq(Block) /\ Len(t) = Len(l)
      /\ \A j \in 1 .. Len(l) : t[j] = IF j = i THEN e ELSE l[j]
  BY <1>1, <1>2, <1>3, ExceptSeq
<1>5. \A j \in 1 .. Len(l) :
        /\ t[j].addr = l[j].addr /\ t[j].size = l[j].size
        /\ t[j].free = IF j = i THEN f ELSE l[j].free
  BY <1>2, <1>4
<1>6. \A j \in 1 .. Len(l) : End(t[j]) = End(l[j])  BY <1>5 DEF End
<1>7. \A j \in 1 .. Len(t) : Sound(t[j])  BY <1>4, <1>5, <1>6 DEF Heap, Sound
<1>8. Sorted(t)  BY <1>4, <1>5, <1>6 DEF Heap, Sorted
<1>9. Tiled(t, R)  BY <1>4, <1>5, <1>6 DEF Heap, Tiled
<1>10. Heap(t, R)  BY <1>4, <1>7, <1>8, <1>9 DEF Heap
<1>11. Bulk(t) = Bulk(l)
  <2>1. Bulk(t) + l[i].size = Bulk(l) + t[i].size  BY <1>1, <1>4, <1>5, BulkExcept
  <2>2. Bulk(t) \in Nat /\ Bulk(l) \in Nat /\ l[i].size \in Nat  BY <1>1, <1>4, BulkIs, Typed
  <2> QED  BY <1>5, <2>1, <2>2
<1> QED  BY <1>4, <1>5, <1>10, <1>11 DEF t, Mark

\* insert_sorted puts the block of a new arena A where its address belongs.
LEMMA Inserted ==
  ASSUME NEW l, NEW R, Heap(l, R), R \subseteq [addr : 0 .. Word - 1, total : 1 .. Word],
         NEW b \in Block, Sound(b),
         NEW A \in [addr : 0 .. Word - 1, total : 1 .. Word],
         A.addr = b.addr, A.addr + A.total = End(b),
         \A a \in R : a.addr + a.total <= b.addr \/ End(b) <= a.addr
  PROVE  \E k \in 1 .. Len(l) + 1 :
           /\ insert_sorted(l, b) = InsertAt(l, k, b)
           /\ Heap(InsertAt(l, k, b), R \cup {A})
           /\ \E j \in 1 .. Len(InsertAt(l, k, b)) : InsertAt(l, k, b)[j] = b
           /\ \A V : Held(l, V) => Held(InsertAt(l, k, b), V) \/ ~b.free
           /\ Loose(l, R, {}) => Loose(InsertAt(l, k, b), R \cup {A}, {})
           /\ Bulk(InsertAt(l, k, b)) = Bulk(l) + Header + b.size
<1>0. /\ b.addr \in Nat /\ End(b) \in Nat /\ b.addr + Header < End(b) /\ End(b) <= Word
      /\ b.free \in BOOLEAN /\ b.size \in Nat
  <2>1. b.addr \in Nat /\ b.size \in Nat /\ b.free \in BOOLEAN  BY Constant DEF Block
  <2> QED  BY <2>1, Constant DEF Sound, End
<1>1. ASSUME NEW j \in 1 .. Len(l) PROVE End(l[j]) <= b.addr \/ End(b) <= l[j].addr
  <2>1. /\ l[j].addr \in Nat /\ End(l[j]) \in Nat /\ l[j].addr + Header < End(l[j])
        /\ End(l[j]) <= Word
    BY Typed
  <2>2. SUFFICES ASSUME b.addr < End(l[j]), l[j].addr < End(b) PROVE FALSE
    BY <1>0, <2>1
  <2>3. PICK x \in 0 .. Word - 1 :
          b.addr <= x /\ x < End(b) /\ l[j].addr <= x /\ x < End(l[j])
    <3> DEFINE x == IF b.addr <= l[j].addr THEN l[j].addr ELSE b.addr
    <3>1. /\ x \in 0 .. Word - 1 /\ b.addr <= x /\ x < End(b) /\ l[j].addr <= x
          /\ x < End(l[j])
      BY <1>0, <2>1, <2>2, Constant
    <3> QED  BY <3>1
  <2>4. PICK a \in R : a.addr <= x /\ x < a.addr + a.total  BY <2>3 DEF Heap, Tiled
  <2>5. a.addr \in Nat /\ a.total \in Nat  BY Constant
  <2>6. a.addr + a.total <= b.addr \/ End(b) <= a.addr  OBVIOUS
  <2> QED  BY <1>0, <2>3, <2>4, <2>5, <2>6
<1>2. PICK k \in 1 .. Len(l) + 1 :
        /\ \A j \in 1 .. Len(l) : j < k => End(l[j]) <= b.addr
        /\ \A j \in 1 .. Len(l) : j >= k => End(b) <= l[j].addr
  <2> DEFINE T == {j \in 1 .. Len(l) : End(b) <= l[j].addr}
  <2>1. Len(l) \in Nat  BY Typed
  <2>2. CASE T = {}
    <3>1. \A j \in 1 .. Len(l) : End(l[j]) <= b.addr  BY <1>1, <2>2
    <3>2. Len(l) + 1 \in 1 .. Len(l) + 1 /\ \A j \in 1 .. Len(l) : ~(j >= Len(l) + 1)  BY <2>1
    <3> QED  BY <3>1, <3>2
  <2>3. CASE T # {}
    <3>1. T \subseteq Nat  OBVIOUS
    <3>2. PICK k \in T : \A y \in T : k <= y
      <4> HIDE DEF T
      <4>1. Min(T) \in T /\ \A y \in T : Min(T) <= y  BY <2>3, <3>1, MinIs
      <4> QED  BY <4>1
    <3>3. \A j \in 1 .. Len(l) : j < k => End(l[j]) <= b.addr
      <4>1. \A j \in 1 .. Len(l) : j < k => j \notin T  BY <3>2
      <4> QED  BY <1>1, <4>1
    <3>4. ASSUME NEW j \in 1 .. Len(l), j >= k PROVE End(b) <= l[j].addr
      <4>1. CASE j = k  BY <4>1
      <4>2. CASE j > k
        <5>1. End(l[k]) <= l[j].addr  BY <3>2, <4>2 DEF Heap, Sorted
        <5>2. /\ l[k].addr \in Nat /\ End(l[k]) \in Nat /\ l[k].addr < End(l[k])
              /\ l[j].addr \in Nat
          BY Typed
        <5>3. End(b) <= l[k].addr /\ End(b) \in Nat  BY <1>0
        <5> HIDE DEF T
        <5> QED  BY <5>1, <5>2, <5>3
      <4> QED  BY <3>4, <4>1, <4>2
    <3>5. k \in 1 .. Len(l) + 1  BY <2>1
    <3> QED  BY <3>3, <3>4, <3>5
  <2> QED  BY <2>2, <2>3
<1>3. insert_sorted(l, b) = InsertAt(l, k, b)
  <2>1. {i \in 1 .. Len(l) : l[i].addr < b.addr} = 1 .. k - 1
    <3>1. ASSUME NEW i \in 1 .. Len(l) PROVE l[i].addr < b.addr <=> i < k
      <4>1. l[i].addr \in Nat /\ End(l[i]) \in Nat /\ l[i].addr + Header < End(l[i])  BY Typed
      <4>2. CASE i < k
        <5>1. End(l[i]) <= b.addr  BY <1>2, <4>2
        <5> QED  BY <1>0, <4>1, <4>2, <5>1, Constant
      <4>3. CASE i >= k
        <5>1. End(b) <= l[i].addr  BY <1>2, <4>3
        <5> QED  BY <1>0, <4>1, <4>3, <5>1, Constant
      <4>4. Len(l) \in Nat  BY Typed
      <4>5. i < k \/ i >= k  BY <4>4
      <4> QED  BY <4>2, <4>3, <4>5
    <3>2. Len(l) \in Nat  BY Typed
    <3>3. 1 .. k - 1 \subseteq 1 .. Len(l) /\ \A i \in 1 .. Len(l) : i < k <=> i \in 1 .. k - 1
      BY <3>2
    <3> QED  BY <3>1, <3>3
  <2>2. Cardinality(1 .. k - 1) = k - 1
    <3>1. k \in Int /\ k >= 1  BY Typed
    <3>2. Cardinality(1 .. k - 1) = IF 1 > k - 1 THEN 0 ELSE (k - 1) - 1 + 1
      BY <3>1, FS_Interval
    <3> QED  BY <3>1, <3>2
  <2>3. (k - 1) + 1 = k  BY Typed
  <2> QED  BY <2>1, <2>2, <2>3 DEF insert_sorted
<1> DEFINE t == InsertAt(l, k, b)
<1>4. /\ t \in Seq(Block) /\ Len(t) = Len(l) + 1
      /\ \A j \in 1 .. Len(l) + 1 : t[j] = IF j < k THEN l[j] ELSE IF j = k THEN b ELSE l[j - 1]
  BY InsertIs DEF Heap
<1>5. Len(l) \in Nat /\ k \in Nat /\ 1 <= k /\ k <= Len(l) + 1  BY Typed
<1> HIDE DEF t
<1>6. \A j \in 1 .. Len(t) :
        \/ j < k /\ j \in 1 .. Len(l) /\ t[j] = l[j]
        \/ j = k /\ t[j] = b
        \/ k < j /\ j - 1 \in 1 .. Len(l) /\ j - 1 >= k /\ t[j] = l[j - 1]
  BY <1>4, <1>5
<1>7. /\ t[k] = b /\ k \in 1 .. Len(t)
      /\ \A j \in 1 .. Len(l) : \E m \in 1 .. Len(t) : t[m] = l[j]
  <2>1. t[k] = b /\ k \in 1 .. Len(t)  BY <1>4, <1>5
  <2>2. ASSUME NEW j \in 1 .. Len(l) PROVE \E m \in 1 .. Len(t) : t[m] = l[j]
    <3>1. CASE j < k
      <4>1. j \in 1 .. Len(t) /\ t[j] = l[j]  BY <1>4, <1>5, <3>1
      <4> QED  BY <4>1
    <3>2. CASE j >= k
      <4>1. j + 1 \in 1 .. Len(t) /\ (j + 1) - 1 = j /\ ~(j + 1 < k) /\ j + 1 # k
        BY <1>4, <1>5, <3>2
      <4>2. t[j + 1] = l[j]  BY <1>4, <4>1
      <4> QED  BY <4>1, <4>2
    <3>3. j < k \/ j >= k  BY <1>5
    <3> QED  BY <3>1, <3>2, <3>3
  <2> QED  BY <2>1, <2>2
<1>8. \A j \in 1 .. Len(t) : Sound(t[j])  BY <1>6 DEF Heap
<1>9. Sorted(t)
  <2>1. SUFFICES ASSUME NEW i \in 1 .. Len(t), NEW j \in 1 .. Len(t), i < j
                 PROVE  End(t[i]) <= t[j].addr
    BY DEF Sorted
  <2>2. i \in Int /\ j \in Int  BY <1>4, <1>5
  <2>3. CASE i < k /\ j < k  BY <1>5, <1>6, <2>1, <2>2, <2>3 DEF Heap, Sorted
  <2>4. CASE i < k /\ j = k  BY <1>2, <1>5, <1>6, <2>1, <2>2, <2>4
  <2>5. CASE i < k /\ k < j
    <3>1. i \in 1 .. Len(l) /\ j - 1 \in 1 .. Len(l) /\ t[i] = l[i] /\ t[j] = l[j - 1]
      BY <1>5, <1>6, <2>2, <2>5
    <3>2. i < j - 1  BY <1>5, <2>2, <2>5
    <3> QED  BY <3>1, <3>2 DEF Heap, Sorted
  <2>6. CASE i = k /\ k < j
    <3>1. j - 1 \in 1 .. Len(l) /\ j - 1 >= k /\ t[i] = b /\ t[j] = l[j - 1]
      BY <1>5, <1>6, <2>2, <2>6
    <3> QED  BY <1>2, <3>1
  <2>7. CASE k < i /\ k < j
    <3>1. i - 1 \in 1 .. Len(l) /\ j - 1 \in 1 .. Len(l) /\ t[i] = l[i - 1] /\ t[j] = l[j - 1]
      BY <1>5, <1>6, <2>2, <2>7
    <3>2. i - 1 < j - 1  BY <2>1, <2>2
    <3> QED  BY <3>1, <3>2 DEF Heap, Sorted
  <2>8. \/ (i < k /\ j < k) \/ (i < k /\ j = k) \/ (i < k /\ k < j)
        \/ (i = k /\ k < j) \/ (k < i /\ k < j)
    BY <1>5, <2>1, <2>2
  <2> QED  BY <2>3, <2>4, <2>5, <2>6, <2>7, <2>8
<1>10. Tiled(t, R \cup {A})
  <2>1. SUFFICES ASSUME NEW x \in 0 .. Word - 1
                 PROVE  (\E i \in 1 .. Len(t) : t[i].addr <= x /\ x < End(t[i]))
                          <=> (\E a \in R \cup {A} : a.addr <= x /\ x < a.addr + a.total)
    BY DEF Tiled
  <2>2. (\E i \in 1 .. Len(t) : t[i].addr <= x /\ x < End(t[i]))
          <=> \/ \E i \in 1 .. Len(l) : l[i].addr <= x /\ x < End(l[i])
              \/ b.addr <= x /\ x < End(b)
    BY <1>6, <1>7
  <2>3. (\E i \in 1 .. Len(l) : l[i].addr <= x /\ x < End(l[i]))
          <=> (\E a \in R : a.addr <= x /\ x < a.addr + a.total)
    BY DEF Heap, Tiled
  <2> QED  BY <2>2, <2>3
<1>11. Heap(t, R \cup {A})  BY <1>4, <1>8, <1>9, <1>10 DEF Heap
<1>12. ASSUME NEW V, Held(l, V), b.free PROVE Held(t, V)
  <2>1. \A p \in V : \E i \in 1 .. Len(t) :
          ~t[i].free /\ t[i].addr + Header = p.ptr /\ p.size <= t[i].size
    <3> TAKE p \in V
    <3>1. PICK i \in 1 .. Len(l) :
            ~l[i].free /\ l[i].addr + Header = p.ptr /\ p.size <= l[i].size
      BY <1>12 DEF Held
    <3>2. PICK m \in 1 .. Len(t) : t[m] = l[i]  BY <1>7
    <3> QED  BY <3>1, <3>2
  <2>2. \A i \in 1 .. Len(t) : ~t[i].free => \E p \in V : p.ptr = t[i].addr + Header
    <3>1. ASSUME NEW i \in 1 .. Len(t), ~t[i].free PROVE \E m \in 1 .. Len(l) : t[i] = l[m]
      BY <1>6, <1>12, <3>1
    <3> QED  BY <1>12, <3>1 DEF Held
  <2> QED  BY <1>12, <2>1, <2>2 DEF Held
<1>13. ASSUME Loose(l, R, {}) PROVE Loose(t, R \cup {A}, {})
  <2>1. SUFFICES ASSUME NEW j \in 1 .. Len(t) - 1, t[j].free, t[j + 1].free,
                        End(t[j]) = t[j + 1].addr
                 PROVE  \E a \in R \cup {A} : a.addr = t[j + 1].addr
    BY DEF Loose
  <2>2. j \in 1 .. Len(l) /\ j \in 1 .. Len(t) /\ j + 1 \in 1 .. Len(t) /\ j \in Int
    BY <1>4, <1>5
  <2>3. CASE j + 1 < k
    <3>1. t[j] = l[j] /\ t[j + 1] = l[j + 1] /\ j \in 1 .. Len(l) - 1
      BY <1>4, <1>5, <1>6, <2>2, <2>3
    <3> QED  BY <1>13, <2>1, <3>1 DEF Loose
  <2>4. CASE j + 1 = k  BY <1>7, <2>4
  <2>5. CASE j = k
    <3>1. t[j] = b /\ t[j + 1] = l[j]  BY <1>4, <1>5, <1>6, <2>2, <2>5
    <3>2. End(b) = l[j].addr  BY <2>1, <3>1
    <3>3. l[j].addr \in 0 .. Word - 1 /\ l[j].addr < End(l[j])
      <4>1. /\ l[j].addr \in Nat /\ End(l[j]) \in Nat /\ l[j].addr + Header < End(l[j])
            /\ End(l[j]) <= Word
        BY <2>2, Typed
      <4> QED  BY <4>1, Constant
    <3>4. PICK a \in R : a.addr <= l[j].addr /\ l[j].addr < a.addr + a.total
      <4>1. l[j].addr <= l[j].addr  BY <3>3
      <4> QED  BY <2>2, <3>3, <4>1 DEF Heap, Tiled
    <3>5. a.addr \in Nat /\ a.total \in Nat  BY Constant
    <3>6. a.addr + a.total <= b.addr \/ End(b) <= a.addr  OBVIOUS
    <3>7. a.addr = l[j].addr  BY <1>0, <3>2, <3>3, <3>4, <3>5, <3>6, Constant
    <3> QED  BY <3>1, <3>7
  <2>6. CASE k < j
    <3>1. j - 1 \in 1 .. Len(l) - 1 /\ t[j] = l[j - 1] /\ t[j + 1] = l[j] /\ (j - 1) + 1 = j
      BY <1>4, <1>5, <1>6, <2>2, <2>6
    <3> QED  BY <1>13, <2>1, <3>1 DEF Loose
  <2> QED  BY <1>5, <2>2, <2>3, <2>4, <2>5, <2>6
<1>14. Bulk(t) = Bulk(l) + Header + b.size
  <2>1. \A j \in 1 .. Len(l) : t[IF j < k THEN j ELSE j + 1].size = l[j].size
    <3>1. SUFFICES ASSUME NEW j \in 1 .. Len(l)
                   PROVE  t[IF j < k THEN j ELSE j + 1] = l[j]
      OBVIOUS
    <3>2. CASE j < k
      <4>1. j \in 1 .. Len(l) + 1  BY <1>5
      <4> QED  BY <1>4, <3>2, <4>1
    <3>3. CASE ~(j < k)
      <4>1. j + 1 \in 1 .. Len(l) + 1 /\ (j + 1) - 1 = j /\ ~(j + 1 < k) /\ j + 1 # k
        BY <1>5, <3>3
      <4> QED  BY <1>4, <3>3, <4>1
    <3> QED  BY <3>2, <3>3
  <2>2. l \in Seq(Block)  BY DEF Heap
  <2>3. Bulk(t) = Bulk(l) + Header + t[k].size  BY <1>4, <1>7, <2>1, <2>2, BulkInsert
  <2> QED  BY <1>7, <2>3
<1> QED  BY <1>0, <1>3, <1>7, <1>11, <1>12, <1>13, <1>14 DEF t

\* coalesce_with_next on a free block: the bytes are the same, the allocated
\* blocks are the same, and the block's right neighbour is no longer loose.
LEMMA Coalesced ==
  ASSUME NEW l, NEW R, Heap(l, R), NEW i \in 1 .. Len(l), l[i].free,
         NEW N \in SUBSET (0 .. i), Loose(l, R, N)
  PROVE  LET t == coalesce_with_next(l, i)
         IN  /\ Heap(t, R) /\ i <= Len(t) /\ \A j \in 1 .. i - 1 : t[j] = l[j]
             /\ t[i].free /\ t[i].addr = l[i].addr
             /\ \A V : Held(l, V) => Held(t, V)
             /\ Loose(t, R, N \ {i})
             /\ Bulk(t) = Bulk(l)
<1>0. Len(l) \in Nat /\ i \in Nat /\ 1 <= i /\ i <= Len(l)  BY Typed
<1>1. CASE ~(i < Len(l) /\ l[i + 1].free /\ adjacent(l[i], l[i + 1]))
  <2>1. coalesce_with_next(l, i) = l  BY <1>1 DEF coalesce_with_next
  <2>2. Loose(l, R, N \ {i})
    <3>1. SUFFICES ASSUME NEW j \in 1 .. Len(l) - 1, l[j].free, l[j + 1].free,
                          End(l[j]) = l[j + 1].addr
                   PROVE  j \in N \ {i} \/ \E a \in R : a.addr = l[j + 1].addr
      BY DEF Loose
    <3>2. CASE j = i
      <4>1. i < Len(l) /\ i + 1 \in 1 .. Len(l)  BY <1>0, <3>2
      <4>2. l[i] \in Block /\ l[i + 1] \in Block /\ Sound(l[i]) /\ Sound(l[i + 1])
        BY <4>1, Typed DEF Heap
      <4>3. adjacent(l[i], l[i + 1])  BY <3>1, <3>2, <4>2, AdjacentIs
      <4> QED  BY <1>1, <3>1, <3>2, <4>1, <4>3
    <3>3. CASE j # i  BY <3>1, <3>3 DEF Loose
    <3> QED  BY <3>2, <3>3
  <2> QED  BY <1>0, <2>1, <2>2
<1>2. CASE i < Len(l) /\ l[i + 1].free /\ adjacent(l[i], l[i + 1])
  <2> DEFINE c == l[i + 1]
             z == l[i].size + Header + c.size
             e == [l[i] EXCEPT !.size = z]
             u == [l EXCEPT ![i] = e]
             t == RemoveAt(u, i + 1)
  <2>0. i + 1 \in 1 .. Len(l) /\ (i + 1) - 1 = i  BY <1>0, <1>2
  <2>1. coalesce_with_next(l, i) = t  BY <1>2 DEF coalesce_with_next
  <2>2. l[i] \in Block /\ c \in Block /\ Sound(l[i]) /\ Sound(c)  BY <2>0, Typed DEF Heap
  <2>3. End(l[i]) = c.addr  BY <1>2, <2>2, AdjacentIs
  <2>4. /\ l[i].addr \in Nat /\ l[i].size \in Nat /\ c.size \in Nat /\ c.addr \in Nat
        /\ l[i].addr < End(l[i]) /\ c.addr < End(c) /\ End(c) <= Word /\ End(c) \in Nat
        /\ End(l[i]) = l[i].addr + Header + l[i].size /\ End(c) = c.addr + Header + c.size
    BY <2>0, Typed
  <2>5. l[i].addr >= 1 /\ z \in 0 .. Word - 1 /\ z > 0 /\ l[i].addr + Header + z = End(c)
    <3>1. l[i].addr >= 1  BY <2>2, <2>4, Constant DEF Sound
    <3>2. l[i].addr + Header + z = End(c)
      <4>1. PICK a, y, x, h \in Nat :
              a = l[i].addr /\ y = l[i].size /\ x = c.size /\ h = Header
        BY <2>4, Constant
      <4>2. a + h + (y + h + x) = (a + h + y) + h + x  OBVIOUS
      <4> QED  BY <2>3, <2>4, <4>1, <4>2
    <3>3. z \in Nat /\ z > 0  BY <2>4, Constant, SMTT(30)
    <3> HIDE DEF z, c
    <3>4. z <= Word - 1  BY <2>4, <3>1, <3>2, <3>3, Constant, SMTT(30)
    <3> QED  BY <3>1, <3>2, <3>3, <3>4, Constant
  <2>6. e \in Block /\ e.addr = l[i].addr /\ e.size = z /\ e.free
    BY <2>2, <2>5 DEF Block
  <2>7. End(e) = End(c)  BY <2>5, <2>6 DEF End
  <2>8. Sound(e)  BY <2>2, <2>4, <2>5, <2>6, <2>7 DEF Sound
  <2> HIDE DEF z, e
  <2>9. /\ u \in Seq(Block) /\ Len(u) = Len(l)
        /\ \A j \in 1 .. Len(l) : u[j] = IF j = i THEN e ELSE l[j]
    BY <2>6, ExceptSeq DEF Heap
  <2> HIDE DEF u, c
  <2>10. /\ t \in Seq(Block) /\ Len(t) = Len(l) - 1
         /\ \A j \in 1 .. Len(l) - 1 : t[j] = IF j < i + 1 THEN u[j] ELSE u[j + 1]
    BY <2>0, <2>9, RemoveIs
  <2> HIDE DEF t
  <2>11. \A j \in 1 .. Len(t) :
           \/ j < i /\ j \in 1 .. Len(l) /\ t[j] = l[j]
           \/ j = i /\ t[j] = e
           \/ i < j /\ j + 1 \in 1 .. Len(l) /\ t[j] = l[j + 1]
    BY <1>0, <2>9, <2>10
  <2>12. i \in 1 .. Len(t) /\ t[i] = e /\ \A j \in 1 .. i - 1 : j \in 1 .. Len(t) /\ t[j] = l[j]
    BY <1>0, <1>2, <2>10, <2>11
  <2>13. ASSUME NEW j \in 1 .. Len(l), j # i, j # i + 1
         PROVE  \E m \in 1 .. Len(t) : m # i /\ t[m] = l[j]
    <3>1. CASE j < i
      <4>1. j \in 1 .. i - 1  BY <1>0, <3>1
      <4> QED  BY <2>12, <3>1, <4>1
    <3>2. CASE j > i
      <4>1. j - 1 \in 1 .. Len(t) /\ i < j - 1 /\ (j - 1) + 1 = j  BY <1>0, <2>10, <2>13, <3>2
      <4>2. t[j - 1] = l[j]  BY <1>0, <2>11, <4>1
      <4>3. j - 1 # i  BY <1>0, <4>1
      <4> QED  BY <4>1, <4>2, <4>3
    <3>3. j < i \/ j > i  BY <1>0, <2>13
    <3> QED  BY <3>1, <3>2, <3>3
  <2>14. \A j \in 1 .. Len(t) : Sound(t[j])  BY <2>8, <2>11 DEF Heap
  <2>15. Sorted(t)
    <3>1. SUFFICES ASSUME NEW m \in 1 .. Len(t), NEW n \in 1 .. Len(t), m < n
                   PROVE  End(t[m]) <= t[n].addr
      BY DEF Sorted
    <3>2. m \in Int /\ n \in Int  BY <1>0, <2>10
    <3>3. CASE n < i
      <4>1. t[m] = l[m] /\ t[n] = l[n] /\ m \in 1 .. Len(l) /\ n \in 1 .. Len(l)
        BY <1>0, <2>11, <3>1, <3>2, <3>3
      <4> QED  BY <3>1, <4>1 DEF Heap, Sorted
    <3>4. CASE n = i
      <4>1. t[m] = l[m] /\ t[n].addr = l[i].addr /\ m \in 1 .. Len(l) /\ m < i
        BY <1>0, <2>6, <2>11, <3>1, <3>2, <3>4
      <4> QED  BY <4>1 DEF Heap, Sorted
    <3>5. CASE i < n
      <4>1. t[n] = l[n + 1] /\ n + 1 \in 1 .. Len(l)  BY <1>0, <2>11, <3>2, <3>5
      <4>2. CASE m < i
        <5>1. t[m] = l[m] /\ m \in 1 .. Len(l) /\ m < n + 1
          BY <1>0, <2>11, <3>1, <3>2, <4>2
        <5> QED  BY <4>1, <5>1 DEF Heap, Sorted
      <4>3. CASE m = i
        <5>1. End(t[m]) = End(l[i + 1]) /\ i + 1 < n + 1
          BY <1>0, <2>7, <2>12, <3>2, <3>5, <4>3 DEF c
        <5> QED  BY <2>0, <4>1, <5>1 DEF Heap, Sorted
      <4>4. CASE i < m
        <5>1. t[m] = l[m + 1] /\ m + 1 \in 1 .. Len(l) /\ m + 1 < n + 1
          BY <1>0, <2>11, <3>1, <3>2, <4>4
        <5> QED  BY <4>1, <5>1 DEF Heap, Sorted
      <4> QED  BY <1>0, <3>2, <4>2, <4>3, <4>4
    <3> QED  BY <1>0, <3>2, <3>3, <3>4, <3>5
  <2>16. Tiled(t, R)
    <3>1. SUFFICES ASSUME NEW x \in 0 .. Word - 1
                   PROVE  (\E j \in 1 .. Len(t) : t[j].addr <= x /\ x < End(t[j]))
                            <=> (\E j \in 1 .. Len(l) : l[j].addr <= x /\ x < End(l[j]))
      BY DEF Tiled, Heap
    <3>2. ASSUME NEW j \in 1 .. Len(t), t[j].addr <= x, x < End(t[j])
          PROVE  \E m \in 1 .. Len(l) : l[m].addr <= x /\ x < End(l[m])
      <4>1. CASE j = i
        <5>1. l[i].addr <= x /\ x < End(c)  BY <2>6, <2>7, <2>12, <3>2, <4>1
        <5>2. CASE x < End(l[i])  BY <5>1, <5>2
        <5>3. CASE x >= End(l[i])  BY <2>0, <2>3, <5>1, <5>3 DEF c
        <5>4. x < End(l[i]) \/ x >= End(l[i])  BY <2>3, <2>4
        <5> QED  BY <5>2, <5>3, <5>4
      <4>2. CASE j # i  BY <2>11, <3>2, <4>2
      <4> QED  BY <4>1, <4>2
    <3>3. ASSUME NEW j \in 1 .. Len(l), l[j].addr <= x, x < End(l[j])
          PROVE  \E m \in 1 .. Len(t) : t[m].addr <= x /\ x < End(t[m])
      <4>1. CASE j = i
        <5>1. x < End(e)
          <6>1. x \in Int  OBVIOUS
          <6> QED  BY <2>3, <2>4, <2>7, <3>3, <4>1, <6>1
        <5> QED  BY <2>6, <2>12, <3>3, <4>1, <5>1
      <4>2. CASE j = i + 1
        <5>1. e.addr <= x /\ x < End(e)
          <6>1. c.addr <= x /\ x < End(c) /\ x \in Int  BY <3>3, <4>2 DEF c
          <6> QED  BY <2>3, <2>4, <2>6, <2>7, <6>1
        <5> QED  BY <2>12, <5>1
      <4>3. CASE j # i /\ j # i + 1  BY <2>13, <3>3, <4>3
      <4> QED  BY <4>1, <4>2, <4>3
    <3> QED  BY <3>2, <3>3
  <2>17. Heap(t, R)  BY <2>10, <2>14, <2>15, <2>16 DEF Heap
  <2>18. ASSUME NEW V, Held(l, V) PROVE Held(t, V)
    <3>1. ASSUME NEW p \in V PROVE \E m \in 1 .. Len(t) :
             ~t[m].free /\ t[m].addr + Header = p.ptr /\ p.size <= t[m].size
      <4>1. PICK j \in 1 .. Len(l) :
              ~l[j].free /\ l[j].addr + Header = p.ptr /\ p.size <= l[j].size
        BY <2>18 DEF Held
      <4>2. j # i /\ j # i + 1  BY <1>2, <4>1
      <4>3. PICK m \in 1 .. Len(t) : t[m] = l[j]  BY <2>13, <4>2
      <4> QED  BY <4>1, <4>3
    <3>2. ASSUME NEW m \in 1 .. Len(t), ~t[m].free
          PROVE  \E p \in V : p.ptr = t[m].addr + Header
      <4>1. PICK j \in 1 .. Len(l) : t[m] = l[j]  BY <2>6, <2>11, <3>2
      <4> QED  BY <2>18, <3>2, <4>1 DEF Held
    <3> QED  BY <2>18, <3>1, <3>2 DEF Held
  <2>19. Loose(t, R, N \ {i})
    <3>1. SUFFICES ASSUME NEW j \in 1 .. Len(t) - 1, t[j].free, t[j + 1].free,
                          End(t[j]) = t[j + 1].addr
                   PROVE  j \in N \ {i} \/ \E a \in R : a.addr = t[j + 1].addr
      BY DEF Loose
    <3>2. j \in 1 .. Len(t) /\ j + 1 \in 1 .. Len(t) /\ j \in Int  BY <1>0, <2>10
    <3>3. CASE j < i
      <4>1. j \in 1 .. Len(l) - 1 /\ t[j] = l[j]  BY <1>0, <2>11, <3>2, <3>3
      <4>2. t[j + 1].addr = l[j + 1].addr /\ l[j + 1].free
        <5>1. CASE j + 1 = i  BY <2>6, <2>12, <5>1
        <5>2. CASE j + 1 < i
          <6>1. t[j + 1] = l[j + 1]  BY <1>0, <2>11, <3>2, <5>2
          <6> QED  BY <3>1, <6>1
        <5> QED  BY <1>0, <3>2, <3>3, <5>1, <5>2
      <4>3. j \in N \/ \E a \in R : a.addr = l[j + 1].addr
        BY <3>1, <4>1, <4>2 DEF Loose
      <4>4. j # i  BY <1>0, <3>3
      <4> QED  BY <4>2, <4>3, <4>4
    <3>4. CASE j >= i
      <4>1. /\ j + 1 \in 1 .. Len(l) - 1 /\ t[j + 1] = l[(j + 1) + 1]
            /\ End(t[j]) = End(l[j + 1]) /\ l[j + 1].free
        <5>1. j + 1 \in 1 .. Len(l) - 1 /\ i < j + 1 /\ i # j + 1  BY <1>0, <2>10, <3>2, <3>4
        <5>2. t[j + 1] = l[(j + 1) + 1]  BY <1>0, <2>11, <3>2, <5>1
        <5>3. CASE j = i  BY <1>2, <2>7, <2>12, <5>1, <5>2, <5>3 DEF c
        <5>4. CASE i < j
          <6>1. t[j] = l[j + 1]  BY <1>0, <2>11, <3>2, <5>4
          <6> QED  BY <3>1, <5>1, <5>2, <6>1
        <5> QED  BY <1>0, <3>2, <3>4, <5>3, <5>4
      <4>2. j + 1 \notin N  BY <1>0, <3>2, <3>4
      <4> QED  BY <3>1, <4>1, <4>2 DEF Loose
    <3> QED  BY <1>0, <3>2, <3>3, <3>4
  <2>20. Bulk(t) = Bulk(l)
    <3>1. Bulk(u) + l[i].size = Bulk(l) + z
      <4>1. u[i] = e /\ l \in Seq(Block)  BY <2>9 DEF Heap
      <4>2. \A j \in 1 .. Len(l) : j # i => u[j].size = l[j].size  BY <2>9
      <4>3. Bulk(u) + l[i].size = Bulk(l) + u[i].size  BY <2>9, <4>1, <4>2, BulkExcept
      <4> QED  BY <2>6, <4>1, <4>3
    <3>2. Bulk(u) = Bulk(t) + Header + c.size
      <4>1. PICK k \in 1 .. Len(u) : k = i + 1  BY <2>0, <2>9
      <4>2. u[k] = c
        <5>1. k # i  BY <1>0, <4>1
        <5> QED  BY <2>9, <4>1, <5>1 DEF c
      <4>3. ASSUME NEW j \in 1 .. Len(t) PROVE u[IF j < k THEN j ELSE j + 1] = t[j]
        BY <2>10, <4>1
      <4>4. Len(u) = Len(t) + 1  BY <1>0, <2>9, <2>10
      <4>5. \A j \in 1 .. Len(t) : u[IF j < k THEN j ELSE j + 1].size = t[j].size  BY <4>3
      <4>6. Bulk(u) = Bulk(t) + Header + u[k].size  BY <2>9, <2>10, <4>4, <4>5, BulkInsert
      <4> QED  BY <4>2, <4>6
    <3>3. PICK v, w, y, x, h \in Nat :
            v = Bulk(t) /\ w = Bulk(l) /\ y = l[i].size /\ x = c.size /\ h = Header
      <4>1. Bulk(t) \in Nat /\ Bulk(l) \in Nat  BY <2>10, BulkIs DEF Heap
      <4> QED  BY <2>4, <4>1, Constant
    <3>4. z = y + h + x  BY <3>3 DEF z
    <3>5. (v + h + x) + y = w + (y + h + x)  BY <3>1, <3>2, <3>3, <3>4
    <3>6. v = w  BY <3>5
    <3> QED  BY <3>3, <3>6
  <2> QED  BY <1>0, <2>1, <2>6, <2>12, <2>17, <2>18, <2>19, <2>20
<1> QED  BY <1>1, <1>2

\* t is l with its i-th block given to the program as g, at the same place.
Gives(l, i, t, g) ==
  /\ i \in 1 .. Len(t) /\ t[i].addr = l[i].addr /\ ~t[i].free
  /\ g.ptr = l[i].addr + Header /\ g.size <= t[i].size
  /\ \A j \in 1 .. Len(l) : j # i => \E k \in 1 .. Len(t) :
       t[k].addr = l[j].addr /\ t[k].size = l[j].size /\ t[k].free = l[j].free
  /\ \A k \in 1 .. Len(t) : ~t[k].free => k = i \/ \E j \in 1 .. Len(l) :
       t[k].addr = l[j].addr /\ ~l[j].free

LEMMA Granted ==
  ASSUME NEW l, NEW R, Heap(l, R), NEW V, Held(l, V), NEW i \in 1 .. Len(l), l[i].free,
         NEW t, NEW g, Gives(l, i, t, g)
  PROVE  Held(t, V \cup {g})
<1> USE DEF Gives
<1>1. ASSUME NEW p \in V
      PROVE  /\ p.ptr # g.ptr
             /\ \E k \in 1 .. Len(t) :
                  ~t[k].free /\ t[k].addr + Header = p.ptr /\ p.size <= t[k].size
  <2>1. PICK j \in 1 .. Len(l) :
          ~l[j].free /\ l[j].addr + Header = p.ptr /\ p.size <= l[j].size
    BY DEF Held
  <2>2. j # i  BY <2>1
  <2>3. l[j].addr # l[i].addr  BY <2>2, Apart
  <2>4. l[j].addr \in Nat /\ l[i].addr \in Nat /\ Header \in Nat  BY Typed, Constant
  <2>5. p.ptr # g.ptr  BY <2>1, <2>3, <2>4
  <2> QED  BY <2>1, <2>2, <2>5
<1>2. \A p \in V \cup {g} : \E k \in 1 .. Len(t) :
        ~t[k].free /\ t[k].addr + Header = p.ptr /\ p.size <= t[k].size
  BY <1>1
<1>3. ASSUME NEW k \in 1 .. Len(t), ~t[k].free
      PROVE  \E p \in V \cup {g} : p.ptr = t[k].addr + Header
  <2>1. CASE k = i  BY <2>1
  <2>2. ASSUME NEW j \in 1 .. Len(l), t[k].addr = l[j].addr, ~l[j].free
        PROVE  \E p \in V \cup {g} : p.ptr = t[k].addr + Header
    BY <2>2 DEF Held
  <2> QED  BY <1>3, <2>1, <2>2
<1>4. \A p, q \in V \cup {g} : p.ptr = q.ptr => p = q  BY <1>1 DEF Held
<1> QED  BY <1>2, <1>3, <1>4 DEF Held

\* split_block on a free block that is large enough.
LEMMA Split ==
  ASSUME NEW l, NEW R, Heap(l, R), NEW V, Held(l, V), Loose(l, R, {}),
         NEW i \in 1 .. Len(l), l[i].free,
         NEW s \in 1 .. Word - 1, OnUnit(s), s <= l[i].size,
         NEW n \in 0 .. s
  PROVE  LET t == Taken(l, i, s)
         IN  /\ Heap(t, R) /\ Loose(t, R, {}) /\ Bulk(t) = Bulk(l)
             /\ Held(t, V \cup {[ptr |-> Payload(l[i]), size |-> n]})
<1> DEFINE b == l[i]
           g == [ptr |-> Payload(l[i]), size |-> n]
<1>0. Len(l) \in Nat /\ i \in Nat /\ 1 <= i /\ i <= Len(l)  BY Typed
<1>1. b \in Block /\ Sound(b)  BY Typed DEF Heap
<1>2. /\ b.addr \in Nat /\ b.size \in Nat /\ End(b) = b.addr + Header + b.size
      /\ End(b) \in Nat /\ End(b) <= Word /\ b.addr < End(b)
  BY Typed
<1>3. b.addr >= Page /\ OnUnit(b.addr)  BY <1>1 DEF Sound
<1>4. g.ptr = b.addr + Header /\ g.size = n /\ Payload(b) = b.addr + Header
  BY <1>1, PayloadIs
<1>5. Splits(b, s) <=> b.size >= s + Header + ALIGNMENT
  <2>1. s + Header + ALIGNMENT \in 0 .. Word - 1  BY <1>2, <1>3, Constant
  <2>2. (s + Header + ALIGNMENT) % Word = s + Header + ALIGNMENT  BY <2>1, Constant, Below
  <2> QED  BY <2>2 DEF Splits
<1>6. CASE ~Splits(b, s)
  <2> DEFINE t == Mark(l, i, FALSE)
  <2>1. Taken(l, i, s) = t  BY <1>6 DEF Taken, Mark
  <2>2. /\ Heap(t, R) /\ Len(t) = Len(l) /\ Bulk(t) = Bulk(l)
        /\ \A j \in 1 .. Len(l) :
             /\ t[j].addr = l[j].addr /\ t[j].size = l[j].size
             /\ t[j].free = IF j = i THEN FALSE ELSE l[j].free
    <3>1. FALSE \in BOOLEAN  OBVIOUS
    <3> QED  BY <3>1, Marked, Zenon
  <2> HIDE DEF t, g
  <2>3. Held(t, V \cup {g})
    <3>0. n <= b.size
      <4>1. n \in Nat /\ s \in Nat /\ n <= s /\ s <= b.size /\ b.size \in Nat  BY <1>2
      <4> QED  BY <4>1
    <3>1. /\ i \in 1 .. Len(t) /\ t[i].addr = b.addr /\ ~t[i].free /\ g.size <= t[i].size
      BY <1>0, <1>4, <2>2, <3>0
    <3>2. \A j \in 1 .. Len(l) : j # i => \E k \in 1 .. Len(t) :
            t[k].addr = l[j].addr /\ t[k].size = l[j].size /\ t[k].free = l[j].free
      BY <2>2
    <3>3. \A k \in 1 .. Len(t) : ~t[k].free => k = i \/ \E j \in 1 .. Len(l) :
            t[k].addr = l[j].addr /\ ~l[j].free
      BY <2>2
    <3>4. Gives(l, i, t, g)  BY <1>4, <3>1, <3>2, <3>3 DEF Gives
    <3> QED  BY <3>4, Granted, Zenon
  <2>4. Loose(t, R, {})
    <3>1. SUFFICES ASSUME NEW j \in 1 .. Len(t) - 1, t[j].free, t[j + 1].free,
                          End(t[j]) = t[j + 1].addr
                   PROVE  \E a \in R : a.addr = t[j + 1].addr
      BY DEF Loose
    <3>2. j \in 1 .. Len(l) - 1 /\ j \in 1 .. Len(l) /\ j + 1 \in 1 .. Len(l)  BY <1>0, <2>2
    <3>3. l[j].free /\ l[j + 1].free /\ End(l[j]) = l[j + 1].addr /\ t[j + 1].addr = l[j + 1].addr
      BY <2>2, <3>1, <3>2 DEF End
    <3> QED  BY <3>2, <3>3 DEF Loose
  <2> QED  BY <2>1, <2>2, <2>3, <2>4 DEF g
<1>7. CASE Splits(b, s)
  <2> DEFINE e == [b EXCEPT !.size = s, !.free = FALSE]
             c == [addr |-> (Payload(b) + s) % Word, free |-> TRUE,
                   size |-> (b.size - s - Header) % Word]
             u == [l EXCEPT ![i] = e]
             t == InsertAt(u, i + 1, c)
  <2>1. Taken(l, i, s) = t  BY <1>7 DEF Taken
  <2>2. e \in Block /\ e.addr = b.addr /\ e.size = s /\ ~e.free /\ End(e) = b.addr + Header + s
    <3> DEFINE d == [b EXCEPT !.size = s]
    <3>1. s \in 0 .. Word - 1  BY Constant
    <3>2. d \in Block /\ d.addr = b.addr /\ d.size = s  BY <1>1, <3>1 DEF Block
    <3>3. e = [d EXCEPT !.free = FALSE]  OBVIOUS
    <3> HIDE DEF d, e
    <3>4. e \in Block  BY <3>2, <3>3 DEF Block
    <3>5. e.addr = b.addr /\ e.size = s /\ ~e.free  BY <3>2, <3>3 DEF Block
    <3> QED  BY <3>4, <3>5 DEF End
  <2> DEFINE q == b.addr + Header + s
             r == b.size - s - Header
  <2>3. /\ q \in 0 .. Word - 1 /\ r \in 1 .. Word - 1 /\ q + Header + r = End(b)
        /\ b.addr <= q /\ q <= End(b) /\ q >= Page
    <3>1. b.size >= s + Header + ALIGNMENT  BY <1>5, <1>7
    <3>2. q \in Nat /\ r \in Int /\ q + Header + r = End(b) /\ b.addr <= q /\ Page <= q
      <4>1. PICK a, y, h, x \in Nat : a = b.addr /\ y = b.size /\ h = Header /\ x = s
        BY <1>2, Constant
      <4>2. /\ a + h + x \in Nat /\ y - x - h \in Int /\ a <= a + h + x
            /\ (a + h + x) + h + (y - x - h) = a + h + y
        OBVIOUS
      <4>3. PICK v \in Nat : v = q /\ b.addr <= v  BY <4>1, <4>2
      <4>4. Page <= v  BY <1>2, <1>3, <4>3, Constant
      <4> QED  BY <1>2, <4>1, <4>2, <4>3, <4>4
    <3>3. r >= ALIGNMENT  BY <1>2, <3>1, Constant, SMTT(30)
    <3> HIDE DEF q, r
    <3> QED  BY <1>2, <3>2, <3>3, Constant, SMTT(30)
  <2>4. /\ c \in Block /\ c.addr = End(e) /\ c.free /\ c.size > 0 /\ End(c) = End(b)
        /\ c.addr \in Nat
    <3>1. (Payload(b) + s) % Word = q  BY <1>4, <2>3, Constant, Below
    <3>2. r \in 0 .. Word - 1  BY <2>3
    <3>3. r % Word = r  BY <3>2, Constant, Below
    <3>4. c.addr = q /\ c.size = r /\ c.free  BY <3>1, <3>3
    <3>5. c \in Block
      <4>1. c = [addr |-> q, size |-> r, free |-> TRUE]  BY <3>1, <3>3
      <4> HIDE DEF q, r, c
      <4> QED  BY <2>3, <3>2, <4>1 DEF Block
    <3>6. End(c) = q + Header + r  BY <3>4 DEF End
    <3> HIDE DEF q, r, c
    <3>7. q \in Nat /\ r > 0  BY <2>3
    <3> QED  BY <2>2, <2>3, <3>4, <3>5, <3>6, <3>7 DEF q
  <2>5. Sound(e) /\ Sound(c)
    <3>1. b.addr + Header \in Nat  BY <1>2, Constant
    <3>2. OnUnit(b.addr + Header)  BY <1>2, <1>3, Constant, SumMultiple DEF OnUnit
    <3>3. OnUnit(q)  BY <3>1, <3>2, Constant, SumMultiple DEF OnUnit
    <3>4. End(e) = q /\ c.addr = q  BY <2>2, <2>4
    <3>5. Sound(e)
      <4> HIDE DEF e, q
      <4>1. e.size > 0 /\ End(e) <= Word  BY <2>2, <2>3, <3>4, Constant
      <4> QED  BY <1>3, <2>2, <4>1 DEF Sound
    <3>6. Sound(c)
      <4> HIDE DEF c, e, q
      <4> QED  BY <1>2, <2>3, <2>4, <3>3, <3>4 DEF Sound
    <3> QED  BY <3>5, <3>6
  <2>50. PICK z \in Nat : z = c.size /\ b.size = s + Header + z
    <3>1. c.size = r /\ r \in Nat
      <4>1. r \in 0 .. Word - 1  BY <2>3
      <4>2. r % Word = r  BY <4>1, Constant, Below
      <4> QED  BY <4>1, <4>2
    <3>2. PICK y, h, x \in Nat : y = b.size /\ h = Header /\ x = s  BY <1>2, Constant
    <3>3. y = x + h + (y - x - h)  OBVIOUS
    <3> QED  BY <3>1, <3>2, <3>3
  <2>51. /\ b.addr <= e.addr /\ b.addr <= c.addr /\ End(e) <= End(b) /\ End(c) <= End(b)
         /\ e.addr \in Nat /\ c.addr \in Nat /\ End(e) \in Nat /\ End(c) \in Nat
    <3> HIDE DEF c, e
    <3>1. End(e) = q /\ c.addr = q /\ q \in Nat  BY <2>2, <2>3, <2>4
    <3> HIDE DEF q, r
    <3> QED  BY <1>2, <2>2, <2>3, <2>4, <3>1
  <2> HIDE DEF q, r
  <2> HIDE DEF c, e, g
  <2>6. /\ u \in Seq(Block) /\ Len(u) = Len(l)
        /\ \A j \in 1 .. Len(l) : u[j] = IF j = i THEN e ELSE l[j]
    BY <2>2, ExceptSeq DEF Heap
  <2> HIDE DEF u
  <2>7. i + 1 \in 1 .. Len(u) + 1  BY <1>0, <2>6
  <2>8. /\ t \in Seq(Block) /\ Len(t) = Len(l) + 1
        /\ \A j \in 1 .. Len(l) + 1 :
             t[j] = IF j < i + 1 THEN u[j] ELSE IF j = i + 1 THEN c ELSE u[j - 1]
    <3>1. PICK k \in 1 .. Len(u) + 1 : k = i + 1  BY <2>7
    <3>2. c \in Block /\ u \in Seq(Block)  BY <2>4, <2>6
    <3>3. /\ InsertAt(u, k, c) \in Seq(Block) /\ Len(InsertAt(u, k, c)) = Len(u) + 1
          /\ \A j \in 1 .. Len(u) + 1 :
               InsertAt(u, k, c)[j] = IF j < k THEN u[j] ELSE IF j = k THEN c ELSE u[j - 1]
      BY <3>2, InsertIs
    <3>4. t = InsertAt(u, k, c)  BY <3>1
    <3> HIDE DEF t
    <3> QED  BY <2>6, <3>1, <3>3, <3>4
  <2> HIDE DEF t
  <2>9. \A j \in 1 .. Len(t) :
          \/ j < i /\ j \in 1 .. Len(l) /\ t[j] = l[j]
          \/ j = i /\ t[j] = e
          \/ j = i + 1 /\ t[j] = c
          \/ i + 1 < j /\ j - 1 \in 1 .. Len(l) /\ j - 1 # i /\ t[j] = l[j - 1]
    <3> TAKE j \in 1 .. Len(t)
    <3>1. j \in 1 .. Len(l) + 1 /\ j \in Int  BY <1>0, <2>8
    <3>2. CASE j < i  BY <1>0, <2>6, <2>8, <3>1, <3>2
    <3>3. CASE j = i  BY <1>0, <2>6, <2>8, <3>1, <3>3
    <3>4. CASE j = i + 1  BY <1>0, <2>6, <2>8, <3>1, <3>4
    <3>5. CASE i + 1 < j
      <4>1. j - 1 \in 1 .. Len(l) /\ j - 1 # i /\ ~(j < i + 1) /\ j # i + 1
        BY <1>0, <3>1, <3>5
      <4>2. t[j] = u[j - 1]  BY <2>8, <3>1, <4>1
      <4> QED  BY <2>6, <3>5, <4>1, <4>2
    <3>6. j < i \/ j = i \/ j = i + 1 \/ i + 1 < j  BY <1>0, <3>1
    <3> QED  BY <3>2, <3>3, <3>4, <3>5, <3>6
  <2>10. i \in 1 .. Len(t) /\ i + 1 \in 1 .. Len(t) /\ t[i] = e /\ t[i + 1] = c
    BY <1>0, <2>6, <2>8
  <2>11. ASSUME NEW j \in 1 .. Len(l), j # i PROVE \E m \in 1 .. Len(t) : t[m] = l[j]
    <3>1. CASE j < i
      <4>1. j \in 1 .. Len(t)  BY <1>0, <2>8
      <4> QED  BY <1>0, <2>9, <3>1, <4>1
    <3>2. CASE j > i
      <4>1. j + 1 \in 1 .. Len(t) /\ i + 1 < j + 1 /\ (j + 1) - 1 = j  BY <1>0, <2>8, <3>2
      <4>2. t[j + 1] = l[j]  BY <1>0, <2>9, <4>1
      <4> QED  BY <4>1, <4>2
    <3>3. j < i \/ j > i  BY <1>0, <2>11
    <3> QED  BY <3>1, <3>2, <3>3
  <2>12. \A j \in 1 .. Len(t) : Sound(t[j])  BY <2>5, <2>9 DEF Heap
  <2>13. Sorted(t)
    <3>1. SUFFICES ASSUME NEW m \in 1 .. Len(t), NEW k \in 1 .. Len(t), m < k
                   PROVE  End(t[m]) <= t[k].addr
      BY DEF Sorted
    <3>2. m \in Int /\ k \in Int  BY <1>0, <2>8
    <3>3. CASE k < i
      <4>1. t[m] = l[m] /\ t[k] = l[k] /\ m \in 1 .. Len(l) /\ k \in 1 .. Len(l)
        BY <1>0, <2>9, <3>1, <3>2, <3>3
      <4> QED  BY <3>1, <4>1 DEF Heap, Sorted
    <3>4. CASE (k = i \/ k = i + 1) /\ m < i
      <4>1. t[m] = l[m] /\ m \in 1 .. Len(l)  BY <1>0, <2>9, <3>2, <3>4
      <4>2. End(l[m]) <= b.addr  BY <3>4, <4>1 DEF Heap, Sorted
      <4>3. End(l[m]) \in Nat  BY <4>1, Typed
      <4>4. t[k].addr \in Nat /\ b.addr <= t[k].addr
        BY <2>51, <2>10, <3>4
      <4> QED  BY <1>2, <4>1, <4>2, <4>3, <4>4
    <3>5. CASE k = i + 1 /\ m = i
      <4>1. t[m] = e /\ t[k] = c  BY <2>10, <3>5
      <4> QED  BY <2>4, <4>1
    <3>6. CASE i + 1 < k
      <4>1. t[k] = l[k - 1] /\ k - 1 \in 1 .. Len(l)  BY <1>0, <2>9, <3>2, <3>6
      <4>2. CASE m < i
        <5>1. t[m] = l[m] /\ m \in 1 .. Len(l) /\ m < k - 1
          BY <1>0, <2>9, <3>2, <3>6, <4>2
        <5> QED  BY <4>1, <5>1 DEF Heap, Sorted
      <4>3. CASE m = i \/ m = i + 1
        <5>1. End(b) <= l[k - 1].addr
          <6>1. i < k - 1  BY <1>0, <3>2, <3>6
          <6> QED  BY <4>1, <6>1 DEF Heap, Sorted
        <5>2. End(t[m]) <= End(b) /\ End(t[m]) \in Nat
          BY <2>51, <2>10, <4>3
        <5>3. l[k - 1].addr \in Nat  BY <4>1, Typed
        <5> QED  BY <1>2, <4>1, <5>1, <5>2, <5>3
      <4>4. CASE i + 1 < m
        <5>1. t[m] = l[m - 1] /\ m - 1 \in 1 .. Len(l) /\ m - 1 < k - 1
          BY <1>0, <2>9, <3>1, <3>2, <4>4
        <5> QED  BY <4>1, <5>1 DEF Heap, Sorted
      <4>5. m < i \/ (m = i \/ m = i + 1) \/ i + 1 < m  BY <1>0, <3>2
      <4> QED  BY <4>2, <4>3, <4>4, <4>5
    <3>7. k < i \/ ((k = i \/ k = i + 1) /\ m < i) \/ (k = i + 1 /\ m = i) \/ i + 1 < k
      BY <1>0, <3>1, <3>2
    <3> QED  BY <3>3, <3>4, <3>5, <3>6, <3>7
  <2>14. Tiled(t, R)
    <3>1. SUFFICES ASSUME NEW x \in 0 .. Word - 1
                   PROVE  (\E j \in 1 .. Len(t) : t[j].addr <= x /\ x < End(t[j]))
                            <=> (\E j \in 1 .. Len(l) : l[j].addr <= x /\ x < End(l[j]))
      BY DEF Tiled, Heap
    <3>2. x \in Int /\ Header \in Nat  BY Constant
    <3>3. ASSUME NEW j \in 1 .. Len(t), t[j].addr <= x, x < End(t[j])
          PROVE  \E m \in 1 .. Len(l) : l[m].addr <= x /\ x < End(l[m])
      <4>1. CASE j = i \/ j = i + 1
        <5>1. b.addr <= t[j].addr /\ End(t[j]) <= End(b) /\ t[j].addr \in Nat /\ End(t[j]) \in Nat
          BY <2>51, <2>10, <4>1
        <5>2. b.addr <= x /\ x < End(b)  BY <1>2, <3>2, <3>3, <5>1
        <5> QED  BY <5>2
      <4>2. CASE j # i /\ j # i + 1  BY <2>9, <3>3, <4>2
      <4> QED  BY <4>1, <4>2
    <3>4. ASSUME NEW j \in 1 .. Len(l), l[j].addr <= x, x < End(l[j])
          PROVE  \E m \in 1 .. Len(t) : t[m].addr <= x /\ x < End(t[m])
      <4>1. CASE j = i
        <5>1. CASE x < End(e)  BY <2>2, <2>10, <3>4, <4>1, <5>1
        <5>2. CASE x >= End(e)  BY <2>4, <2>10, <3>4, <4>1, <5>2
        <5>3. x < End(e) \/ x >= End(e)  BY <2>4, <3>2
        <5> QED  BY <5>1, <5>2, <5>3
      <4>2. CASE j # i  BY <2>11, <3>4, <4>2
      <4> QED  BY <4>1, <4>2
    <3> QED  BY <3>3, <3>4
  <2>15. Heap(t, R)  BY <2>8, <2>12, <2>13, <2>14 DEF Heap
  <2>16. Held(t, V \cup {g})
    <3>1. t[i].addr = b.addr /\ ~t[i].free /\ g.size <= t[i].size
      BY <1>4, <2>2, <2>10
    <3>2. \A j \in 1 .. Len(l) : j # i => \E k \in 1 .. Len(t) :
            t[k].addr = l[j].addr /\ t[k].size = l[j].size /\ t[k].free = l[j].free
      BY <2>11
    <3>3. \A k \in 1 .. Len(t) : ~t[k].free => k = i \/ \E j \in 1 .. Len(l) :
            t[k].addr = l[j].addr /\ ~l[j].free
      BY <2>4, <2>9
    <3>4. Gives(l, i, t, g)  BY <1>4, <2>10, <3>1, <3>2, <3>3 DEF Gives
    <3> QED  BY <3>4, Granted, Zenon
  <2>17. Loose(t, R, {})
    <3>1. SUFFICES ASSUME NEW j \in 1 .. Len(t) - 1, t[j].free, t[j + 1].free,
                          End(t[j]) = t[j + 1].addr
                   PROVE  \E a \in R : a.addr = t[j + 1].addr
      BY DEF Loose
    <3>2. j \in 1 .. Len(t) /\ j + 1 \in 1 .. Len(t) /\ j \in Int  BY <1>0, <2>8
    <3>3. j # i /\ j + 1 # i  BY <2>2, <2>10, <3>1
    <3>4. CASE j + 1 < i
      <4>1. t[j] = l[j] /\ t[j + 1] = l[j + 1] /\ j \in 1 .. Len(l) - 1
        BY <1>0, <2>8, <2>9, <3>2, <3>4
      <4> QED  BY <3>1, <4>1 DEF Loose
    <3>5. CASE i < j
      <4>1. t[j + 1] = l[j] /\ j \in 1 .. Len(l)
        <5>1. i + 1 < j + 1 /\ (j + 1) - 1 = j  BY <1>0, <3>2, <3>5
        <5> QED  BY <1>0, <2>9, <3>2, <5>1
      <4>2. /\ j - 1 \in 1 .. Len(l) - 1 /\ (j - 1) + 1 = j
            /\ End(l[j - 1]) = End(t[j]) /\ l[j - 1].free
        <5>1. j - 1 \in 1 .. Len(l) - 1 /\ (j - 1) + 1 = j  BY <1>0, <2>8, <3>2, <3>5
        <5>2. CASE j = i + 1
          <6>1. j - 1 = i  BY <1>0, <5>2
          <6> QED  BY <2>4, <2>10, <5>1, <5>2, <6>1
        <5>3. CASE i + 1 < j
          <6>1. t[j] = l[j - 1]  BY <1>0, <2>9, <3>2, <5>3
          <6> QED  BY <3>1, <5>1, <6>1
        <5> QED  BY <1>0, <3>2, <3>5, <5>2, <5>3
      <4> QED  BY <3>1, <4>1, <4>2 DEF Loose
    <3>6. j + 1 < i \/ i < j  BY <1>0, <3>2, <3>3
    <3> QED  BY <3>4, <3>5, <3>6
  <2>18. Bulk(t) = Bulk(l)
    <3>1. Bulk(u) + b.size = Bulk(l) + s
      <4>1. u[i] = e /\ l \in Seq(Block)  BY <2>6 DEF Heap
      <4>2. \A j \in 1 .. Len(l) : j # i => u[j].size = l[j].size  BY <2>6
      <4>3. Bulk(u) + l[i].size = Bulk(l) + u[i].size  BY <2>6, <4>1, <4>2, BulkExcept
      <4> QED  BY <2>2, <4>1, <4>3
    <3>2. Bulk(t) = Bulk(u) + Header + c.size
      <4>1. PICK k \in 1 .. Len(t) : k = i + 1  BY <1>0, <2>8
      <4>2. t[k] = c
        <5>1. k \in 1 .. Len(l) + 1 /\ ~(k < i + 1)  BY <1>0, <2>8, <4>1
        <5> QED  BY <2>8, <4>1, <5>1
      <4>3. ASSUME NEW j \in 1 .. Len(u) PROVE t[IF j < k THEN j ELSE j + 1] = u[j]
        <5>1. CASE j < k
          <6>1. j \in 1 .. Len(l) + 1  BY <1>0, <2>6
          <6> QED  BY <2>8, <4>1, <5>1, <6>1
        <5>2. CASE ~(j < k)
          <6>1. /\ j + 1 \in 1 .. Len(l) + 1 /\ (j + 1) - 1 = j
                /\ ~(j + 1 < i + 1) /\ j + 1 # i + 1
            BY <1>0, <2>6, <4>1, <5>2
          <6> QED  BY <2>8, <5>2, <6>1
        <5> QED  BY <5>1, <5>2
      <4>4. Len(t) = Len(u) + 1  BY <2>6, <2>8
      <4>5. \A j \in 1 .. Len(u) : t[IF j < k THEN j ELSE j + 1].size = u[j].size  BY <4>3
      <4>6. Bulk(t) = Bulk(u) + Header + t[k].size  BY <2>6, <2>8, <4>4, <4>5, BulkInsert
      <4> QED  BY <4>2, <4>6
    <3>3. PICK v, w, x, h \in Nat : v = Bulk(u) /\ w = Bulk(l) /\ x = s /\ h = Header
      <4>1. Bulk(u) \in Nat /\ Bulk(l) \in Nat  BY <2>6, BulkIs DEF Heap
      <4> QED  BY <4>1, Constant
    <3>4. v + (x + h + z) = w + x  BY <2>50, <3>1, <3>3
    <3>5. v + h + z = w  BY <3>4
    <3> QED  BY <2>50, <3>2, <3>3, <3>5
  <2> QED  BY <2>1, <2>15, <2>16, <2>17, <2>18 DEF g
<1> QED  BY <1>6, <1>7

\* my_free: mark, merge with the next block, merge with the one before.
LEMMA Freed ==
  ASSUME NEW l, NEW R, Heap(l, R), NEW V, Held(l, V), Loose(l, R, {}),
         NEW p \in V, NEW i \in 1 .. Len(l), l[i].addr + Header = p.ptr
  PROVE  LET t == FreedBackward(coalesce_with_next(Mark(l, i, TRUE), i), i)
         IN  Heap(t, R) /\ Held(t, V \ {p}) /\ Loose(t, R, {}) /\ Bulk(t) = Bulk(l)
<1> DEFINE f == Mark(l, i, TRUE)
           N == {i - 1, i}
           c == coalesce_with_next(f, i)
<1>0. Len(l) \in Nat /\ i \in Nat /\ 1 <= i /\ i <= Len(l)  BY Typed
<1>1. /\ Heap(f, R) /\ Len(f) = Len(l) /\ Bulk(f) = Bulk(l)
      /\ \A j \in 1 .. Len(l) :
           /\ f[j].addr = l[j].addr /\ f[j].size = l[j].size
           /\ f[j].free = IF j = i THEN TRUE ELSE l[j].free
  <2>1. PICK v \in BOOLEAN : v = TRUE  OBVIOUS
  <2>2. /\ Heap(Mark(l, i, v), R) /\ Len(Mark(l, i, v)) = Len(l)
        /\ Bulk(Mark(l, i, v)) = Bulk(l)
        /\ \A j \in 1 .. Len(l) :
             /\ Mark(l, i, v)[j].addr = l[j].addr /\ Mark(l, i, v)[j].size = l[j].size
             /\ Mark(l, i, v)[j].free = IF j = i THEN v ELSE l[j].free
    <3> HIDE DEF f
    <3> QED  BY Marked
  <2>3. f = Mark(l, i, v)  BY <2>1
  <2> HIDE DEF f
  <2> QED  BY <2>1, <2>2, <2>3
<1> HIDE DEF f
<1>2. Held(f, V \ {p})
  <2>1. ASSUME NEW q \in V \ {p} PROVE \E k \in 1 .. Len(f) :
           ~f[k].free /\ f[k].addr + Header = q.ptr /\ q.size <= f[k].size
    <3>1. PICK j \in 1 .. Len(l) :
            ~l[j].free /\ l[j].addr + Header = q.ptr /\ q.size <= l[j].size
      BY DEF Held
    <3>2. q.ptr # p.ptr  BY DEF Held
    <3>3. j # i  BY <3>1, <3>2
    <3> QED  BY <1>1, <3>1, <3>3
  <2>2. ASSUME NEW k \in 1 .. Len(f), ~f[k].free
        PROVE  \E q \in V \ {p} : q.ptr = f[k].addr + Header
    <3>1. k \in 1 .. Len(l) /\ k # i /\ ~l[k].free /\ f[k].addr = l[k].addr  BY <1>1, <2>2
    <3>2. PICK q \in V : q.ptr = l[k].addr + Header  BY <3>1 DEF Held
    <3>3. l[k].addr # l[i].addr  BY <3>1, Apart
    <3>4. l[k].addr \in Nat /\ l[i].addr \in Nat /\ Header \in Nat  BY <3>1, Typed, Constant
    <3>5. q # p  BY <3>2, <3>3, <3>4
    <3> QED  BY <3>1, <3>2, <3>5
  <2>3. \A q, r \in V \ {p} : q.ptr = r.ptr => q = r  BY DEF Held
  <2> QED  BY <2>1, <2>2, <2>3 DEF Held
<1>3. Loose(f, R, N)
  <2>1. SUFFICES ASSUME NEW j \in 1 .. Len(f) - 1, f[j].free, f[j + 1].free,
                        End(f[j]) = f[j + 1].addr
                 PROVE  j \in N \/ \E a \in R : a.addr = f[j + 1].addr
    BY DEF Loose
  <2>2. j \in 1 .. Len(l) - 1 /\ j \in 1 .. Len(l) /\ j + 1 \in 1 .. Len(l) /\ j \in Int
    BY <1>0, <1>1
  <2>3. CASE j = i \/ j + 1 = i  BY <1>0, <2>2, <2>3
  <2>4. CASE j # i /\ j + 1 # i
    <3>1. l[j].free /\ l[j + 1].free  BY <1>1, <2>1, <2>2, <2>4
    <3>2. End(l[j]) = l[j + 1].addr /\ f[j + 1].addr = l[j + 1].addr
      BY <1>1, <2>1, <2>2 DEF End
    <3> QED  BY <2>2, <3>1, <3>2 DEF Loose
  <2> QED  BY <2>3, <2>4
<1>4. /\ Heap(c, R) /\ i <= Len(c) /\ c[i].free
      /\ \A W : Held(f, W) => Held(c, W)
      /\ Loose(c, R, N \ {i}) /\ Bulk(c) = Bulk(f)
  <2>1. i \in 1 .. Len(f) /\ f[i].free  BY <1>0, <1>1
  <2>2. N \in SUBSET (0 .. i)  BY <1>0
  <2> HIDE DEF N
  <2> QED  BY <1>1, <1>3, <2>1, <2>2, Coalesced
<1> HIDE DEF c
<1>5. Loose(c, R, {i - 1})  BY <1>0, <1>4 DEF Loose
<1>6. Held(c, V \ {p})  BY <1>2, <1>4
<1>7. Len(c) \in Nat  BY <1>4, Typed
<1>8. CASE i > 1 /\ c[i - 1].free /\ adjacent(c[i - 1], c[i])
  <2> DEFINE t == coalesce_with_next(c, i - 1)
  <2>1. FreedBackward(c, i) = t  BY <1>8 DEF FreedBackward
  <2>2. PICK k \in 1 .. Len(c) : k = i - 1  BY <1>0, <1>4, <1>7, <1>8
  <2>3. {k} \in SUBSET (0 .. k) /\ Loose(c, R, {k}) /\ c[k].free  BY <1>5, <1>8, <2>2
  <2>4. /\ Heap(coalesce_with_next(c, k), R)
        /\ \A W : Held(c, W) => Held(coalesce_with_next(c, k), W)
        /\ Loose(coalesce_with_next(c, k), R, {k} \ {k})
        /\ Bulk(coalesce_with_next(c, k)) = Bulk(c)
    BY <1>4, <2>3, Coalesced
  <2>5. {k} \ {k} = {}  OBVIOUS
  <2> QED  BY <1>1, <1>4, <1>6, <2>1, <2>2, <2>4, <2>5 DEF c, f
<1>9. CASE ~(i > 1 /\ c[i - 1].free /\ adjacent(c[i - 1], c[i]))
  <2>1. FreedBackward(c, i) = c  BY <1>9 DEF FreedBackward
  <2>2. Loose(c, R, {})
    <3>1. SUFFICES ASSUME NEW j \in 1 .. Len(c) - 1, c[j].free, c[j + 1].free,
                          End(c[j]) = c[j + 1].addr
                   PROVE  \E a \in R : a.addr = c[j + 1].addr
      BY DEF Loose
    <3>2. j \in 1 .. Len(c) /\ j + 1 \in 1 .. Len(c) /\ j \in Int /\ 1 <= j  BY <1>7
    <3>3. CASE j = i - 1
      <4>1. i > 1 /\ j + 1 = i  BY <1>0, <3>2, <3>3
      <4>2. c[j] \in Block /\ c[i] \in Block /\ Sound(c[j]) /\ Sound(c[i])
        BY <1>4, <3>2, <4>1, Typed DEF Heap
      <4>3. adjacent(c[j], c[i])  BY <3>1, <4>1, <4>2, AdjacentIs
      <4> QED  BY <1>9, <3>1, <3>3, <4>1, <4>3
    <3>4. CASE j # i - 1  BY <1>5, <3>1, <3>4 DEF Loose
    <3> QED  BY <3>3, <3>4
  <2> QED  BY <1>1, <1>4, <1>6, <2>1, <2>2 DEF c, f
<1> QED  BY <1>8, <1>9

-----------------------------------------------------------------------------
\* The steps.

LEMMA TakenType ==
  ASSUME NEW l \in Seq(Block), NEW i \in 1 .. Len(l), NEW s \in 0 .. Word - 1
  PROVE  Taken(l, i, s) \in Seq(Block) /\ Payload(l[i]) \in 0 .. Word - 1
<1> DEFINE b == l[i]
           c == [addr |-> (Payload(b) + s) % Word, free |-> TRUE,
                 size |-> (b.size - s - Header) % Word]
           e == [b EXCEPT !.size = s, !.free = FALSE]
           d == [b EXCEPT !.free = FALSE]
<1>0. Len(l) \in Nat /\ b \in Block  BY LenProperties, ElementOfSeq
<1>1. b.addr \in Nat /\ b.size \in Nat  BY <1>0, Constant DEF Block
<1>2. ASSUME NEW n \in Int PROVE n % Word \in 0 .. Word - 1
  <2>1. Word \in Nat \ {0}  BY Constant
  <2> QED  BY <2>1, SMT
<1>3. Payload(b) \in 0 .. Word - 1 /\ Payload(b) \in Int
  <2>1. b.addr + Header \in Int  BY <1>1, Constant
  <2>2. Payload(b) \in 0 .. Word - 1  BY <1>2, <2>1 DEF Payload
  <2> QED  BY <2>2
<1>4. c \in Block
  <2>1. Payload(b) + s \in Int /\ b.size - s - Header \in Int  BY <1>1, <1>3, Constant
  <2>2. (Payload(b) + s) % Word \in 0 .. Word - 1  BY <1>2, <2>1
  <2>3. (b.size - s - Header) % Word \in 0 .. Word - 1  BY <1>2, <2>1
  <2> QED  BY <2>2, <2>3 DEF Block
<1>5. d \in Block  BY <1>0 DEF Block
<1>6. e \in Block
  <2>1. [b EXCEPT !.size = s] \in Block  BY <1>0 DEF Block
  <2>2. e = [[b EXCEPT !.size = s] EXCEPT !.free = FALSE]  OBVIOUS
  <2> QED  BY <2>1, <2>2 DEF Block
<1>7. CASE Splits(b, s)
  <2> DEFINE u == [l EXCEPT ![i] = e]
  <2> HIDE DEF c, e
  <2>1. u \in Seq(Block) /\ Len(u) = Len(l)  BY <1>6, ExceptSeq
  <2> HIDE DEF u
  <2>2. PICK k \in 1 .. Len(u) + 1 : k = i + 1  BY <1>0, <2>1
  <2>3. InsertAt(u, k, c) \in Seq(Block)  BY <1>4, <2>1, InsertIs
  <2>4. Taken(l, i, s) = InsertAt(u, i + 1, c)  BY <1>7 DEF Taken, u, c, e
  <2> QED  BY <1>3, <2>2, <2>3, <2>4
<1>8. CASE ~Splits(b, s)
  <2>1. Taken(l, i, s) = [l EXCEPT ![i] = d]  BY <1>8 DEF Taken
  <2> HIDE DEF d
  <2> QED  BY <1>3, <1>5, <2>1, ExceptSeq
<1> QED  BY <1>7, <1>8

\* Give leaves a sound heap, or the request was at the top of size_t.
LEMMA GiveStep ==
  ASSUME TypeOK, NEW l, NEW R, Heap(l, R), Held(l, live), Loose(l, R, {}),
         NEW i \in 1 .. Len(l), l[i].free, NEW n \in Sizes, n > 0,
         Give(l, i, n, aligned_size(n)),
         aligned_size(n) > l[i].size => Overflows(n)
  PROVE  /\ list' \in Seq(Block) /\ wrapped' \in BOOLEAN
         /\ live' \subseteq [ptr : 0 .. Word - 1, size : Sizes]
         /\ wrapped' => \E p \in live' : Overflows(p.size)
         /\ ~wrapped' => /\ Heap(list', R) /\ Held(list', live') /\ Loose(list', R, {})
                        /\ Bulk(list') = Bulk(l)
<1> DEFINE s == aligned_size(n)
           g == [ptr |-> Payload(l[i]), size |-> n]
<1>1. n \in 1 .. Word - 1 /\ Word \in Nat  BY SizeAssumption, Constant
<1>2. /\ s \in 0 .. Word - 1 /\ s < n + ALIGNMENT
      /\ s >= n => OnUnit(s)
      /\ s < n => n + ALIGNMENT >= Word
  BY <1>1, Aligned
<1>3. /\ list' = Taken(l, i, s) /\ live' = live \cup {g}
      /\ wrapped' = (s < n \/ s > l[i].size)
  BY DEF Give
<1> HIDE DEF s
<1>4. list' \in Seq(Block) /\ Payload(l[i]) \in 0 .. Word - 1
  BY <1>2, <1>3, TakenType DEF Heap
<1>5. g \in [ptr : 0 .. Word - 1, size : Sizes] /\ g.size = n  BY <1>4
<1> HIDE DEF g
<1>6. live' \subseteq [ptr : 0 .. Word - 1, size : Sizes]  BY <1>3, <1>5 DEF TypeOK
<1>7. wrapped' => \E p \in live' : Overflows(p.size)
  <2>1. s < n => Overflows(n)  BY <1>1, <1>2, Constant DEF Overflows
  <2>2. wrapped' => Overflows(g.size)  BY <1>3, <1>5, <2>1 DEF s
  <2> QED  BY <1>3, <2>2
<1>8. ASSUME ~wrapped'
      PROVE  /\ Heap(list', R) /\ Held(list', live') /\ Loose(list', R, {})
             /\ Bulk(list') = Bulk(l)
  <2>1. l[i].size \in Nat  BY Typed
  <2>2. s >= n /\ s <= l[i].size
    <3>1. ~(s < n) /\ ~(s > l[i].size)  BY <1>3, <1>8, Zenon
    <3> QED  BY <1>1, <1>2, <2>1, <3>1
  <2>3. s \in 1 .. Word - 1 /\ OnUnit(s) /\ n \in 0 .. s  BY <1>1, <1>2, <2>2
  <2>4. /\ Heap(Taken(l, i, s), R) /\ Loose(Taken(l, i, s), R, {})
        /\ Bulk(Taken(l, i, s)) = Bulk(l)
        /\ Held(Taken(l, i, s), live \cup {[ptr |-> Payload(l[i]), size |-> n]})
    BY <2>2, <2>3, Split
  <2> QED  BY <1>3, <2>4 DEF g
<1>9. wrapped' \in BOOLEAN  BY <1>3
<1> QED  BY <1>4, <1>6, <1>7, <1>8, <1>9

LEMMA FitStep ==
  ASSUME IInv, NEW n \in Sizes, MallocFit(n)
  PROVE  IInv'
<1> DEFINE F == find_fit(aligned_size(n))
           i == Min(F)
<1>1. ~wrapped /\ n > 0 /\ F # {}  BY DEF MallocFit
<1>2. Give(list, i, n, aligned_size(n)) /\ mapped_bytes' = mapped_bytes /\ arenas' = arenas
  BY DEF MallocFit
<1>3. /\ TypeOK /\ Heap(list, arenas) /\ Held(list, live) /\ Loose(list, arenas, {})
      /\ mapped_bytes = Bulk(list)
  BY <1>1 DEF IInv, Whole
<1>4. i \in 1 .. Len(list) /\ list[i].free /\ list[i].size >= aligned_size(n)
  <2>1. F \subseteq Nat  BY DEF find_fit
  <2>2. Min(F) \in F
    <3> HIDE DEF F
    <3> QED  BY <1>1, <2>1, MinIs
  <2> QED  BY <2>2 DEF find_fit
<1> HIDE DEF F, i
<1>5. ~(aligned_size(n) > list[i].size)
  <2>1. list[i].size \in Nat  BY <1>3, <1>4, Typed
  <2>2. n \in 1 .. Word - 1  BY <1>1, SizeAssumption, Constant
  <2>3. aligned_size(n) \in Nat  BY <2>2, Aligned
  <2> QED  BY <1>4, <2>1, <2>3
<1>6. /\ list' \in Seq(Block) /\ wrapped' \in BOOLEAN
      /\ live' \subseteq [ptr : 0 .. Word - 1, size : Sizes]
      /\ wrapped' => \E p \in live' : Overflows(p.size)
      /\ ~wrapped' => /\ Heap(list', arenas) /\ Held(list', live') /\ Loose(list', arenas, {})
                     /\ Bulk(list') = Bulk(list)
  BY <1>1, <1>2, <1>3, <1>4, <1>5, GiveStep
<1>7. TypeOK'  BY <1>2, <1>3, <1>6 DEF TypeOK, Block
<1>8. (\A a \in arenas : Fits(a))'  BY <1>2 DEF IInv, Fits
<1>9. (wrapped => \E p \in live : Overflows(p.size))'  BY <1>6 DEF Overflows
<1>10. (~wrapped => Whole(list, arenas, live, mapped_bytes))'  BY <1>2, <1>3, <1>6 DEF Whole
<1> QED  BY <1>7, <1>8, <1>9, <1>10 DEF IInv

LEMMA MapStep ==
  ASSUME IInv, NEW n \in Sizes, MallocMap(n)
  PROVE  IInv'
<1> DEFINE z == aligned_size(n)
           T == ArenaTotal(z)
<1>1. ~wrapped /\ n > 0 /\ mapped_bytes' = mapped_bytes + T  BY DEF MallocMap
<1>2. /\ TypeOK /\ Heap(list, arenas) /\ Held(list, live) /\ Loose(list, arenas, {})
      /\ mapped_bytes = Bulk(list)
  BY <1>1 DEF IInv, Whole
<1>3. PICK addr \in 0 .. Word :
        LET b == [addr |-> addr, size |-> T - Header, free |-> TRUE]
            l == insert_sorted(list, b)
        IN  /\ FreeRun(addr, T)
            /\ Give(l, SelectInSeq(l, LAMBDA x : x = b), n, z)
            /\ arenas' = arenas \cup {[addr |-> addr, total |-> T]}
  BY DEF MallocMap
<1> DEFINE b == [addr |-> addr, size |-> T - Header, free |-> TRUE]
           A == [addr |-> addr, total |-> T]
           l == insert_sorted(list, b)
           i == SelectInSeq(l, LAMBDA x : x = b)
<1>4. n \in 1 .. Word - 1 /\ z \in 0 .. Word - 1 /\ z < n + ALIGNMENT
  <2>1. n \in 1 .. Word - 1  BY <1>1, SizeAssumption, Constant
  <2> QED  BY <2>1, Aligned
<1>5. /\ T > 0 /\ addr % Page = 0 /\ addr > 0 /\ addr + T <= Word
      /\ \A a \in arenas : a.addr + a.total <= addr \/ addr + T <= a.addr
  BY <1>3 DEF FreeRun
<1>6. Give(l, i, n, z) /\ arenas' = arenas \cup {A}  BY <1>3
<1> HIDE DEF z
<1>7. T \in 1 .. Word - 1 /\ ARENA_MIN <= T /\ (Header + z < Word => Header + z <= T)
  BY <1>4, <1>5, Arena
<1> HIDE DEF T
<1>8. addr \in 0 .. Word - 1 /\ addr \in Nat /\ addr >= Page /\ OnUnit(addr)
  <2>1. addr \in Nat /\ addr \in 0 .. Word - 1  BY <1>5, <1>7, Constant
  <2>2. OnUnit(addr)
    <3>1. Page % ALIGNMENT = 0  BY SizeAssumption
    <3> QED  BY <1>5, <2>1, <3>1, Constant, MultipleOfMultiple DEF OnUnit
  <2>3. addr >= Page
    <3>1. SUFFICES ASSUME addr < Page PROVE FALSE  BY <2>1, Constant
    <3>2. addr \in 0 .. Page - 1  BY <2>1, <3>1, Constant
    <3>3. addr % Page = addr  BY <3>2, Constant, Below
    <3> QED  BY <1>5, <3>3
  <2> QED  BY <2>1, <2>2, <2>3
<1>9. /\ b \in Block /\ b.addr = addr /\ b.size = T - Header /\ b.free
      /\ b.size \in Nat /\ b.size > 0 /\ End(b) = addr + T
  <2>1. T - Header \in 1 .. Word - 1  BY <1>7, Constant
  <2>2. b \in Block  BY <1>8, <2>1 DEF Block
  <2>3. b.addr = addr /\ b.size = T - Header /\ b.free  OBVIOUS
  <2> HIDE DEF b
  <2>4. End(b) = addr + T  BY <1>7, <1>8, <2>3, Constant DEF End
  <2> QED  BY <2>1, <2>2, <2>3, <2>4
<1>10. /\ A \in [addr : 0 .. Word - 1, total : 1 .. Word] /\ A.addr = addr /\ A.total = T
       /\ Fits(A)
  <2>1. T \in 1 .. Word  BY <1>7, Constant
  <2> QED  BY <1>5, <1>8, <2>1 DEF Fits
<1> HIDE DEF A, b
<1>11. Sound(b)  BY <1>5, <1>8, <1>9 DEF Sound
<1>12. arenas \subseteq [addr : 0 .. Word - 1, total : 1 .. Word]  BY <1>2 DEF TypeOK
<1>13. A.addr = b.addr /\ A.addr + A.total = End(b)  BY <1>9, <1>10
<1>14. \A a \in arenas : a.addr + a.total <= b.addr \/ End(b) <= a.addr  BY <1>5, <1>9
<1>15. PICK k \in 1 .. Len(list) + 1 :
         /\ l = InsertAt(list, k, b)
         /\ Heap(InsertAt(list, k, b), arenas \cup {A})
         /\ \E j \in 1 .. Len(InsertAt(list, k, b)) : InsertAt(list, k, b)[j] = b
         /\ \A V : Held(list, V) => Held(InsertAt(list, k, b), V) \/ ~b.free
         /\ Loose(list, arenas, {}) => Loose(InsertAt(list, k, b), arenas \cup {A}, {})
         /\ Bulk(InsertAt(list, k, b)) = Bulk(list) + Header + b.size
  <2>1. Heap(list, arenas) /\ b \in Block  BY <1>2, <1>9
  <2>2. A \in [addr : 0 .. Word - 1, total : 1 .. Word]  BY <1>10
  <2> QED  BY <1>11, <1>12, <1>13, <1>14, <2>1, <2>2, Inserted
<1>16. Heap(l, arenas') /\ Held(l, live) /\ Loose(l, arenas', {})
  BY <1>2, <1>6, <1>9, <1>15
<1>161. mapped_bytes' = Bulk(l)
  <2>1. Bulk(l) = Bulk(list) + Header + (T - Header)  BY <1>9, <1>15
  <2>2. PICK v, h, x \in Nat : v = Bulk(list) /\ h = Header /\ x = T
    <3>1. Bulk(list) \in Nat  BY <1>2, BulkIs DEF Heap
    <3> QED  BY <1>7, <3>1, Constant
  <2>3. v + h + (x - h) = v + x  OBVIOUS
  <2> QED  BY <1>1, <1>2, <2>1, <2>2, <2>3
<1>17. \E j \in 1 .. Len(l) : l[j] = b  BY <1>15
<1>18. i \in 1 .. Len(l) /\ l[i] = b
  <2>1. Len(l) \in Nat  BY <1>16, Typed
  <2> HIDE DEF l
  <2> QED  BY <1>17, <2>1, FoundIs
<1> HIDE DEF l, i
<1>19. z > l[i].size => Overflows(n)
  <2>1. SUFFICES ASSUME z > T - Header PROVE n + ALIGNMENT + Header > Word
    BY <1>9, <1>18 DEF Overflows
  <2>2. Header + z >= Word
    <3>1. SUFFICES ASSUME Header + z < Word PROVE FALSE  BY <1>4, Constant
    <3> QED  BY <1>4, <1>7, <2>1, <3>1, Constant
  <2> QED  BY <1>4, <2>2, Constant
<1>20. /\ list' \in Seq(Block) /\ wrapped' \in BOOLEAN
       /\ live' \subseteq [ptr : 0 .. Word - 1, size : Sizes]
       /\ wrapped' => \E p \in live' : Overflows(p.size)
       /\ ~wrapped' => /\ Heap(list', arenas') /\ Held(list', live') /\ Loose(list', arenas', {})
                      /\ Bulk(list') = Bulk(l)
  <2>1. l[i].free  BY <1>9, <1>18
  <2>2. PICK R : R = arenas'  OBVIOUS
  <2>3. Heap(l, R) /\ Held(l, live) /\ Loose(l, R, {})  BY <1>16, <2>2
  <2>4. Give(l, i, n, aligned_size(n))  BY <1>6 DEF z
  <2>5. aligned_size(n) > l[i].size => Overflows(n)  BY <1>19 DEF z
  <2> QED  BY <1>1, <1>2, <1>18, <2>1, <2>2, <2>3, <2>4, <2>5, GiveStep
<1>21. TypeOK'
  <2>1. mapped_bytes' \in Nat  BY <1>1, <1>2, <1>7 DEF TypeOK
  <2>2. arenas' \subseteq [addr : 0 .. Word - 1, total : 1 .. Word]  BY <1>6, <1>10, <1>12
  <2> QED  BY <1>20, <2>1, <2>2 DEF TypeOK, Block
<1>22. (\A a \in arenas : Fits(a))'  BY <1>6, <1>10 DEF IInv, Fits
<1>23. (wrapped => \E p \in live : Overflows(p.size))'  BY <1>20 DEF Overflows
<1>24. (~wrapped => Whole(list, arenas, live, mapped_bytes))'  BY <1>161, <1>20 DEF Whole
<1> QED  BY <1>21, <1>22, <1>23, <1>24 DEF IInv

LEMMA FreeStep ==
  ASSUME IInv, NEW p \in live, my_free(p)
  PROVE  IInv'
<1> DEFINE I == {j \in 1 .. Len(list) : Payload(list[j]) = p.ptr}
           i == SelectInSeq(list, LAMBDA b : Payload(b) = p.ptr)
<1>1. /\ ~wrapped /\ wrapped' = wrapped /\ mapped_bytes' = mapped_bytes /\ arenas' = arenas
      /\ list' = FreedBackward(coalesce_with_next([list EXCEPT ![i].free = TRUE], i), i)
      /\ live' = live \ {p}
  BY DEF my_free
<1>2. /\ TypeOK /\ Heap(list, arenas) /\ Held(list, live) /\ Loose(list, arenas, {})
      /\ mapped_bytes = Bulk(list)
  BY <1>1 DEF IInv, Whole
<1>3. \A j \in 1 .. Len(list) : Payload(list[j]) = list[j].addr + Header
  BY <1>2, Typed, PayloadIs DEF Heap
<1>4. I # {} /\ I \subseteq Nat
  <2>1. \E j \in 1 .. Len(list) : list[j].addr + Header = p.ptr  BY <1>2 DEF Held
  <2> QED  BY <1>3, <2>1
<1>5. i = Min(I)  BY <1>4 DEF SelectInSeq
<1>6. i \in 1 .. Len(list) /\ list[i].addr + Header = p.ptr
  <2>1. Min(I) \in I
    <3> HIDE DEF I
    <3> QED  BY <1>4, MinIs
  <2> QED  BY <1>3, <1>5, <2>1
<1> HIDE DEF i, I
<1>7. /\ Heap(list', arenas) /\ Held(list', live \ {p}) /\ Loose(list', arenas, {})
      /\ Bulk(list') = Bulk(list)
  <2>1. list' = FreedBackward(coalesce_with_next(Mark(list, i, TRUE), i), i)  BY <1>1 DEF Mark
  <2> QED  BY <1>2, <1>6, <2>1, Freed
<1>8. TypeOK'  BY <1>1, <1>2, <1>7 DEF TypeOK, Heap, Block
<1>9. (\A a \in arenas : Fits(a))'  BY <1>1 DEF IInv, Fits
<1>10. Whole(list, arenas, live, mapped_bytes)'  BY <1>1, <1>2, <1>7 DEF Whole
<1>11. ~wrapped'  BY <1>1
<1> QED  BY <1>8, <1>9, <1>10, <1>11 DEF IInv

LEMMA InitIInv == Init => IInv
<1> SUFFICES ASSUME Init PROVE IInv  OBVIOUS
<1>1. list = <<>> /\ Len(list) = 0 /\ arenas = {} /\ live = {} /\ ~wrapped /\ mapped_bytes = 0
      /\ wrapped \in BOOLEAN
  BY DEF Init
<1>2. list \in Seq(Block)  BY <1>1
<1>3. TypeOK  BY <1>1, <1>2 DEF TypeOK, Block
<1>4. \A j \in 1 .. Len(list) : FALSE  BY <1>1
<1>5. \A j \in 1 .. Len(list) - 1 : FALSE  BY <1>1
<1>6. Heap(list, arenas)  BY <1>1, <1>2, <1>4 DEF Heap, Sorted, Tiled
<1>7. Held(list, live)  BY <1>1, <1>4 DEF Held
<1>8. Loose(list, arenas, {})  BY <1>5 DEF Loose
<1>9. Bulk(list) = 0
  <2>1. PICK E : E = 1 .. Len(list)  OBVIOUS
  <2>2. E = {}  BY <1>1, <2>1
  <2>3. Sized(list, E)  BY <2>2, FS_EmptySet DEF Sized
  <2>4. Sums(list, E)[{}] = 0  BY <2>3, SumsAre
  <2>5. Total(list) = 0  BY <2>1, <2>2, <2>4 DEF Total
  <2>6. Header * Len(list) = 0  BY <1>1, Constant, SMT
  <2> QED  BY <2>5, <2>6 DEF Bulk
<1> QED  BY <1>1, <1>3, <1>6, <1>7, <1>8, <1>9 DEF IInv, Whole

LEMMA NextIInv == IInv /\ [Next]_vars => IInv'
<1> SUFFICES ASSUME IInv, [Next]_vars PROVE IInv'  OBVIOUS
<1>1. ASSUME NEW n \in Sizes, MallocFit(n) PROVE IInv'  BY <1>1, FitStep
<1>2. ASSUME NEW n \in Sizes, MallocMap(n) PROVE IInv'  BY <1>2, MapStep
<1>3. ASSUME NEW p \in live, my_free(p) PROVE IInv'  BY <1>3, FreeStep
<1>4. CASE UNCHANGED vars
  BY <1>4 DEF vars, IInv, TypeOK, Fits, Overflows
<1>5. ASSUME NEW n \in Sizes, MallocNull(n) PROVE IInv'  BY <1>4, <1>5 DEF MallocNull
<1> QED  BY <1>1, <1>2, <1>3, <1>4, <1>5 DEF Next

-----------------------------------------------------------------------------
\* After any sequence of my_malloc and my_free, whatever mmap gives: the list
\* is typed, sound, sorted and tiles the arenas, the program holds exactly the
\* allocated blocks, and free neighbours meet only at the start of an arena.
THEOREM AllocatorInvariant == Spec => []IInv
<1> QED  BY InitIInv, NextIInv, PTL DEF Spec

\* The headers, grants and arenas keep their types, also after a wrap.
THEOREM AllocatorTypes == Spec => []TypeOK
<1>1. IInv => TypeOK  BY DEF IInv
<1> QED  BY <1>1, AllocatorInvariant, PTL

\* insert_sorted, split_block and coalesce_with_next keep the list in address
\* order and its blocks and headers exactly on the bytes of the arenas, and the
\* statistics, which are sums over the list, add up to the bytes mapped.
THEOREM AllocatorHeapTiled == Spec => []HeapTiled
<1>1. ASSUME IInv, ~wrapped
      PROVE  /\ \A i \in 1 .. Len(list) - 1 :
                  list[i].addr + Header + list[i].size <= list[i + 1].addr
             /\ UNION {Bytes(list[i]) : i \in 1 .. Len(list)} = Mapped
             /\ LET s == my_allocator_get_stats
                IN  s.mapped = s.allocated_bytes + s.free_bytes
                                 + Header * (s.allocated_blocks + s.free_blocks)
  <2>1. TypeOK /\ Heap(list, arenas) /\ Len(list) \in Nat  BY <1>1, Typed DEF IInv, Whole
  <2>2. ASSUME NEW i \in 1 .. Len(list) - 1
        PROVE  list[i].addr + Header + list[i].size <= list[i + 1].addr
    <3>1. i \in 1 .. Len(list) /\ i + 1 \in 1 .. Len(list) /\ i < i + 1  BY <2>1
    <3> QED  BY <2>1, <3>1 DEF Heap, Sorted, End
  <2>3. ASSUME NEW x, NEW i \in 1 .. Len(list), x \in Bytes(list[i])
        PROVE  x \in Mapped
    <3>1. /\ list[i].addr \in Nat /\ End(list[i]) \in Nat /\ End(list[i]) <= Word
          /\ End(list[i]) = list[i].addr + Header + list[i].size
      BY <2>1, Typed
    <3>2. x \in list[i].addr .. End(list[i]) - 1  BY <2>1, <2>3, BytesAre
    <3>3. x \in 0 .. Word - 1 /\ list[i].addr <= x /\ x < End(list[i])  BY <3>1, <3>2, Constant
    <3>4. PICK a \in arenas : a.addr <= x /\ x < a.addr + a.total
      BY <2>1, <3>3 DEF Heap, Tiled
    <3>5. a.addr \in Nat /\ a.total \in Nat  BY <2>1, Constant DEF TypeOK
    <3>6. x \in a.addr .. a.addr + a.total - 1  BY <3>3, <3>4, <3>5
    <3> QED  BY <3>6 DEF Mapped
  <2>4. ASSUME NEW x, NEW a \in arenas, x \in a.addr .. a.addr + a.total - 1
        PROVE  \E i \in 1 .. Len(list) : x \in Bytes(list[i])
    <3>1. a.addr \in Nat /\ a.total \in Nat  BY <2>1, Constant DEF TypeOK
    <3>2. a.addr + a.total <= Word  BY <1>1 DEF IInv, Fits
    <3>3. x \in 0 .. Word - 1 /\ a.addr <= x /\ x < a.addr + a.total
      BY <2>4, <3>1, <3>2, Constant
    <3>4. PICK i \in 1 .. Len(list) : list[i].addr <= x /\ x < End(list[i])
      BY <2>1, <3>3 DEF Heap, Tiled
    <3>5. /\ list[i].addr \in Nat /\ End(list[i]) \in Nat
          /\ End(list[i]) = list[i].addr + Header + list[i].size
      BY <2>1, Typed
    <3>6. x \in list[i].addr .. End(list[i]) - 1  BY <3>3, <3>4, <3>5
    <3> QED  BY <2>1, <3>6, BytesAre
  <2>5. UNION {Bytes(list[i]) : i \in 1 .. Len(list)} = Mapped
    BY <2>3, <2>4, Zenon DEF Mapped
  <2> DEFINE S == 1 .. Len(list)
             F == {i \in S : list[i].free = TRUE}
             T == {i \in S : list[i].free = FALSE}
             s == my_allocator_get_stats
  <2>6. s.mapped = mapped_bytes /\ mapped_bytes = Bulk(list)
    BY <1>1 DEF my_allocator_get_stats, IInv, Whole
  <2>7. s.allocated_blocks = Cardinality(T) /\ s.free_blocks = Cardinality(F)
    BY DEF my_allocator_get_stats
  <2>8. s.allocated_bytes = Sums(list, T)[T] /\ s.free_bytes = Sums(list, F)[F]
    BY DEF my_allocator_get_stats, MapThenSumSet, MapThenFoldSet, Sums
  <2>9. F \in SUBSET S /\ T \in SUBSET S /\ F \cap T = {} /\ F \cup T = S
    <3>1. \A i \in S : list[i].free \in BOOLEAN  BY <2>1, Typed
    <3> QED  BY <3>1
  <2>10. Listed(list) /\ Sized(list, S) /\ Total(list) = Sums(list, S)[S] /\ Total(list) \in Nat
    <3>1. Listed(list)  BY <2>1, BulkIs DEF Heap
    <3> QED  BY <3>1, TotalIs DEF Total
  <2>11. Cardinality(S) = Len(list) /\ IsFiniteSet(S)
    <3>1. IsFiniteSet(S) /\ Cardinality(S) = IF 1 > Len(list) THEN 0 ELSE Len(list) - 1 + 1
      BY <2>1, FS_Interval
    <3> QED  BY <2>1, <3>1
  <2> HIDE DEF S, F, T, s
  <2>12. /\ Cardinality(F) + Cardinality(T) = Len(list)
         /\ Cardinality(F) \in Nat /\ Cardinality(T) \in Nat
    <3>1. IsFiniteSet(F) /\ IsFiniteSet(T)  BY <2>9, <2>11, FS_Subset
    <3>2. Cardinality(F) \in Nat /\ Cardinality(T) \in Nat  BY <3>1, FS_CardinalityType
    <3>3. Cardinality(F \cup T) = Cardinality(F) + Cardinality(T) - Cardinality(F \cap T)
      BY <3>1, FS_Union
    <3>4. Cardinality(F \cap T) = 0  BY <2>9, FS_EmptySet
    <3>5. PICK m, n \in Nat : m = Cardinality(F) /\ n = Cardinality(T)  BY <3>2
    <3>6. m + n - 0 = m + n  OBVIOUS
    <3> QED  BY <2>9, <2>11, <3>2, <3>3, <3>4, <3>5, <3>6
  <2>13. PICK I, f, t : I = S /\ f = F /\ t = T  OBVIOUS
  <2>14. /\ Sized(list, I) /\ f \in SUBSET I /\ t \in SUBSET I /\ f \cap t = {} /\ f \cup t = I
    BY <2>9, <2>10, <2>13
  <2>15. Sums(list, f)[f] = Sums(list, I)[f] /\ Sums(list, t)[t] = Sums(list, I)[t]
    BY <2>14, SumWithin
  <2>16. Sums(list, I)[f \cup t] = Sums(list, I)[f] + Sums(list, I)[t]  BY <2>14, SumParts
  <2>17. Total(list) = s.free_bytes + s.allocated_bytes
    BY <2>8, <2>10, <2>13, <2>14, <2>15, <2>16
  <2>18. PICK x, y \in Nat : x = s.allocated_bytes /\ y = s.free_bytes
    <3>1. Sums(list, I) \in [SUBSET I -> Nat]  BY <2>14, SumsAre
    <3>2. Sums(list, I)[f] \in Nat /\ Sums(list, I)[t] \in Nat  BY <2>14, <3>1
    <3> QED  BY <2>8, <2>13, <2>15, <3>2
  <2>19. y + x = x + y  OBVIOUS
  <2>20. Cardinality(F) + Cardinality(T) = Cardinality(T) + Cardinality(F)  BY <2>12
  <2>21. s.mapped = s.allocated_bytes + s.free_bytes
                      + Header * (s.allocated_blocks + s.free_blocks)
    BY <2>6, <2>7, <2>12, <2>17, <2>18, <2>19, <2>20 DEF Bulk
  <2> QED  BY <2>2, <2>5, <2>21 DEF s
<1>2. IInv => HeapTiled  BY <1>1 DEF HeapTiled
<1> QED  BY <1>2, AllocatorInvariant, PTL

\* What my_malloc returned is an allocated block of the list, aligned and large
\* enough, and my_allocator_get_stats counts exactly the grants; a block that is
\* too small goes only to a request whose rounding or arena size wraps.
THEOREM AllocatorGrantsHold == Spec => []GrantsHold
<1>1. ASSUME IInv, ~wrapped, NEW p \in live
      PROVE  \E i \in 1 .. Len(list) :
               /\ Payload(list[i]) = p.ptr /\ ~list[i].free /\ list[i].size >= p.size
               /\ p.ptr % ALIGNMENT = 0
  <2>1. Heap(list, arenas) /\ Held(list, live) /\ p.size \in Nat
    <3>1. p.size \in Sizes  BY <1>1 DEF IInv, TypeOK
    <3>2. Sizes \subseteq 0 .. Word - 1  BY SizeAssumption
    <3>3. \A n \in Sizes : n \in Nat  BY <3>2, Constant
    <3> QED  BY <1>1, <3>1, <3>3 DEF IInv, Whole
  <2>2. PICK i \in 1 .. Len(list) :
          ~list[i].free /\ list[i].addr + Header = p.ptr /\ p.size <= list[i].size
    BY <2>1 DEF Held
  <2>3. list[i] \in Block /\ Sound(list[i]) /\ list[i].size \in Nat  BY <2>1, Typed DEF Heap
  <2>4. Payload(list[i]) = p.ptr /\ OnUnit(p.ptr)  BY <2>2, <2>3, PayloadIs
  <2>5. list[i].size >= p.size  BY <2>1, <2>2, <2>3
  <2> QED  BY <2>2, <2>4, <2>5 DEF OnUnit
<1>2. ASSUME IInv, ~wrapped
      PROVE  Cardinality(live) = my_allocator_get_stats.allocated_blocks
  <2> DEFINE B == {i \in 1 .. Len(list) : list[i].free = FALSE}
             f == [i \in B |-> CHOOSE p \in live : p.ptr = list[i].addr + Header]
  <2>1. Heap(list, arenas) /\ Held(list, live) /\ Len(list) \in Nat  BY <1>2, Typed DEF IInv, Whole
  <2>2. my_allocator_get_stats.allocated_blocks = Cardinality(B)
    BY DEF my_allocator_get_stats
  <2>3. IsFiniteSet(B)
    <3>1. IsFiniteSet(1 .. Len(list))  BY <2>1, FS_Interval
    <3> QED  BY <3>1, FS_Subset
  <2>4. ASSUME NEW i \in B
        PROVE  f[i] \in live /\ f[i].ptr = list[i].addr + Header
    <3>1. \E p \in live : p.ptr = list[i].addr + Header
      <4>1. i \in 1 .. Len(list) /\ ~list[i].free  OBVIOUS
      <4> QED  BY <2>1, <4>1 DEF Held
    <3> QED  BY <3>1
  <2>5. ASSUME NEW i \in B, NEW j \in B, f[i] = f[j] PROVE i = j
    <3>1. list[i].addr + Header = list[j].addr + Header  BY <2>4, <2>5
    <3>2. i \in 1 .. Len(list) /\ j \in 1 .. Len(list)  OBVIOUS
    <3>3. list[i].addr \in Nat /\ list[j].addr \in Nat /\ Header \in Nat
      BY <2>1, <3>2, Typed, Constant
    <3>4. list[i].addr = list[j].addr  BY <3>1, <3>3
    <3> QED  BY <2>1, <3>2, <3>4, Apart
  <2>6. ASSUME NEW p \in live PROVE \E i \in B : f[i] = p
    <3>1. PICK i \in 1 .. Len(list) : ~list[i].free /\ list[i].addr + Header = p.ptr
      BY <2>1 DEF Held
    <3>2. i \in B
      <4>1. list[i].free \in BOOLEAN  BY <2>1, Typed
      <4> QED  BY <3>1, <4>1
    <3>3. f[i] \in live /\ f[i].ptr = p.ptr  BY <2>4, <3>1, <3>2
    <3>4. f[i] = p  BY <2>1, <3>3 DEF Held
    <3> QED  BY <3>2, <3>4
  <2>7. f \in [B -> live]  BY <2>4
  <2> HIDE DEF f, B
  <2>8. f \in Bijection(B, live)
    BY <2>5, <2>6, <2>7 DEF Bijection, Injection, Surjection, IsInjective
  <2>9. Cardinality(live) = Cardinality(B)
    BY <2>3, <2>8, FS_Bijection DEF ExistsBijection
  <2> QED  BY <2>2, <2>9
<1>3. IInv => GrantsHold  BY <1>1, <1>2 DEF GrantsHold, IInv
<1> QED  BY <1>3, AllocatorInvariant, PTL

\* my_free leaves no two free blocks that touch, on either side, but where mmap
\* put one arena next to another and neither had been freed into the other.
THEOREM AllocatorFullyCoalesced == Spec => []FullyCoalesced
<1>1. ASSUME IInv, ~wrapped, NEW i \in 1 .. Len(list) - 1, list[i].free, list[i + 1].free,
             adjacent(list[i], list[i + 1])
      PROVE  \E a \in arenas : a.addr = list[i + 1].addr
  <2>1. Heap(list, arenas) /\ Loose(list, arenas, {}) /\ Len(list) \in Nat
    BY <1>1, Typed DEF IInv, Whole
  <2>2. i \in 1 .. Len(list) /\ i + 1 \in 1 .. Len(list)  BY <2>1
  <2>3. /\ list[i] \in Block /\ list[i + 1] \in Block
        /\ Sound(list[i]) /\ Sound(list[i + 1])
    BY <2>1, <2>2, Typed DEF Heap
  <2>4. End(list[i]) = list[i + 1].addr  BY <1>1, <2>3, AdjacentIs
  <2> QED  BY <1>1, <2>1, <2>4 DEF Loose
<1>2. IInv => FullyCoalesced  BY <1>1 DEF FullyCoalesced
<1> QED  BY <1>2, AllocatorInvariant, PTL
=============================================================================
