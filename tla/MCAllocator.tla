----------------------------- MODULE MCAllocator -----------------------------
EXTENDS Allocator

\* Nothing, a few bytes, a block of its own size, one that needs a larger arena,
\* and the sizes around the place where the sums wrap.
TestSizes == {0, 1, 6, 14} \cup (Word - 7 .. Word - 1)
=============================================================================
