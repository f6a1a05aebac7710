----------------------------- MODULE MCAllocator -----------------------------
(***************************************************************************)
(* Instances of Allocator for TLC: what the caller asks memalign (align,   *)
(* len) and calloc (nmemb, size) for.  Where memalign must not cut a block *)
(* (the run MCAllocator_calls) every request takes an even number of       *)
(* quantas, so that every pointer is at an even quanta.                    *)
(***************************************************************************)
EXTENDS Allocator

\* No alignment, one that is no power of two, twice the header, too much.
AlignedCalls == {<<0, 1>>, <<3, 1>>, <<4, 3>>, <<4, 32>>}

\* A small array, a product above the pool, one above its bits.
ArrayCalls == {<<1, 5>>, <<3, 9>>, <<8, 16>>}

\* What makes memalign cut a block, when it lies at an even quanta.
CutCalls == {<<4, 2>>}
=============================================================================
