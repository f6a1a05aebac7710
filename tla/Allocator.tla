------------------------------ MODULE Allocator ------------------------------
(***************************************************************************)
(* The memory manager of synthesized programs (etc/libbambu/memmgr.c):     *)
(* malloc, free, memalign and calloc over a static pool.                   *)
(*                                                                         *)
(* Memory is counted in quantas of one header.  Free blocks form a         *)
(* circular list through their headers, sorted by address, with a block of *)
(* size 0 outside the pool (base) that never fits.  The list is followed   *)
(* here link by link, as the code does; that it is sorted, and that it has *)
(* the free blocks and nothing else, are properties.  What a header holds  *)
(* once no block starts there is never read, and is left at 0.  The caller *)
(* frees what it was given, once, and writes to nothing else.              *)
(***************************************************************************)
EXTENDS Integers, FiniteSets, FiniteSetsExt

CONSTANTS
  Unit,        \* sizeof(SAMM_header_t)
  Word,        \* size_t counts modulo this
  PoolSize,    \* POOL_SIZE, in bytes
  MinQuantas,  \* MIN_POOL_ALLOC_QUANTAS
  First,       \* the quanta the pool starts at
  Base,        \* the quanta of base
  Sizes,       \* what the caller asks malloc for
  Aligned,     \* what it asks memalign for: <<align, len>>
  Arrays       \* what it asks calloc for: <<nmemb, size>>

Null  == 0
Cells == 1..(Word \div Unit - 1)    \* where a header can be
Pool  == First..(First + PoolSize \div Unit - 1)
Most  == PoolSize \div Unit + 1     \* blocks the list may have

ASSUME UnitAssumption ==
  /\ Unit \in Nat \ {0} /\ Word \in Nat /\ PoolSize \in Nat \ {0}
  /\ Word % Unit = 0 /\ PoolSize % Unit = 0
ASSUME PlaceAssumption == First \in Nat /\ Base \in Cells \ Pool /\ Pool \subseteq Cells

\* The linker puts base somewhere else: right behind the pool it would be
\* coalesced with the last block.
ASSUME ApartAssumption == Base # First + PoolSize \div Unit
ASSUME CallsAssumption ==
  /\ MinQuantas \in Nat /\ Sizes \subseteq 0..(Word - 1)
  /\ Aligned \subseteq (0..(Word - 1)) \X (0..(Word - 1))
  /\ Arrays \subseteq (0..(Word - 1)) \X (0..(Word - 1))

VARIABLES
  heap,    \* next and size of the headers, freep, SAMM_pool_free_pos
  live,    \* history: the pointers handed out, with the bytes asked for
  refused  \* history: the bytes the last call did not get

vars == <<heap, live, refused>>

-----------------------------------------------------------------------------
(* The free list. *)

\* The blocks met from freep on.
Walk(h) ==
  LET block[k \in Nat] == IF k = 0 THEN h.freep ELSE h.next[block[k - 1]] IN block

\* Mutant: the end of the list is good for any block.
BelongsAtEnd(h, b, p) == (p < b /\ b < h.next[p]) \/ h.next[p] <= p

\* The search of free for the block after which b belongs.
Belongs(h, b, p) ==
  \/ p < b /\ b < h.next[p]
  \/ h.next[p] <= p /\ (p < b \/ b < h.next[p])
Place(h, b) ==
  Walk(h)[Min({k \in 0..Most : Belongs(h, b, Walk(h)[k])})]

\* Mutant: neighbours are never joined.
NeverAdjacent(h, b, c) == FALSE

Adjacent(h, b, c) == b + h.size[b] = c

\* free: the block at b enters the list, joined with its neighbours.
Insert(h, b) ==
  LET p     == Place(h, b)
      above == h.next[p]
      up    == Adjacent(h, b, above)
      low   == Adjacent(h, p, b)
      block == IF low THEN p ELSE b
      gone  == (IF up THEN {above} ELSE {}) \cup (IF low THEN {b} ELSE {})
      next  == [h.next EXCEPT ![p] = b, ![block] = IF up THEN h.next[above] ELSE above]
      size  == [h.size EXCEPT ![block] = h.size[b] + (IF up THEN h.size[above] ELSE 0)
                                                   + (IF low THEN h.size[p] ELSE 0)]
  IN [h EXCEPT !.next = [c \in Cells |-> IF c \in gone THEN Null ELSE next[c]],
               !.size = [c \in Cells |-> IF c \in gone THEN 0 ELSE size[c]],
               !.freep = p]

\* Mutant: freep itself is not looked at.
FittingBefore(h, n) ==
  {k \in 1..Most : h.size[Walk(h)[k]] >= n /\ \A j \in 1..k : Walk(h)[j] # h.freep}

\* The positions at which malloc finds room: it looks at the blocks after
\* freep, and at freep itself last.
Fitting(h, n) ==
  {k \in 1..Most : /\ h.size[Walk(h)[k]] >= n
                   /\ \A j \in 1..(k - 1) : Walk(h)[j] # h.freep}

\* The block malloc takes: all of the one found, or its tail.
Taken(h, n) ==
  LET p == Walk(h)[Min(Fitting(h, n))] IN p + h.size[p] - n

Take(h, n) ==
  LET k    == Min(Fitting(h, n))
      p    == Walk(h)[k]
      prev == Walk(h)[k - 1]
  IN [h EXCEPT !.next = IF h.size[p] = n THEN [@ EXCEPT ![prev] = h.next[p], ![p] = Null]
                        ELSE @,
               !.size = [@ EXCEPT ![p] = h.size[p] - n, ![Taken(h, n)] = n],
               !.freep = prev]

-----------------------------------------------------------------------------
(* malloc. *)

\* The first call makes the list of base alone.
Started(h) ==
  IF h.freep # Null THEN h
  ELSE [h EXCEPT !.next = [@ EXCEPT ![Base] = Base], !.size = [@ EXCEPT ![Base] = 0],
                 !.freep = Base]

\* Mutant: the end of the pool is not checked.
GrownPast(h, n) ==
  LET quantas == IF n < MinQuantas THEN MinQuantas ELSE n
      b       == First + h.pos \div Unit
  IN [Insert([h EXCEPT !.size = [@ EXCEPT ![b] = quantas]], b)
        EXCEPT !.pos = (h.pos + quantas * Unit) % Word]

\* __hide_get_mem_from_pool: one more block of the pool, if there is one.
Grown(h, n) ==
  LET quantas == IF n < MinQuantas THEN MinQuantas ELSE n
      end     == (h.pos + quantas * Unit) % Word
      b       == First + h.pos \div Unit
  IN IF end > PoolSize THEN h
     ELSE [Insert([h EXCEPT !.size = [@ EXCEPT ![b] = quantas]], b) EXCEPT !.pos = end]

Quantas(bytes) == ((bytes + Unit - 1) % Word) \div Unit + 1

\* The heap in which malloc takes its block, or finds none.
Searched(bytes) ==
  LET h == Started(heap) n == Quantas(bytes)
  IN IF Fitting(h, n) = {} THEN Grown(h, n) ELSE h

Found(h, bytes) == Fitting(h, Quantas(bytes)) # {}

\* The pointer the caller gets: one quanta after the header.
Pointer(b) == (b + 1) * Unit
Header(ptr) == ptr \div Unit - 1

Granted(ptr, bytes) ==
  /\ live' = [q \in DOMAIN live \cup {ptr} |-> IF q = ptr THEN bytes ELSE live[q]]
  /\ refused' = {}

Refused(bytes) == refused' = {bytes} /\ UNCHANGED live

\* malloc(asked) for a caller that wants so many bytes.
Allocate(asked, wanted) ==
  LET h == Searched(asked) n == Quantas(asked) IN
  IF Found(h, asked)
  THEN heap' = Take(h, n) /\ Granted(Pointer(Taken(h, n)), wanted)
  ELSE heap' = h /\ Refused(wanted)

Malloc(bytes) == Allocate(bytes, bytes)

\* 0 counts as one, as it does in (align & -align) == align.
PowerOfTwo(n) == \A d \in 2..n : n % d = 0 => d % 2 = 0

\* 1 << bitsize, where bitsize are the bits POOL_SIZE has.
Cut == Min({n \in (PoolSize + 1)..(2 * PoolSize) : PowerOfTwo(n)})

\* Mutant: the product is not checked.
CallocUnchecked(nmemb, size) ==
  Allocate(((nmemb % Cut) * (size % Cut)) % Word, nmemb * size)

\* calloc: both numbers are cut first.
Calloc(nmemb, size) ==
  LET product == (nmemb % Cut) * (size % Cut) IN
  IF nmemb # 0 /\ (product \div Cut) % Cut # 0
  THEN Refused(nmemb * size) /\ UNCHANGED heap
  ELSE Allocate(product % Word, nmemb * size)

\* (unsigned int)mem + align - 1 & -align
AlignedUp(ptr, align) ==
  LET over == (ptr + align - 1) % Word IN over - (over % align)

\* memalign asks for a larger block; the one before the aligned pointer is
\* given back, and both get their sizes in bytes.
MemalignCut(align, len) ==
  LET asked == (len + align - 1) % Word
      h     == Searched(asked)
      block == Taken(h, Quantas(asked))
      mem   == Pointer(block)
      new   == AlignedUp(mem, align)
      taken == Take(h, Quantas(asked))
  IN \/ ~Found(h, asked) /\ heap' = h /\ Refused(len)
     \/ /\ Found(h, asked)
        /\ Granted(new, len)
        /\ heap' = IF new = mem THEN taken
                   ELSE Insert([taken EXCEPT !.size =
                          [@ EXCEPT ![Header(new)] = len, ![block] = new - mem]], block)

Memalign(align, len) ==
  \/ ~PowerOfTwo(align) /\ refused' = {} /\ UNCHANGED <<heap, live>>
  \/ align <= Unit /\ PowerOfTwo(align) /\ Malloc(len)
  \/ align > Unit /\ PowerOfTwo(align) /\ MemalignCut(align, len)

\* free of what a call returned; free(NULL) does nothing and is left out.
Free(ptr) ==
  /\ heap' = Insert(heap, Header(ptr))
  /\ live' = [q \in DOMAIN live \ {ptr} |-> live[q]]
  /\ refused' = {}

-----------------------------------------------------------------------------
Init ==
  /\ heap = [next |-> [c \in Cells |-> Null], size |-> [c \in Cells |-> 0],
             freep |-> Null, pos |-> 0]
  /\ live = [p \in {} |-> 0]
  /\ refused = {}

Next ==
  \/ \E bytes \in Sizes : Malloc(bytes)
  \/ \E a \in Aligned : Memalign(a[1], a[2])
  \/ \E a \in Arrays : Calloc(a[1], a[2])
  \/ \E ptr \in DOMAIN live : Free(ptr)

Spec == Init /\ [][Next]_vars

-----------------------------------------------------------------------------
(* Properties. *)

\* Every variable has its type.
TypeOK ==
  /\ heap.next \in [Cells -> Cells \cup {Null}] /\ heap.size \in [Cells -> 0..(Word - 1)]
  /\ heap.freep \in Cells \cup {Null} /\ heap.pos \in 0..PoolSize
  /\ DOMAIN live \subseteq Nat /\ \A p \in DOMAIN live : live[p] \in Nat
  /\ refused \subseteq Nat

InList ==
  IF heap.freep = Null THEN {} ELSE {Walk(heap)[k] : k \in 0..Most}
FreeOnes == InList \ {Base}
LiveOnes == {Header(p) : p \in DOMAIN live}
End      == First + heap.pos \div Unit

Quanta(b) == b..(b + heap.size[b] - 1)

\* "Size of the block (in quantas of sizeof(SAMM_header_t))": free and live
\* blocks together cover the used part of the pool, without gaps and without
\* overlap, whatever was split and joined, and no two free blocks follow each
\* other.
Tiled ==
  /\ FreeOnes \cap LiveOnes = {}
  /\ UNION {Quanta(b) : b \in FreeOnes \cup LiveOnes} = First..(End - 1)
  /\ \A b, c \in FreeOnes \cup LiveOnes : b # c => Quanta(b) \cap Quanta(c) = {}
  /\ \A b, c \in FreeOnes : b + heap.size[b] # c

\* malloc gives up only if no gap between live blocks is large enough and the
\* rest of the pool is too small for a new block.
Room(bytes) ==
  LET n == bytes \div Unit + (IF bytes % Unit = 0 THEN 1 ELSE 2)
      Busy == UNION {Quanta(b) : b \in LiveOnes} IN
  \/ \E b \in First..(End - n) : b..(b + n - 1) \cap Busy = {}
  \/ End + Max({n, MinQuantas}) <= First + PoolSize \div Unit
RefusedWhenFull == \A bytes \in refused : ~Room(bytes)

\* What malloc promises: Heap.
Promise == INSTANCE Heap WITH Start <- First * Unit, Bytes <- PoolSize
KeepsPromise == Promise!Spec
=============================================================================
