-------------------------- MODULE Allocator_proofs --------------------------
(***************************************************************************)
(* Theorems about Allocator for every pool, every size of a header and     *)
(* every set of requests: after any sequence of calls the free list is one *)
(* sorted circle, the free and the live blocks tile the used part of the   *)
(* pool, a refusal is justified, and the bytes handed out are the caller's *)
(* alone (Heap).                                                           *)
(*                                                                         *)
(* The code does not promise this for every caller, and the theorems say   *)
(* for which:                                                              *)
(*   ModestCalls     no request, with two headers and the pool, reaches    *)
(*                   the end of size_t; beyond it nquantas wraps around    *)
(*   AlreadyAligned  memalign never has to cut a block, for then it writes *)
(*                   bytes where sizes in quantas belong                   *)
(*   SmallAlignments memalign is not asked for more than a header's        *)
(*                   alignment: beyond it align - 1 bytes more are sought  *)
(*   SmallArrays     calloc's numbers have the bits POOL_SIZE has: of      *)
(*                   others it uses the low bits                           *)
(* The argument: the list is a circle in which each block points to the    *)
(* next one by address (Ring), so that following it from freep meets every *)
(* block once (WalkCircle) and the search of free ends at the block below  *)
(* (PlaceFits).  With it, joining (InsertKeeps) and splitting (TakeKeeps)  *)
(* keep blocks that cover the used part of the pool (Pieces, Shape).       *)
(***************************************************************************)
EXTENDS Allocator, Numbers

-----------------------------------------------------------------------------
(***************************************************************************)
(* Walk is defined by recursion: it exists, and its elements are those the *)
(* definition says.                                                        *)
(***************************************************************************)
Approx(f, g, a, n) == g = [k \in 0..n |-> IF k = 0 THEN a ELSE f[g[k - 1]]]

LEMMA ApproxExists ==
  ASSUME NEW f, NEW a
  PROVE  \A n \in Nat : \E g : Approx(f, g, a, n)
<1> DEFINE S == {n \in Nat : \E g : Approx(f, g, a, n)}
<1>1. 0 \in S
  <2> DEFINE g == [k \in 0..0 |-> a]
  <2>1. Approx(f, g, a, 0)
    BY DEF Approx
  <2> QED BY <2>1
<1>2. ASSUME NEW n \in Nat, n \in S PROVE n + 1 \in S
  <2>1. PICK g : Approx(f, g, a, n)
    BY <1>2
  <2> DEFINE G == [k \in 0..(n + 1) |-> IF k = n + 1 THEN f[g[n]] ELSE g[k]]
  <2>2. \A k \in 0..(n + 1) : G[k] = IF k = 0 THEN a ELSE f[G[k - 1]]
    BY <2>1 DEF Approx
  <2>3. G = [k \in 0..(n + 1) |-> IF k = 0 THEN a ELSE f[G[k - 1]]]
    BY <2>2, Zenon
  <2> HIDE DEF G
  <2>4. Approx(f, G, a, n + 1)
    BY <2>3 DEF Approx
  <2> QED BY <2>4
<1> HIDE DEF S
<1>3. \A n \in Nat : n \in S
  BY <1>1, <1>2, Induct
<1> QED BY <1>3 DEF S

LEMMA ApproxUnique ==
  ASSUME NEW f, NEW a, NEW n \in Nat, NEW m \in Nat, NEW g, NEW G,
         Approx(f, g, a, n), Approx(f, G, a, m)
  PROVE  \A k \in Nat : k <= n /\ k <= m => g[k] = G[k]
<1> DEFINE S == {k \in Nat : k <= n /\ k <= m => g[k] = G[k]}
<1>1. 0 \in S
  BY DEF Approx
<1>2. ASSUME NEW k \in Nat, k \in S PROVE k + 1 \in S
  BY <1>2 DEF Approx
<1> HIDE DEF S
<1>3. \A k \in Nat : k \in S
  BY <1>1, <1>2, Induct
<1> QED BY <1>3 DEF S

LEMMA WalkSteps ==
  ASSUME NEW h
  PROVE  /\ Walk(h)[0] = h.freep
         /\ \A k \in Nat : Walk(h)[k + 1] = h.next[Walk(h)[k]]
<1> DEFINE g(n) == CHOOSE g : Approx(h.next, g, h.freep, n)
           F == [k \in Nat |-> g(k)[k]]
<1>1. \A n \in Nat : Approx(h.next, g(n), h.freep, n)
  BY ApproxExists
<1> HIDE DEF g
<1>2. \A k \in Nat : F[k] = IF k = 0 THEN h.freep ELSE h.next[F[k - 1]]
  <2> TAKE k \in Nat
  <2>1. CASE k = 0
    BY <1>1, <2>1 DEF Approx
  <2>2. CASE k # 0
    <3>1. g(k)[k] = h.next[g(k)[k - 1]]
      BY <1>1, <2>2 DEF Approx
    <3>2. g(k)[k - 1] = g(k - 1)[k - 1]
      BY <1>1, <2>2, ApproxUnique
    <3> QED BY <3>1, <3>2, <2>2
  <2> QED BY <2>1, <2>2
<1> HIDE DEF F
<1>3. F = [k \in Nat |-> IF k = 0 THEN h.freep ELSE h.next[F[k - 1]]]
  BY <1>2, Zenon DEF F
<1>4. Walk(h) = [k \in Nat |-> IF k = 0 THEN h.freep ELSE h.next[Walk(h)[k - 1]]]
  BY <1>3, Zenon DEF Walk
<1> QED BY <1>4

-----------------------------------------------------------------------------
(***************************************************************************)
(* Circular lists sorted by address: each block is followed by the next    *)
(* higher one, the highest by the lowest.                                  *)
(***************************************************************************)
Ring(F, next) ==
  \A p \in F : /\ next[p] \in F
               /\ p < next[p] => \A q \in F : q <= p \/ next[p] <= q
               /\ next[p] <= p => \A q \in F : next[p] <= q /\ q <= p

\* What contains a block of the list, and with each the one behind it, is
\* all of the list.
LEMMA RingIsOne ==
  ASSUME NEW F \in SUBSET Nat, IsFiniteSet(F), NEW next, Ring(F, next),
         NEW V \in SUBSET F, V # {}, \A v \in V : next[v] \in V
  PROVE  V = F
<1> SUFFICES ASSUME NEW q \in F, q \notin V PROVE FALSE
  OBVIOUS
<1> DEFINE W == {v \in V : v < q}
<1>1. IsFiniteSet(V) /\ IsFiniteSet(W) /\ V \in SUBSET Int /\ W \in SUBSET Int
  <2>1. IsFiniteSet(V)
    BY FS_Subset
  <2>2. W \in SUBSET V
    OBVIOUS
  <2> HIDE DEF W
  <2>3. IsFiniteSet(W)
    BY <2>1, <2>2, FS_Subset
  <2> QED BY <2>1, <2>2, <2>3
<1>0. q \in Nat /\ \A v \in V : v \in Nat /\ v \in F /\ next[v] \in V
  OBVIOUS
<1>2. CASE W = {}
  <2>1. PICK m \in V : \A v \in V : v <= m
    BY <1>1, GreatestOfFinite
  <2>2. \A v \in V : q < v
    BY <1>0, <1>2
  <2>3. m \in F /\ next[m] \in Nat /\ next[m] <= m /\ q < next[m]
    BY <1>0, <2>1, <2>2
  <2>4. next[m] <= m => next[m] <= q
    BY <2>3 DEF Ring
  <2> QED BY <1>0, <2>3, <2>4
<1>3. CASE W # {}
  <2>1. PICK m \in W : \A v \in W : v <= m
    <3> HIDE DEF W
    <3> QED BY <1>1, <1>3, GreatestOfFinite
  <2>2. m \in F /\ m \in Nat /\ next[m] \in V /\ next[m] \in Nat /\ m < q /\ next[m] # q
    BY <1>0
  <2>3. next[m] < q => next[m] <= m
    BY <2>1, <2>2
  <2>4. m < next[m] => q <= m \/ next[m] <= q
    BY <1>0, <2>2 DEF Ring
  <2>5. next[m] <= m => q <= m
    BY <1>0, <2>2 DEF Ring
  <2>6. q \in Nat
    OBVIOUS
  <2> HIDE DEF W
  <2> QED BY <2>2, <2>3, <2>4, <2>5, <2>6
<1> QED BY <1>2, <1>3

\* There is a place for every new block.
Between(next, b, p) ==
  \/ p < b /\ b < next[p]
  \/ next[p] <= p /\ (p < b \/ b < next[p])

LEMMA RingHasPlace ==
  ASSUME NEW F \in SUBSET Nat, IsFiniteSet(F), F # {}, NEW next, Ring(F, next),
         NEW b \in Nat, b \notin F
  PROVE  \E p \in F : Between(next, b, p)
<1>0. F \in SUBSET Int /\ \A q \in F : q \in Nat /\ next[q] \in F
  BY DEF Ring
<1>1. PICK m \in F : \A q \in F : q <= m
  BY <1>0, GreatestOfFinite
<1>2. next[m] \in F /\ next[m] <= m /\ \A q \in F : next[m] <= q
  BY <1>1 DEF Ring
<1>3. CASE m < b \/ b < next[m]
  BY <1>2, <1>3 DEF Between
<1>4. CASE next[m] < b /\ b < m
  <2> DEFINE W == {q \in F : q < b}
  <2>1. PICK p \in W : \A q \in W : q <= p
    <3>1. W \in SUBSET Int /\ next[m] \in W /\ IsFiniteSet(W)
      BY <1>0, <1>2, <1>4, FS_Subset
    <3> HIDE DEF W
    <3> QED BY <3>1, GreatestOfFinite
  <2>0. p \in F /\ p \in Nat /\ next[p] \in Nat /\ m \in Nat /\ p < b
    BY <1>0
  <2>2. p < next[p]
    <3>1. next[p] <= p => m <= p
      BY DEF Ring
    <3> QED BY <1>4, <2>0, <3>1
  <2>3. b < next[p]
    <3>1. next[p] < b => next[p] <= p
      BY <1>0, <2>0, <2>1
    <3>2. next[p] # b
      BY <1>0, <2>0
    <3> QED BY <2>0, <2>2, <3>1, <3>2
  <2> QED BY <2>1, <2>3 DEF Between
<1>5. m # b /\ next[m] # b /\ m \in Nat /\ next[m] \in Nat
  BY <1>1, <1>2
<1> QED BY <1>3, <1>4, <1>5

LEMMA RingAdd ==
  ASSUME NEW F \in SUBSET Nat, NEW next, Ring(F, next),
         NEW p \in F, NEW b \in Nat, b \notin F, Between(next, b, p),
         NEW new, new[p] = b, new[b] = next[p],
         \A q \in F : q # p => new[q] = next[q]
  PROVE  Ring(F \cup {b}, new)
<1>1. next[p] \in F /\ next[p] \in Nat
  BY DEF Ring
<1>2. ASSUME NEW q \in F, q # p
      PROVE  /\ new[q] \in F
             /\ q < new[q] => \A r \in F \cup {b} : r <= q \/ new[q] <= r
             /\ new[q] <= q => \A r \in F \cup {b} : new[q] <= r /\ r <= q
  <2>1. new[q] = next[q] /\ next[q] \in F /\ next[q] \in Nat
    BY <1>2 DEF Ring
  <2>2. CASE q < next[q]
    <3>1. \A r \in F : r <= q \/ next[q] <= r
      BY <2>2 DEF Ring
    <3>2. (p < q \/ next[q] <= p) /\ (next[p] <= q \/ next[q] <= next[p])
      BY <3>1, <1>2, <1>1
    <3>3. p < next[p] => q <= p \/ next[p] <= q
      BY DEF Ring
    <3>4. next[p] <= p => next[p] <= q /\ q <= p /\ next[q] <= p
      BY <2>1 DEF Ring
    <3>5. b <= q \/ next[q] <= b
      BY <3>2, <3>3, <3>4, <1>1, <2>1, <1>2 DEF Between
    <3> QED BY <2>1, <2>2, <3>1, <3>5
  <2>3. CASE next[q] <= q
    <3>1. \A r \in F : next[q] <= r /\ r <= q
      BY <2>3 DEF Ring
    <3>2. next[q] <= p /\ p < q /\ next[p] <= q
      BY <3>1, <1>1, <1>2
    <3>3. p < next[p]
      BY <1>1, <1>2, <3>1, <3>2 DEF Ring
    <3>4. next[q] <= b /\ b <= q
      BY <3>2, <3>3, <1>1, <2>1 DEF Between
    <3> QED BY <2>1, <2>3, <3>1, <3>4
  <2> QED BY <2>1, <2>2, <2>3
<1>3. /\ p < b => \A r \in F \cup {b} : r <= p \/ b <= r
      /\ b <= p => \A r \in F \cup {b} : b <= r /\ r <= p
  BY <1>1 DEF Ring, Between
<1>4. /\ b < next[p] => \A r \in F \cup {b} : r <= b \/ next[p] <= r
      /\ next[p] <= b => \A r \in F \cup {b} : next[p] <= r /\ r <= b
  BY <1>1 DEF Ring, Between
<1> QED BY <1>1, <1>2, <1>3, <1>4 DEF Ring

LEMMA RingDrop ==
  ASSUME NEW F \in SUBSET Nat, NEW next, Ring(F, next),
         NEW p \in F, next[p] # p, NEW new, new[p] = next[next[p]],
         \A q \in F : q # p => new[q] = next[q]
  PROVE  Ring(F \ {next[p]}, new)
<1> DEFINE g == next[p]
<1>1. g \in F /\ g \in Nat /\ next[g] \in F /\ next[g] \in Nat
  BY DEF Ring
<1>2. \A q \in F : q # p => next[q] # g
  <2> SUFFICES ASSUME NEW q \in F, q # p, next[q] = g PROVE FALSE
    OBVIOUS
  <2>1. q < g => p <= q \/ g <= p
    BY DEF Ring
  <2>2. p < g => q <= p \/ g <= q
    BY DEF Ring
  <2>3. g <= p => g <= q /\ q <= p
    BY DEF Ring
  <2>4. g <= q => g <= p /\ p <= q
    BY DEF Ring
  <2> QED BY <2>1, <2>2, <2>3, <2>4, <1>1
<1>3. next[g] # g
  <2>1. next[g] = g => p = g
    BY <1>1, <1>2
  <2> QED BY <2>1
<1>4. ASSUME NEW q \in F \ {g}, q # p
      PROVE  /\ new[q] \in F \ {g}
             /\ q < new[q] => \A r \in F \ {g} : r <= q \/ new[q] <= r
             /\ new[q] <= q => \A r \in F \ {g} : new[q] <= r /\ r <= q
  BY <1>2, <1>4 DEF Ring
<1>5. /\ p < next[g] => \A r \in F \ {g} : r <= p \/ next[g] <= r
      /\ next[g] <= p => \A r \in F \ {g} : next[g] <= r /\ r <= p
  <2>1. p < g => \A r \in F : r <= p \/ g <= r
    BY DEF Ring
  <2>2. g < next[g] => \A r \in F : r <= g \/ next[g] <= r
    BY <1>1 DEF Ring
  <2>3. g <= p => \A r \in F : g <= r /\ r <= p
    BY DEF Ring
  <2>4. next[g] <= g => \A r \in F : next[g] <= r /\ r <= g
    BY <1>1 DEF Ring
  <2> QED BY <1>1, <2>1, <2>2, <2>3, <2>4
<1>6. new[p] = next[g] /\ next[g] \in F \ {g}
  BY <1>1, <1>3
<1> QED BY <1>4, <1>5, <1>6 DEF Ring

-----------------------------------------------------------------------------
(***************************************************************************)
(* Blocks that cover a part of the pool, each quanta once.                 *)
(***************************************************************************)
Holds(b, size, x) == b <= x /\ x < b + size[b]

Pieces(B, size, from, to) ==
  /\ \A b \in B : size[b] \in Nat \ {0} /\ from <= b /\ b + size[b] <= to
  /\ \A b, c \in B : b # c => b + size[b] <= c \/ c + size[c] <= b
  /\ \A x \in from..(to - 1) : \E b \in B : Holds(b, size, x)

\* Nothing depends on the sizes of other cells.
LEMMA PiecesSame ==
  ASSUME NEW B, NEW from, NEW to, NEW size, NEW new, Pieces(B, size, from, to),
         \A b \in B : new[b] = size[b]
  PROVE  Pieces(B, new, from, to)
BY DEF Pieces, Holds

\* Two blocks that touch become one.
LEMMA PiecesJoin ==
  ASSUME NEW B \in SUBSET Nat, NEW from \in Nat, NEW to \in Nat,
         NEW size, NEW new, Pieces(B, size, from, to),
         NEW b \in B, NEW c \in B, b + size[b] = c,
         new[b] = size[b] + size[c],
         \A d \in B : d # b /\ d # c => new[d] = size[d]
  PROVE  Pieces(B \ {c}, new, from, to)
<1>0. /\ size[b] \in Nat \ {0} /\ size[c] \in Nat \ {0}
      /\ b \in Nat /\ c \in Nat /\ b # c /\ b < c
  BY DEF Pieces
<1>1. \A d \in B \ {c} : new[d] \in Nat \ {0} /\ from <= d /\ d + new[d] <= to
  BY <1>0 DEF Pieces
<1>2. ASSUME NEW d \in B \ {c}, NEW e \in B \ {c}, d # e
      PROVE  d + new[d] <= e \/ e + new[e] <= d
  BY <1>0, <1>2 DEF Pieces
<1>3. ASSUME NEW x \in from..(to - 1)
      PROVE  \E d \in B \ {c} : Holds(d, new, x)
  <2>1. PICK d \in B : Holds(d, size, x)
    BY DEF Pieces
  <2>2. CASE d = b \/ d = c
    <3>1. Holds(b, new, x)
      BY <1>0, <2>1, <2>2 DEF Holds
    <3> QED BY <1>0, <3>1
  <2>3. CASE d # b /\ d # c
    <3>1. Holds(d, new, x)
      BY <2>1, <2>3 DEF Holds
    <3> QED BY <2>3, <3>1
  <2> QED BY <2>2, <2>3
<1> QED BY <1>1, <1>2, <1>3 DEF Pieces

\* The tail of a block becomes a block.
CutOff(B, size, b, n, t, new) ==
  /\ b \in B /\ n \in Nat /\ 0 < n /\ n < size[b] /\ t = b + size[b] - n
  /\ new[b] = size[b] - n /\ new[t] = n
  /\ \A d \in B : d # b => new[d] = size[d]

LEMMA PiecesSplit ==
  ASSUME NEW B \in SUBSET Nat, NEW from \in Nat, NEW to \in Nat,
         NEW size, NEW new, Pieces(B, size, from, to),
         NEW b, NEW n, NEW t, CutOff(B, size, b, n, t, new)
  PROVE  t \notin B /\ Pieces(B \cup {t}, new, from, to)
<1> USE DEF CutOff
<1>0. size[b] \in Nat \ {0} /\ b \in Nat /\ t \in Nat /\ b < t /\ t < b + size[b]
  BY DEF Pieces
<1>4. t \notin B
  BY <1>0 DEF Pieces
<1>1. \A d \in B \cup {t} : new[d] \in Nat \ {0} /\ from <= d /\ d + new[d] <= to
  <2>1. b + size[b] <= to /\ from <= b
    BY DEF Pieces
  <2> QED BY <1>0, <2>1 DEF Pieces
<1>5. ASSUME NEW d \in B, d # b
      PROVE  /\ d + new[d] <= b \/ b + size[b] <= d
             /\ new[d] \in Nat /\ d \in Nat
  BY <1>0, <1>5 DEF Pieces
<1>2. ASSUME NEW d \in B \cup {t}, NEW e \in B \cup {t}, d # e
      PROVE  d + new[d] <= e \/ e + new[e] <= d
  <2>1. CASE d \in B \ {b} /\ e \in B \ {b}
    BY <1>2, <2>1 DEF Pieces
  <2>2. CASE d \in B \ {b} /\ e \in {b, t}
    BY <1>0, <1>5, <2>2
  <2>3. CASE e \in B \ {b} /\ d \in {b, t}
    BY <1>0, <1>5, <2>3
  <2>4. CASE d \in {b, t} /\ e \in {b, t}
    BY <1>0, <1>2, <2>4
  <2> QED BY <2>1, <2>2, <2>3, <2>4
<1>3. ASSUME NEW x \in from..(to - 1)
      PROVE  \E d \in B \cup {t} : Holds(d, new, x)
  <2>1. PICK d \in B : Holds(d, size, x)
    BY DEF Pieces
  <2>2. CASE d = b
    <3>1. Holds(b, new, x) \/ Holds(t, new, x)
      BY <1>0, <2>1, <2>2 DEF Holds
    <3> QED BY <3>1
  <2>3. CASE d # b
    <3>1. Holds(d, new, x)
      BY <2>1, <2>3 DEF Holds
    <3> QED BY <3>1
  <2> QED BY <2>2, <2>3
<1> QED BY <1>1, <1>2, <1>3, <1>4 DEF Pieces

\* One more block at the end.
LEMMA PiecesGrow ==
  ASSUME NEW B \in SUBSET Nat, NEW from \in Nat, NEW to \in Nat, from <= to,
         NEW size, NEW new, Pieces(B, size, from, to),
         NEW n \in Nat \ {0}, new[to] = n, \A d \in B : new[d] = size[d]
  PROVE  to \notin B /\ Pieces(B \cup {to}, new, from, to + n)
<1>0. \A d \in B : size[d] \in Nat \ {0} /\ from <= d /\ d + size[d] <= to /\ d \in Nat
  BY DEF Pieces
<1>1. to \notin B
  BY <1>0
<1>2. \A d \in B \cup {to} : new[d] \in Nat \ {0} /\ from <= d /\ d + new[d] <= to + n
  BY <1>0
<1>3. \A d, e \in B \cup {to} : d # e => d + new[d] <= e \/ e + new[e] <= d
  BY <1>0 DEF Pieces
<1>4. ASSUME NEW x \in from..(to + n - 1)
      PROVE  \E d \in B \cup {to} : Holds(d, new, x)
  <2>1. CASE x < to
    <3>1. PICK d \in B : Holds(d, size, x)
      BY <2>1 DEF Pieces
    <3> QED BY <3>1 DEF Holds
  <2>2. CASE to <= x
    <3>1. Holds(to, new, x)
      BY <2>2 DEF Holds
    <3> QED BY <3>1
  <2> QED BY <2>1, <2>2
<1> QED BY <1>1, <1>2, <1>3, <1>4 DEF Pieces

-----------------------------------------------------------------------------
(***************************************************************************)
(* The heap: a circle of free blocks which, with the live ones, cover the  *)
(* used part of the pool.                                                  *)
(***************************************************************************)
Quantums == PoolSize \div Unit

Heaps == [next : [Cells -> Cells \cup {Null}], size : [Cells -> Nat],
          freep : Cells \cup {Null}, pos : Nat]

Linked(h) == {c \in Cells : h.next[c] # Null}
Blocks(h, L) == (Linked(h) \ {Base}) \cup L

\* The live blocks are L, and the first e quantas of the pool are used.
Shape(h, L, e) ==
  /\ h \in Heaps /\ e \in 0..Quantums /\ L \subseteq Pool /\ L \cap Linked(h) = {}
  /\ h.freep \in Linked(h) /\ Base \in Linked(h) /\ h.size[Base] = 0
  /\ Ring(Linked(h), h.next)
  /\ Pieces(Blocks(h, L), h.size, First, First + e)
  /\ \A b, c \in Linked(h) \ {Base} : b + h.size[b] # c
  /\ \A c \in Cells \ Blocks(h, L) : h.size[c] = 0

\* No block of L changes its size between two heaps.
Untouched(L, h, g) == \A c \in L : g.size[c] = h.size[c]

LEMMA Constants ==
  /\ Quantums \in Nat /\ Unit * Quantums = PoolSize /\ Most = Quantums + 1 /\ Most \in Nat
  /\ Pool = First..(First + Quantums - 1) /\ Pool \subseteq Cells
  /\ Base \in Cells /\ Base \notin Pool /\ Base # First + Quantums
  /\ Cells \in SUBSET Nat /\ Null \notin Cells /\ IsFiniteSet(Cells)
  /\ First \in Nat /\ Unit \in Nat /\ Unit > 0
<1>1. Quantums \in Nat /\ Unit * Quantums = PoolSize
  BY UnitAssumption, SMT DEF Quantums
<1>2. Word \div Unit \in Nat
  BY UnitAssumption, SMT
<1>3. IsFiniteSet(1..(Word \div Unit - 1))
  BY <1>2, FS_Interval
<1>4. Cells \in SUBSET Nat /\ Null \notin Cells
  BY <1>2 DEF Cells, Null
<1> QED
  BY <1>1, <1>3, <1>4, UnitAssumption, PlaceAssumption, ApartAssumption
  DEF Quantums, Most, Pool, Cells

LEMMA ShapeFacts ==
  ASSUME NEW h, NEW L, NEW e, Shape(h, L, e)
  PROVE  /\ Linked(h) \in SUBSET Nat /\ IsFiniteSet(Linked(h))
         /\ Linked(h) \subseteq Pool \cup {Base}
         /\ Blocks(h, L) \subseteq Pool
         /\ \A b \in Blocks(h, L) : /\ b \in Nat /\ h.size[b] \in Nat \ {0}
                                    /\ First <= b /\ b + h.size[b] <= First + Quantums
<1>1. Linked(h) \in SUBSET Nat /\ IsFiniteSet(Linked(h))
  BY Constants, FS_Subset DEF Linked
<1>2. \A b \in Blocks(h, L) : b \in Nat
  BY <1>1, Constants DEF Blocks, Shape
<1>3. \A b \in Blocks(h, L) : /\ h.size[b] \in Nat \ {0} /\ First <= b
                              /\ b + h.size[b] <= First + e
  BY DEF Shape, Pieces
<1>4. e \in 0..Quantums
  BY DEF Shape
<1>5. ASSUME NEW b \in Blocks(h, L)
      PROVE  b + h.size[b] <= First + Quantums /\ b \in Pool
  <2> DEFINE s == h.size[b]
  <2>1. /\ b \in Nat /\ s \in Nat \ {0} /\ First <= b /\ b + s <= First + e
        /\ e \in 0..Quantums /\ First \in Nat /\ Quantums \in Nat
    BY <1>2, <1>3, <1>4, Constants
  <2> HIDE DEF s
  <2>2. b + s <= First + Quantums /\ b \in First..(First + Quantums - 1)
    BY <2>1
  <2> QED BY <2>2, Constants DEF s
<1>6. Linked(h) \subseteq Pool \cup {Base}
  BY <1>5 DEF Blocks
<1> QED BY <1>1, <1>2, <1>3, <1>5, <1>6

\* Following the links from freep meets every block of the list before freep
\* comes again.
LEMMA WalkCircle ==
  ASSUME NEW h, NEW L, NEW e, Shape(h, L, e)
  PROVE  /\ \A k \in Nat : Walk(h)[k] \in Linked(h) /\ Walk(h)[k + 1] = h.next[Walk(h)[k]]
         /\ Walk(h)[0] = h.freep
         /\ \A p \in Linked(h) : \E k \in 1..Most :
               Walk(h)[k] = p /\ \A j \in 1..(k - 1) : Walk(h)[j] # h.freep
<1> DEFINE W == Walk(h)
           F == Linked(h)
<1>1. W[0] = h.freep /\ \A k \in Nat : W[k + 1] = h.next[W[k]]
  BY WalkSteps
<1> HIDE DEF W
<1>2. /\ F \in SUBSET Nat /\ IsFiniteSet(F) /\ F \subseteq Pool \cup {Base}
      /\ h.freep \in F /\ Ring(F, h.next)
  BY ShapeFacts DEF Shape
<1> HIDE DEF F
<1>3. \A k \in Nat : W[k] \in F
  <2> DEFINE S == {k \in Nat : W[k] \in F}
  <2>1. 0 \in S
    BY <1>1, <1>2
  <2>2. ASSUME NEW k \in Nat, k \in S PROVE k + 1 \in S
    <3>1. W[k] \in F /\ W[k + 1] = h.next[W[k]]
      BY <1>1, <2>2
    <3>2. h.next[W[k]] \in F
      BY <1>2, <3>1 DEF Ring
    <3> QED BY <3>1, <3>2
  <2> HIDE DEF S
  <2>3. \A k \in Nat : k \in S
    BY <2>1, <2>2, Induct
  <2> QED BY <2>3 DEF S
<1>4. PICK i \in 1..(Most + 1), j \in 1..(Most + 1) : i < j /\ W[i] = W[j]
  <2> DEFINE S == 1..(Most + 1)
             f == [k \in S |-> W[k]]
  <2>1. IsFiniteSet(S) /\ Cardinality(S) = Most + 1
    BY Constants, FS_Interval
  <2>2. IsFiniteSet(Pool) /\ Cardinality(Pool) = Quantums
    BY Constants, FS_Interval
  <2>3. IsFiniteSet(Pool \cup {Base}) /\ Cardinality(Pool \cup {Base}) = Most
    BY <2>2, Constants, FS_AddElement
  <2>4. Cardinality(F) <= Most /\ Cardinality(F) \in Nat
    BY <1>2, <2>3, FS_Subset, FS_CardinalityType
  <2>5. f \in [S -> F]
    BY <1>3
  <2>6. \A k \in S : f[k] = W[k]
    OBVIOUS
  <2>7. S \subseteq Nat
    OBVIOUS
  <2> HIDE DEF S, f
  <2>8. PICK x \in S, y \in S : x # y /\ f[x] = f[y]
    BY <2>1, <2>4, <2>5, <1>2, Constants, FS_PigeonHole
  <2>9. x \in Nat /\ y \in Nat /\ W[x] = W[y] /\ (x < y \/ y < x)
    BY <2>6, <2>7, <2>8
  <2> QED BY <2>9 DEF S
<1>5. F = {W[k] : k \in 1..(j - 1)}
  <2> DEFINE V == {W[k] : k \in 1..(j - 1)}
  <2>1. V \in SUBSET F /\ W[i] \in V
    BY <1>3, <1>4
  <2>2. ASSUME NEW v \in V PROVE h.next[v] \in V
    <3>1. PICK k \in 1..(j - 1) : v = W[k]
      OBVIOUS
    <3>2. h.next[v] = W[k + 1]
      BY <1>1, <3>1
    <3>3. CASE k = j - 1
      <4>1. k + 1 = j
        BY <1>4, <3>3
      <4> QED BY <1>4, <2>1, <3>2, <4>1
    <3>4. CASE k # j - 1
      <4>1. k + 1 \in 1..(j - 1)
        BY <1>4, <3>4
      <4> QED BY <3>2, <4>1
    <3> QED BY <3>3, <3>4
  <2> HIDE DEF V
  <2>3. V = F
    BY <1>2, <2>1, <2>2, RingIsOne
  <2> QED BY <2>3 DEF V
<1>6. ASSUME NEW p \in F
      PROVE  \E k \in 1..Most : W[k] = p /\ \A l \in 1..(k - 1) : W[l] # h.freep
  <2> DEFINE K == {k \in Nat : k \in 1..Most /\ W[k] = p}
  <2>1. K # {} /\ K \in SUBSET Nat
    <3>1. PICK k \in 1..(j - 1) : p = W[k]
      BY <1>5
    <3>2. k \in Nat /\ k \in 1..Most
      BY <1>4, Constants
    <3> QED BY <3>1, <3>2
  <2> DEFINE k == Min(K)
  <2> HIDE DEF K
  <2>2. k \in K /\ \A l \in K : k <= l
    BY <2>1, Least
  <2> HIDE DEF k
  <2>3. k \in 1..Most /\ W[k] = p
    BY <2>2 DEF K
  <2>4. ASSUME NEW l \in 1..(k - 1), W[l] = h.freep PROVE FALSE
    <3> DEFINE V == {W[x] : x \in 1..l}
    <3>0. l \in Nat /\ 1 <= l /\ k \in Nat /\ l < k
      BY <2>3, Constants
    <3>1. V \in SUBSET F /\ W[l] \in V
      BY <1>3, <3>0
    <3>2. ASSUME NEW v \in V PROVE h.next[v] \in V
      <4>1. PICK x \in 1..l : v = W[x]
        OBVIOUS
      <4>2. h.next[v] = W[x + 1]
        BY <1>1, <4>1
      <4>3. CASE x = l
        <5>1. v = W[0] /\ h.next[v] = W[1]
          <6>1. 0 \in Nat /\ 0 + 1 = 1
            OBVIOUS
          <6> QED BY <1>1, <2>4, <4>1, <4>3, <6>1
        <5>2. 1 \in 1..l
          BY <3>0
        <5> QED BY <5>1, <5>2
      <4>4. CASE x # l
        <5>1. x + 1 \in 1..l
          BY <3>0, <4>4
        <5> QED BY <4>2, <5>1
      <4> QED BY <4>3, <4>4
    <3>3. V = F
      <4> HIDE DEF V
      <4> QED BY <1>2, <3>1, <3>2, RingIsOne
    <3>4. PICK x \in 1..l : p = W[x]
      BY <3>3
    <3>5. x \in K /\ x < k
      BY <2>3, <3>0, <3>4, Constants DEF K
    <3> QED BY <2>2, <3>0, <3>5
  <2> QED BY <2>3, <2>4
<1> QED BY <1>1, <1>3, <1>6 DEF W, F

-----------------------------------------------------------------------------
(***************************************************************************)
(* The searches of free and malloc along the list.                         *)
(***************************************************************************)
LEMMA PlaceFits ==
  ASSUME NEW h, NEW L, NEW e, Shape(h, L, e), NEW b \in Pool, b \notin Linked(h)
  PROVE  Place(h, b) \in Linked(h) /\ Between(h.next, b, Place(h, b))
<1> DEFINE K == {k \in 0..Most : Belongs(h, b, Walk(h)[k])}
<1>1. PICK p \in Linked(h) : Between(h.next, b, p)
  <2>1. /\ Linked(h) \in SUBSET Nat /\ IsFiniteSet(Linked(h)) /\ Linked(h) # {}
        /\ Ring(Linked(h), h.next) /\ b \in Nat
    BY ShapeFacts, Constants DEF Shape
  <2> QED BY <2>1, RingHasPlace
<1>2. PICK k \in 1..Most : Walk(h)[k] = p
  BY WalkCircle
<1>3. K \in SUBSET Nat /\ k \in K
  BY <1>1, <1>2, Constants DEF Belongs, Between
<1> HIDE DEF K
<1>4. Min(K) \in K
  BY <1>3, Least
<1>5. Belongs(h, b, Walk(h)[Min(K)]) /\ Min(K) \in Nat
  BY <1>3, <1>4 DEF K
<1>6. Walk(h)[Min(K)] \in Linked(h)
  BY <1>5, WalkCircle
<1> QED BY <1>5, <1>6 DEF Place, Belongs, Between, K

\* malloc finds room exactly if a free block has the size.
LEMMA FittingFinds ==
  ASSUME NEW h, NEW L, NEW e, Shape(h, L, e), NEW n \in Nat
  PROVE  /\ Fitting(h, n) = {} <=> \A p \in Linked(h) : ~(h.size[p] >= n)
         /\ Fitting(h, n) # {} =>
              LET k == Min(Fitting(h, n)) IN
              /\ Walk(h)[k] \in Linked(h) /\ h.size[Walk(h)[k]] >= n
              /\ Walk(h)[k - 1] \in Linked(h) /\ h.next[Walk(h)[k - 1]] = Walk(h)[k]
<1>1. \A k \in Nat : Walk(h)[k] \in Linked(h) /\ Walk(h)[k + 1] = h.next[Walk(h)[k]]
  BY WalkCircle
<1>2. ASSUME NEW k \in Fitting(h, n)
      PROVE  /\ k \in Nat /\ Walk(h)[k] \in Linked(h) /\ h.size[Walk(h)[k]] >= n
             /\ Walk(h)[k - 1] \in Linked(h) /\ h.next[Walk(h)[k - 1]] = Walk(h)[k]
  <2>1. k \in Nat /\ k - 1 \in Nat /\ (k - 1) + 1 = k /\ h.size[Walk(h)[k]] >= n
    BY Constants DEF Fitting
  <2> QED BY <1>1, <2>1
<1>3. ASSUME NEW p \in Linked(h), h.size[p] >= n PROVE Fitting(h, n) # {}
  <2>1. PICK k \in 1..Most : Walk(h)[k] = p /\ \A j \in 1..(k - 1) : Walk(h)[j] # h.freep
    BY WalkCircle
  <2>2. k \in Fitting(h, n)
    BY <1>3, <2>1 DEF Fitting
  <2> QED BY <2>2
<1>4. Fitting(h, n) # {} => Min(Fitting(h, n)) \in Fitting(h, n)
  <2>1. Fitting(h, n) \in SUBSET Nat
    BY <1>2
  <2> QED BY <2>1, Least
<1> QED BY <1>2, <1>3, <1>4

-----------------------------------------------------------------------------
(***************************************************************************)
(* What free does to the heap.                                             *)
(***************************************************************************)
\* b and the block behind it touch, in a list over the first quantas of the
\* pool.
Touching(F, L, next, size, to, b, c) ==
  /\ F \in SUBSET Nat /\ L \cap F = {} /\ Base \in F /\ to \in Nat
  /\ (F \ {Base}) \cup L \in SUBSET Nat
  /\ Ring(F, next) /\ Pieces((F \ {Base}) \cup L, size, First, to)
  /\ b \in F \ {Base} /\ c \in F \ {Base} /\ next[b] = c /\ b + size[b] = c

\* b takes c over.
Takeover(F, L, next, size, b, c, new, sum) ==
  /\ new[b] = next[c] /\ sum[b] = size[b] + size[c]
  /\ \A q \in F : q # b /\ q # c => new[q] = next[q]
  /\ \A q \in F \cup L : q # b /\ q # c => sum[q] = size[q]

\* What touches a block afterwards touched b or c before.
OldContacts(F, size, b, c, sum) ==
  \A x, y \in (F \ {c}) \ {Base} :
     x + sum[x] = y => IF x = b THEN c + size[c] = y ELSE x + size[x] = y

\* One step of the coalescing.
LEMMA Absorb ==
  ASSUME NEW F, NEW L, NEW next, NEW size, NEW to, NEW b, NEW c, NEW new, NEW sum,
         Touching(F, L, next, size, to, b, c),
         Takeover(F, L, next, size, b, c, new, sum)
  PROVE  /\ b < c /\ Ring(F \ {c}, new)
         /\ Pieces(((F \ {c}) \ {Base}) \cup L, sum, First, to)
         /\ OldContacts(F, size, b, c, sum)
<1> USE DEF Touching, Takeover
<1> DEFINE B == (F \ {Base}) \cup L
<1>1. size[b] \in Nat \ {0} /\ size[c] \in Nat \ {0} /\ b \in Nat /\ c \in Nat
  BY DEF Pieces
<1>2. b < c
  BY <1>1
<1>3. Ring(F \ {c}, new)
  <2> DEFINE new2 == [q \in F |-> IF q = b THEN next[c] ELSE next[q]]
  <2>1. Ring(F \ {next[b]}, new2)
    <3>1. new2[b] = next[next[b]] /\ \A q \in F : q # b => new2[q] = next[q]
      OBVIOUS
    <3> HIDE DEF new2
    <3> QED BY <1>2, <1>1, <3>1, RingDrop
  <2>2. \A q \in F \ {c} : new2[q] = new[q]
    OBVIOUS
  <2> HIDE DEF new2
  <2> QED BY <2>1, <2>2 DEF Ring
<1>4. B \ {c} = ((F \ {c}) \ {Base}) \cup L
  OBVIOUS
<1>5. Pieces(B \ {c}, sum, First, to)
  <2>1. B \in SUBSET Nat /\ b \in B /\ c \in B /\ First \in Nat
    BY Constants
  <2>2. \A d \in B : d # b /\ d # c => sum[d] = size[d]
    OBVIOUS
  <2>3. Pieces(B, size, First, to)
    OBVIOUS
  <2> HIDE DEF B
  <2> QED BY <2>1, <2>2, <2>3, PiecesJoin
<1>6. ASSUME NEW x \in (F \ {c}) \ {Base}, NEW y \in (F \ {c}) \ {Base}, x + sum[x] = y
      PROVE  IF x = b THEN c + size[c] = y ELSE x + size[x] = y
  BY <1>1, <1>6
<1> QED BY <1>2, <1>3, <1>4, <1>5, <1>6 DEF OldContacts

\* A block between p and the block behind p touches no other one.
LEMMA Neighbours ==
  ASSUME NEW h, NEW L, NEW e, Shape(h, L, e), NEW b \in L,
         NEW p \in Linked(h), Between(h.next, b, p)
  PROVE  /\ \A c \in Linked(h) \ {Base} : c + h.size[c] = b => c = p
         /\ \A c \in Linked(h) \ {Base} : b + h.size[b] = c => c = h.next[p]
<1> DEFINE F == Linked(h)
<1>1. /\ Base \notin Pool /\ Pool = First..(First + Quantums - 1)
      /\ First \in Nat /\ Quantums \in Nat /\ Base \in Nat
  BY Constants
<1>2. /\ \A q \in F : q \in Nat /\ (q = Base \/ q \in Pool)
      /\ p \in Nat /\ h.next[p] \in F /\ h.next[p] \in Nat /\ b \in Nat /\ b \in Pool
      /\ \A q \in F \ {Base} : q \in Blocks(h, L) /\ q # b
      /\ b \in Blocks(h, L)
  <2>1. /\ F \in SUBSET Nat /\ F \subseteq Pool \cup {Base} /\ Blocks(h, L) \subseteq Pool
        /\ \A c \in Blocks(h, L) : c \in Nat
    BY ShapeFacts
  <2>2. /\ \A q \in F \ {Base} : q \in Blocks(h, L)
        /\ b \in Blocks(h, L) /\ b \notin F /\ p \in F
    BY DEF Shape, Blocks
  <2>3. h.next[p] \in F
    BY DEF Shape, Ring
  <2> HIDE DEF F
  <2> QED BY <2>1, <2>2, <2>3
<1>3. \A q, r \in Blocks(h, L) :
         /\ h.size[q] \in Nat \ {0}
         /\ q # r => q + h.size[q] <= r \/ r + h.size[r] <= q
  BY DEF Shape, Pieces
<1>4. /\ p < h.next[p] => \A q \in F : q <= p \/ h.next[p] <= q
      /\ h.next[p] <= p => \A q \in F : h.next[p] <= q /\ q <= p
  BY DEF Shape, Ring
<1>5. ASSUME NEW c \in F \ {Base}, c + h.size[c] = b, c # p PROVE FALSE
  <2>1. c \in Nat /\ h.size[c] \in Nat \ {0} /\ c < b /\ c \in Pool /\ c \in Blocks(h, L)
    BY <1>2, <1>3, <1>5
  <2>2. c < p /\ p < b
    BY <1>2, <1>4, <2>1, <1>5 DEF Between
  <2>3. CASE p = Base
    BY <1>1, <1>2, <2>1, <2>2, <2>3
  <2>4. CASE p # Base
    BY <1>2, <1>3, <2>1, <2>2, <2>4, <1>5
  <2> QED BY <2>3, <2>4
<1>6. ASSUME NEW c \in F \ {Base}, b + h.size[b] = c, c # h.next[p] PROVE FALSE
  <2> DEFINE a == h.next[p]
  <2>1. /\ c \in Nat /\ h.size[b] \in Nat \ {0} /\ b < c /\ c \in Pool /\ c \in Blocks(h, L)
        /\ a \in Nat /\ a \in F /\ a # c
    BY <1>2, <1>3, <1>6
  <2>2. b < a /\ a < c
    BY <1>2, <1>4, <2>1, <1>6 DEF Between
  <2> HIDE DEF a
  <2>3. CASE a = Base
    BY <1>1, <1>2, <2>1, <2>2, <2>3
  <2>4. CASE a # Base
    <3>1. a \in Blocks(h, L)
      BY <1>2, <2>1, <2>4
    <3> QED BY <1>2, <1>3, <2>1, <2>2, <3>1, <1>6
  <2> QED BY <2>3, <2>4
<1> QED BY <1>5, <1>6

\* free keeps the shape, moves no other live block, and leaves a free block at
\* least as large as the one given back.
LEMMA InsertKeeps ==
  ASSUME NEW h, NEW L, NEW e, Shape(h, L, e), NEW b \in L
  PROVE  /\ Shape(Insert(h, b), L \ {b}, e)
         /\ Insert(h, b).pos = h.pos
         /\ Untouched(L \ {b}, h, Insert(h, b))
         /\ \E c \in Linked(Insert(h, b)) : Insert(h, b).size[c] >= h.size[b]
<1> DEFINE F == Linked(h)
           p == Place(h, b)
           a == h.next[p]
           up == b + h.size[b] = a
           low == p + h.size[p] = b
           n1 == [h.next EXCEPT ![p] = b, ![b] = a]
           n2 == IF up THEN [n1 EXCEPT ![b] = n1[a], ![a] = Null] ELSE n1
           n3 == IF low THEN [n2 EXCEPT ![p] = n2[b], ![b] = Null] ELSE n2
           s2 == IF up THEN [h.size EXCEPT ![b] = h.size[b] + h.size[a], ![a] = 0]
                 ELSE h.size
           s3 == IF low THEN [s2 EXCEPT ![p] = s2[p] + s2[b], ![b] = 0] ELSE s2
           F1 == F \cup {b}
           F2 == IF up THEN F1 \ {a} ELSE F1
           F3 == IF low THEN F2 \ {b} ELSE F2
           L1 == L \ {b}
           g == Insert(h, b)
           to == First + e
<1>1. /\ b \in Pool /\ b \in Cells /\ b \in Nat /\ b \notin F /\ b # Base /\ b # Null
      /\ Base \in F /\ h.size[Base] = 0 /\ Base \in Nat
      /\ F \in SUBSET Nat /\ F \subseteq Cells /\ Ring(F, h.next)
      /\ h.next \in [Cells -> Cells \cup {Null}] /\ h.size \in [Cells -> Nat]
      /\ Cells \in SUBSET Nat /\ to \in Nat /\ L \subseteq Cells /\ L \cap F = {}
      /\ L1 \cap F1 = {} /\ h.size[b] \in Nat \ {0}
      /\ b + h.size[b] <= First + Quantums /\ First <= b
  <2>1. /\ b \in Pool /\ b \notin F /\ Base \in F /\ h.size[Base] = 0 /\ Ring(F, h.next)
        /\ h.next \in [Cells -> Cells \cup {Null}] /\ h.size \in [Cells -> Nat]
        /\ L \subseteq Pool /\ L \cap F = {} /\ e \in Nat
    BY DEF Shape, Heaps
  <2>2. b \in Blocks(h, L)
    BY DEF Blocks
  <2>3. /\ h.size[b] \in Nat \ {0} /\ b + h.size[b] <= First + Quantums /\ First <= b
        /\ F \in SUBSET Nat
    BY <2>2, ShapeFacts
  <2>4. F \subseteq Cells
    BY DEF Linked
  <2>5. /\ b \in Cells /\ b \in Nat /\ b # Base /\ b # Null /\ Base \in Nat
        /\ Cells \in SUBSET Nat /\ to \in Nat /\ L \subseteq Cells
    BY <2>1, Constants
  <2>6. L1 \cap F1 = {}
    <3> HIDE DEF F
    <3> QED BY <2>1
  <2> HIDE DEF F, F1, L1
  <2> QED BY <2>1, <2>3, <2>4, <2>5, <2>6
<1>2. p \in F /\ Between(h.next, b, p) /\ a \in F /\ p \in Nat /\ a \in Nat
      /\ p \in Cells /\ a \in Cells /\ a # b /\ p # b
  BY <1>1, PlaceFits DEF Ring
<1>3. up => a # Base /\ a # p
  <2>1. up => a # Base
    <3>1. up => First + 1 <= a /\ a <= First + Quantums
      BY <1>1, <1>2, Constants
    <3> HIDE DEF a
    <3> QED BY <1>1, <3>1, Constants
  <2>2. a = p => p = Base
    <3>1. h.next[p] <= p => \A q \in F : h.next[p] <= q /\ q <= p
      BY <1>1, <1>2 DEF Ring
    <3> HIDE DEF F, p
    <3> QED BY <1>1, <1>2, <3>1
  <2> QED BY <2>1, <2>2
<1>4. low => p # Base
  BY <1>1, <1>2
<1>5. /\ g.next = n3 /\ g.size = s3 /\ g.freep = p /\ g.pos = h.pos /\ g \in Heaps
  <2> DEFINE block == IF low THEN p ELSE b
             gone == (IF up THEN {a} ELSE {}) \cup (IF low THEN {b} ELSE {})
             next == [h.next EXCEPT ![p] = b, ![block] = IF up THEN h.next[a] ELSE a]
             size == [h.size EXCEPT ![block] = h.size[b] + (IF up THEN h.size[a] ELSE 0)
                                                         + (IF low THEN h.size[p] ELSE 0)]
             N == [c \in Cells |-> IF c \in gone THEN Null ELSE next[c]]
             S == [c \in Cells |-> IF c \in gone THEN 0 ELSE size[c]]
  <2>1. g = [h EXCEPT !.next = N, !.size = S, !.freep = p]
    BY Zenon DEF Insert, Adjacent
  <2>2. h \in Heaps /\ h.next[a] \in Cells
    BY <1>1, <1>2 DEF Shape, Ring
  <2> HIDE DEF p, F, g
  <2>3. N = n3
    <3>1. CASE up /\ low
      BY <1>1, <1>2, <1>3, <3>1
    <3>2. CASE up /\ ~low
      BY <1>1, <1>2, <1>3, <3>2
    <3>3. CASE ~up /\ low
      BY <1>1, <1>2, <1>3, <3>3
    <3>4. CASE ~up /\ ~low
      BY <1>1, <1>2, <1>3, <3>4
    <3> QED BY <3>1, <3>2, <3>3, <3>4
  <2>6. h.size[a] \in Nat /\ h.size[b] \in Nat /\ h.size[p] \in Nat
    BY <1>1, <1>2
  <2>4. S = s3
    <3>1. s3 \in [Cells -> Nat]
      BY <1>1, <1>2, <2>6
    <3>2. ASSUME NEW c \in Cells PROVE S[c] = s3[c]
      <4>1. CASE up /\ low
        BY <1>1, <1>2, <1>3, <2>6, <4>1
      <4>2. CASE up /\ ~low
        BY <1>1, <1>2, <1>3, <2>6, <4>2
      <4>3. CASE ~up /\ low
        BY <1>1, <1>2, <1>3, <2>6, <4>3
      <4>4. CASE ~up /\ ~low
        BY <1>1, <1>2, <1>3, <2>6, <4>4
      <4> QED BY <4>1, <4>2, <4>3, <4>4
    <3> HIDE DEF s3
    <3> QED BY <3>1, <3>2
  <2>5. N \in [Cells -> Cells \cup {Null}] /\ S \in [Cells -> Nat]
    BY <1>1, <1>2, <2>2
  <2> HIDE DEF N, S, n3, s3
  <2> QED BY <2>1, <2>2, <2>3, <2>4, <2>5, <1>2 DEF Heaps
<1> HIDE DEF g
<1>6. /\ Ring(F1, n1) /\ n1[p] = b /\ n1[b] = a
      /\ Pieces((F1 \ {Base}) \cup L1, h.size, First, to)
      /\ \A x, y \in F1 \ {Base} : x + h.size[x] = y => (x = p /\ y = b) \/ (x = b /\ y = a)
      /\ \A q \in F : q # p => n1[q] = h.next[q]
  <2>1. n1[p] = b /\ n1[b] = a /\ \A q \in F : q # p => n1[q] = h.next[q]
    BY <1>1, <1>2
  <2>2. Ring(F1, n1)
    <3> HIDE DEF F, p, n1
    <3> QED BY <1>1, <1>2, <2>1, RingAdd
  <2>3. (F1 \ {Base}) \cup L1 = Blocks(h, L)
    BY <1>1 DEF Blocks
  <2>4. Pieces((F1 \ {Base}) \cup L1, h.size, First, to)
    BY <2>3 DEF Shape
  <2>5. ASSUME NEW x \in F1 \ {Base}, NEW y \in F1 \ {Base}, x + h.size[x] = y
        PROVE  (x = p /\ y = b) \/ (x = b /\ y = a)
    <3>1. CASE x = b
      <4>1. y # b
        BY <1>1, <2>5, <3>1
      <4> HIDE DEF p
      <4> QED BY <4>1, <1>2, <2>5, <3>1, Neighbours
    <3>2. CASE y = b
      <4>1. x # b
        BY <1>1, <2>5, <3>2
      <4> HIDE DEF p
      <4> QED BY <4>1, <1>2, <2>5, <3>2, Neighbours
    <3>3. CASE x # b /\ y # b
      BY <2>5, <3>3 DEF Shape
    <3> QED BY <3>1, <3>2, <3>3
  <2> QED BY <2>1, <2>2, <2>4, <2>5
<1>7. /\ F1 \in SUBSET Nat /\ Base \in F1 /\ (F1 \ {Base}) \cup L1 \in SUBSET Nat
      /\ F1 \subseteq Cells /\ h.size[a] \in Nat /\ h.size[p] \in Nat
  BY <1>1, <1>2
<1>8. /\ Ring(F2, n2) /\ n2[p] = b /\ b \in F2 /\ p \in F2 /\ Base \in F2
      /\ Pieces((F2 \ {Base}) \cup L1, s2, First, to)
      /\ \A x, y \in F2 \ {Base} : x + s2[x] = y => x = p /\ y = b
      /\ s2[p] = h.size[p] /\ s2[b] \in Nat /\ s2[b] >= h.size[b]
      /\ \A c \in L1 : s2[c] = h.size[c]
  <2>1. CASE up
    <3>1. F2 = F1 \ {a} /\ a \in F1 \ {Base} /\ b \in F1 \ {Base} /\ n1[b] = a
      BY <1>1, <1>2, <1>3, <1>6, <2>1
    <3>2. n2[b] = n1[a] /\ \A q \in F1 : q # b /\ q # a => n2[q] = n1[q]
      BY <1>1, <1>2, <1>7, <2>1
    <3>3. /\ s2[b] = h.size[b] + h.size[a]
          /\ \A q \in F1 \cup L1 : q # b /\ q # a => s2[q] = h.size[q]
      BY <1>1, <1>2, <1>7, <2>1
    <3>4. /\ b < a /\ Ring(F1 \ {a}, n2)
          /\ Pieces(((F1 \ {a}) \ {Base}) \cup L1, s2, First, to)
          /\ OldContacts(F1, h.size, b, a, s2)
      <4>1. L1 \cap F1 = {} /\ to \in Nat /\ b + h.size[b] = a
        BY <1>1, <2>1
      <4> HIDE DEF F1, L1, n1, n2, s2, p, F, to, a
      <4>2. Touching(F1, L1, n1, h.size, to, b, a)
        BY <1>6, <1>7, <3>1, <4>1 DEF Touching
      <4>3. Takeover(F1, L1, n1, h.size, b, a, n2, s2)
        BY <3>2, <3>3 DEF Takeover
      <4> QED BY <4>2, <4>3, Absorb
    <3>5. ASSUME NEW x \in F2 \ {Base}, NEW y \in F2 \ {Base}, x + s2[x] = y
          PROVE  x = p /\ y = b
      <4>1. CASE x = b
        <5>1. a + h.size[a] = y
          <6> HIDE DEF F1, F2, F3, L1, n2, n3, s2, s3, p, F, a
          <6> QED BY <3>1, <3>4, <3>5, <4>1 DEF OldContacts
        <5>2. (a = p /\ y = b) \/ (a = b /\ y = a)
          BY <3>1, <3>5, <5>1, <1>6
        <5> QED BY <1>2, <1>3, <2>1, <5>2
      <4>2. CASE x # b
        <5>1. x + h.size[x] = y
          <6> HIDE DEF F1, F2, F3, L1, n2, n3, s2, s3, p, F, a
          <6> QED BY <3>1, <3>4, <3>5, <4>2 DEF OldContacts
        <5>2. (x = p /\ y = b) \/ (x = b /\ y = a)
          BY <3>1, <3>5, <5>1, <1>6
        <5> QED BY <4>2, <5>2
      <4> QED BY <4>1, <4>2
    <3>6. n2[p] = b /\ b \in F2 /\ p \in F2 /\ Base \in F2
      BY <1>1, <1>2, <1>3, <1>6, <2>1, <3>2
    <3>7. /\ s2[p] = h.size[p] /\ s2[b] \in Nat /\ s2[b] >= h.size[b]
          /\ \A c \in L1 : s2[c] = h.size[c]
      <4>1. a \notin L1 /\ b \notin L1
        BY <1>1, <1>2
      <4>2. p \in F1
        BY <1>2
      <4> HIDE DEF F1, L1, F, p, s2
      <4> QED BY <1>1, <1>2, <1>3, <1>7, <2>1, <3>3, <4>1, <4>2
    <3> QED BY <3>1, <3>4, <3>5, <3>6, <3>7
  <2>2. CASE ~up
    <3>1. F2 = F1 /\ n2 = n1 /\ s2 = h.size
      BY <2>2
    <3>2. \A x, y \in F1 \ {Base} : x + h.size[x] = y => x = p /\ y = b
      <4> HIDE DEF F1, p, a
      <4> QED BY <1>6, <2>2
    <3>3. b \in F1 /\ p \in F1 /\ Base \in F1 /\ h.size[b] \in Nat /\ h.size[b] >= h.size[b]
      BY <1>1, <1>2
    <3> HIDE DEF F2, F1, n1, n2, s2, L1, p, F
    <3> QED BY <1>6, <3>1, <3>2, <3>3
  <2> QED BY <2>1, <2>2
<1>9. F2 \in SUBSET Nat /\ (F2 \ {Base}) \cup L1 \in SUBSET Nat /\ L1 \cap F2 = {} /\ F2 \subseteq Cells
  BY <1>1, <1>7
<1>10. /\ Ring(F3, n3) /\ p \in F3 /\ Base \in F3
       /\ Pieces((F3 \ {Base}) \cup L1, s3, First, to)
       /\ \A x, y \in F3 \ {Base} : x + s3[x] # y
       /\ \A c \in L1 : s3[c] = h.size[c]
       /\ \E c \in F3 : s3[c] >= h.size[b]
  <2>1. CASE low
    <3>1. F3 = F2 \ {b} /\ p \in F2 \ {Base} /\ b \in F2 \ {Base} /\ n2[p] = b /\ p # b
      BY <1>1, <1>2, <1>4, <1>8, <2>1
    <3>2. n3[p] = n2[b] /\ \A q \in F2 : q # p /\ q # b => n3[q] = n2[q]
      <4> HIDE DEF F, p, n2
      <4>1. n2 \in [Cells -> Cells \cup {Null}]
        BY <1>1, <1>2, <1>7 DEF n2
      <4> QED BY <1>1, <1>2, <1>9, <2>1, <4>1
    <3>3. /\ s3[p] = s2[p] + s2[b]
          /\ \A q \in F2 \cup L1 : q # p /\ q # b => s3[q] = s2[q]
      <4> HIDE DEF F, p, s2
      <4>1. s2 \in [Cells -> Nat]
        BY <1>1, <1>2, <1>7 DEF s2
      <4> QED BY <1>1, <1>2, <1>9, <2>1, <4>1
    <3>4. p + s2[p] = b
      BY <1>8, <2>1
    <3>5. /\ p < b /\ Ring(F2 \ {b}, n3)
          /\ Pieces(((F2 \ {b}) \ {Base}) \cup L1, s3, First, to)
          /\ OldContacts(F2, s2, p, b, s3)
      <4>1. to \in Nat
        BY <1>1
      <4> HIDE DEF F1, F2, L1, n1, n2, n3, s2, s3, p, F, to
      <4>2. Touching(F2, L1, n2, s2, to, p, b)
        BY <1>8, <1>9, <3>1, <3>4, <4>1 DEF Touching
      <4>3. Takeover(F2, L1, n2, s2, p, b, n3, s3)
        BY <3>2, <3>3 DEF Takeover
      <4> QED BY <4>2, <4>3, Absorb
    <3>6. ASSUME NEW x \in F3 \ {Base}, NEW y \in F3 \ {Base}, x + s3[x] = y PROVE FALSE
      <4>1. CASE x = p
        <5>1. b + s2[b] = y
          <6> HIDE DEF F1, F2, F3, L1, n2, n3, s2, s3, p, F
          <6> QED BY <3>1, <3>5, <3>6, <4>1 DEF OldContacts
        <5> QED BY <1>8, <3>1, <3>6, <5>1
      <4>2. CASE x # p
        <5>1. x + s2[x] = y
          <6> HIDE DEF F1, F2, F3, L1, n2, n3, s2, s3, p, F
          <6> QED BY <3>1, <3>5, <3>6, <4>2 DEF OldContacts
        <5> QED BY <1>8, <3>1, <3>6, <5>1, <4>2
      <4> QED BY <4>1, <4>2
    <3>7. p \in F3 /\ Base \in F3
      BY <1>1, <1>8, <3>1
    <3>8. s3[p] >= h.size[b]
      <4>1. s3[p] = s2[p] + s2[b] /\ s2[p] \in Nat /\ s2[b] \in Nat /\ s2[b] >= h.size[b]
        BY <1>1, <1>7, <1>8, <3>3
      <4> HIDE DEF s2, s3, p
      <4> QED BY <1>1, <4>1
    <3>9. \A c \in L1 : s3[c] = h.size[c]
      <4>1. b \notin L1 /\ p \notin L1
        BY <1>1, <1>2
      <4> HIDE DEF L1, F2, s2, s3, p
      <4> QED BY <1>8, <3>3, <4>1
    <3> QED BY <3>1, <3>5, <3>6, <3>7, <3>8, <3>9
  <2>2. CASE ~low
    <3>1. F3 = F2 /\ n3 = n2 /\ s3 = s2
      BY <2>2
    <3>2. \A x, y \in F2 \ {Base} : x + s2[x] # y
      <4> HIDE DEF F2, s2, p
      <4> QED BY <1>8, <2>2
    <3> HIDE DEF F3, F2, F1, n3, n2, s3, s2, L1, p, F
    <3> QED BY <1>8, <3>1, <3>2
  <2> QED BY <2>1, <2>2
<1>11. Linked(g) = F3
  <2>1. \A q \in F : h.next[q] # Null
    BY DEF Linked
  <2>2. \A q \in F3 : n3[q] # Null
    <3>1. F3 \subseteq Cells
      BY <1>9
    <3> HIDE DEF F3, n3
    <3> QED BY <1>10, <3>1, Constants DEF Ring
  <2>3. \A c \in Cells : c \notin F3 => n3[c] = Null
    <3> SUFFICES ASSUME NEW c \in Cells, c \notin F3 PROVE n3[c] = Null
      OBVIOUS
    <3>1. c # p
      BY <1>10
    <3>2. c \notin F => h.next[c] = Null
      BY DEF Linked
    <3> HIDE DEF F, p
    <3>3. CASE c = b
      BY <1>1, <1>2, <1>7, <1>8, <3>1, <3>3
    <3>4. CASE c # b /\ c \in F
      BY <1>1, <1>2, <1>7, <3>1, <3>4
    <3>5. CASE c # b /\ c \notin F
      BY <1>1, <1>2, <1>7, <3>1, <3>2, <3>5
    <3> QED BY <3>3, <3>4, <3>5
  <2>4. F3 \subseteq Cells
    BY <1>9
  <2> HIDE DEF F3, n3
  <2> QED BY <1>5, <2>2, <2>3, <2>4 DEF Linked
<1>12. Shape(g, L1, e)
  <2>1. L1 \cap F3 = {} /\ L1 \subseteq Pool /\ e \in 0..Quantums
    BY <1>9 DEF Shape
  <2>2. s3[Base] = 0
    BY <1>1, <1>2, <1>3, <1>4
  <2>3. Blocks(g, L1) = (F3 \ {Base}) \cup L1
    BY <1>11 DEF Blocks
  <2>4. \A c \in Cells \ Blocks(g, L1) : s3[c] = 0
    <3> SUFFICES ASSUME NEW c \in Cells, c \notin (F3 \ {Base}) \cup L1 PROVE s3[c] = 0
      BY <2>3
    <3>1. c \notin L1
      OBVIOUS
    <3>2. c # Base => c # p
      BY <1>10
    <3>3. c = Base => c # b /\ (up => c # a) /\ (low => c # p)
      BY <1>1, <1>3, <1>4
    <3>4. c # b => c \notin L
      BY <3>1
    <3>5. c # b /\ c \notin F => h.size[c] = 0
      BY <3>4 DEF Shape, Blocks
    <3>6. c = Base => h.size[c] = 0
      BY <1>1
    <3>7. CASE c = Base
      BY <1>1, <1>2, <1>7, <3>3, <3>6, <3>7
    <3>8. CASE c # Base /\ c = b
      <4>1. low
        BY <1>8, <3>8
      <4> HIDE DEF s2, p
      <4> QED BY <1>1, <3>8, <4>1, <1>9, <1>8, <1>7, <1>2 DEF s2
    <3>9. CASE c # Base /\ c # b /\ c \in F
      <4>1. up /\ c = a
        BY <3>9
      <4> HIDE DEF p
      <4> QED BY <1>1, <1>2, <1>7, <3>2, <3>9, <4>1
    <3>10. CASE c # Base /\ c # b /\ c \notin F
      <4>1. c # p /\ c # a /\ h.size[c] = 0
        BY <1>2, <3>5, <3>10
      <4> HIDE DEF p, F
      <4> QED BY <1>1, <1>2, <1>7, <3>10, <4>1
    <3> QED BY <3>7, <3>8, <3>9, <3>10
  <2> HIDE DEF F3, n3, s3, L1, p
  <2> QED BY <1>5, <1>10, <1>11, <2>1, <2>2, <2>3, <2>4 DEF Shape
<1> HIDE DEF F3, s3, n3, p
<1> QED BY <1>5, <1>10, <1>11, <1>12 DEF g, Untouched

-----------------------------------------------------------------------------
(***************************************************************************)
(* What malloc does to the heap.                                           *)
(***************************************************************************)
\* malloc keeps the shape, moves no live block, and what it takes was free.
LEMMA TakeKeeps ==
  ASSUME NEW h, NEW L, NEW e, Shape(h, L, e), NEW n \in Nat \ {0}, Fitting(h, n) # {}
  PROVE  /\ Taken(h, n) \in Pool /\ Taken(h, n) \notin L
         /\ Shape(Take(h, n), L \cup {Taken(h, n)}, e)
         /\ Take(h, n).pos = h.pos /\ Take(h, n).size[Taken(h, n)] = n
         /\ Untouched(L, h, Take(h, n))
<1> DEFINE F == Linked(h)
           k == Min(Fitting(h, n))
           p == Walk(h)[k]
           prev == Walk(h)[k - 1]
           t == Taken(h, n)
           whole == h.size[p] = n
           next == IF whole THEN [h.next EXCEPT ![prev] = h.next[p], ![p] = Null]
                   ELSE h.next
           size == [h.size EXCEPT ![p] = h.size[p] - n, ![t] = n]
           g == Take(h, n)
           B == Blocks(h, L)
           to == First + e
<1>1. p \in F /\ h.size[p] >= n /\ prev \in F /\ h.next[prev] = p
  BY FittingFinds
<1>2. t = p + h.size[p] - n
  BY DEF Taken
<1>3. g = [h EXCEPT !.next = next, !.size = size, !.freep = prev]
  BY DEF Take
<1> HIDE DEF p, prev, t, k, g
<1>4. /\ Base \in F /\ h.size[Base] = 0 /\ F \in SUBSET Nat /\ F \subseteq Cells
      /\ h.next \in [Cells -> Cells \cup {Null}] /\ h.size \in [Cells -> Nat]
      /\ L \subseteq Pool /\ L \cap F = {} /\ Ring(F, h.next) /\ h \in Heaps
      /\ e \in 0..Quantums /\ to \in Nat /\ B \in SUBSET Nat /\ B \subseteq Pool
      /\ Pool \subseteq Cells /\ Cells \in SUBSET Nat /\ Base \notin Pool
  <2>1. F \subseteq Cells
    BY DEF Linked
  <2>2. F \in SUBSET Nat /\ B \in SUBSET Nat /\ B \subseteq Pool
    BY ShapeFacts
  <2>3. /\ Base \in F /\ h.size[Base] = 0
        /\ h.next \in [Cells -> Cells \cup {Null}] /\ h.size \in [Cells -> Nat]
        /\ L \subseteq Pool /\ L \cap F = {} /\ Ring(F, h.next) /\ h \in Heaps
        /\ e \in 0..Quantums
    BY DEF Shape, Heaps
  <2>4. to \in Nat /\ Pool \subseteq Cells /\ Cells \in SUBSET Nat /\ Base \notin Pool
    BY <2>3, Constants
  <2> HIDE DEF F, B, to
  <2> QED BY <2>1, <2>2, <2>3, <2>4
<1>5. p # Base /\ p \in B /\ p \in Nat /\ h.size[p] \in Nat
  BY <1>1, <1>4 DEF Blocks
<1>6. prev # p
  <2> SUFFICES ASSUME prev = p PROVE FALSE
    OBVIOUS
  <2>1. h.next[p] <= p => \A q \in F : h.next[p] <= q /\ q <= p
    BY <1>1, <1>4 DEF Ring
  <2> HIDE DEF F
  <2>2. \A q \in F : p <= q /\ q <= p
    BY <1>1, <1>5, <2>1
  <2> QED BY <1>4, <1>5, <2>2
<1>7. h.next[p] \in F /\ t \in Pool /\ t \in Nat
  <2>1. h.next[p] \in F
    BY <1>1, <1>4 DEF Ring
  <2>2. First <= p /\ p + h.size[p] <= First + Quantums
    BY <1>5, ShapeFacts
  <2>3. t \in First..(First + Quantums - 1)
    <3> DEFINE s == h.size[p]
    <3>1. /\ s >= n /\ t = p + s - n /\ p \in Nat /\ s \in Nat /\ First <= p
          /\ p + s <= First + Quantums /\ First \in Nat /\ Quantums \in Nat
      BY <1>1, <1>2, <1>5, <2>2, Constants
    <3> HIDE DEF s
    <3> QED BY <3>1
  <2> QED BY <2>1, <2>3, Constants
<1>8. /\ g.next = next /\ g.size = size /\ g.freep = prev /\ g.pos = h.pos /\ g \in Heaps
  <2>1. next \in [Cells -> Cells \cup {Null}] /\ size \in [Cells -> Nat] /\ prev \in Cells
    <3> HIDE DEF F
    <3> QED BY <1>1, <1>4, <1>5, <1>7
  <2> HIDE DEF next, size
  <2> QED BY <1>3, <1>4, <2>1 DEF Heaps
<1>9. /\ size[t] = n /\ \A c \in Cells : c # p /\ c # t => size[c] = h.size[c]
      /\ p # t => size[p] = h.size[p] - n
  BY <1>1, <1>4, <1>5, <1>7
<1>10. CASE whole
  <2>1. t = p
    BY <1>2, <1>5, <1>10
  <2>2. /\ next[prev] = h.next[p] /\ next[p] = Null
        /\ \A c \in Cells : c # prev /\ c # p => next[c] = h.next[c]
    <3> HIDE DEF F
    <3> QED BY <1>1, <1>4, <1>6, <1>7, <1>10
  <2>3. Ring(F \ {p}, next)
    <3> DEFINE new == [q \in F |-> IF q = prev THEN h.next[p] ELSE h.next[q]]
    <3>1. Ring(F \ {h.next[prev]}, new)
      <4>1. new[prev] = h.next[h.next[prev]] /\ \A q \in F : q # prev => new[q] = h.next[q]
        BY <1>1
      <4> HIDE DEF new
      <4> QED BY <1>1, <1>4, <1>6, <4>1, RingDrop
    <3>2. \A q \in F \ {p} : new[q] = next[q]
      BY <1>4, <2>2
    <3> HIDE DEF new, next
    <3> QED BY <1>1, <3>1, <3>2 DEF Ring
  <2>4. Linked(g) = F \ {p}
    <3>1. \A c \in F \ {p} : next[c] # Null
      <4> HIDE DEF next, F
      <4> QED BY <2>3, <1>4, Constants DEF Ring
    <3>2. \A c \in Cells : c \notin F => next[c] = Null
      <4>1. \A c \in Cells : c \notin F => h.next[c] = Null
        BY DEF Linked
      <4> HIDE DEF next, F
      <4> QED BY <1>1, <2>2, <4>1
    <3> HIDE DEF F, next
    <3> QED BY <1>4, <1>8, <2>2, <3>1, <3>2 DEF Linked
  <2>5. Blocks(g, L \cup {t}) = B
    BY <1>4, <1>5, <2>1, <2>4, <1>1 DEF Blocks
  <2>6. \A c \in Cells : size[c] = h.size[c]
    BY <1>9, <1>10, <2>1
  <2>7. B \subseteq Cells /\ F \subseteq Cells
    BY <1>4
  <2>8. Pieces(B, size, First, to)
    <3>1. Pieces(B, h.size, First, to)
      BY DEF Shape
    <3>2. \A c \in B : size[c] = h.size[c]
      <4> HIDE DEF B, size
      <4> QED BY <2>6, <2>7
    <3> HIDE DEF B, size
    <3> QED BY <3>1, <3>2, PiecesSame
  <2>9. \A b, c \in F \ {Base} : b + size[b] # c
    <3>1. \A b, c \in F \ {Base} : b + h.size[b] # c
      BY DEF Shape
    <3> HIDE DEF F, size
    <3> QED BY <2>6, <2>7, <3>1
  <2>10. Shape(g, L \cup {t}, e)
    <3>1. /\ prev \in F \ {p} /\ Base \in F \ {p} /\ size[Base] = 0
          /\ (L \cup {t}) \cap (F \ {p}) = {} /\ L \cup {t} \subseteq Pool
      <4> HIDE DEF size, F
      <4> QED BY <1>1, <1>4, <1>5, <1>6, <1>7, <2>1, <2>6, Constants
    <3>2. \A c \in Cells \ B : size[c] = 0
      <4>1. \A c \in Cells \ B : h.size[c] = 0
        BY DEF Shape
      <4> HIDE DEF B, size
      <4> QED BY <2>6, <4>1
    <3>3. /\ g \in Heaps /\ g.freep = prev /\ g.size = size /\ g.next = next
          /\ e \in 0..Quantums
      BY <1>4, <1>8
    <3> HIDE DEF F, B, size, next
    <3> QED BY <2>3, <2>4, <2>5, <2>8, <2>9, <3>1, <3>2, <3>3 DEF Shape
  <2>11. t \notin L /\ \A c \in L : size[c] = h.size[c]
    BY <1>1, <1>4, <2>1, <2>6
  <2> HIDE DEF size, next
  <2> QED BY <1>7, <1>8, <1>9, <2>10, <2>11 DEF t, g, Untouched
<1>11. CASE ~whole
  <2>1. n < h.size[p] /\ t # p /\ next = h.next
    <3>1. n < h.size[p] /\ n \in Nat
      BY <1>1, <1>5, <1>11
    <3>2. t # p
      BY <1>2, <1>5, <3>1
    <3>3. next = h.next
      BY <1>11
    <3> QED BY <3>1, <3>2, <3>3
  <2>2. t \notin B /\ Pieces(B \cup {t}, size, First, to)
    <3>1. Pieces(B, h.size, First, to) /\ First \in Nat
      BY Constants DEF Shape
    <3>2. /\ size[p] = h.size[p] - n /\ size[t] = n
          /\ n \in Nat /\ 0 < n
      BY <1>9, <2>1
    <3>3. t # p => \A c \in B : c # p /\ c # t => size[c] = h.size[c]
      <4>1. B \subseteq Cells
        BY <1>4
      <4> HIDE DEF B, size
      <4> QED BY <1>9, <4>1
    <3>4. t \notin B
      <4>1. \A b, c \in B : b # c => b + h.size[b] <= c \/ c + h.size[c] <= b
        BY <3>1 DEF Pieces
      <4>2. t \in B => h.size[t] \in Nat \ {0}
        BY <3>1 DEF Pieces
      <4> HIDE DEF B
      <4> QED BY <1>2, <1>5, <1>7, <2>1, <4>1, <4>2
    <3>5. \A c \in B : c # p => size[c] = h.size[c]
      <4> HIDE DEF B, size
      <4> QED BY <2>1, <3>3, <3>4
    <3> HIDE DEF B, size, to
    <3>6. CutOff(B, h.size, p, n, t, size)
      BY <1>2, <1>5, <2>1, <3>2, <3>5 DEF CutOff
    <3> QED BY <1>4, <3>1, <3>6, PiecesSplit
  <2>3. Linked(g) = F
    BY <1>8, <2>1 DEF Linked
  <2>4. Blocks(g, L \cup {t}) = B \cup {t}
    BY <2>3, <1>4, <1>7 DEF Blocks
  <2>5. t \notin F /\ t \notin L
    BY <2>2, <1>4, <1>7 DEF Blocks
  <2>6. \A b, c \in F \ {Base} : b + size[b] # c
    <3>1. \A b, c \in F \ {Base} : b + h.size[b] # c
      BY DEF Shape
    <3>2. ASSUME NEW b \in F \ {Base}, NEW c \in F \ {Base}, b + size[b] = c PROVE FALSE
      <4>1. CASE b = p
        <5>1. c = t
          BY <1>2, <1>5, <1>9, <2>1, <3>2, <4>1
        <5> QED BY <2>5, <3>2, <5>1
      <4>2. CASE b # p
        <5>1. size[b] = h.size[b]
          <6> HIDE DEF size, F
          <6> QED BY <1>4, <1>9, <2>5, <3>2, <4>2
        <5> QED BY <3>1, <3>2, <5>1
      <4> QED BY <4>1, <4>2
    <3> QED BY <3>2
  <2>7. Shape(g, L \cup {t}, e)
    <3>1. size[Base] = 0 /\ (L \cup {t}) \cap F = {} /\ L \cup {t} \subseteq Pool
      <4> HIDE DEF size, F
      <4> QED BY <1>4, <1>5, <1>7, <1>9, <2>5, Constants
    <3>2. Ring(F, next)
      BY <1>4, <2>1
    <3>3. \A c \in Cells \ (B \cup {t}) : size[c] = 0
      <4>1. \A c \in Cells \ B : h.size[c] = 0
        BY DEF Shape
      <4> HIDE DEF B, size
      <4> QED BY <1>5, <1>9, <4>1
    <3> HIDE DEF F, B, size, next
    <3> QED BY <1>1, <1>4, <1>8, <2>2, <2>3, <2>4, <2>6, <3>1, <3>2, <3>3 DEF Shape
  <2>8. \A c \in L : size[c] = h.size[c]
    <3>1. p \notin L
      BY <1>1, <1>4
    <3> HIDE DEF size
    <3> QED BY <1>4, <1>9, <2>5, <3>1
  <2> HIDE DEF size, next
  <2> QED BY <1>7, <1>8, <1>9, <2>5, <2>7, <2>8 DEF t, g, Untouched
<1> QED BY <1>10, <1>11

-----------------------------------------------------------------------------
(***************************************************************************)
(* Bytes and quantas.                                                      *)
(***************************************************************************)
\* The quantas that hold so many bytes behind a header.
Needed(bytes) == bytes \div Unit + (IF bytes % Unit = 0 THEN 1 ELSE 2)

\* Requests that do not wrap around size_t.
Modest(bytes) == bytes + 2 * Unit + PoolSize <= Word

LEMMA QuantasAreNeeded ==
  ASSUME NEW bytes \in Nat, Modest(bytes)
  PROVE  /\ Quantas(bytes) = Needed(bytes) /\ Needed(bytes) \in Nat \ {0}
         /\ bytes <= (Needed(bytes) - 1) * Unit
         /\ Unit * Needed(bytes) + PoolSize < Word
<1> DEFINE d == bytes \div Unit
           r == bytes % Unit
           n == Needed(bytes)
<1>1. d \in Nat /\ r \in 0..(Unit - 1) /\ bytes = Unit * d + r /\ Unit \in Nat \ {0}
  BY Divide, UnitAssumption
<1>2. n = d + (IF r = 0 THEN 1 ELSE 2)
  BY DEF Needed
<1>3. Word \in Nat /\ PoolSize \in Nat /\ bytes + Unit - 1 \in 0..(Word - 1)
  BY UnitAssumption DEF Modest
<1>4. Quantas(bytes) = (bytes + Unit - 1) \div Unit + 1
  BY <1>3 DEF Quantas
<1> HIDE DEF d, r, n
<1>5. Unit * (d + 1) = Unit * d + Unit /\ Unit * d \in Int /\ Unit * (d + 2) = Unit * d + 2 * Unit
  BY <1>1, SMT
<1>6. CASE r = 0
  <2>1. (bytes + Unit - 1) \div Unit = d
    <3>1. bytes + Unit - 1 = Unit * d + (Unit - 1)
      BY <1>1, <1>5, <1>6
    <3>2. (Unit * d + (Unit - 1)) \div Unit = d
      <4>1. Unit - 1 \in Nat /\ Unit - 1 < Unit
        BY <1>1
      <4> QED BY <1>1, <4>1, DivideIs
    <3> QED BY <3>1, <3>2, Zenon
  <2>2. n = d + 1 /\ (n - 1) * Unit = Unit * d
    BY <1>1, <1>2, <1>6, SMT
  <2> QED BY <1>1, <1>3, <1>4, <1>5, <1>6, <2>1, <2>2 DEF n, Modest
<1>7. CASE r # 0
  <2>1. (bytes + Unit - 1) \div Unit = d + 1
    <3>1. bytes + Unit - 1 = Unit * (d + 1) + (r - 1)
      BY <1>1, <1>5, <1>7
    <3>2. (Unit * (d + 1) + (r - 1)) \div Unit = d + 1
      <4>1. r - 1 \in Nat /\ r - 1 < Unit /\ d + 1 \in Nat
        BY <1>1, <1>7
      <4> QED BY <1>1, <4>1, DivideIs
    <3> QED BY <3>1, <3>2, Zenon
  <2>2. n = d + 2 /\ (n - 1) * Unit = Unit * (d + 1)
    BY <1>1, <1>2, <1>7, SMT
  <2> QED BY <1>1, <1>3, <1>4, <1>5, <1>7, <2>1, <2>2 DEF n, Modest
<1> QED BY <1>6, <1>7

LEMMA NeededGrows ==
  ASSUME NEW a \in Nat, NEW b \in Nat, a <= b
  PROVE  Needed(a) <= Needed(b) /\ Needed(a) \in Nat /\ Needed(b) \in Nat
<1> DEFINE c == a \div Unit
           d == b \div Unit
<1>1. /\ c \in Nat /\ a % Unit \in 0..(Unit - 1) /\ a = Unit * c + (a % Unit)
      /\ d \in Nat /\ b % Unit \in 0..(Unit - 1) /\ b = Unit * d + (b % Unit)
      /\ Unit \in Nat \ {0}
  BY Divide, UnitAssumption
<1>2. Needed(a) = c + (IF a % Unit = 0 THEN 1 ELSE 2)
      /\ Needed(b) = d + (IF b % Unit = 0 THEN 1 ELSE 2)
  BY DEF Needed
<1> HIDE DEF c, d
<1>3. c <= d
  <2>1. Unit * c < Unit * (d + 1)
    <3>1. Unit * (d + 1) = Unit * d + Unit /\ Unit * d \in Int /\ Unit * c \in Int
      BY <1>1, Times
    <3> QED BY <1>1, <3>1
  <2>2. c < d + 1
    BY <1>1, <2>1, Times
  <2> QED BY <1>1, <2>2
<1>4. c = d => a % Unit <= b % Unit
  BY <1>1
<1> QED BY <1>1, <1>2, <1>3, <1>4

-----------------------------------------------------------------------------
(***************************************************************************)
(* A heap between two calls.                                               *)
(***************************************************************************)
Used(h) == h.pos \div Unit

Sound(h, L) == Shape(h, L, Used(h)) /\ h.pos <= PoolSize /\ h.pos % Unit = 0

\* What __hide_get_mem_from_pool asks for does not wrap around either.
Asked(n) == IF n < MinQuantas THEN MinQuantas ELSE n
ModestGrowth == Unit * MinQuantas + PoolSize < Word

LEMMA PosIsUsed ==
  ASSUME NEW h, NEW L, Sound(h, L)
  PROVE  h.pos \in Nat /\ Used(h) \in 0..Quantums /\ h.pos = Unit * Used(h)
<1>1. h.pos \in Nat /\ Used(h) \in 0..Quantums
  BY DEF Sound, Shape, Heaps
<1>2. h.pos = Unit * Used(h)
  <2>1. h.pos = Unit * (h.pos \div Unit) + (h.pos % Unit) /\ h.pos \div Unit \in Nat
    BY <1>1, Divide, UnitAssumption
  <2>2. Unit * (h.pos \div Unit) \in Int
    BY <2>1, Times, UnitAssumption
  <2> QED BY <2>1, <2>2 DEF Sound, Used
<1> QED BY <1>1, <1>2

\* A block of the pool joins the free list, or there is none.
LEMMA GrownKeeps ==
  ASSUME NEW h, NEW L, Sound(h, L), NEW n \in Nat \ {0},
         Unit * n + PoolSize < Word, ModestGrowth
  PROVE  /\ Sound(Grown(h, n), L) /\ Untouched(L, h, Grown(h, n))
         /\ \/ Grown(h, n) = h /\ Used(h) + Asked(n) > Quantums
            \/ \E c \in Linked(Grown(h, n)) : Grown(h, n).size[c] >= n
<1> DEFINE q == Asked(n)
           e == Used(h)
           b == First + e
           end == (h.pos + q * Unit) % Word
           h1 == [h EXCEPT !.size = [@ EXCEPT ![b] = q]]
           L1 == L \cup {b}
           g == [Insert(h1, b) EXCEPT !.pos = end]
<1>1. /\ q \in Nat \ {0} /\ n <= q /\ Unit * q + PoolSize < Word
  BY CallsAssumption DEF Asked, ModestGrowth
<1>2. /\ h.pos \in Nat /\ e \in 0..Quantums /\ h.pos = Unit * e /\ Shape(h, L, e)
      /\ h.pos <= PoolSize /\ Unit \in Nat \ {0} /\ Word \in Nat /\ PoolSize \in Nat
  BY PosIsUsed, UnitAssumption DEF Sound
<1> HIDE DEF q, e
<1>3. end = Unit * (e + q) /\ end \in Nat
  <2>1. Unit * (e + q) = Unit * e + Unit * q /\ q * Unit = Unit * q /\ Unit * q \in Int
    BY <1>1, <1>2, Times
  <2>2. Unit * q >= 0
    BY <1>1, <1>2, Times
  <2>3. h.pos + q * Unit \in 0..(Word - 1)
    BY <1>1, <1>2, <2>1, <2>2
  <2>4. end = h.pos + q * Unit
    BY <1>2, <2>3
  <2> QED BY <1>2, <2>1, <2>3, <2>4
<1>4. end > PoolSize <=> e + q > Quantums
  <2>1. Unit * Quantums = PoolSize /\ Quantums \in Nat
    BY Constants
  <2>2. Quantums < e + q <=> Unit * Quantums < Unit * (e + q)
    BY <1>1, <1>2, <2>1, Times
  <2> HIDE DEF end
  <2> QED BY <1>1, <1>2, <1>3, <2>1, <2>2
<1>5. Grown(h, n) = IF end > PoolSize THEN h ELSE g
  BY DEF Grown, q, Asked, e, Used
<1>6. CASE end > PoolSize
  BY <1>4, <1>5, <1>6 DEF e, q, Untouched
<1>7. CASE ~(end > PoolSize)
  <2>1. e + q <= Quantums
    BY <1>1, <1>2, <1>4, <1>7, Constants
  <2>2. /\ b \in Pool /\ b \in Cells /\ b \in Nat /\ b # Base /\ First \in Nat
        /\ Pool \subseteq Cells
    BY <1>1, <1>2, <2>1, Constants
  <2>3. b \notin Blocks(h, L) /\ b \notin L /\ b \notin Linked(h)
    <3>1. \A c \in Blocks(h, L) : h.size[c] \in Nat \ {0} /\ c + h.size[c] <= First + e
      BY <1>2 DEF Shape, Pieces
    <3>2. b \notin Blocks(h, L)
      BY <2>2, <3>1
    <3> QED BY <2>2, <3>2 DEF Blocks
  <2>4. /\ h1 \in Heaps /\ h1.next = h.next /\ h1.freep = h.freep /\ h1.pos = h.pos
        /\ h1.size[b] = q /\ \A c \in Cells : c # b => h1.size[c] = h.size[c]
    BY <1>1, <1>2, <2>2 DEF Shape, Heaps
  <2> HIDE DEF h1, b
  <2>5. Linked(h1) = Linked(h) /\ Blocks(h1, L1) = Blocks(h, L) \cup {b}
    BY <2>2, <2>3, <2>4 DEF Linked, Blocks
  <2>6. Blocks(h, L) \in SUBSET Nat /\ Blocks(h, L) \subseteq Cells /\ Linked(h) \subseteq Cells
    BY <1>2, <2>2, ShapeFacts DEF Linked
  <2>7. Pieces(Blocks(h1, L1), h1.size, First, First + (e + q))
    <3>1. /\ Pieces(Blocks(h, L), h.size, First, b) /\ First <= b
          /\ b + q = First + (e + q)
      BY <1>1, <1>2, <2>2 DEF Shape, b
    <3>2. \A c \in Blocks(h, L) : h1.size[c] = h.size[c]
      BY <2>3, <2>4, <2>6
    <3>3. Pieces(Blocks(h, L) \cup {b}, h1.size, First, b + q)
      BY <1>1, <2>2, <2>4, <2>6, <3>1, <3>2, PiecesGrow
    <3> QED BY <2>5, <3>1, <3>3
  <2>8. Shape(h1, L1, e + q)
    <3>1. /\ e + q \in 0..Quantums /\ L1 \subseteq Pool /\ L1 \cap Linked(h1) = {}
          /\ h1.freep \in Linked(h1) /\ Base \in Linked(h1) /\ h1.size[Base] = 0
      BY <1>1, <1>2, <2>1, <2>2, <2>3, <2>4, <2>5, Constants DEF Shape
    <3>2. Ring(Linked(h1), h1.next)
      BY <1>2, <2>4, <2>5 DEF Shape
    <3>3. \A c, d \in Linked(h1) \ {Base} : c + h1.size[c] # d
      <4>1. \A c, d \in Linked(h) \ {Base} : c + h.size[c] # d
        BY <1>2 DEF Shape
      <4>2. \A c \in Linked(h) : h1.size[c] = h.size[c]
        BY <2>3, <2>4, <2>6
      <4> QED BY <2>5, <4>1, <4>2
    <3>4. \A c \in Cells \ Blocks(h1, L1) : h1.size[c] = 0
      <4>1. \A c \in Cells \ Blocks(h, L) : h.size[c] = 0
        BY <1>2 DEF Shape
      <4> QED BY <2>4, <2>5, <4>1
    <3> QED BY <2>4, <2>7, <3>1, <3>2, <3>3, <3>4 DEF Shape
  <2> DEFINE i == Insert(h1, b)
  <2>9. /\ Shape(i, L1 \ {b}, e + q)
        /\ \A c \in L1 \ {b} : i.size[c] = h1.size[c]
        /\ \E c \in Linked(i) : i.size[c] >= h1.size[b]
    <3>1. b \in L1
      OBVIOUS
    <3> HIDE DEF L1
    <3> HIDE DEF i
    <3>2. Shape(Insert(h1, b), L1 \ {b}, e + q)
      BY <2>8, <3>1, InsertKeeps
    <3>3. Untouched(L1 \ {b}, h1, Insert(h1, b))
      BY <2>8, <3>1, InsertKeeps
    <3>4. \E c \in Linked(Insert(h1, b)) : Insert(h1, b).size[c] >= h1.size[b]
      BY <2>8, <3>1, InsertKeeps
    <3> QED BY <3>2, <3>3, <3>4 DEF i, Untouched
  <2>10. L1 \ {b} = L
    BY <2>3
  <2> HIDE DEF i, L1, end
  <2>11. g = [i EXCEPT !.pos = end]
    BY DEF i
  <2>12. /\ g \in Heaps /\ g.next = i.next /\ g.size = i.size /\ g.freep = i.freep /\ g.pos = end
    BY <1>3, <2>9, <2>11 DEF Shape, Heaps
  <2> HIDE DEF g
  <2>13. Shape(g, L, e + q)
    <3>1. Linked(g) = Linked(i) /\ Blocks(g, L) = Blocks(i, L)
      BY <2>12 DEF Linked, Blocks
    <3> QED BY <2>9, <2>10, <2>12, <3>1 DEF Shape
  <2>14. Used(g) = e + q /\ g.pos <= PoolSize /\ g.pos % Unit = 0
    <3>1. (Unit * (e + q) + 0) \div Unit = e + q
      BY <1>1, <1>2, DivideIs
    <3>2. Unit * (e + q) + 0 = end
      BY <1>1, <1>2, <1>3
    <3>3. Used(g) = e + q
      BY <2>12, <3>1, <3>2 DEF Used
    <3>4. end = Unit * (end \div Unit) + (end % Unit) /\ end % Unit \in Nat
      <4>1. end % Unit \in 0..(Unit - 1) /\ end = Unit * (end \div Unit) + (end % Unit)
        BY <1>2, <1>3, Divide
      <4> QED BY <4>1
    <3>5. end % Unit = 0
      <4> DEFINE r == end % Unit
      <4>1. end \div Unit = e + q
        BY <2>12, <3>3 DEF Used
      <4>2. end = end + r /\ r \in Nat
        BY <1>3, <3>4, <4>1, Zenon
      <4> HIDE DEF r
      <4>3. r = 0
        BY <1>3, <4>2
      <4> QED BY <4>3 DEF r
    <3> QED BY <1>2, <1>3, <1>7, <2>12, <3>3, <3>5
  <2>15. \A c \in L : g.size[c] = h.size[c]
    <3>1. L \subseteq Cells
      BY <1>2, <2>2 DEF Shape
    <3> QED BY <2>3, <2>4, <2>9, <2>10, <2>12, <3>1
  <2>16. \E c \in Linked(g) : g.size[c] >= n
    <3>1. PICK c \in Linked(i) : i.size[c] >= q
      BY <2>4, <2>9
    <3>2. c \in Linked(g) /\ i.size[c] \in Nat
      BY <2>9, <2>12, <3>1 DEF Linked, Shape, Heaps
    <3> QED BY <1>1, <2>12, <3>1, <3>2
  <2> QED BY <1>5, <1>7, <2>13, <2>14, <2>15, <2>16 DEF Sound, Untouched, end
<1> QED BY <1>6, <1>7

-----------------------------------------------------------------------------
(***************************************************************************)
(* The inductive invariant, and the calls.                                 *)
(***************************************************************************)
HeapInv ==
  /\ heap \in Heaps /\ Sound(Started(heap), LiveOnes)
  /\ heap.freep = Null =>
       /\ DOMAIN live = {} /\ heap.pos = 0
       /\ \A c \in Cells : heap.next[c] = Null /\ heap.size[c] = 0

LiveInv == \A p \in DOMAIN live : p = Pointer(Header(p)) /\ live[p] \in Nat

Inv == HeapInv /\ LiveInv /\ refused \subseteq Nat

\* No free block has n quantas, and the rest of the pool is too small.
Full(h, n) ==
  /\ \A p \in Linked(h) : ~(h.size[p] >= n)
  /\ Used(h) + Asked(n) > Quantums

\* A call that gets the block at t, and one that gets nothing.
Got(t, n, wanted) ==
  /\ t \in Pool /\ t \notin LiveOnes /\ Granted(Pointer(t), wanted)
  /\ heap' \in Heaps /\ heap'.freep # Null /\ Sound(heap', LiveOnes \cup {t})
  /\ heap'.size[t] = n /\ Untouched(LiveOnes, heap, heap')

Denied(n, wanted) ==
  /\ Refused(wanted) /\ Untouched(LiveOnes, heap, heap')
  /\ heap' \in Heaps /\ heap'.freep # Null /\ Sound(heap', LiveOnes) /\ Full(heap', n)

LEMMA SoundFreep ==
  ASSUME NEW h, NEW L, Sound(h, L)
  PROVE  h \in Heaps /\ h.freep # Null
BY Constants DEF Sound, Shape, Linked

LEMMA StartedKeeps ==
  ASSUME HeapInv
  PROVE  Sound(Started(heap), LiveOnes) /\ Untouched(LiveOnes, heap, Started(heap))
<1>1. CASE heap.freep = Null
  BY <1>1 DEF HeapInv, Untouched, LiveOnes
<1>2. CASE heap.freep # Null
  BY <1>2 DEF HeapInv, Untouched, Started
<1> QED BY <1>1, <1>2

LEMMA SearchedKeeps ==
  ASSUME HeapInv, ModestGrowth, NEW asked \in Nat, Modest(asked)
  PROVE  /\ Sound(Searched(asked), LiveOnes)
         /\ Untouched(LiveOnes, heap, Searched(asked))
         /\ ~Found(Searched(asked), asked) => Full(Searched(asked), Needed(asked))
<1> DEFINE h == Started(heap)
           n == Needed(asked)
           g == Searched(asked)
<1>1. Quantas(asked) = n /\ n \in Nat \ {0} /\ n \in Nat /\ Unit * n + PoolSize < Word
  BY QuantasAreNeeded
<1>2. Sound(h, LiveOnes) /\ Untouched(LiveOnes, heap, h) /\ Shape(h, LiveOnes, Used(h))
  BY StartedKeeps DEF Sound
<1>3. g = IF Fitting(h, n) = {} THEN Grown(h, n) ELSE h
  BY <1>1 DEF Searched
<1>4. Found(g, asked) <=> Fitting(g, n) # {}
  BY <1>1 DEF Found
<1> HIDE DEF h, n, g
<1>5. CASE Fitting(h, n) # {}
  BY <1>2, <1>3, <1>4, <1>5 DEF h, g
<1>6. CASE Fitting(h, n) = {}
  <2>1. /\ Sound(g, LiveOnes) /\ Untouched(LiveOnes, h, g)
        /\ \/ g = h /\ Used(h) + Asked(n) > Quantums
           \/ \E c \in Linked(g) : g.size[c] >= n
    <3>1. g = Grown(h, n)
      BY <1>3, <1>6
    <3> QED BY <1>1, <1>2, <3>1, GrownKeeps
  <2>2. Shape(g, LiveOnes, Used(g))
    BY <2>1 DEF Sound
  <2>3. Fitting(g, n) = {} <=> \A p \in Linked(g) : ~(g.size[p] >= n)
    BY <1>1, <2>2, FittingFinds
  <2>4. Untouched(LiveOnes, heap, g)
    BY <1>2, <2>1 DEF Untouched
  <2> QED BY <1>4, <2>1, <2>3, <2>4 DEF Full, g, n
<1> QED BY <1>5, <1>6

LEMMA AllocateSteps ==
  ASSUME HeapInv, ModestGrowth, NEW asked \in Nat, Modest(asked), NEW wanted \in Nat,
         Allocate(asked, wanted)
  PROVE  (\E t \in Pool : Got(t, Needed(asked), wanted)) \/ Denied(Needed(asked), wanted)
<1> DEFINE h == Searched(asked)
           n == Needed(asked)
           t == Taken(h, n)
<1>1. Quantas(asked) = n /\ n \in Nat \ {0} /\ n \in Nat
  BY QuantasAreNeeded
<1>2. /\ Sound(h, LiveOnes) /\ Untouched(LiveOnes, heap, h)
      /\ ~Found(h, asked) => Full(h, n)
  BY SearchedKeeps
<1>3. Found(h, asked) <=> Fitting(h, n) # {}
  BY <1>1 DEF Found
<1>4. /\ Found(h, asked) => heap' = Take(h, n) /\ Granted(Pointer(t), wanted)
      /\ ~Found(h, asked) => heap' = h /\ Refused(wanted)
  BY <1>1 DEF Allocate
<1> HIDE DEF h, n, t
<1>5. CASE Found(h, asked)
  <2>1. /\ t \in Pool /\ t \notin LiveOnes
        /\ Shape(Take(h, n), LiveOnes \cup {t}, Used(h))
        /\ Take(h, n).pos = h.pos /\ Take(h, n).size[t] = n
        /\ Untouched(LiveOnes, h, Take(h, n))
    BY <1>1, <1>2, <1>3, <1>5, TakeKeeps DEF Sound, t
  <2>2. Sound(Take(h, n), LiveOnes \cup {t})
    BY <1>2, <2>1 DEF Sound, Used
  <2>3. Take(h, n) \in Heaps /\ Take(h, n).freep # Null
    BY <2>2, SoundFreep
  <2>4. Untouched(LiveOnes, heap, Take(h, n))
    BY <1>2, <2>1 DEF Untouched
  <2> QED BY <1>4, <1>5, <2>1, <2>2, <2>3, <2>4 DEF Got, n
<1>6. CASE ~Found(h, asked)
  <2>1. h \in Heaps /\ h.freep # Null
    BY <1>2, SoundFreep
  <2> QED BY <1>2, <1>4, <1>6, <2>1 DEF Denied, n
<1> QED BY <1>5, <1>6

LEMMA Pointers ==
  ASSUME NEW b \in Nat
  PROVE  /\ Pointer(b) \in Nat /\ Header(Pointer(b)) = b
         /\ Pointer(b) = Unit * b + Unit
<1>1. Unit \in Nat \ {0}
  BY UnitAssumption
<1>2. Pointer(b) = Unit * (b + 1) /\ Unit * (b + 1) = Unit * b + Unit /\ Unit * b \in Int
  BY <1>1, Times DEF Pointer
<1>3. Unit * b >= 0
  BY <1>1, <1>2, Times, SMT
<1>4. (Unit * (b + 1) + 0) \div Unit = b + 1
  BY <1>1, DivideIs
<1>5. Pointer(b) \in Nat /\ Unit * (b + 1) + 0 = Pointer(b)
  BY <1>1, <1>2, <1>3
<1>6. Pointer(b) \div Unit = b + 1
  BY <1>4, <1>5, Zenon
<1> QED BY <1>2, <1>5, <1>6 DEF Header

LEMMA HeadersInPool ==
  ASSUME HeapInv
  PROVE  LiveOnes \subseteq Pool
BY DEF HeapInv, Sound, Shape

LEMMA GotKeeps ==
  ASSUME Inv, NEW t \in Pool, NEW n, NEW wanted \in Nat, Got(t, n, wanted)
  PROVE  Inv' /\ LiveOnes' = LiveOnes \cup {t} /\ Pointer(t) \notin DOMAIN live
<1>1. t \in Nat /\ Pointer(t) \in Nat /\ Header(Pointer(t)) = t
  BY Pointers, Constants
<1>2. /\ live' = [q \in DOMAIN live \cup {Pointer(t)} |->
                    IF q = Pointer(t) THEN wanted ELSE live[q]]
      /\ refused' = {}
  BY DEF Got, Granted
<1>3. DOMAIN live' = DOMAIN live \cup {Pointer(t)}
  BY <1>2
<1>4. LiveOnes' = LiveOnes \cup {t}
  BY <1>1, <1>3 DEF LiveOnes
<1>5. LiveInv'
  BY <1>1, <1>2, <1>3 DEF LiveInv, Inv
<1>6. HeapInv'
  <2>1. Started(heap)' = heap'
    BY DEF Started, Got
  <2> QED BY <1>4, <2>1 DEF HeapInv, Got
<1>7. Pointer(t) \notin DOMAIN live
  BY <1>1 DEF Got, LiveOnes
<1> QED BY <1>2, <1>4, <1>5, <1>6, <1>7 DEF Inv

LEMMA DeniedKeeps ==
  ASSUME Inv, NEW n, NEW wanted \in Nat, Denied(n, wanted)
  PROVE  Inv'
<1>1. live' = live /\ refused' = {wanted} /\ LiveOnes' = LiveOnes
  BY DEF Denied, Refused, LiveOnes
<1>2. Started(heap)' = heap'
  BY DEF Started, Denied
<1>3. HeapInv'
  BY <1>1, <1>2 DEF HeapInv, Denied
<1>4. LiveInv'
  BY <1>1 DEF LiveInv, Inv
<1> QED BY <1>1, <1>3, <1>4 DEF Inv

LEMMA FreeKeeps ==
  ASSUME Inv, NEW ptr \in DOMAIN live, Free(ptr)
  PROVE  /\ Inv' /\ Untouched(LiveOnes', heap, heap')
         /\ live' = [q \in DOMAIN live \ {ptr} |-> live[q]]
<1> DEFINE b == Header(ptr)
           g == Insert(heap, b)
<1>1. /\ heap' = g /\ live' = [q \in DOMAIN live \ {ptr} |-> live[q]] /\ refused' = {}
  BY DEF Free
<1>2. b \in LiveOnes
  BY DEF LiveOnes
<1>3. LiveOnes' = LiveOnes \ {b}
  <2>1. DOMAIN live' = DOMAIN live \ {ptr}
    BY <1>1
  <2>2. \A p \in DOMAIN live : p # ptr => Header(p) # b
    BY DEF Inv, LiveInv
  <2> QED BY <2>1, <2>2 DEF LiveOnes
<1>4. heap.freep # Null /\ Started(heap) = heap /\ Sound(heap, LiveOnes)
  BY DEF Inv, HeapInv, Started
<1>5. /\ Shape(g, LiveOnes \ {b}, Used(heap)) /\ g.pos = heap.pos
      /\ Untouched(LiveOnes \ {b}, heap, g)
  BY <1>2, <1>4, InsertKeeps DEF Sound
<1>6. Sound(g, LiveOnes \ {b})
  BY <1>4, <1>5 DEF Sound, Used
<1>7. g \in Heaps /\ g.freep # Null
  BY <1>6, SoundFreep
<1> HIDE DEF g, b
<1>8. HeapInv'
  <2>1. Started(heap)' = heap'
    BY <1>1, <1>7 DEF Started
  <2> QED BY <1>1, <1>3, <1>6, <1>7, <2>1 DEF HeapInv
<1>9. LiveInv'
  BY <1>1 DEF LiveInv, Inv
<1> QED BY <1>1, <1>3, <1>5, <1>8, <1>9 DEF Inv

LEMMA InitKeeps == Init => Inv
<1> SUFFICES ASSUME Init PROVE Inv
  OBVIOUS
<1> DEFINE h == Started(heap)
<1>1. /\ heap \in Heaps /\ heap.freep = Null /\ heap.pos = 0
      /\ \A c \in Cells : heap.next[c] = Null /\ heap.size[c] = 0
  BY DEF Init, Heaps
<1>2. DOMAIN live = {} /\ LiveOnes = {} /\ refused = {}
  BY DEF Init, LiveOnes
<1>3. /\ h \in Heaps /\ h.next[Base] = Base /\ h.freep = Base /\ h.pos = 0
      /\ \A c \in Cells : h.size[c] = 0 /\ (c # Base => h.next[c] = Null)
  BY <1>1, Constants DEF Started, Heaps
<1> HIDE DEF h
<1>4. Linked(h) = {Base} /\ Blocks(h, {}) = {}
  BY <1>3, Constants DEF Linked, Blocks
<1>5. Used(h) = 0 /\ 0 % Unit = 0
  <2>1. Unit \in Nat \ {0} /\ Unit * 0 = 0
    BY UnitAssumption, SMT
  <2>2. (Unit * 0 + 0) \div Unit = 0
    BY <2>1, DivideIs
  <2>3. 0 % Unit = 0
    BY <2>1, SMT
  <2> QED BY <1>3, <2>1, <2>2, <2>3 DEF Used
<1>6. Shape(h, {}, 0)
  <2>1. Ring(Linked(h), h.next)
    BY <1>3, <1>4, Constants DEF Ring
  <2>2. Pieces(Blocks(h, {}), h.size, First, First + 0)
    BY <1>4, Constants DEF Pieces
  <2> QED BY <1>3, <1>4, <2>1, <2>2, Constants DEF Shape
<1>7. Sound(h, {})
  BY <1>3, <1>5, <1>6, UnitAssumption DEF Sound
<1> QED BY <1>1, <1>2, <1>7 DEF Inv, HeapInv, LiveInv, h

-----------------------------------------------------------------------------
(***************************************************************************)
(* calloc's product: below the next power of two, or refused.              *)
(***************************************************************************)
LEMMA Doubled ==
  ASSUME NEW m \in Nat \ {0}, PowerOfTwo(m)
  PROVE  PowerOfTwo(2 * m)
<1> SUFFICES ASSUME NEW d \in 2..(2 * m), (2 * m) % d = 0, d % 2 # 0 PROVE FALSE
  BY DEF PowerOfTwo
<1> DEFINE k == (2 * m) \div d
           a == d \div 2
           j == m - a * k
<1>1. d \in Nat \ {0} /\ d \in Nat /\ 2 * m \in Nat
  OBVIOUS
<1>2. d = 2 * a + 1 /\ a \in Nat
  <2>1. a \in Nat /\ d % 2 \in 0..1 /\ d = 2 * a + (d % 2)
    BY <1>1, Divide
  <2> QED BY <2>1
<1>3. k \in Nat /\ 2 * m = d * k
  <2>1. k \in Nat /\ 2 * m = d * k + ((2 * m) % d)
    BY <1>1, Divide
  <2>2. d * k \in Int
    BY <1>1, <2>1, Times
  <2> QED BY <2>1, <2>2
<1> HIDE DEF k, a
<1>4. a * k \in Nat /\ d * k = 2 * (a * k) + k /\ j \in Int
  <2>1. a * k \in Nat
    BY <1>2, <1>3, SMT
  <2>2. (2 * a + 1) * k = 2 * (a * k) + k
    BY <1>2, <1>3, SMT
  <2> QED BY <1>2, <2>1, <2>2
<1>5. k = 2 * j
  BY <1>3, <1>4
<1>6. d * j = m
  <2>1. d * k = 2 * (d * j) /\ d * j \in Int
    <3>1. d * (2 * j) = 2 * (d * j)
      BY <1>1, <1>4, SMT
    <3>2. d * j \in Int
      BY <1>1, <1>4, Times
    <3> HIDE DEF j
    <3> QED BY <1>5, <3>1, <3>2
  <2> HIDE DEF j
  <2> QED BY <1>3, <2>1
<1>7. j \in Nat \ {0}
  <2>1. j <= 0 => d * j <= d * 0
    BY <1>1, <1>4, Times
  <2>2. d * 0 = 0
    BY <1>1, SMT
  <2> HIDE DEF j
  <2> QED BY <1>4, <1>6, <2>1, <2>2
<1> HIDE DEF j
<1>8. d <= m
  <2>1. d * 1 <= d * j /\ d * 1 = d
    BY <1>1, <1>7, Times
  <2> QED BY <1>6, <2>1
<1>9. m % d = 0
  <2>1. (d * j + 0) \div d = j
    BY <1>1, <1>7, DivideIs
  <2>2. d * j + 0 = m
    BY <1>6
  <2>3. m \div d = j
    BY <2>1, <2>2, Zenon
  <2>4. m = d * (m \div d) + (m % d) /\ m % d \in 0..(d - 1)
    BY <1>1, Divide
  <2>5. m = m + (m % d)
    BY <1>6, <2>3, <2>4, Zenon
  <2> QED BY <2>4, <2>5
<1> QED BY <1>8, <1>9 DEF PowerOfTwo

LEMMA CutIs == Cut \in (PoolSize + 1)..(2 * PoolSize)
<1> DEFINE P == {n \in 1..PoolSize : PowerOfTwo(n)}
           S == {n \in (PoolSize + 1)..(2 * PoolSize) : PowerOfTwo(n)}
<1>1. PoolSize \in Nat /\ PoolSize >= 1
  BY UnitAssumption
<1>2. PICK m \in P : \A n \in P : n <= m
  <2>1. P \in SUBSET (1..PoolSize) /\ P \in SUBSET Int
    OBVIOUS
  <2>2. IsFiniteSet(1..PoolSize)
    BY <1>1, FS_Interval
  <2>3. IsFiniteSet(P)
    <3> HIDE DEF P
    <3> QED BY <2>1, <2>2, FS_Subset
  <2>4. 1 \in P
    BY <1>1 DEF PowerOfTwo
  <2> HIDE DEF P
  <2> QED BY <2>1, <2>3, <2>4, GreatestOfFinite
<1>3. PowerOfTwo(2 * m) /\ m \in 1..PoolSize
  BY <1>1, Doubled
<1>4. 2 * m > PoolSize
  BY <1>1, <1>2, <1>3
<1>5. S \in SUBSET Nat /\ 2 * m \in S
  BY <1>1, <1>3, <1>4
<1>6. Min(S) \in S
  <2> HIDE DEF S
  <2> QED BY <1>5, Least
<1> QED BY <1>6 DEF Cut

LEMMA ProductsGrow ==
  ASSUME NEW x \in Nat, NEW y \in Nat, NEW a \in Nat, NEW b \in Nat, x <= a, y <= b
  PROVE  x * y \in Nat /\ a * b \in Nat /\ x * y <= a * b
<1>1. \A c, d \in Nat : c * d \in Nat
  BY SMT
<1>2. (a - x) * b \in Nat /\ x * (b - y) \in Nat /\ x * y \in Nat /\ a * b \in Nat /\ x * b \in Nat
  BY <1>1
<1>3. (a - x) * b = a * b - x * b /\ x * (b - y) = x * b - x * y
  BY SMT
<1> QED BY <1>2, <1>3

\* calloc does as malloc does for a product below Cut, or refuses one above.
LEMMA CallocSteps ==
  ASSUME NEW nmemb \in Nat, NEW size \in Nat, Calloc(nmemb, size)
  PROVE  /\ nmemb * size \in Nat
         /\ \/ nmemb * size >= Cut /\ Refused(nmemb * size) /\ UNCHANGED heap
            \/ \E product \in 0..(Cut - 1) :
                 /\ product <= nmemb * size /\ Allocate(product % Word, nmemb * size)
                 /\ nmemb < Cut /\ size < Cut => product = nmemb * size
<1> DEFINE x == nmemb % Cut
           y == size % Cut
           product == x * y
           d == product \div Cut
<1>1. Cut \in Nat \ {0} /\ Cut \in Nat
  BY CutIs, UnitAssumption
<1>2. x \in 0..(Cut - 1) /\ y \in 0..(Cut - 1) /\ x <= nmemb /\ y <= size
  <2>1. ASSUME NEW n \in Nat
        PROVE  n % Cut \in 0..(Cut - 1) /\ n % Cut <= n /\ (n < Cut => n % Cut = n)
    <3>1. n % Cut \in 0..(Cut - 1) /\ n = Cut * (n \div Cut) + (n % Cut) /\ n \div Cut \in Nat
      BY <1>1, Divide
    <3>2. Cut * (n \div Cut) >= 0 /\ Cut * (n \div Cut) \in Int
      BY <1>1, <3>1, ProductsGrow
    <3>3. n < Cut => n % Cut = n
      BY <1>1, SMT
    <3> QED BY <3>1, <3>2, <3>3
  <2> QED BY <2>1
<1>3. nmemb < Cut /\ size < Cut => x = nmemb /\ y = size
  <2>1. ASSUME NEW n \in Nat, n < Cut PROVE n % Cut = n
    BY <1>1, <2>1, SMT
  <2> QED BY <2>1
<1> HIDE DEF x, y
<1>4. /\ product \in Nat /\ nmemb * size \in Nat /\ product <= nmemb * size
      /\ product <= (Cut - 1) * (Cut - 1) /\ (Cut - 1) * (Cut - 1) \in Nat
  BY <1>1, <1>2, ProductsGrow
<1>5. (Cut - 1) * (Cut - 1) < Cut * Cut /\ Cut * Cut \in Nat
  <2>1. Cut * Cut = (Cut - 1) * (Cut - 1) + (Cut - 1) + Cut
    BY <1>1, SMT
  <2> QED BY <1>1, <1>4, <2>1
<1>6. d \in Nat /\ Cut * d <= product /\ product < Cut * d + Cut /\ Cut * d \in Int
  <2>1. d \in Nat /\ product % Cut \in 0..(Cut - 1) /\ product = Cut * d + (product % Cut)
    BY <1>1, <1>4, Divide
  <2>2. Cut * d \in Int
    BY <1>1, <2>1, Times
  <2> HIDE DEF d, product
  <2> QED BY <1>1, <2>1, <2>2
<1>7. d < Cut
  <2>1. Cut * d < Cut * Cut
    BY <1>4, <1>5, <1>6
  <2> HIDE DEF d
  <2> QED BY <1>1, <1>6, <2>1, Times
<1>8. d % Cut = d
  <2> HIDE DEF d
  <2> QED BY <1>1, <1>6, <1>7, SMT
<1>9. IF nmemb # 0 /\ d % Cut # 0
      THEN Refused(nmemb * size) /\ UNCHANGED heap
      ELSE Allocate(product % Word, nmemb * size)
  BY DEF Calloc, x, y
<1>10. d # 0 => product >= Cut
  <2>1. d # 0 => Cut * 1 <= Cut * d /\ Cut * 1 = Cut
    <3> HIDE DEF d
    <3> QED BY <1>1, <1>6, Times
  <2> HIDE DEF d, product
  <2> QED BY <1>1, <1>4, <1>6, <2>1
<1>11. d = 0 \/ nmemb = 0 => product < Cut
  <2>1. d = 0 => product < Cut
    <3>1. Cut * 0 = 0
      BY <1>1, SMT
    <3> HIDE DEF d, product
    <3> QED BY <1>1, <1>6, <3>1
  <2>2. nmemb = 0 => product = 0
    <3>1. nmemb = 0 => x = 0
      BY <1>2
    <3>2. 0 * y = 0
      BY <1>2, SMT
    <3> QED BY <3>1, <3>2
  <2> QED BY <1>1, <2>1, <2>2
<1> HIDE DEF d
<1>12. CASE nmemb # 0 /\ d % Cut # 0
  <2>1. nmemb * size >= Cut
    <3> DEFINE w == nmemb * size
    <3> HIDE DEF w, product
    <3> QED BY <1>1, <1>4, <1>8, <1>10, <1>12 DEF w
  <2> QED BY <1>4, <1>9, <1>12, <2>1
<1>13. CASE ~(nmemb # 0 /\ d % Cut # 0)
  <2>1. product \in 0..(Cut - 1)
    <3> HIDE DEF product
    <3> QED BY <1>1, <1>4, <1>8, <1>11, <1>13
  <2>2. nmemb < Cut /\ size < Cut => product = nmemb * size
    BY <1>3
  <2> HIDE DEF product
  <2> QED BY <1>4, <1>9, <1>13, <2>1, <2>2
<1> QED BY <1>12, <1>13

-----------------------------------------------------------------------------
(***************************************************************************)
(* What the caller may ask for.                                            *)
(***************************************************************************)
\* No request, with its header and the pool, reaches the end of size_t.
ModestCalls ==
  /\ ModestGrowth
  /\ \A bytes \in Sizes : Modest(bytes)
  /\ \A a \in Aligned : PowerOfTwo(a[1]) => Modest(a[1] + a[2])
  /\ Arrays # {} => Modest(2 * PoolSize)

\* memalign never has to cut a block.
AlreadyAligned ==
  \A a \in Aligned :
    LET asked == (a[2] + a[1] - 1) % Word
        mem   == Pointer(Taken(Searched(asked), Quantas(asked)))
    IN a[1] > Unit /\ PowerOfTwo(a[1]) /\ Found(Searched(asked), asked)
         => AlignedUp(mem, a[1]) = mem

\* A header's alignment is enough.
SmallAlignments == \A a \in Aligned : PowerOfTwo(a[1]) => a[1] <= Unit

\* calloc's numbers are not cut.
SmallArrays == \A a \in Arrays : a[1] < Cut /\ a[2] < Cut

\* Every call is a malloc of some size for a caller that wants some bytes, a
\* refusal for lack of bits, a free, or does nothing.
LEMMA Calls ==
  ASSUME ModestCalls, AlreadyAligned, Next
  PROVE  \/ \E asked, wanted \in Nat :
               /\ Modest(asked) /\ Allocate(asked, wanted)
               /\ SmallAlignments => asked <= wanted
               /\ SmallArrays => wanted <= asked
         \/ \E wanted \in Nat : wanted >= Cut /\ Refused(wanted) /\ UNCHANGED heap
         \/ \E ptr \in DOMAIN live : Free(ptr)
         \/ refused' = {} /\ UNCHANGED <<heap, live>>
<1>1. Word \in Nat /\ Unit \in Nat \ {0} /\ PoolSize \in Nat /\ Cut \in (PoolSize + 1)..(2 * PoolSize)
  BY UnitAssumption, CutIs
<1>2. ASSUME NEW bytes \in Sizes, Malloc(bytes)
      PROVE  \E asked, wanted \in Nat :
               /\ Modest(asked) /\ Allocate(asked, wanted)
               /\ SmallAlignments => asked <= wanted
               /\ SmallArrays => wanted <= asked
  <2>1. bytes \in Nat /\ bytes <= bytes /\ Modest(bytes) /\ Allocate(bytes, bytes)
    BY <1>2, CallsAssumption DEF ModestCalls, Malloc
  <2> QED BY <2>1
<1>3. ASSUME NEW a \in Aligned, Memalign(a[1], a[2])
      PROVE  \/ \E asked, wanted \in Nat :
                  /\ Modest(asked) /\ Allocate(asked, wanted)
                  /\ SmallAlignments => asked <= wanted
                  /\ SmallArrays => wanted <= asked
             \/ refused' = {} /\ UNCHANGED <<heap, live>>
  <2>0. a[1] \in Nat /\ a[2] \in Nat
    BY CallsAssumption, UnitAssumption
  <2>1. CASE ~PowerOfTwo(a[1])
    BY <1>3, <2>1 DEF Memalign
  <2>2. CASE PowerOfTwo(a[1]) /\ a[1] <= Unit
    <3>1. Allocate(a[2], a[2])
      BY <1>1, <1>3, <2>0, <2>2 DEF Memalign, Malloc
    <3>2. Modest(a[2]) /\ a[2] <= a[2]
      BY <1>1, <2>0, <2>2 DEF ModestCalls, Modest
    <3> QED BY <2>0, <3>1, <3>2
  <2>3. CASE PowerOfTwo(a[1]) /\ a[1] > Unit
    <3> DEFINE asked == (a[2] + a[1] - 1) % Word
               h == Searched(asked)
               block == Taken(h, Quantas(asked))
               mem == Pointer(block)
    <3>1. Modest(a[1] + a[2])
      BY <2>3 DEF ModestCalls
    <3>2. asked = a[2] + a[1] - 1
      <4>1. a[2] + a[1] - 1 \in 0..(Word - 1)
        BY <1>1, <2>0, <2>3, <3>1 DEF Modest
      <4> QED BY <1>1, <4>1
    <3>3. asked \in Nat /\ a[2] <= asked /\ Modest(asked)
      BY <1>1, <2>0, <2>3, <3>1, <3>2 DEF Modest
    <3>4. MemalignCut(a[1], a[2])
      BY <1>1, <1>3, <2>0, <2>3 DEF Memalign
    <3>5. Found(h, asked) => AlignedUp(mem, a[1]) = mem
      BY <2>3, Zenon DEF AlreadyAligned
    <3>6. Allocate(asked, a[2])
      <4>1. CASE ~Found(h, asked)
        BY <3>4, <4>1, Zenon DEF MemalignCut, Allocate
      <4>2. CASE Found(h, asked)
        <5>1. AlignedUp(mem, a[1]) = mem
          BY <3>5, <4>2
        <5>2. Granted(AlignedUp(mem, a[1]), a[2])
          BY <3>4, <4>2, Zenon DEF MemalignCut
        <5>3. heap' = Take(h, Quantas(asked))
          BY <3>4, <4>2, <5>1, Zenon DEF MemalignCut
        <5>4. Granted(mem, a[2])
          BY <5>1, <5>2, Zenon
        <5> QED BY <4>2, <5>3, <5>4, Zenon DEF Allocate
      <4> QED BY <4>1, <4>2
    <3>7. ~SmallAlignments
      BY <1>1, <2>0, <2>3 DEF SmallAlignments
    <3> HIDE DEF asked
    <3> QED BY <2>0, <3>3, <3>6, <3>7
  <2> QED BY <1>1, <2>0, <2>1, <2>2, <2>3
<1>4. ASSUME NEW a \in Arrays, Calloc(a[1], a[2])
      PROVE  \/ \E asked, wanted \in Nat :
                  /\ Modest(asked) /\ Allocate(asked, wanted)
                  /\ SmallAlignments => asked <= wanted
                  /\ SmallArrays => wanted <= asked
             \/ \E wanted \in Nat : wanted >= Cut /\ Refused(wanted) /\ UNCHANGED heap
  <2>0. a[1] \in Nat /\ a[2] \in Nat /\ Modest(2 * PoolSize)
    BY CallsAssumption, UnitAssumption DEF ModestCalls
  <2> DEFINE wanted == a[1] * a[2]
  <2>1. /\ wanted \in Nat
        /\ \/ wanted >= Cut /\ Refused(wanted) /\ UNCHANGED heap
           \/ \E product \in 0..(Cut - 1) :
                /\ product <= wanted /\ Allocate(product % Word, wanted)
                /\ a[1] < Cut /\ a[2] < Cut => product = wanted
    BY <1>4, <2>0, CallocSteps
  <2> HIDE DEF wanted
  <2>2. CASE wanted >= Cut /\ Refused(wanted) /\ UNCHANGED heap
    BY <2>1, <2>2
  <2>3. ASSUME NEW product \in 0..(Cut - 1), product <= wanted,
               Allocate(product % Word, wanted),
               a[1] < Cut /\ a[2] < Cut => product = wanted
        PROVE  \E asked, w \in Nat :
                  /\ Modest(asked) /\ Allocate(asked, w)
                  /\ SmallAlignments => asked <= w
                  /\ SmallArrays => w <= asked
    <3>1. product \in Nat /\ Modest(product) /\ product \in 0..(Word - 1)
      BY <1>1, <2>0 DEF Modest
    <3>2. product % Word = product
      BY <1>1, <3>1
    <3>3. Allocate(product, wanted)
      BY <2>3, <3>2
    <3>4. SmallArrays => wanted <= product
      BY <2>1, <2>3, <3>1 DEF SmallArrays
    <3> QED BY <2>1, <2>3, <3>1, <3>3, <3>4
  <2> QED BY <2>1, <2>2, <2>3
<1> QED BY <1>2, <1>3, <1>4 DEF Next

LEMMA NextKeeps ==
  ASSUME ModestCalls, AlreadyAligned, Inv, [Next]_vars
  PROVE  Inv'
<1>1. CASE UNCHANGED vars
  BY <1>1 DEF vars, Inv, HeapInv, LiveInv, LiveOnes
<1>2. CASE Next
  <2>1. ASSUME NEW asked \in Nat, NEW wanted \in Nat, Modest(asked), Allocate(asked, wanted)
        PROVE  Inv'
    BY <2>1, AllocateSteps, GotKeeps, DeniedKeeps DEF Inv, ModestCalls
  <2>2. ASSUME NEW wanted \in Nat, Refused(wanted), UNCHANGED heap
        PROVE  Inv'
    BY <2>2 DEF Refused, Inv, HeapInv, LiveInv, LiveOnes
  <2>3. ASSUME NEW ptr \in DOMAIN live, Free(ptr)
        PROVE  Inv'
    BY <2>3, FreeKeeps
  <2>4. ASSUME refused' = {}, UNCHANGED <<heap, live>>
        PROVE  Inv'
    BY <2>4 DEF Inv, HeapInv, LiveInv, LiveOnes
  <2> QED BY <1>2, <2>1, <2>2, <2>3, <2>4, Calls
<1> QED BY <1>1, <1>2

\* Between any two calls the free list is one sorted circle and, with the live
\* blocks, tiles the used part of the pool (malloc, free, memalign, calloc).
THEOREM InvHolds == ASSUME ModestCalls PROVE Spec /\ []AlreadyAligned => []Inv
<1>1. Init => Inv
  BY InitKeeps
<1>2. Inv /\ AlreadyAligned /\ [Next]_vars => Inv'
  BY NextKeeps
<1> QED BY <1>1, <1>2, PTL DEF Spec

-----------------------------------------------------------------------------
(***************************************************************************)
(* What the invariant says of the free list and the pool.                  *)
(***************************************************************************)
LEMMA InListIsLinked ==
  ASSUME HeapInv
  PROVE  /\ InList = Linked(heap)
         /\ heap.freep # Null => Sound(heap, LiveOnes)
         /\ heap.freep = Null => InList = {} /\ LiveOnes = {} /\ heap.pos = 0
<1>1. CASE heap.freep = Null
  BY <1>1 DEF HeapInv, InList, Linked, LiveOnes
<1>2. CASE heap.freep # Null
  <2>1. Sound(heap, LiveOnes) /\ Shape(heap, LiveOnes, Used(heap))
    BY <1>2 DEF HeapInv, Started, Sound
  <2>2. /\ \A k \in Nat : Walk(heap)[k] \in Linked(heap)
        /\ \A p \in Linked(heap) : \E k \in 1..Most : Walk(heap)[k] = p
    BY <2>1, WalkCircle
  <2>3. InList = {Walk(heap)[k] : k \in 0..Most}
    BY <1>2 DEF InList
  <2>4. 0..Most \subseteq Nat /\ 1..Most \subseteq 0..Most
    BY Constants
  <2> QED BY <1>2, <2>1, <2>2, <2>3, <2>4
<1> QED BY <1>1, <1>2

LEMMA InvTypes == Inv => TypeOK
<1> SUFFICES ASSUME Inv PROVE TypeOK
  OBVIOUS
<1> DEFINE h == Started(heap)
<1>1. /\ heap \in Heaps /\ Sound(h, LiveOnes) /\ Shape(h, LiveOnes, Used(h))
  BY DEF Inv, HeapInv, Sound
<1>2. Word \in Nat /\ Quantums < Word
  <2>1. First + Quantums - 1 \in Pool
    <3>1. Unit * 0 = 0 /\ Unit * Quantums > 0
      BY Constants, UnitAssumption, SMT
    <3>2. Quantums > 0
      BY <3>1, Constants, UnitAssumption, Times
    <3> QED BY <3>2, Constants
  <2>2. First \in Pool
    BY <2>1, Constants
  <2>3. First >= 1 /\ First + Quantums - 1 <= (Word \div Unit) - 1
    BY <2>1, <2>2, Constants DEF Cells
  <2>4. Word \in Nat /\ Word \div Unit \in Nat /\ Word \div Unit <= Word
    <3>1. /\ Word \div Unit \in Nat /\ Word % Unit \in 0..(Unit - 1) /\ Word \in Nat
          /\ Word = Unit * (Word \div Unit) + (Word % Unit)
      BY Divide, UnitAssumption
    <3>2. (Unit - 1) * (Word \div Unit) \in Nat /\ Unit * (Word \div Unit) \in Nat
      BY <3>1, UnitAssumption, ProductsGrow
    <3>3. Unit * (Word \div Unit) = (Unit - 1) * (Word \div Unit) + (Word \div Unit)
      <4>1. ASSUME NEW d \in Nat PROVE Unit * d = (Unit - 1) * d + d
        BY UnitAssumption, SMT
      <4> QED BY <3>1, <4>1
    <3> DEFINE d == Word \div Unit
               x == Unit * d
               y == (Unit - 1) * d
    <3> HIDE DEF d
    <3>4. d \in Nat /\ y \in Nat /\ x = y + d /\ Word = x + (Word % Unit) /\ Word % Unit \in Nat
      BY <3>1, <3>2, <3>3 DEF d
    <3> HIDE DEF x, y
    <3>5. d <= Word
      BY <3>4
    <3> QED BY <3>1, <3>5 DEF d
  <2> QED BY <2>3, <2>4, Constants
<1>3. h.size \in [Cells -> 0..(Word - 1)]
  <2>1. h.size \in [Cells -> Nat]
    BY <1>1 DEF Shape, Heaps
  <2>2. ASSUME NEW c \in Cells PROVE h.size[c] \in 0..(Word - 1)
    <3>1. CASE c \in Blocks(h, LiveOnes)
      <4> DEFINE s == h.size[c]
      <4>1. /\ s \in Nat /\ c \in Nat /\ First <= c /\ c + s <= First + Quantums
            /\ First \in Nat /\ Quantums \in Nat
        BY <1>1, <3>1, ShapeFacts, Constants
      <4> HIDE DEF s
      <4>2. s \in 0..(Word - 1)
        BY <1>2, <4>1
      <4> QED BY <4>2 DEF s
    <3>2. CASE c \notin Blocks(h, LiveOnes)
      <4>1. h.size[c] = 0
        BY <1>1, <3>2 DEF Shape
      <4>2. 0 \in 0..(Word - 1)
        BY <1>2, Constants
      <4> QED BY <4>1, <4>2, Zenon
    <3> QED BY <3>1, <3>2
  <2> HIDE DEF h
  <2> QED BY <2>1, <2>2
<1>4. heap.size \in [Cells -> 0..(Word - 1)]
  <2>1. CASE heap.freep # Null
    BY <1>3, <2>1 DEF Started
  <2>2. CASE heap.freep = Null
    <3>1. heap.size \in [Cells -> Nat] /\ \A c \in Cells : heap.size[c] = 0
      BY <2>2 DEF Inv, HeapInv, Heaps
    <3>2. 0 \in 0..(Word - 1)
      BY <1>2, Constants
    <3> QED BY <3>1, <3>2
  <2> QED BY <2>1, <2>2
<1>5. heap.pos \in 0..PoolSize
  <2>1. h.pos = heap.pos
    BY <1>1 DEF Started, Heaps
  <2> QED BY <1>1, <2>1 DEF Sound, Heaps
<1>6. ASSUME NEW p \in DOMAIN live PROVE p \in Nat /\ live[p] \in Nat
  <2>1. Header(p) \in Nat
    BY HeadersInPool, Constants DEF Inv, LiveOnes
  <2> QED BY <2>1, Pointers DEF Inv, LiveInv
<1> QED BY <1>1, <1>4, <1>5, <1>6 DEF TypeOK, Inv, Heaps

LEMMA InvTiles == Inv => Tiled
<1> SUFFICES ASSUME Inv PROVE Tiled
  OBVIOUS
<1> DEFINE B == FreeOnes \cup LiveOnes
<1>1. CASE heap.freep = Null
  <2>1. FreeOnes = {} /\ LiveOnes = {} /\ heap.pos = 0
    BY <1>1, InListIsLinked DEF Inv, FreeOnes
  <2>2. heap.pos \div Unit = 0
    <3>1. Unit \in Nat \ {0} /\ Unit * 0 = 0
      BY UnitAssumption, SMT
    <3>2. (Unit * 0 + 0) \div Unit = 0
      BY <3>1, DivideIs
    <3> QED BY <2>1, <3>1, <3>2
  <2>3. First..(End - 1) = {}
    BY <2>2, Constants DEF End
  <2> QED BY <2>1, <2>3 DEF Tiled
<1>2. CASE heap.freep # Null
  <2>1. /\ Shape(heap, LiveOnes, Used(heap)) /\ InList = Linked(heap)
    BY <1>2, InListIsLinked DEF Inv, Sound
  <2>2. B = Blocks(heap, LiveOnes) /\ FreeOnes = Linked(heap) \ {Base}
    BY <2>1 DEF FreeOnes, Blocks
  <2>3. /\ \A b \in B : /\ b \in Nat /\ heap.size[b] \in Nat \ {0} /\ First <= b
                         /\ b + heap.size[b] <= First + Used(heap)
        /\ \A b, c \in B : b # c => b + heap.size[b] <= c \/ c + heap.size[c] <= b
        /\ \A x \in First..(First + Used(heap) - 1) :
              \E b \in B : b <= x /\ x < b + heap.size[b]
        /\ Used(heap) \in Nat /\ First \in Nat
    <3> HIDE DEF B
    <3>1. Pieces(B, heap.size, First, First + Used(heap))
      BY <2>1, <2>2 DEF Shape
    <3>2. \A b \in B : b \in Nat
      BY <2>1, <2>2, ShapeFacts
    <3>3. Used(heap) \in Nat /\ First \in Nat
      BY <2>1, Constants DEF Shape
    <3> QED BY <3>1, <3>2, <3>3 DEF Pieces, Holds
  <2>4. End = First + Used(heap)
    BY DEF End, Used
  <2>5. UNION {Quanta(b) : b \in B} = First..(End - 1)
    <3> HIDE DEF B
    <3>1. ASSUME NEW x \in First..(End - 1) PROVE x \in UNION {Quanta(b) : b \in B}
      <4>1. PICK b \in B : b <= x /\ x < b + heap.size[b]
        BY <2>3, <2>4
      <4>2. x \in Quanta(b)
        BY <2>3, <4>1 DEF Quanta
      <4> QED BY <4>2
    <3>2. ASSUME NEW b \in B, NEW x \in Quanta(b) PROVE x \in First..(End - 1)
      BY <2>3, <2>4 DEF Quanta
    <3> QED BY <3>1, <3>2
  <2>6. ASSUME NEW b \in B, NEW c \in B, b # c PROVE Quanta(b) \cap Quanta(c) = {}
    <3> HIDE DEF B
    <3> QED BY <2>3, <2>6 DEF Quanta
  <2>7. FreeOnes \cap LiveOnes = {} /\ \A b, c \in FreeOnes : b + heap.size[b] # c
    BY <2>1, <2>2 DEF Shape
  <2> QED BY <2>5, <2>6, <2>7 DEF Tiled
<1> QED BY <1>1, <1>2

\* Where the list has no block of n quantas, the live blocks leave no gap of
\* n quantas: a gap would be one block, as no two free blocks touch.
LEMMA NoGap ==
  ASSUME NEW h, NEW L, Sound(h, L), NEW n \in Nat \ {0}, Full(h, n),
         NEW m \in Nat, n <= m, NEW b \in First..(First + Used(h) - m)
  PROVE  b..(b + m - 1) \cap UNION {c..(c + h.size[c] - 1) : c \in L} # {}
<1> DEFINE B == Blocks(h, L)
           Busy == UNION {c..(c + h.size[c] - 1) : c \in L}
<1>1. Shape(h, L, Used(h)) /\ Used(h) \in Nat /\ First \in Nat
  BY PosIsUsed, Constants DEF Sound
<1>2. /\ \A c \in B : /\ c \in Nat /\ h.size[c] \in Nat \ {0}
                      /\ c + h.size[c] <= First + Used(h)
      /\ \A c, d \in B : c # d => c + h.size[c] <= d \/ d + h.size[d] <= c
      /\ \A x \in First..(First + Used(h) - 1) :
            \E c \in B : c <= x /\ x < c + h.size[c]
  BY <1>1, ShapeFacts DEF Shape, Pieces, Holds
<1>3. \A c \in B \ L : c \in Linked(h) \ {Base}
  BY DEF Blocks
<1> HIDE DEF B
<1> SUFFICES ASSUME b..(b + m - 1) \cap Busy = {} PROVE FALSE
  OBVIOUS
<1>4. ASSUME NEW c \in B, NEW x \in b..(b + m - 1), c <= x, x < c + h.size[c]
      PROVE  c \in Linked(h) \ {Base}
  <2>1. c \in L => x \in Busy
    <3>1. x \in c..(c + h.size[c] - 1)
      BY <1>2, <1>4
    <3> QED BY <3>1
  <2> QED BY <1>3, <2>1
<1> HIDE DEF Busy
<1>5. PICK c \in B : c <= b /\ b < c + h.size[c]
  <2>1. b \in First..(First + Used(h) - 1)
    BY <1>1
  <2> QED BY <1>2, <2>1
<1> DEFINE x == c + h.size[c]
<1>6. c \in Linked(h) \ {Base} /\ c \in Nat /\ h.size[c] \in Nat \ {0}
  <2>1. b \in b..(b + m - 1)
    OBVIOUS
  <2> QED BY <1>2, <1>4, <1>5, <2>1
<1>7. h.size[c] < n
  BY <1>6 DEF Full
<1>8. x \in b..(b + m - 1) /\ x \in First..(First + Used(h) - 1)
  BY <1>1, <1>5, <1>6, <1>7
<1>9. PICK d \in B : d <= x /\ x < d + h.size[d]
  BY <1>2, <1>8
<1>10. d \in Linked(h) \ {Base}
  <2> HIDE DEF x
  <2> QED BY <1>4, <1>8, <1>9
<1>11. x = d
  <2>1. d \in Nat /\ h.size[d] \in Nat \ {0} /\ c # d
    BY <1>2, <1>6, <1>9
  <2>2. c + h.size[c] <= d \/ d + h.size[d] <= c
    BY <1>2, <2>1
  <2> QED BY <1>6, <1>9, <2>1, <2>2
<1> QED BY <1>1, <1>6, <1>10, <1>11 DEF Shape

-----------------------------------------------------------------------------
(***************************************************************************)
(* The theorems.                                                           *)
(***************************************************************************)
\* Every variable has its type, for requests that do not wrap around size_t
\* and a caller whose memalign calls cut no block.
THEOREM AllocatorTyped == ASSUME ModestCalls PROVE Spec /\ []AlreadyAligned => []TypeOK
BY InvHolds, InvTypes, PTL

\* Whatever was split and joined (malloc, free, __hide_get_mem_from_pool), free
\* and live blocks tile the used part of the pool and no two free ones touch.
THEOREM PoolTiled == ASSUME ModestCalls PROVE Spec /\ []AlreadyAligned => []Tiled
BY InvHolds, InvTiles, PTL

-----------------------------------------------------------------------------
LEMMA DeniedHasNoRoom ==
  ASSUME NEW asked \in Nat, NEW wanted \in Nat, asked <= wanted, Modest(asked),
         Denied(Needed(asked), wanted), Inv
  PROVE  RefusedWhenFull'
<1> DEFINE n == Needed(asked)
           m == Needed(wanted)
<1>1. n \in Nat \ {0} /\ m \in Nat /\ n <= m
  BY QuantasAreNeeded, NeededGrows
<1>2. /\ refused' = {wanted} /\ LiveOnes' = LiveOnes
      /\ Sound(heap', LiveOnes) /\ Full(heap', n)
  BY DEF Denied, Refused, LiveOnes
<1>3. /\ heap'.pos \in Nat /\ Used(heap') \in Nat /\ End' = First + Used(heap')
      /\ First \in Nat /\ Quantums \in Nat /\ MinQuantas \in Nat
  BY <1>2, PosIsUsed, Constants, CallsAssumption DEF End, Used
<1> HIDE DEF n
<1> HIDE DEF m
<1>4. ASSUME NEW b \in Nat, First <= b, b + m <= First + Used(heap')
      PROVE  b..(b + m - 1) \cap UNION {Quanta(c)' : c \in LiveOnes} # {}
  <2>1. b \in First..(First + Used(heap') - m)
    BY <1>1, <1>3, <1>4
  <2>2. b..(b + m - 1) \cap UNION {c..(c + heap'.size[c] - 1) : c \in LiveOnes} # {}
    BY <1>1, <1>2, <2>1, NoGap
  <2> QED BY <2>2 DEF Quanta
<1>5. ~(End' + Max({m, MinQuantas}) <= First + PoolSize \div Unit)
  <2>1. Max({m, MinQuantas}) \in Nat /\ Max({m, MinQuantas}) >= Asked(n) /\ Asked(n) \in Nat
    <3>1. Max({m, MinQuantas}) = IF m >= MinQuantas THEN m ELSE MinQuantas
      <4>1. m \in Int /\ MinQuantas \in Int
        BY <1>1, <1>3
      <4> QED BY <4>1, MaxOfTwo
    <3> QED BY <1>1, <1>3, <3>1 DEF Asked
  <2>2. Used(heap') + Asked(n) > Quantums
    BY <1>2 DEF Full
  <2> QED BY <1>3, <2>1, <2>2 DEF Quantums
<1>6. ~Room(wanted)'
  <2>1. \A b \in First..(End' - m) :
          b \in Nat /\ First <= b /\ b + m <= First + Used(heap')
    BY <1>1, <1>3
  <2>2. \A b \in First..(End' - m) :
          b..(b + m - 1) \cap UNION {Quanta(c)' : c \in LiveOnes} # {}
    BY <1>4, <2>1
  <2> QED BY <1>2, <1>5, <2>2 DEF Room, Needed, m
<1> QED BY <1>2, <1>6 DEF RefusedWhenFull

\* What no pool can hold is not in it.
LEMMA PoolTooSmall ==
  ASSUME Inv, NEW wanted \in Nat, wanted >= Cut
  PROVE  ~Room(wanted)
<1> DEFINE m == Needed(wanted)
<1>1. m \in Nat /\ m > Quantums
  <2>1. /\ wanted \div Unit \in Nat /\ wanted % Unit \in 0..(Unit - 1)
        /\ wanted = Unit * (wanted \div Unit) + (wanted % Unit) /\ Unit \in Nat \ {0}
    BY Divide, UnitAssumption
  <2>2. wanted > Unit * Quantums /\ Unit * Quantums \in Nat /\ Quantums \in Nat
    BY CutIs, Constants, UnitAssumption
  <2> DEFINE d == wanted \div Unit
             r == wanted % Unit
  <2>3. m = d + (IF r = 0 THEN 1 ELSE 2)
    BY DEF Needed
  <2> HIDE DEF d, r
  <2>4. Unit * Quantums < Unit * (d + 1)
    <3>1. Unit * (d + 1) = Unit * d + Unit /\ Unit * d \in Int
      BY <2>1, Times DEF d
    <3> QED BY <2>1, <2>2, <3>1 DEF d, r
  <2>5. d \in Nat /\ Quantums < d + 1
    BY <2>1, <2>2, <2>4, Times DEF d
  <2> QED BY <2>2, <2>3, <2>5
<1>2. End \in Nat /\ First \in Nat /\ Quantums \in Nat /\ End <= First + Quantums
  <2>1. heap.pos = Started(heap).pos
    BY DEF Started, Inv, HeapInv, Heaps
  <2>2. Used(Started(heap)) \in 0..Quantums
    BY PosIsUsed DEF Inv, HeapInv
  <2> QED BY <2>1, <2>2, Constants DEF End, Used
<1>3. Max({m, MinQuantas}) \in Nat /\ Max({m, MinQuantas}) >= m
  <2> HIDE DEF m
  <2>1. m \in Int /\ MinQuantas \in Int /\ MinQuantas \in Nat
    BY <1>1, CallsAssumption
  <2>2. Max({m, MinQuantas}) = IF m >= MinQuantas THEN m ELSE MinQuantas
    BY <2>1, MaxOfTwo
  <2> QED BY <1>1, <2>1, <2>2
<1>4. First..(End - m) = {}
  <2> HIDE DEF m
  <2> QED BY <1>1, <1>2
<1>5. ~(End + Max({m, MinQuantas}) <= First + PoolSize \div Unit)
  <2> HIDE DEF m
  <2>1. First <= End
    <3>1. End = First + Used(heap) /\ heap.pos \in Nat
      BY DEF End, Used, Inv, HeapInv, Heaps
    <3>2. Used(heap) \in Nat
      BY <3>1, Divide, UnitAssumption DEF Used
    <3> QED BY <1>2, <3>1, <3>2
  <2> QED BY <1>1, <1>2, <1>3, <2>1 DEF Quantums
<1> QED BY <1>4, <1>5 DEF Room, Needed

\* malloc refuses only where no gap between live blocks and no rest of the
\* pool would do; calloc also what exceeds the pool.
THEOREM RefusesWhenFull ==
  ASSUME ModestCalls, SmallAlignments
  PROVE  Spec => []RefusedWhenFull
<1>1. AlreadyAligned
  BY UnitAssumption, CallsAssumption DEF SmallAlignments, AlreadyAligned
<1>2. Init => RefusedWhenFull
  BY DEF Init, RefusedWhenFull
<1>3. Inv /\ AlreadyAligned /\ RefusedWhenFull /\ [Next]_vars => RefusedWhenFull'
  <2> SUFFICES ASSUME Inv, AlreadyAligned, RefusedWhenFull, [Next]_vars
               PROVE  RefusedWhenFull'
    OBVIOUS
  <2>1. CASE UNCHANGED vars
    BY <2>1 DEF vars, RefusedWhenFull, Room, Quanta, LiveOnes, End
  <2>2. CASE Next
    <3>1. ASSUME NEW asked \in Nat, NEW wanted \in Nat, Modest(asked),
                 Allocate(asked, wanted), asked <= wanted
          PROVE  RefusedWhenFull'
      <4>1. CASE Denied(Needed(asked), wanted)
        BY <3>1, <4>1, DeniedHasNoRoom
      <4>2. CASE \E t \in Pool : Got(t, Needed(asked), wanted)
        BY <4>2 DEF Got, Granted, RefusedWhenFull
      <4> QED BY <3>1, <4>1, <4>2, AllocateSteps DEF Inv, ModestCalls
    <3>2. ASSUME NEW wanted \in Nat, wanted >= Cut, Refused(wanted), UNCHANGED heap
          PROVE  RefusedWhenFull'
      <4>1. ~Room(wanted)
        BY <3>2, PoolTooSmall
      <4>2. ~Room(wanted)'
        BY <3>2, <4>1 DEF Refused, Room, Quanta, LiveOnes, End
      <4> QED BY <3>2, <4>2 DEF Refused, RefusedWhenFull
    <3>3. ASSUME NEW ptr \in DOMAIN live, Free(ptr)
          PROVE  RefusedWhenFull'
      BY <3>3 DEF Free, RefusedWhenFull
    <3>4. ASSUME refused' = {}
          PROVE  RefusedWhenFull'
      BY <3>4 DEF RefusedWhenFull
    <3> QED BY <2>2, <3>1, <3>2, <3>3, <3>4, Calls
  <2> QED BY <2>1, <2>2
<1> QED BY <1>1, <1>2, <1>3, InvHolds, PTL DEF Spec

-----------------------------------------------------------------------------
(***************************************************************************)
(* malloc implements Heap.                                                 *)
(***************************************************************************)
\* What the caller asked for fits behind the header of its block.
Fits == \A p \in DOMAIN live : live[p] <= (heap.size[Header(p)] - 1) * Unit

\* The bytes of a block lie between its header and the next block.
LEMMA BytesInBlock ==
  ASSUME NEW b \in Nat, NEW s \in Nat \ {0}, NEW bytes \in Nat, bytes <= (s - 1) * Unit
  PROVE  /\ Unit * b < Pointer(b) /\ Pointer(b) + bytes <= Unit * (b + s)
         /\ bytes <= Unit * s /\ Unit * (b + s) \in Nat /\ Unit * b \in Nat
         /\ Pointer(b) \in Nat
<1>1. Unit \in Nat \ {0} /\ s - 1 \in Nat
  BY UnitAssumption
<1>2. /\ Unit * b \in Nat /\ Unit * (s - 1) \in Nat /\ (s - 1) * Unit = Unit * (s - 1)
      /\ Unit * (b + s) \in Nat
  BY <1>1, ProductsGrow, Times
<1>3. Unit * (b + s) = Unit * b + Unit * s
  BY <1>1, Times
<1>4. Unit * s = Unit * (s - 1) + Unit
  <2>1. Unit * ((s - 1) + 1) = Unit * (s - 1) + Unit
    BY <1>1, Times
  <2>2. (s - 1) + 1 = s
    OBVIOUS
  <2> QED BY <2>1, <2>2, Zenon
<1>5. Pointer(b) = Unit * b + Unit /\ Pointer(b) \in Nat
  BY Pointers
<1> QED BY <1>1, <1>2, <1>3, <1>4, <1>5

LEMMA BytesApart ==
  ASSUME NEW b \in Nat, NEW s \in Nat \ {0}, NEW bytes \in Nat, bytes <= (s - 1) * Unit,
         NEW c \in Nat, NEW r \in Nat \ {0}, NEW more \in Nat, more <= (r - 1) * Unit,
         b + s <= c
  PROVE  Pointer(b)..(Pointer(b) + bytes - 1) \cap Pointer(c)..(Pointer(c) + more - 1) = {}
<1>1. /\ Pointer(b) + bytes <= Unit * (b + s) /\ Unit * (b + s) \in Nat
      /\ Pointer(b) \in Nat
  BY BytesInBlock
<1>2. Unit * c < Pointer(c) /\ Unit * c \in Nat /\ Pointer(c) \in Nat
  BY BytesInBlock
<1>3. Unit * (b + s) <= Unit * c
  BY UnitAssumption, Times
<1> QED BY <1>1, <1>2, <1>3

LEMMA GotIsGet ==
  ASSUME Inv, Fits, NEW t \in Pool, NEW n \in Nat \ {0}, NEW wanted \in Nat,
         wanted <= (n - 1) * Unit, Got(t, n, wanted)
  PROVE  Promise!Next /\ Fits'
<1> DEFINE L == LiveOnes \cup {t}
           g == heap'
           p == Pointer(t)
<1>1. Sound(g, L) /\ Shape(g, L, Used(g)) /\ g.size[t] = n
  BY DEF Got, Sound
<1>2. /\ \A b \in L : b \in Nat /\ g.size[b] \in Nat \ {0}
      /\ \A b, c \in L : b # c => b + g.size[b] <= c \/ c + g.size[c] <= b
      /\ t + n <= First + Quantums /\ First <= t /\ t \in Nat
  <2>1. L \subseteq Blocks(g, L)
    BY DEF Blocks
  <2>2. \A b \in Blocks(g, L) : /\ b \in Nat /\ g.size[b] \in Nat \ {0}
                                /\ First <= b /\ b + g.size[b] <= First + Quantums
    BY <1>1, ShapeFacts
  <2>3. \A b, c \in Blocks(g, L) : b # c => b + g.size[b] <= c \/ c + g.size[c] <= b
    BY <1>1 DEF Shape, Pieces
  <2> HIDE DEF g
  <2> QED BY <1>1, <2>1, <2>2, <2>3
<1>3. /\ p \in Nat /\ Header(p) = t /\ p \notin DOMAIN live
      /\ live' = [q \in DOMAIN live \cup {p} |-> IF q = p THEN wanted ELSE live[q]]
  BY <1>2, Pointers, GotKeeps DEF Got, Granted
<1>4. ASSUME NEW q \in DOMAIN live
      PROVE  /\ q = Pointer(Header(q)) /\ live[q] \in Nat /\ Header(q) \in LiveOnes
             /\ live[q] <= (g.size[Header(q)] - 1) * Unit
  <2>1. g.size[Header(q)] = heap.size[Header(q)] /\ Header(q) \in LiveOnes
    BY DEF Got, Untouched, LiveOnes
  <2>2. live[q] <= (heap.size[Header(q)] - 1) * Unit
    BY DEF Fits
  <2>3. live[q] <= (g.size[Header(q)] - 1) * Unit
    BY <2>1, <2>2, Zenon
  <2> QED BY <2>1, <2>3 DEF Inv, LiveInv
<1>5. t \notin LiveOnes
  BY DEF Got
<1>6. ASSUME NEW q \in DOMAIN live
      PROVE  p..(p + wanted - 1) \cap q..(q + live[q] - 1) = {}
  <2> DEFINE c == Header(q)
             more == live[q]
             r == g.size[c]
  <2>1. /\ c \in L /\ t \in L /\ c # t /\ q = Pointer(c) /\ more \in Nat
        /\ more <= (r - 1) * Unit
    BY <1>4, <1>5
  <2>2. /\ c \in Nat /\ r \in Nat \ {0} /\ t \in Nat /\ n \in Nat \ {0}
        /\ t + n <= c \/ c + r <= t
    BY <1>1, <1>2, <2>1
  <2> HIDE DEF c, more, r, g, L, p
  <2>3. Pointer(t)..(Pointer(t) + wanted - 1) \cap Pointer(c)..(Pointer(c) + more - 1) = {}
    <3>1. CASE t + n <= c
      BY <2>1, <2>2, <3>1, BytesApart
    <3>2. CASE c + r <= t
      <4>1. Pointer(c)..(Pointer(c) + more - 1) \cap Pointer(t)..(Pointer(t) + wanted - 1) = {}
        BY <2>1, <2>2, <3>2, BytesApart
      <4> QED BY <4>1, Zenon
    <3> QED BY <2>2, <3>1, <3>2
  <2> QED BY <2>1, <2>3, Zenon DEF p, more
<1>7. /\ p \in (First * Unit)..(First * Unit + PoolSize) /\ wanted \in 0..PoolSize
      /\ p + wanted <= First * Unit + PoolSize
  <2>1. /\ Unit * t < p /\ p + wanted <= Unit * (t + n) /\ wanted <= Unit * n
        /\ Unit * (t + n) \in Nat /\ Unit * t \in Nat
    BY <1>2, BytesInBlock
  <2>2. /\ First \in Nat /\ Quantums \in Nat /\ Unit * Quantums = PoolSize
        /\ Unit \in Nat \ {0} /\ n <= Quantums
    BY <1>2, Constants, UnitAssumption
  <2>3. /\ Unit * First <= Unit * t /\ Unit * First \in Int /\ First * Unit = Unit * First
        /\ Unit * (t + n) <= Unit * (First + Quantums)
        /\ Unit * (First + Quantums) = Unit * First + Unit * Quantums
        /\ Unit * n <= Unit * Quantums /\ Unit * n \in Int /\ PoolSize \in Nat
    BY <1>2, <2>2, Times, UnitAssumption
  <2> HIDE DEF p
  <2> DEFINE a == Unit * t
             b == Unit * (t + n)
             c == Unit * n
             d == Unit * First
             e == First * Unit
             f == Unit * (First + Quantums)
             z == Unit * Quantums
  <2>4. /\ a < p /\ p + wanted <= b /\ wanted <= c /\ b \in Nat /\ a \in Nat
        /\ z = PoolSize /\ d <= a /\ d \in Int /\ e = d /\ b <= f /\ f = d + z /\ c <= z
        /\ c \in Int /\ PoolSize \in Nat /\ p \in Nat
    BY <1>3, <2>1, <2>2, <2>3
  <2> HIDE DEF a, b, c, d, e, f, z
  <2>5. p \in e..(e + PoolSize) /\ wanted \in 0..PoolSize /\ p + wanted <= e + PoolSize
    BY <2>4
  <2> QED BY <2>5 DEF e
<1>8. Promise!Get(p, wanted)
  <2> HIDE DEF p, g, L
  <2> QED BY <1>3, <1>6, <1>7 DEF Promise!Get, Promise!Span
<1>9. Promise!Next
  <2> HIDE DEF p, g, L
  <2> QED BY <1>7, <1>8 DEF Promise!Next
<1>10. Fits'
  <2>1. ASSUME NEW q \in DOMAIN live' PROVE live'[q] <= (g.size[Header(q)] - 1) * Unit
    <3>1. CASE q = p
      BY <1>1, <1>3, <3>1
    <3>2. CASE q # p
      <4>1. q \in DOMAIN live /\ live'[q] = live[q]
        BY <1>3, <3>2
      <4> QED BY <1>4, <4>1, Zenon
    <3> QED BY <3>1, <3>2
  <2> QED BY <2>1 DEF Fits
<1> QED BY <1>9, <1>10

\* Where the blocks of the live pointers keep their sizes, so do the bytes.
LEMMA FitsKept ==
  ASSUME Fits, DOMAIN live' \subseteq DOMAIN live, \A q \in DOMAIN live' : live'[q] = live[q],
         Untouched(LiveOnes', heap, heap')
  PROVE  Fits'
<1>1. ASSUME NEW q \in DOMAIN live' PROVE live'[q] <= (heap'.size[Header(q)] - 1) * Unit
  <2>1. Header(q) \in LiveOnes'
    BY DEF LiveOnes
  <2>2. heap'.size[Header(q)] = heap.size[Header(q)]
    BY <2>1 DEF Untouched
  <2>3. live[q] <= (heap.size[Header(q)] - 1) * Unit
    BY DEF Fits
  <2> QED BY <2>2, <2>3, Zenon
<1> QED BY <1>1 DEF Fits

\* malloc, memalign and calloc give out bytes of the pool which belong to
\* nobody else until free takes them back: the allocator implements Heap.
THEOREM ImplementsHeap ==
  ASSUME ModestCalls, SmallArrays
  PROVE  Spec /\ []AlreadyAligned => KeepsPromise
<1>1. Init => Promise!Init /\ Fits
  BY DEF Init, Promise!Init, Fits
<1>2. /\ Inv /\ AlreadyAligned /\ Fits /\ [Next]_vars
      => [Promise!Next]_live /\ Fits'
  <2> SUFFICES ASSUME Inv, AlreadyAligned, Fits, [Next]_vars
               PROVE  [Promise!Next]_live /\ Fits'
    OBVIOUS
  <2>1. CASE UNCHANGED vars
    BY <2>1 DEF vars, Fits
  <2>2. CASE Next
    <3>1. ASSUME NEW asked \in Nat, NEW wanted \in Nat, Modest(asked),
                 Allocate(asked, wanted), wanted <= asked
          PROVE  [Promise!Next]_live /\ Fits'
      <4> DEFINE n == Needed(asked)
      <4>1. n \in Nat \ {0} /\ wanted <= (n - 1) * Unit
        <5> DEFINE y == (n - 1) * Unit
        <5>1. n \in Nat \ {0} /\ asked <= y /\ Unit \in Nat
          BY <3>1, QuantasAreNeeded, UnitAssumption
        <5>2. y \in Int
          <6> HIDE DEF n
          <6> QED BY <5>1, SMT
        <5> HIDE DEF y
        <5>3. wanted <= y
          BY <3>1, <5>1, <5>2
        <5> QED BY <5>1, <5>3 DEF y
      <4> HIDE DEF n
      <4>2. CASE Denied(n, wanted)
        <5>1. live' = live /\ LiveOnes' = LiveOnes /\ Untouched(LiveOnes, heap, heap')
          BY <4>2 DEF Denied, Refused, LiveOnes
        <5> QED BY <5>1, FitsKept
      <4>3. ASSUME NEW t \in Pool, Got(t, n, wanted)
            PROVE  [Promise!Next]_live /\ Fits'
        BY <4>1, <4>3, GotIsGet
      <4>4. Denied(n, wanted) \/ \E t \in Pool : Got(t, n, wanted)
        BY <3>1, AllocateSteps DEF Inv, ModestCalls, n
      <4> QED BY <4>2, <4>3, <4>4
    <3>2. ASSUME NEW wanted \in Nat, Refused(wanted), UNCHANGED heap
          PROVE  [Promise!Next]_live /\ Fits'
      BY <3>2 DEF Refused, Fits
    <3>3. ASSUME NEW ptr \in DOMAIN live, Free(ptr)
          PROVE  [Promise!Next]_live /\ Fits'
      <4>1. Untouched(LiveOnes', heap, heap') /\ live' = [q \in DOMAIN live \ {ptr} |-> live[q]]
        BY <3>3, FreeKeeps
      <4>2. Promise!Give(ptr)
        BY <4>1 DEF Promise!Give
      <4>3. Fits'
        BY <4>1, FitsKept
      <4> QED BY <4>2, <4>3 DEF Promise!Next
    <3>4. ASSUME UNCHANGED <<heap, live>>
          PROVE  [Promise!Next]_live /\ Fits'
      BY <3>4 DEF Fits
    <3> QED BY <2>2, <3>1, <3>2, <3>3, <3>4, Calls
  <2> QED BY <2>1, <2>2
<1> QED BY <1>1, <1>2, InvHolds, PTL DEF Spec, KeepsPromise, Promise!Spec

=============================================================================
