------------------------------- MODULE Numbers -------------------------------
(***************************************************************************)
(* Facts about numbers the proofs of several components need: the least and*)
(* the greatest element of a set, induction, products and quotients.       *)
(***************************************************************************)
EXTENDS Integers, FiniteSets, FiniteSetsExt, FiniteSetTheorems, TLAPS

\* Below fewest others is below none.
LEMMA LeastOfFinite ==
  ASSUME NEW S \in SUBSET Int, S # {}, IsFiniteSet(S)
  PROVE  \E x \in S : \A y \in S : x <= y
<1> DEFINE Below(x) == {y \in S : y < x}
           T == {Below(x) : x \in S}
<1>1. IsWellFoundedOn(StrictSubsetOrdering(S), SUBSET S)
  BY FS_StrictSubsetOrderingWellFounded, FS_FiniteSubsetsOfFinite
<1>2. T \subseteq SUBSET S /\ T # {}
  OBVIOUS
<1> HIDE DEF T
<1>3. PICK A \in T : \A B \in T : ~(<<B, A>> \in StrictSubsetOrdering(S))
  BY <1>1, <1>2, WFMin
<1>4. PICK x \in S : A = Below(x)
  BY <1>3 DEF T
<1>5. \A y \in S : x <= y
  <2> SUFFICES ASSUME NEW y \in S, y < x PROVE FALSE
    OBVIOUS
  <2>1. Below(y) \in T
    BY DEF T
  <2>2. y \in A /\ y \notin Below(y)
    BY <1>4
  <2>3. Below(y) \subseteq A /\ A \subseteq S
    <3>1. \A z \in S : z < y => z < x
      OBVIOUS
    <3> QED BY <1>4, <3>1
  <2>4. <<Below(y), A>> \in StrictSubsetOrdering(S)
    BY <2>2, <2>3 DEF StrictSubsetOrdering
  <2> QED BY <1>3, <2>1, <2>4
<1> QED BY <1>5

LEMMA GreatestOfFinite ==
  ASSUME NEW S \in SUBSET Int, S # {}, IsFiniteSet(S)
  PROVE  \E x \in S : \A y \in S : y <= x
<1> DEFINE f == [y \in S |-> 0 - y]
           T == {f[y] : y \in S}
<1>1. T \in SUBSET Int /\ T # {}
  <2>1. \A y \in S : f[y] \in Int
    OBVIOUS
  <2> HIDE DEF f
  <2> QED BY <2>1
<1>2. IsFiniteSet(T)
  <2>1. f \in Surjection(S, T)
    BY DEF Surjection
  <2> QED BY <2>1, FS_Surjection
<1>3. PICK x \in T : \A y \in T : x <= y
  BY <1>1, <1>2, LeastOfFinite
<1>4. PICK z \in S : x = 0 - z
  BY <1>3
<1>5. \A y \in S : x <= 0 - y
  BY <1>3
<1> QED BY <1>4, <1>5

\* What Min and Max of FiniteSetsExt choose.
LEMMA Least ==
  ASSUME NEW S \in SUBSET Nat, S # {}
  PROVE  Min(S) \in S /\ \A y \in S : Min(S) <= y
<1>1. PICK n \in S : TRUE
  OBVIOUS
<1> DEFINE T == {y \in S : y <= n}
<1>2. IsFiniteSet(T) /\ T \in SUBSET Int /\ T # {}
  <2>1. T \in SUBSET Nat /\ n \in Nat /\ n \in T /\ \A y \in T : y <= n
    <3>1. n \in Nat /\ n <= n
      OBVIOUS
    <3> QED BY <3>1
  <2>2. T \in SUBSET Int /\ T # {}
    BY <2>1
  <2> HIDE DEF T
  <2> QED BY <2>1, <2>2, FS_BoundedSetOfNaturals
<1>3. PICK x \in T : \A y \in T : x <= y
  <2> HIDE DEF T
  <2> QED BY <1>2, LeastOfFinite
<1>4. \A y \in S : x <= y
  BY <1>1, <1>3
<1> QED BY <1>3, <1>4 DEF Min

LEMMA MaxIsGreatest ==
  ASSUME NEW S \in SUBSET Int, S # {}, IsFiniteSet(S)
  PROVE  Max(S) \in S /\ \A y \in S : Max(S) >= y
<1>1. PICK x \in S : \A y \in S : y <= x
  BY GreatestOfFinite
<1>2. \A y \in S : x >= y
  BY <1>1
<1> QED BY <1>2 DEF Max

LEMMA MaxOfTwo ==
  ASSUME NEW a \in Int, NEW b \in Int
  PROVE  /\ Max({a, b}) \in {a, b}
         /\ Max({a, b}) >= a /\ Max({a, b}) >= b
         /\ Max({a, b}) = IF a >= b THEN a ELSE b
<1>1. IsFiniteSet({a, b})
  <2>1. {a, b} = {a} \cup {b} /\ IsFiniteSet({a})
    BY FS_Singleton
  <2> QED BY <2>1, FS_AddElement
<1>2. Max({a, b}) \in {a, b} /\ \A y \in {a, b} : Max({a, b}) >= y
  BY <1>1, MaxIsGreatest, {a, b} \in SUBSET Int
<1> QED BY <1>2

LEMMA MinOfTwo ==
  ASSUME NEW a \in Nat, NEW b \in Nat
  PROVE  Min({a, b}) = IF a <= b THEN a ELSE b
<1> DEFINE m == IF a <= b THEN a ELSE b
<1>1. m \in {a, b} /\ \A y \in {a, b} : m <= y
  OBVIOUS
<1>2. \A x \in {a, b} : (\A y \in {a, b} : x <= y) => x = m
  OBVIOUS
<1> QED
  BY <1>1, <1>2 DEF Min

-----------------------------------------------------------------------------
\* Induction, from the least number that is not in the set.
LEMMA Induct ==
  ASSUME NEW S, 0 \in S, \A n \in Nat : n \in S => n + 1 \in S
  PROVE  \A n \in Nat : n \in S
<1> DEFINE T == Nat \ S
<1> SUFFICES ASSUME T # {} PROVE FALSE
  OBVIOUS
<1>1. Min(T) \in T /\ \A y \in T : Min(T) <= y
  BY Least
<1> DEFINE x == Min(T)
<1> HIDE DEF x
<1>2. x \in T /\ \A y \in T : x <= y
  BY <1>1 DEF x
<1>3. x # 0 /\ x - 1 \in Nat /\ x - 1 \in S
  BY <1>2
<1> QED BY <1>2, <1>3

-----------------------------------------------------------------------------
LEMMA Times ==
  ASSUME NEW a \in Int, NEW b \in Int, NEW k \in Nat \ {0}
  PROVE  /\ k * a \in Int /\ a * k = k * a
         /\ k * (a + b) = k * a + k * b /\ k * (a + 1) = k * a + k
         /\ a <= b <=> k * a <= k * b
         /\ a < b <=> k * a < k * b
<1>1. k * a \in Int /\ k * b \in Int /\ a * k = k * a /\ k * (b - a) = k * b - k * a
      /\ k * (a + b) = k * a + k * b /\ k * (a + 1) = k * a + k
  BY SMT
<1>2. a <= b => k * (b - a) >= 0
  <2>1. ASSUME NEW c \in Nat PROVE k * c >= 0
    BY SMT
  <2> QED BY <2>1
<1>3. a > b => k * (a - b) > 0 /\ k * (a - b) = k * a - k * b
  <2>1. ASSUME NEW c \in Nat \ {0} PROVE k * c > 0
    BY SMT
  <2>2. k * (a - b) = k * a - k * b
    BY SMT
  <2> QED BY <2>1, <2>2
<1>4. a < b => k * (b - a) > 0
  <2>1. ASSUME NEW c \in Nat \ {0} PROVE k * c > 0
    BY SMT
  <2> QED BY <2>1
<1> QED BY <1>1, <1>2, <1>3, <1>4

LEMMA Divide ==
  ASSUME NEW a \in Nat, NEW k \in Nat \ {0}
  PROVE  /\ a \div k \in Nat /\ a % k \in 0..(k - 1)
         /\ a = k * (a \div k) + (a % k)
<1>1. a \div k \in Nat
  BY SMT
<1>2. a % k \in 0..(k - 1)
  BY SMT
<1>3. a = k * (a \div k) + (a % k)
  BY SMT
<1> QED BY <1>1, <1>2, <1>3

LEMMA DivideIs ==
  ASSUME NEW q \in Nat, NEW r \in Nat, NEW k \in Nat \ {0}, r < k
  PROVE  (k * q + r) \div k = q
<1> DEFINE a == k * q + r
           d == a \div k
<1>1. a \in Nat
  BY SMT
<1>2. d \in Nat /\ k * d <= a /\ a < k * d + k
  <2>1. d \in Nat /\ a % k \in 0..(k - 1) /\ a = k * d + (a % k)
    BY <1>1, Divide
  <2>2. k * d \in Int
    BY <2>1, Times
  <2> HIDE DEF a, d
  <2> QED BY <2>1, <2>2
<1>3. k * q < k * (d + 1) /\ k * d < k * (q + 1)
  BY <1>1, <1>2, Times
<1>4. q < d + 1 /\ d < q + 1
  BY <1>2, <1>3, Times
<1> QED BY <1>2, <1>4
==============================================================================
