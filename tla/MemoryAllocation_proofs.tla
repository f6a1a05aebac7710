---------------------- MODULE MemoryAllocation_proofs -----------------------
(***************************************************************************)
(* Theorems about AddressSpace for every set of symbols, sizes and         *)
(* alignments, and about MemoryAllocation for every set of programs: the   *)
(* dominators are right, those served by a shared function or a private    *)
(* variable are below it, and the symbols of one space never overlap.      *)
(***************************************************************************)
EXTENDS MemoryAllocation, Dominance_proofs

\* An aligned address is not below the one that was asked for.
LEMMA AlignedAbove ==
  ASSUME NEW a \in Nat, NEW n \in Nat \ {0}
  PROVE  AlignedTo(a, n) \in Nat /\ a <= AlignedTo(a, n)
<1> DEFINE q == a \div n
<1>1. q \in Nat /\ a % n \in 0 .. n - 1 /\ a = (n * q) + (a % n)
  BY Divide
<1> HIDE DEF q
<1>2. (q + 1) * n = (n * q) + n /\ q * n = n * q /\ n * q \in Nat
  BY <1>1, SMT
<1>3. AlignedTo(a, n) = (q + (IF a % n # 0 THEN 1 ELSE 0)) * n
  BY DEF AlignedTo, q
<1>4. CASE a % n = 0
  BY <1>1, <1>2, <1>3, <1>4, SMT
<1>5. CASE a % n # 0
  BY <1>1, <1>2, <1>3, <1>5, SMT
<1> QED BY <1>4, <1>5

-----------------------------------------------------------------------------
(* The inductive invariant. *)

OnChip == OnBus \cup {"private"}

\* The counters and the table of symbols keep their types.
Typed ==
  /\ setting \in Settings
  /\ start \in Nat /\ next \in Nat /\ nextOff \in Nat /\ largest \in Nat
  /\ unit \in Nat \ {0}
  /\ \A s \in Allocated : symbols[s] \in Entry

\* What has an address ends below the counter that gives out the next one.
EndsBelow(s) ==
  /\ symbols[s].size <= symbols[s].range
  /\ symbols[s].kind \in OnBus => symbols[s].at + symbols[s].range <= next
  /\ symbols[s].kind = "external" => symbols[s].at + symbols[s].range <= nextOff
  /\ symbols[s].kind = "private" => symbols[s].at <= start /\ symbols[s].size <= largest

Apart == \A s, t \in Allocated : s # t /\ SameSpace(s, t) => Before(s, t) \/ Before(t, s)

\* Nothing is given the null address.
AboveNull ==
  setting.nullCheck /\ ~setting.given =>
    /\ start # 0 /\ next # 0
    /\ \A s \in Allocated : symbols[s].kind \in OnChip => symbols[s].at # 0

AInv == Typed /\ (\A s \in Allocated : EndsBelow(s)) /\ Apart /\ AboveNull

LEMMA SettingTypes ==
  ASSUME NEW o \in Settings
  PROVE  /\ o.bus \in Nat \ {0} /\ o.initial \in Nat /\ o.offBase \in Nat
         /\ o.nullCheck \in BOOLEAN /\ o.given \in BOOLEAN
  BY SettingsAssumption

LEMMA AInvInit == MemInit => AInv
<1> SUFFICES ASSUME MemInit PROVE AInv
  OBVIOUS
<1>1. Allocated = {}
  BY DEF MemInit, Allocated
<1>2. /\ setting.bus \in Nat \ {0} /\ setting.initial \in Nat /\ setting.offBase \in Nat
      /\ setting.nullCheck \in BOOLEAN /\ setting.given \in BOOLEAN
  BY SettingTypes DEF MemInit
<1>3. AlignedTo(setting.initial, setting.bus) \in Nat
  BY <1>2, AlignedAbove
<1>4. FirstAddress(setting) \in Nat /\ (setting.nullCheck /\ ~setting.given => FirstAddress(setting) # 0)
  BY <1>2, <1>3 DEF FirstAddress
<1>5. Typed
  BY <1>1, <1>2, <1>4 DEF MemInit, Typed
<1>6. AboveNull
  BY <1>1, <1>2, <1>4 DEF MemInit, AboveNull
<1> QED BY <1>1, <1>5, <1>6 DEF AInv, Apart

\* The invariant is enough.
LEMMA AInvDisjoint == AInv => Disjoint
<1> SUFFICES ASSUME AInv PROVE Disjoint
  OBVIOUS
<1> USE DEF AInv, Typed, Entry, Kinds
<1>1. ASSUME NEW s \in Allocated
      PROVE  /\ symbols[s].size <= symbols[s].range
             /\ symbols[s].kind # "external" =>
                  /\ symbols[s].at + symbols[s].size <= MaxAddress
                  /\ setting.nullCheck /\ ~setting.given => symbols[s].at # 0
  <2>1. symbols[s].at \in Nat /\ symbols[s].size \in Nat /\ symbols[s].range \in Nat /\ symbols[s].kind \in Kinds
    OBVIOUS
  <2>2. EndsBelow(s)
    OBVIOUS
  <2>3. CASE symbols[s].kind \in OnBus
    BY <2>1, <2>2, <2>3 DEF EndsBelow, AboveNull, MaxAddress, Larger, OnBus, OnChip
  <2>4. CASE symbols[s].kind = "private"
    BY <2>1, <2>2, <2>4 DEF EndsBelow, AboveNull, MaxAddress, Larger, OnBus, OnChip
  <2>5. CASE symbols[s].kind = "external"
    BY <2>1, <2>2, <2>5 DEF EndsBelow
  <2> QED BY <2>1, <2>3, <2>4, <2>5 DEF OnBus
<1> QED BY <1>1 DEF Disjoint, Apart

-----------------------------------------------------------------------------
(* The operations that give an address. *)

\* A new symbol is apart from the others when it begins where the counter of
\* its space stood or later.
LEMMA NewIsApart ==
  ASSUME AInv, NEW s, s \notin Allocated, NEW entry \in Entry,
         symbols' = With(s, entry),
         entry.kind \in OnBus => next <= entry.at,
         entry.kind = "external" => nextOff <= entry.at
  PROVE  /\ Allocated' = Allocated \cup {s}
         /\ symbols'[s] = entry
         /\ \A t \in Allocated : symbols'[t] = symbols[t]
         /\ Apart'
<1>1. Allocated' = Allocated \cup {s} /\ symbols'[s] = entry
  BY DEF With, Allocated
<1>2. \A t \in Allocated : symbols'[t] = symbols[t]
  BY DEF With, Allocated
<1>3. ASSUME NEW t \in Allocated, SameSpace(s, t)' \/ SameSpace(t, s)'
      PROVE  Before(t, s)'
  <2>1. symbols[t] \in Entry /\ EndsBelow(t) /\ next \in Nat /\ nextOff \in Nat
    BY DEF AInv, Typed
  <2>2. \/ symbols[t].kind \in OnBus /\ entry.kind \in OnBus
        \/ symbols[t].kind = "external" /\ entry.kind = "external"
    BY <1>1, <1>2, <1>3 DEF SameSpace
  <2>3. symbols[t].at + symbols[t].range <= entry.at
    BY <2>1, <2>2 DEF EndsBelow, Entry
  <2> QED BY <1>1, <1>2, <2>3 DEF Before
<1>4. ASSUME NEW t \in Allocated, NEW u \in Allocated, t # u, SameSpace(t, u)'
      PROVE  Before(t, u)' \/ Before(u, t)'
  <2>1. SameSpace(t, u)
    BY <1>2, <1>4 DEF SameSpace
  <2> QED BY <1>2, <1>4, <2>1 DEF AInv, Apart, Before
<1>5. Apart'
  <2> SUFFICES ASSUME NEW t \in Allocated', NEW u \in Allocated', t # u, SameSpace(t, u)'
               PROVE  Before(t, u)' \/ Before(u, t)'
    BY DEF Apart
  <2> QED BY <1>1, <1>3, <1>4
<1> QED BY <1>1, <1>2, <1>5
\* Larger is not less than either.
LEMMA LargerAbove ==
  ASSUME NEW a \in Nat, NEW b \in Nat
  PROVE  Larger(a, b) \in Nat /\ a <= Larger(a, b) /\ b <= Larger(a, b)
  BY DEF Larger

\* Counters never go back, so what ended below them still does.
LEMMA StillBelow ==
  ASSUME AInv, NEW t \in Allocated, symbols'[t] = symbols[t],
         start' \in Nat, next' \in Nat, nextOff' \in Nat, largest' \in Nat,
         start <= start', next <= next', nextOff <= nextOff', largest <= largest'
  PROVE  EndsBelow(t)'
<1>1. symbols[t] \in Entry /\ EndsBelow(t)
  BY DEF AInv, Typed
<1>2. start \in Nat /\ next \in Nat /\ nextOff \in Nat /\ largest \in Nat
  BY DEF AInv, Typed
<1> QED BY <1>1, <1>2 DEF EndsBelow, Entry

\* A symbol that is placed behind the counter of its space, and ends below
\* where the counter is moved to, keeps the invariant.
LEMMA AddedKeeps ==
  ASSUME AInv, NEW s, s \notin Allocated, NEW entry \in Entry,
         symbols' = With(s, entry),
         entry.kind \in OnBus => next <= entry.at,
         entry.kind = "external" => nextOff <= entry.at,
         setting' = setting, unit' = unit,
         start' \in Nat, next' \in Nat, nextOff' \in Nat, largest' \in Nat,
         start <= start', next <= next', nextOff <= nextOff', largest <= largest',
         EndsBelow(s)',
         entry.kind = "private" /\ setting.nullCheck => start <= entry.at
  PROVE  AInv'
<1>1. /\ Allocated' = Allocated \cup {s} /\ symbols'[s] = entry
      /\ \A t \in Allocated : symbols'[t] = symbols[t]
      /\ Apart'
  BY NewIsApart
<1>2. Typed'
  BY <1>1 DEF AInv, Typed
<1>3. \A t \in Allocated' : EndsBelow(t)'
  BY <1>1, StillBelow
<1>4. AboveNull'
  <2> SUFFICES ASSUME setting.nullCheck, ~setting.given
               PROVE  /\ start' # 0 /\ next' # 0
                      /\ \A t \in Allocated' : symbols'[t].kind \in OnChip => symbols'[t].at # 0
    BY DEF AboveNull
  <2>1. start \in Nat /\ next \in Nat /\ start # 0 /\ next # 0
    BY DEF AInv, Typed, AboveNull
  <2>2. start' # 0 /\ next' # 0
    BY <2>1
  <2>3. entry.kind \in OnChip => entry.at # 0
    BY <2>1 DEF OnChip, Entry
  <2>4. \A t \in Allocated : symbols[t].kind \in OnChip => symbols[t].at # 0
    BY DEF AInv, AboveNull
  <2> QED BY <1>1, <2>2, <2>3, <2>4
<1> QED BY <1>1, <1>2, <1>3, <1>4 DEF AInv

LEMMA SetAlignmentKeeps ==
  ASSUME AInv, NEW a \in Alignments, Allocated = {}, SetAlignment(a)
  PROVE  AInv'
<1>1. a \in Nat \ {0} /\ start \in Nat
  BY SizesAssumption DEF AInv, Typed
<1>2. AlignedTo(start, a) \in Nat /\ start <= AlignedTo(start, a)
  BY <1>1, AlignedAbove
<1>3. Allocated' = {}
  BY DEF SetAlignment, Allocated
<1>4. Typed'
  BY <1>1, <1>2, <1>3 DEF AInv, Typed, SetAlignment
<1>5. AboveNull'
  BY <1>1, <1>2, <1>3 DEF AInv, AboveNull, SetAlignment
<1> QED BY <1>3, <1>4, <1>5 DEF AInv, Apart

LEMMA AddPrivateKeeps ==
  ASSUME AInv, NEW f, NEW s, NEW size \in Sizes, NEW a \in Alignments,
         AddPrivate(f, s, size, a)
  PROVE  AInv'
<1> DEFINE entry == [kind |-> "private", at |-> IF setting.nullCheck THEN start' ELSE 0,
                     size |-> size, range |-> AlignedTo(size, unit)]
<1>1. a \in Nat \ {0} /\ size \in Nat /\ unit \in Nat \ {0}
      /\ start \in Nat /\ next \in Nat /\ nextOff \in Nat /\ largest \in Nat
  BY SizesAssumption DEF AInv, Typed
<1>2. AlignedTo(start, a) \in Nat /\ start <= AlignedTo(start, a)
  BY <1>1, AlignedAbove
<1>3. AlignedTo(size, unit) \in Nat /\ size <= AlignedTo(size, unit)
  BY <1>1, AlignedAbove
<1>4. Larger(largest, size) \in Nat /\ largest <= Larger(largest, size) /\ size <= Larger(largest, size)
  BY <1>1, LargerAbove
<1>5. start' \in Nat /\ start <= start'
  BY <1>1, <1>2 DEF AddPrivate
<1>6. entry \in Entry /\ symbols' = With(s, entry) /\ s \notin Allocated
  BY <1>1, <1>3, <1>5 DEF AddPrivate, Entry, Kinds
<1>7. symbols'[s] = entry
  BY <1>6 DEF With
<1>8. EndsBelow(s)'
  BY <1>1, <1>3, <1>4, <1>5, <1>7 DEF EndsBelow, OnBus, AddPrivate
<1> QED BY <1>1, <1>4, <1>5, <1>6, <1>8, AddedKeeps DEF AddPrivate, OnBus

LEMMA AddInternalKeeps ==
  ASSUME AInv, NEW f, NEW s, NEW size \in Sizes, NEW a \in Alignments,
         AddInternal(f, s, size, a)
  PROVE  AInv'
<1> DEFINE at == AlignedTo(next, a)
           end == Larger(at, AlignedTo(at + size, unit))
           entry == [kind |-> "internal", at |-> at, size |-> size, range |-> end - at]
<1>1. a \in Nat \ {0} /\ size \in Nat /\ unit \in Nat \ {0}
      /\ start \in Nat /\ next \in Nat /\ nextOff \in Nat /\ largest \in Nat
  BY SizesAssumption DEF AInv, Typed
<1>2. at \in Nat /\ next <= at
  BY <1>1, AlignedAbove
<1> HIDE DEF at
<1>3. AlignedTo(at + size, unit) \in Nat /\ at + size <= AlignedTo(at + size, unit)
  BY <1>1, <1>2, AlignedAbove
<1>4. end \in Nat /\ at <= end /\ AlignedTo(at + size, unit) <= end
  BY <1>2, <1>3, LargerAbove
<1>5. /\ s \notin Allocated /\ symbols' = With(s, entry) /\ next' = end
      /\ UNCHANGED <<setting, start, nextOff, unit, largest>>
  BY DEF AddInternal, at
<1> HIDE DEF end
<1>6. entry \in Entry
  BY <1>1, <1>2, <1>4 DEF Entry, Kinds
<1>7. symbols'[s] = entry
  BY <1>5 DEF With
<1>8. EndsBelow(s)'
  BY <1>1, <1>2, <1>3, <1>4, <1>5, <1>7 DEF EndsBelow, OnBus
<1> QED BY <1>1, <1>2, <1>4, <1>5, <1>6, <1>8, AddedKeeps DEF OnBus

LEMMA AddParameterKeeps ==
  ASSUME AInv, NEW s, s \notin Allocated, NEW size \in Sizes, NEW last \in BOOLEAN,
         AddParameter(s, size, last)
  PROVE  AInv'
<1> DEFINE end == Larger(AlignedTo(next + size, ParameterAlignment), next)
           entry == [kind |-> "parameter", at |-> next, size |-> size, range |-> size]
<1>1. size \in Nat /\ unit \in Nat \ {0}
      /\ start \in Nat /\ next \in Nat /\ nextOff \in Nat /\ largest \in Nat
  BY SizesAssumption DEF AInv, Typed
<1>2. ParameterAlignment \in Nat \ {0} /\ next + size \in Nat
  BY <1>1 DEF ParameterAlignment
<1>3. AlignedTo(next + size, ParameterAlignment) \in Nat
      /\ next + size <= AlignedTo(next + size, ParameterAlignment)
  BY <1>2, AlignedAbove
<1>4. end \in Nat /\ next + size <= end
  <2> DEFINE up == AlignedTo(next + size, ParameterAlignment)
  <2>1. up \in Nat /\ next + size \in Nat /\ next + size <= up /\ next \in Nat
    BY <1>1, <1>2, <1>3
  <2> HIDE DEF up
  <2>2. Larger(up, next) \in Nat /\ up <= Larger(up, next)
    BY <2>1, LargerAbove
  <2>3. end = Larger(up, next)
    BY DEF up
  <2> QED BY <2>1, <2>2, <2>3
<1>5. AlignedTo(end, unit) \in Nat /\ end <= AlignedTo(end, unit)
  BY <1>1, <1>4, AlignedAbove
<1>6. /\ symbols' = With(s, entry) /\ next' = IF last THEN AlignedTo(end, unit) ELSE end
      /\ UNCHANGED <<setting, start, nextOff, unit, largest>>
  BY DEF AddParameter
<1> HIDE DEF end
<1>7. next' \in Nat /\ next + size <= next'
  BY <1>1, <1>4, <1>5, <1>6
<1>8. entry \in Entry
  BY <1>1 DEF Entry, Kinds
<1>9. symbols'[s] = entry
  BY <1>6 DEF With
<1>10. EndsBelow(s)'
  BY <1>1, <1>7, <1>9 DEF EndsBelow, OnBus
<1>11. next <= next' /\ next <= entry.at
  BY <1>1, <1>7
<1> QED BY <1>1, <1>6, <1>7, <1>8, <1>10, <1>11, AddedKeeps

LEMMA AddExternalKeeps ==
  ASSUME AInv, NEW s, s \notin Allocated, NEW size \in Sizes, NEW a \in Alignments,
         AddExternal(s, size, a)
  PROVE  AInv'
<1> DEFINE at == AlignedTo(nextOff, a)
           entry == [kind |-> "external", at |-> at, size |-> size, range |-> size]
<1>1. a \in Nat \ {0} /\ size \in Nat /\ setting.bus \in Nat \ {0}
      /\ start \in Nat /\ next \in Nat /\ nextOff \in Nat /\ largest \in Nat
  BY SizesAssumption, SettingTypes DEF AInv, Typed
<1>2. at \in Nat /\ nextOff <= at
  BY <1>1, AlignedAbove
<1> HIDE DEF at
<1>3. AlignedTo(at + size, setting.bus) \in Nat /\ at + size <= AlignedTo(at + size, setting.bus)
  BY <1>1, <1>2, AlignedAbove
<1>4. /\ symbols' = With(s, entry) /\ nextOff' = Larger(nextOff, AlignedTo(at + size, setting.bus))
      /\ UNCHANGED <<setting, start, next, unit, largest>>
  BY DEF AddExternal, at
<1>5. nextOff' \in Nat /\ nextOff <= nextOff' /\ at + size <= nextOff'
  BY <1>1, <1>2, <1>3, <1>4, LargerAbove
<1>6. entry \in Entry
  BY <1>1, <1>2 DEF Entry, Kinds
<1>7. symbols'[s] = entry
  BY <1>4 DEF With
<1>8. EndsBelow(s)'
  BY <1>1, <1>2, <1>5, <1>7 DEF EndsBelow, OnBus
<1> QED BY <1>1, <1>2, <1>4, <1>5, <1>6, <1>8, AddedKeeps DEF OnBus

-----------------------------------------------------------------------------
\* Steps that give no address and move no counter.
LEMMA OthersKeep ==
  ASSUME AInv, UNCHANGED <<setting, symbols, start, next, nextOff, unit, largest>>
  PROVE  AInv'
<1>1. \A s \in Allocated : EndsBelow(s)'
  BY DEF AInv, EndsBelow
<1> QED
  BY <1>1 DEF AInv, Typed, Apart, Before, SameSpace, AboveNull, Allocated

LEMMA AInvNext == AInv /\ [MemNext]_memvars => AInv'
<1> SUFFICES ASSUME AInv, [MemNext]_memvars PROVE AInv'
  OBVIOUS
<1>1. ASSUME NEW a \in Alignments, Allocated = {}, SetAlignment(a) PROVE AInv'
  BY <1>1, SetAlignmentKeeps
<1>2. ASSUME NEW s, MakePrivate(s) PROVE AInv'
  BY <1>2, OthersKeep DEF MakePrivate
<1>3. ASSUME NEW f, NEW s, AddPrivateAgain(f, s) PROVE AInv'
  BY <1>3, OthersKeep DEF AddPrivateAgain
<1>4. CASE UNCHANGED memvars
  BY <1>4, OthersKeep DEF memvars
<1> QED
  BY <1>1, <1>2, <1>3, <1>4, AddPrivateKeeps, AddInternalKeeps, AddParameterKeeps, AddExternalKeeps
     DEF MemNext

\* Whatever the sizes, the alignments and the order of the calls, the symbols
\* the class memory lays out in one space never overlap, end below the
\* address the bus is made for, and leave the null address free.
THEOREM AddressesDisjoint == MemSpec => []Disjoint
<1>1. MemInit => AInv
  BY AInvInit
<1>2. AInv /\ [MemNext]_memvars => AInv'
  BY AInvNext
<1>3. AInv => Disjoint
  BY AInvDisjoint
<1> QED BY <1>1, <1>2, <1>3, PTL DEF MemSpec

-----------------------------------------------------------------------------
(***************************************************************************)
(* Functions are numbers: induction, and recursion from callers to callees.*)
(***************************************************************************)
LEMMA FunIs ==
  /\ Fun \subseteq Nat \ {0} /\ IsFiniteSet(Fun) /\ Top \in Fun
  /\ \A f \in Fun : Top <= f
  /\ \A f \in Fun : 1 .. f \subseteq Fun
<1>1. Cardinality(Fun) \in Nat
  BY NumbersAssumption, FS_CardinalityType
<1> DEFINE n == Cardinality(Fun)
<1>2. Fun = 1 .. n
  BY NumbersAssumption
<1> HIDE DEF n
<1> QED BY <1>1, <1>2, NumbersAssumption DEF Top, n

LEMMA FromCallers ==
  ASSUME NEW S, \A f \in Fun : (\A g \in Fun : g < f => g \in S) => f \in S
  PROVE  Fun \subseteq S
<1> DEFINE T == Fun \ S
<1> SUFFICES ASSUME T # {} PROVE FALSE
  OBVIOUS
<1>1. Min(T) \in T /\ \A y \in T : Min(T) <= y
  BY FunIs, Least
<1>2. PICK x \in T : \A y \in T : x <= y
  BY <1>1
<1>3. \A g \in Fun : g < x => g \in S
  BY <1>2, FunIs
<1> QED BY <1>2, <1>3

\* F gives the value for a function from the values for smaller ones.
Stepwise(S, F) ==
  /\ S # {}
  /\ \A f \in Fun, c \in [Fun -> S] : F[<<f, c>>] \in S
  /\ \A f \in Fun, c, d \in [Fun -> S] :
       (\A g \in Fun : g < f => c[g] = d[g]) => F[<<f, c>>] = F[<<f, d>>]

Solved(S, F) == \E c \in [Fun -> S] : \A f \in Fun : c[f] = F[<<f, c>>]

\* A definition of a function by its values for smaller numbers defines one.
LEMMA Recursion ==
  ASSUME NEW S, NEW F, Stepwise(S, F)
  PROVE  Solved(S, F)
<1> USE DEF Stepwise
<1> DEFINE Good(k, c) == \A f \in Fun : f <= k => c[f] = F[<<f, c>>]
           T == {k \in Nat : \E c \in [Fun -> S] : Good(k, c)}
<1>1. 0 \in T
  <2>1. PICK s \in S : TRUE
    OBVIOUS
  <2>2. [f \in Fun |-> s] \in [Fun -> S] /\ Good(0, [f \in Fun |-> s])
    BY FunIs
  <2> QED BY <2>2
<1>2. ASSUME NEW k \in Nat, k \in T PROVE k + 1 \in T
  <2>1. PICK c \in [Fun -> S] : Good(k, c)
    BY <1>2
  <2> DEFINE d == [f \in Fun |-> IF f = k + 1 THEN F[<<k + 1, c>>] ELSE c[f]]
  <2>2. d \in [Fun -> S]
    OBVIOUS
  <2>3. Good(k + 1, d)
    <3> SUFFICES ASSUME NEW f \in Fun, f <= k + 1 PROVE d[f] = F[<<f, d>>]
      OBVIOUS
    <3>1. \A g \in Fun : g < f => c[g] = d[g]
      BY FunIs
    <3>2. F[<<f, c>>] = F[<<f, d>>]
      <4> HIDE DEF d
      <4> QED BY <2>2, <3>1
    <3>3. CASE f = k + 1
      BY <3>2, <3>3
    <3>4. CASE f # k + 1
      <4>1. f <= k
        BY <3>4, FunIs
      <4>2. d[f] = c[f] /\ c[f] = F[<<f, c>>]
        BY <2>1, <3>4, <4>1
      <4> QED BY <3>2, <4>2
    <3> QED BY <3>3, <3>4
  <2> HIDE DEF Good, d
  <2> QED BY <2>2, <2>3
<1> HIDE DEF T
<1>3. \A k \in Nat : k \in T
  BY <1>1, <1>2, Induct
<1>4. Cardinality(Fun) \in T
  BY <1>3, FunIs, FS_CardinalityType
<1>5. PICK c \in [Fun -> S] : Good(Cardinality(Fun), c)
  BY <1>4 DEF T
<1>6. \A f \in Fun : f <= Cardinality(Fun)
  BY NumbersAssumption, FS_CardinalityType
<1> QED BY <1>5, <1>6 DEF Solved

-----------------------------------------------------------------------------
(***************************************************************************)
(* Dominators of a graph whose edges lead from smaller to greater numbers. *)
(***************************************************************************)
Entered(E) == E \in SUBSET Pairs /\ \A v \in Fun \ {Top} : \E g \in Fun : <<g, v>> \in E

\* Above(E, d, v) is short for: d dominates v.
Above(E, d, v) == Dominates(Fun, E, Top, d, v)

\* d dominates another vertex when it dominates all that lead to it.
LEMMA AboveStep ==
  ASSUME NEW E \in SUBSET Pairs, NEW d \in Fun, NEW v \in Fun
  PROVE  Above(E, d, v) <=>
           d = v \/ (v # Top /\ \A g \in Fun : <<g, v>> \in E => Above(E, d, g))
<1> DEFINE R == Reached(Fun, E, Top, {d})
<1>1. d \notin R
  <2>1. Closed(Fun \ {d}, E, Top, {d})
    BY FunIs DEF Closed, Pairs
  <2> QED BY <2>1 DEF Reached
<1>2. \A x \in Fun : Above(E, d, x) <=> x \notin R
  BY <1>1 DEF Above, Dominates
<1>3. Closed(R, E, Top, {d}) /\ R \subseteq Fun
  <2>1. Top \in R \cup {d}
    BY FunIs DEF Reached, Closed
  <2>2. ASSUME NEW e \in E, e[1] \in R PROVE e[2] \in R \cup {d}
    <3>1. e[2] \in Fun
      BY DEF Pairs
    <3> QED BY <2>2, <3>1 DEF Reached, Closed
  <2> QED BY <2>1, <2>2 DEF Closed, Reached
<1>4. ASSUME v \in R, v # Top PROVE \E g \in R : <<g, v>> \in E
  <2> SUFFICES ASSUME \A g \in R : <<g, v>> \notin E PROVE FALSE
    OBVIOUS
  <2>1. Closed(R \ {v}, E, Top, {d})
    <3>1. ASSUME NEW e \in E, e[1] \in R PROVE e[2] # v
      BY <3>1 DEF Pairs
    <3> QED BY <1>3, <1>4, <3>1 DEF Closed
  <2>2. R \ {v} \in SUBSET Fun
    BY <1>3
  <2> HIDE DEF R
  <2>3. v \in R \ {v}
    BY <1>4, <2>1, <2>2 DEF R, Reached
  <2> QED BY <2>3
<1>5. ASSUME NEW g \in Fun, g \in R, <<g, v>> \in E, v # d PROVE v \in R
  BY <1>3, <1>5 DEF Closed
<1>6. Top \in R \cup {d}
  BY <1>3 DEF Closed
<1> HIDE DEF R
<1> QED BY <1>1, <1>2, <1>3, <1>4, <1>5, <1>6

LEMMA AboveSelf ==
  ASSUME NEW E \in SUBSET Pairs, NEW v \in Fun
  PROVE  Above(E, v, v)
  BY AboveStep

LEMMA AboveTop ==
  ASSUME NEW E \in SUBSET Pairs, NEW v \in Fun
  PROVE  Above(E, Top, v)
<1> DEFINE S == {x \in Fun : Above(E, Top, x)}
<1>1. ASSUME NEW x \in Fun, \A g \in Fun : g < x => g \in S PROVE x \in S
  <2>1. \A g \in Fun : <<g, x>> \in E => g < x
    BY DEF Pairs
  <2> QED BY <1>1, <2>1, FunIs, AboveStep
<1> HIDE DEF S
<1>2. Fun \subseteq S
  BY <1>1, FromCallers
<1> QED BY <1>2 DEF S

LEMMA AboveTransitive ==
  ASSUME NEW E \in SUBSET Pairs, NEW a \in Fun, NEW b \in Fun, NEW v \in Fun,
         Above(E, a, b), Above(E, b, v)
  PROVE  Above(E, a, v)
<1> DEFINE S == {x \in Fun : Above(E, b, x) => Above(E, a, x)}
<1>1. ASSUME NEW x \in Fun, \A g \in Fun : g < x => g \in S PROVE x \in S
  <2> SUFFICES ASSUME Above(E, b, x), b # x PROVE Above(E, a, x)
    OBVIOUS
  <2>1. \A g \in Fun : <<g, x>> \in E => g < x
    BY DEF Pairs
  <2>2. x # Top /\ \A g \in Fun : <<g, x>> \in E => Above(E, b, g)
    BY AboveStep
  <2>3. \A g \in Fun : <<g, x>> \in E => Above(E, a, g)
    BY <1>1, <2>1, <2>2
  <2> QED BY <2>2, <2>3, AboveStep
<1> HIDE DEF S
<1>2. Fun \subseteq S
  BY <1>1, FromCallers
<1> QED BY <1>2 DEF S

LEMMA AboveIsLess ==
  ASSUME NEW E \in SUBSET Pairs, Entered(E), NEW d \in Fun, NEW v \in Fun, Above(E, d, v)
  PROVE  d <= v
<1> DEFINE S == {x \in Fun : Above(E, d, x) => d <= x}
<1>1. ASSUME NEW x \in Fun, \A g \in Fun : g < x => g \in S PROVE x \in S
  <2> SUFFICES ASSUME Above(E, d, x), d # x PROVE d <= x
    BY FunIs
  <2>1. x # Top /\ \A g \in Fun : <<g, x>> \in E => Above(E, d, g)
    BY AboveStep
  <2>2. PICK g \in Fun : <<g, x>> \in E
    BY <2>1 DEF Entered
  <2>3. g < x
    BY <2>2 DEF Pairs
  <2>4. d <= g
    BY <1>1, <2>1, <2>2, <2>3
  <2> QED BY <2>3, <2>4, FunIs
<1> HIDE DEF S
<1>2. Fun \subseteq S
  BY <1>1, FromCallers
<1> QED BY <1>2 DEF S

\* Of two dominators of a vertex one dominates the other.
LEMMA AboveIsLinear ==
  ASSUME NEW E \in SUBSET Pairs, Entered(E), NEW a \in Fun, NEW b \in Fun, NEW v \in Fun,
         Above(E, a, v), Above(E, b, v)
  PROVE  Above(E, a, b) \/ Above(E, b, a)
<1> DEFINE S == {x \in Fun : Above(E, a, x) /\ Above(E, b, x) => Above(E, a, b) \/ Above(E, b, a)}
<1>1. ASSUME NEW x \in Fun, \A g \in Fun : g < x => g \in S PROVE x \in S
  <2> SUFFICES ASSUME Above(E, a, x), Above(E, b, x), a # x, b # x
               PROVE  Above(E, a, b) \/ Above(E, b, a)
    OBVIOUS
  <2>1. x # Top /\ \A g \in Fun : <<g, x>> \in E => Above(E, a, g) /\ Above(E, b, g)
    BY AboveStep
  <2>2. PICK g \in Fun : <<g, x>> \in E
    BY <2>1 DEF Entered
  <2>3. g < x
    BY <2>2 DEF Pairs
  <2> QED BY <1>1, <2>1, <2>2, <2>3
<1> HIDE DEF S
<1>2. Fun \subseteq S
  BY <1>1, FromCallers
<1> QED BY <1>2 DEF S

\* There is an immediate dominator: the greatest dominator.
LEMMA ImmediateIs ==
  ASSUME NEW E \in SUBSET Pairs, Entered(E)
  PROVE  /\ ImmediateDominators(Fun, E, Top)[Top] = Top
         /\ \A v \in Fun \ {Top} :
              LET d == ImmediateDominators(Fun, E, Top)[v]
              IN  /\ d \in Fun /\ d < v /\ Above(E, d, v)
                  /\ \A c \in Fun \ {v} : Above(E, c, v) => Above(E, c, d)
<1>1. ImmediateDominators(Fun, E, Top)[Top] = Top
  BY FunIs DEF ImmediateDominators
<1>2. ASSUME NEW v \in Fun \ {Top}
      PROVE  LET d == ImmediateDominators(Fun, E, Top)[v]
             IN  /\ d \in Fun /\ d < v /\ Above(E, d, v)
                 /\ \A c \in Fun \ {v} : Above(E, c, v) => Above(E, c, d)
  <2> DEFINE T == {d \in Fun \ {v} : Above(E, d, v)}
             Closest(d) == Above(E, d, v) /\ \A c \in Fun \ {v} : Above(E, c, v) => Above(E, c, d)
  <2>1. Top \in T /\ T \in SUBSET Int /\ IsFiniteSet(T)
    <3>1. Top \in T /\ T \subseteq Fun
      BY FunIs, AboveTop
    <3>2. Fun \subseteq Int /\ IsFiniteSet(Fun)
      BY FunIs
    <3> HIDE DEF T
    <3>3. IsFiniteSet(T)
      BY <3>1, <3>2, FS_Subset
    <3> QED BY <3>1, <3>2, <3>3
  <2>2. PICK m \in T : \A y \in T : y <= m
    <3> HIDE DEF T
    <3> QED BY <2>1, GreatestOfFinite
  <2>3. \A c \in Fun \ {v} : Above(E, c, v) => Above(E, c, m)
    <3> SUFFICES ASSUME NEW c \in Fun \ {v}, Above(E, c, v) PROVE Above(E, c, m)
      OBVIOUS
    <3>1. c <= m
      BY <2>2
    <3>2. CASE Above(E, m, c)
      BY <3>1, <3>2, AboveIsLess, AboveSelf, FunIs
    <3> QED BY <2>2, <3>2, AboveIsLinear
  <2>4. Closest(m) /\ m \in Fun \ {v}
    BY <2>2, <2>3
  <2>5. ImmediateDominators(Fun, E, Top)[v] = CHOOSE d \in Fun \ {v} : Closest(d)
    BY DEF ImmediateDominators, Above
  <2> DEFINE d == ImmediateDominators(Fun, E, Top)[v]
  <2> HIDE DEF Closest, T
  <2>6. d \in Fun \ {v} /\ Closest(d)
    BY <2>4, <2>5
  <2> HIDE DEF d
  <2>7. d <= v
    BY <2>6, AboveIsLess DEF Closest
  <2>8. d < v
    BY <2>6, <2>7, FunIs
  <2> QED BY <2>6, <2>8 DEF Closest, d
<1> QED BY <1>1, <1>2

-----------------------------------------------------------------------------
(***************************************************************************)
(* Sums of the values of a function.                                       *)
(***************************************************************************)
LEMMA SumIs ==
  ASSUME NEW S, IsFiniteSet(S), NEW w \in [S -> Nat]
  PROVE  /\ SumFunction(w) \in Nat
         /\ S = {} => SumFunction(w) = 0
         /\ \A x \in S : SumFunction(w) >= w[x] /\ (S = {x} => SumFunction(w) = w[x])
         /\ \A x, y \in S : x # y => SumFunction(w) >= w[x] + w[y]
<1> DEFINE one(s) == CHOOSE x \in s : TRUE
           Next0(c, s) == IF s = {} THEN 0 ELSE w[one(s)] + c[s \ {one(s)}]
           Good(k, c) == \A s \in SUBSET S : Cardinality(s) <= k => c[s] = Next0(c, s)
           T == {k \in Nat : \E c \in [SUBSET S -> Nat] : Good(k, c)}
<1>1. \A s \in SUBSET S : IsFiniteSet(s) /\ Cardinality(s) \in Nat
  BY FS_Subset, FS_CardinalityType
<1>2. \A s \in SUBSET S : s # {} => /\ one(s) \in s /\ s \ {one(s)} \in SUBSET S
                                    /\ Cardinality(s \ {one(s)}) = Cardinality(s) - 1
  <2> TAKE s \in SUBSET S
  <2> HAVE s # {}
  <2>1. one(s) \in s
    OBVIOUS
  <2> HIDE DEF one
  <2> QED BY <2>1, <1>1, FS_RemoveElement
<1> HIDE DEF one
<1>3. 0 \in T
  <2> DEFINE c == [s \in SUBSET S |-> 0]
  <2>1. c \in [SUBSET S -> Nat]
    OBVIOUS
  <2>2. Good(0, c)
    BY <1>1, FS_EmptySet
  <2> HIDE DEF c, Good
  <2> QED BY <2>1, <2>2
<1>4. ASSUME NEW k \in Nat, k \in T PROVE k + 1 \in T
  <2>1. PICK c \in [SUBSET S -> Nat] : Good(k, c)
    BY <1>4
  <2> DEFINE d == [s \in SUBSET S |-> IF Cardinality(s) = k + 1 THEN Next0(c, s) ELSE c[s]]
  <2>2. d \in [SUBSET S -> Nat]
    BY <1>2
  <2>3. Good(k + 1, d)
    <3> SUFFICES ASSUME NEW s \in SUBSET S, Cardinality(s) <= k + 1 PROVE d[s] = Next0(d, s)
      OBVIOUS
    <3>1. CASE s = {}
      BY <2>1, <3>1, FS_EmptySet
    <3>2. CASE s # {}
      <4> DEFINE t == s \ {one(s)}
      <4>1. t \in SUBSET S /\ Cardinality(t) = Cardinality(s) - 1 /\ Cardinality(t) # k + 1
        BY <3>2, <1>1, <1>2
      <4> HIDE DEF t
      <4>2. d[t] = c[t]
        BY <4>1
      <4>3. Next0(d, s) = Next0(c, s)
        BY <4>2, <3>2 DEF t
      <4>4. CASE Cardinality(s) = k + 1
        BY <4>3, <4>4
      <4>5. CASE Cardinality(s) # k + 1
        <5>1. Cardinality(s) <= k
          BY <4>5, <1>1
        <5> QED BY <2>1, <4>3, <4>5, <5>1
      <4> QED BY <4>4, <4>5
    <3> QED BY <3>1, <3>2
  <2> HIDE DEF Good, d
  <2> QED BY <2>2, <2>3
<1> HIDE DEF T
<1>5. Cardinality(S) \in T
  BY <1>1, <1>3, <1>4, Induct
<1>6. PICK c \in [SUBSET S -> Nat] : Good(Cardinality(S), c)
  BY <1>5 DEF T
<1>7. \A s \in SUBSET S : c[s] = Next0(c, s)
  BY <1>1, <1>6, FS_Subset
<1>8. PICK i : i = [s \in SUBSET S |-> Next0(i, s)] /\ SumFunction(w) = i[S]
  <2> DEFINE P(q) == q = [s \in SUBSET S |-> Next0(q, s)]
  <2>1. c = [s \in SUBSET S |-> Next0(c, s)]
    BY <1>7
  <2>2. P(CHOOSE q : P(q))
    BY <2>1
  <2>3. SumFunction(w) = (CHOOSE q : P(q))[S]
    BY DEF SumFunction, SumFunctionOnSet, FoldFunctionOnSet, MapThenFoldSet, one
  <2> QED BY <2>2, <2>3
<1> DEFINE Sums(s) == /\ i[s] \in Nat
                      /\ s = {} => i[s] = 0
                      /\ \A x \in s : i[s] >= w[x] /\ (s = {x} => i[s] = w[x])
                      /\ \A x, y \in s : x # y => i[s] >= w[x] + w[y]
           K == {k \in Nat : \A s \in SUBSET S : Cardinality(s) <= k => Sums(s)}
<1>9. Sums({})
  BY <1>8
<1>10. 0 \in K
  <2>1. \A s \in SUBSET S : Cardinality(s) <= 0 => s = {}
    BY <1>1, FS_EmptySet
  <2> HIDE DEF Sums
  <2> QED BY <1>9, <2>1
<1>11. ASSUME NEW k \in Nat, k \in K PROVE k + 1 \in K
  <2>1. ASSUME NEW s \in SUBSET S, Cardinality(s) <= k + 1, s # {} PROVE Sums(s)
    <3> DEFINE o == one(s)
               t == s \ {o}
    <3>1. o \in s /\ t \in SUBSET S /\ Cardinality(t) <= k
      BY <1>1, <1>2, <2>1
    <3>2. Sums(t)
      BY <1>11, <3>1
    <3>3. i[s] = w[o] + i[t]
      BY <1>8, <2>1
    <3>4. \A x \in s : w[x] \in Nat /\ (x = o \/ x \in t)
      OBVIOUS
    <3>5. s = {o} => t = {}
      OBVIOUS
    <3> HIDE DEF o, t
    <3>6. i[s] \in Nat /\ \A x \in s : i[s] >= w[x]
      BY <3>1, <3>2, <3>3, <3>4
    <3>7. \A x \in s : s = {x} => i[s] = w[x]
      BY <3>1, <3>2, <3>3, <3>4, <3>5
    <3>8. ASSUME NEW x \in s, NEW y \in s, x # y PROVE i[s] >= w[x] + w[y]
      BY <3>1, <3>2, <3>3, <3>4, <3>8
    <3> QED BY <2>1, <3>6, <3>7, <3>8
  <2> HIDE DEF Sums
  <2>2. \A s \in SUBSET S : Cardinality(s) <= k + 1 => Sums(s)
    BY <1>9, <2>1, Zenon
  <2> QED BY <2>2
<1> HIDE DEF K
<1>12. Cardinality(S) \in K
  BY <1>1, <1>10, <1>11, Induct
<1>13. Sums(S)
  BY <1>12, <1>1 DEF K
<1> QED BY <1>8, <1>13

-----------------------------------------------------------------------------
(***************************************************************************)
(* The program: its calls, and how often a function is there.              *)
(***************************************************************************)
LEMMA CallsAre ==
  ASSUME prog \in Programs
  PROVE  /\ Calls \in SUBSET Pairs /\ Entered(Calls)
         /\ \A e \in Calls : prog.calls[e] \in Nat \ {0}
<1>1. prog.calls \in [Pairs -> Nat]
  BY ProgramsAssumption
<1>2. Calls \in SUBSET Pairs /\ \A e \in Calls : prog.calls[e] \in Nat \ {0}
  BY <1>1 DEF Calls
<1>3. ASSUME NEW f \in Fun \ {Top} PROVE \E g \in Fun : <<g, f>> \in Calls
  <2>1. PICK g \in 1 .. f - 1 : prog.calls[<<g, f>>] > 0
    BY ProgramsAssumption
  <2>2. f \in Nat /\ g \in 1 .. f /\ g < f
    BY <2>1, FunIs
  <2>3. g \in Fun
    BY <2>2, FunIs
  <2>4. <<g, f>> \in Pairs
    BY <2>2, <2>3 DEF Pairs
  <2> QED BY <2>1, <2>3, <2>4 DEF Calls
<1> QED BY <1>2, <1>3 DEF Entered

LEMMA CallersAre ==
  ASSUME prog \in Programs, NEW f \in Fun
  PROVE  /\ Callers(f) \subseteq Fun /\ IsFiniteSet(Callers(f))
         /\ \A g \in Callers(f) : g < f /\ <<g, f>> \in Calls
         /\ f = Top => Callers(f) = {}
         /\ f # Top => Callers(f) # {}
         /\ Cardinality(Callers(f)) \in Nat
         /\ Cardinality(Callers(f)) = 1 <=> \E g \in Fun : Callers(f) = {g}
         /\ f # Top => (Cardinality(Callers(f)) # 1 <=> Cardinality(Callers(f)) > 1)
         /\ f = Top => Cardinality(Callers(f)) = 0
<1>1. Callers(f) \subseteq Fun /\ \A g \in Callers(f) : g < f /\ <<g, f>> \in Calls
  BY CallsAre DEF Callers, Pairs
<1>2. IsFiniteSet(Callers(f)) /\ Cardinality(Callers(f)) \in Nat
  BY <1>1, FunIs, FS_Subset, FS_CardinalityType
<1>3. f = Top => Callers(f) = {}
  <2> SUFFICES ASSUME f = Top, NEW g \in Callers(f) PROVE FALSE
    OBVIOUS
  <2>1. g < Top /\ g \in Fun
    BY <1>1
  <2>2. g \in Nat /\ Top \in Nat /\ Top <= g
    BY <2>1, FunIs
  <2> QED BY <2>1, <2>2
<1>4. f # Top => Callers(f) # {}
  BY CallsAre DEF Entered, Callers
<1>5. Cardinality(Callers(f)) = 1 <=> \E g \in Fun : Callers(f) = {g}
  <2>1. Cardinality(Callers(f)) = 1 <=> \E g : Callers(f) = {g}
    BY <1>2, FS_Singleton
  <2> QED BY <1>1, <2>1
<1>6. Cardinality(Callers(f)) = 0 <=> Callers(f) = {}
  BY <1>2, FS_EmptySet
<1> QED BY <1>1, <1>2, <1>3, <1>4, <1>5, <1>6

LEMMA Product ==
  ASSUME NEW a \in Nat \ {0}, NEW b \in Nat \ {0}
  PROVE  a * b \in Nat \ {0} /\ (a * b = 1 <=> a = 1 /\ b = 1)
<1>1. a * 1 = a /\ a * 0 = 0
  BY SMT
<1>2. a * 1 <= a * b /\ a * b \in Int
  BY Times
<1>3. a = 1 => a * b = b
  BY SMT
<1> QED BY <1>1, <1>2, <1>3

\* What is called once, by what is there once, is there once.
LEMMA SumOfCallers ==
  ASSUME prog \in Programs, NEW f \in Fun \ {Top}, NEW n, NEW points,
         \A g \in Callers(f) : n[g] \in Nat \ {0} /\ points[<<g, f>>] \in Nat \ {0}
  PROVE  /\ SumFunction([g \in Callers(f) |-> n[g] * points[<<g, f>>]]) \in Nat \ {0}
         /\ SumFunction([g \in Callers(f) |-> n[g] * points[<<g, f>>]]) = 1 <=>
              \E g \in Fun : Callers(f) = {g} /\ n[g] = 1 /\ points[<<g, f>>] = 1
<1> DEFINE w == [g \in Callers(f) |-> n[g] * points[<<g, f>>]]
           C == Callers(f)
           s == SumFunction(w)
<1>1. \A g \in C : w[g] \in Nat \ {0} /\ (w[g] = 1 <=> n[g] = 1 /\ points[<<g, f>>] = 1)
  BY Product
<1>2. C \subseteq Fun /\ IsFiniteSet(C) /\ C # {}
  BY CallersAre
<1>3. w \in [C -> Nat]
  BY <1>1
<1> HIDE DEF w, C
<1>4. /\ s \in Nat
      /\ \A x \in C : s >= w[x] /\ (C = {x} => s = w[x])
      /\ \A x, y \in C : x # y => s >= w[x] + w[y]
  BY <1>2, <1>3, SumIs
<1> HIDE DEF s
<1>5. PICK x \in C : TRUE
  BY <1>2
<1>6. s \in Nat \ {0}
  <2>1. w[x] \in Nat \ {0} /\ s >= w[x]
    BY <1>1, <1>4, <1>5
  <2> QED BY <1>4, <2>1
<1>7. s = 1 => C = {x}
  <2> SUFFICES ASSUME s = 1, NEW y \in C, x # y PROVE FALSE
    BY <1>5
  <2>1. w[x] \in Nat \ {0} /\ w[y] \in Nat \ {0} /\ s >= w[x] + w[y]
    BY <1>1, <1>4, <1>5
  <2> QED BY <2>1
<1>8. s = 1 <=> \E g \in Fun : C = {g} /\ w[g] = 1
  BY <1>2, <1>4, <1>7
<1>9. s = 1 <=> \E g \in Fun : C = {g} /\ n[g] = 1 /\ points[<<g, f>>] = 1
  BY <1>1, <1>8
<1> QED BY <1>6, <1>9 DEF s, w, C

LEMMA Counts ==
  ASSUME prog \in Programs, NEW fixed, NEW points,
         \A e \in Calls : points[e] \in Nat \ {0}
  PROVE  \A f \in Fun :
           Counted(fixed, points)[f] = 1 <=>
             \/ f = Top \/ f \in fixed
             \/ \E g \in Fun : /\ Callers(f) = {g} /\ Counted(fixed, points)[g] = 1
                               /\ points[<<g, f>>] = 1
<1> DEFINE Sum(f, c) == SumFunction([g \in Callers(f) |-> c[g] * points[<<g, f>>]])
           Body(f, c) == IF f = Top \/ f \in fixed THEN 1 ELSE Sum(f, c)
           P == Nat \ {0}
           F == [p \in Fun \X [Fun -> P] |-> Body(p[1], p[2])]
<1>1. ASSUME NEW f \in Fun, NEW c, c \in [Fun -> P] PROVE Body(f, c) \in P
  <2>1. CASE f # Top
    <3>1. \A g \in Callers(f) : c[g] \in Nat \ {0} /\ points[<<g, f>>] \in Nat \ {0}
      BY <1>1, CallersAre
    <3>2. f \in Fun \ {Top}
      BY <2>1
    <3>3. Sum(f, c) \in Nat \ {0}
      BY <3>1, <3>2, SumOfCallers
    <3> QED BY <3>3
  <2> QED BY <2>1
<1>2. ASSUME NEW f \in Fun, NEW c, NEW d, \A g \in Fun : g < f => c[g] = d[g]
      PROVE  Body(f, c) = Body(f, d)
  <2>1. \A g \in Callers(f) : c[g] = d[g]
    BY <1>2, CallersAre
  <2>2. [g \in Callers(f) |-> c[g] * points[<<g, f>>]] = [g \in Callers(f) |-> d[g] * points[<<g, f>>]]
    BY <2>1
  <2> QED BY <2>2
<1>3. PICK c \in [Fun -> P] : \A f \in Fun : c[f] = Body(f, c)
  <2>1. \A f \in Fun, c \in [Fun -> P] : F[<<f, c>>] = Body(f, c)
    OBVIOUS
  <2>2. P # {}
    OBVIOUS
  <2> HIDE DEF Body, F, P
  <2>3. Stepwise(P, F)
    BY <1>1, <1>2, <2>1, <2>2 DEF Stepwise
  <2>4. Solved(P, F)
    BY <2>3, Recursion
  <2> QED BY <2>1, <2>4 DEF Solved
<1> DEFINE n == Counted(fixed, points)
<1>4. n = [f \in Fun |-> Body(f, n)]
  <2>1. c = [f \in Fun |-> Body(f, c)]
    BY <1>3
  <2> QED BY <2>1 DEF Counted
<1> HIDE DEF n
<1>5. n \in [Fun -> P]
  <2> DEFINE S == {f \in Fun : n[f] = c[f]}
  <2>1. ASSUME NEW f \in Fun, \A g \in Fun : g < f => g \in S PROVE f \in S
    <3>1. \A g \in Callers(f) : c[g] = n[g]
      BY <2>1, CallersAre
    <3>2. [g \in Callers(f) |-> c[g] * points[<<g, f>>]] = [g \in Callers(f) |-> n[g] * points[<<g, f>>]]
      BY <3>1
    <3>3. Body(f, c) = Body(f, n)
      BY <3>2
    <3> QED BY <1>3, <1>4, <3>3
  <2> HIDE DEF S
  <2>2. Fun \subseteq S
    BY <2>1, FromCallers
  <2> HIDE DEF Body
  <2> QED BY <1>3, <1>4, <2>2 DEF S
<1>6. ASSUME NEW f \in Fun
      PROVE  n[f] = 1 <=> \/ f = Top \/ f \in fixed
                          \/ \E g \in Fun : Callers(f) = {g} /\ n[g] = 1 /\ points[<<g, f>>] = 1
  <2>1. n[f] = Body(f, n)
    <3> HIDE DEF Body
    <3> QED BY <1>4
  <2>2. CASE f = Top \/ f \in fixed
    BY <2>1, <2>2
  <2>3. CASE ~(f = Top \/ f \in fixed)
    <3>1. \A g \in Callers(f) : n[g] \in Nat \ {0} /\ points[<<g, f>>] \in Nat \ {0}
      BY <1>5, CallersAre
    <3>2. Sum(f, n) = 1 <=> \E g \in Fun : Callers(f) = {g} /\ n[g] = 1 /\ points[<<g, f>>] = 1
      BY <2>3, <3>1, SumOfCallers
    <3> QED BY <2>1, <2>3, <3>2
  <2> QED BY <2>2, <2>3
<1> QED BY <1>6 DEF n

-----------------------------------------------------------------------------
(***************************************************************************)
(* Chains: from a function up to the top function.                         *)
(***************************************************************************)
Climbs(up) == up \in [Fun -> Fun] /\ \A f \in Fun \ {Top} : up[f] < f

LEMMA ChainDefined ==
  ASSUME NEW up, Climbs(up)
  PROVE  /\ Chain(up) \in [Fun -> Seq(Fun)]
         /\ \A f \in Fun :
              Chain(up)[f] = IF f = Top THEN <<Top>> ELSE Append(Chain(up)[up[f]], f)
<1> DEFINE Body(f, c) == IF f = Top THEN <<Top>> ELSE Append(c[up[f]], f)
           P == Seq(Fun)
           F == [p \in Fun \X [Fun -> P] |-> Body(p[1], p[2])]
<1>1. ASSUME NEW f \in Fun, NEW c, c \in [Fun -> P] PROVE Body(f, c) \in P
  <2>1. c[up[f]] \in Seq(Fun)
    BY <1>1 DEF Climbs
  <2> QED BY <2>1, FunIs
<1>2. ASSUME NEW f \in Fun, NEW c, NEW d, \A g \in Fun : g < f => c[g] = d[g]
      PROVE  Body(f, c) = Body(f, d)
  BY <1>2 DEF Climbs
<1>3. PICK c \in [Fun -> P] : \A f \in Fun : c[f] = Body(f, c)
  <2>1. \A f \in Fun, c \in [Fun -> P] : F[<<f, c>>] = Body(f, c)
    OBVIOUS
  <2>2. P # {}
    <3>1. << >> \in P
      OBVIOUS
    <3> QED BY <3>1
  <2> HIDE DEF Body, F, P
  <2>3. Stepwise(P, F)
    BY <1>1, <1>2, <2>1, <2>2 DEF Stepwise
  <2>4. Solved(P, F)
    BY <2>3, Recursion
  <2> QED BY <2>1, <2>4 DEF Solved
<1> DEFINE n == Chain(up)
<1>4. n = [f \in Fun |-> Body(f, n)]
  <2>1. c = [f \in Fun |-> Body(f, c)]
    BY <1>3
  <2> QED BY <2>1 DEF Chain
<1> HIDE DEF n
<1>5. n \in [Fun -> P]
  <2> DEFINE S == {f \in Fun : n[f] = c[f]}
  <2>1. ASSUME NEW f \in Fun, \A g \in Fun : g < f => g \in S PROVE f \in S
    <3>1. \A g \in Fun : g < f => c[g] = n[g]
      BY <2>1
    <3>2. Body(f, c) = Body(f, n)
      BY <1>2, <3>1
    <3> HIDE DEF Body
    <3> QED BY <1>3, <1>4, <3>2
  <2> HIDE DEF S
  <2>2. Fun \subseteq S
    BY <2>1, FromCallers
  <2> HIDE DEF Body, P
  <2> QED BY <1>3, <1>4, <2>2 DEF S
<1> QED BY <1>4, <1>5 DEF n

\* A chain leads from the top function to its own, through the chain of the
\* function above.
LEMMA ChainIs ==
  ASSUME NEW up, Climbs(up), NEW f \in Fun
  PROVE  /\ Chain(up)[f] \in Seq(Fun) /\ Len(Chain(up)[f]) \in Nat \ {0}
         /\ Chain(up)[f][1] = Top
         /\ Chain(up)[f][Len(Chain(up)[f])] = f
         /\ f = Top => Len(Chain(up)[f]) = 1
         /\ f # Top => /\ Len(Chain(up)[f]) = Len(Chain(up)[up[f]]) + 1
                       /\ \A i \in 1 .. Len(Chain(up)[up[f]]) :
                            Chain(up)[f][i] = Chain(up)[up[f]][i]
<1> DEFINE c == Chain(up)
<1>1. /\ c \in [Fun -> Seq(Fun)]
      /\ \A g \in Fun : c[g] = IF g = Top THEN <<Top>> ELSE Append(c[up[g]], g)
  BY ChainDefined
<1>2. up \in [Fun -> Fun] /\ \A g \in Fun \ {Top} : up[g] < g
  BY DEF Climbs
<1> HIDE DEF c
<1>3. ASSUME NEW g \in Fun, g # Top
      PROVE  /\ Len(c[g]) = Len(c[up[g]]) + 1 /\ c[g][Len(c[g])] = g
             /\ \A i \in 1 .. Len(c[up[g]]) : c[g][i] = c[up[g]][i]
  <2>1. c[up[g]] \in Seq(Fun)
    BY <1>1, <1>2
  <2>2. c[g] = Append(c[up[g]], g)
    BY <1>1, <1>3
  <2> QED BY <2>1, <2>2
<1>4. c[Top] = <<Top>> /\ Len(c[Top]) = 1 /\ c[Top][1] = Top
  BY <1>1, FunIs
<1> DEFINE S == {g \in Fun : Len(c[g]) \in Nat \ {0} /\ c[g][1] = Top}
<1>5. ASSUME NEW g \in Fun, \A h \in Fun : h < g => h \in S PROVE g \in S
  <2>1. CASE g = Top
    <3>1. c[g] = c[Top]
      BY <2>1
    <3>2. Len(c[g]) = 1 /\ c[g][1] = Top
      BY <1>4, <3>1
    <3> QED BY <3>2
  <2>2. CASE g # Top
    <3>1. up[g] \in S /\ Len(c[up[g]]) \in Nat \ {0} /\ c[up[g]][1] = Top
      BY <1>2, <1>5, <2>2
    <3>2. 1 \in 1 .. Len(c[up[g]])
      BY <3>1
    <3>3. c[g][1] = c[up[g]][1] /\ Len(c[g]) = Len(c[up[g]]) + 1
      BY <1>3, <2>2, <3>2
    <3> QED BY <3>1, <3>3
  <2> QED BY <2>1, <2>2
<1> HIDE DEF S
<1>6. f \in S
  BY <1>5, FromCallers
<1> QED BY <1>1, <1>3, <1>4, <1>6 DEF S, c

\* The chain of what is on a chain is the part of it up to there.
LEMMA ChainPrefix ==
  ASSUME NEW up, Climbs(up), NEW f \in Fun, NEW i \in 1 .. Len(Chain(up)[f])
  PROVE  /\ Chain(up)[f][i] \in Fun
         /\ Len(Chain(up)[Chain(up)[f][i]]) = i
         /\ \A k \in 1 .. i : Chain(up)[Chain(up)[f][i]][k] = Chain(up)[f][k]
<1> DEFINE c == Chain(up)
           Good(g, j) == /\ c[g][j] \in Fun /\ Len(c[c[g][j]]) = j
                         /\ \A k \in 1 .. j : c[c[g][j]][k] = c[g][k]
           S == {g \in Fun : \A j \in 1 .. Len(c[g]) : Good(g, j)}
<1>1. \A g \in Fun : /\ c[g] \in Seq(Fun) /\ Len(c[g]) \in Nat \ {0}
                     /\ c[g][1] = Top /\ c[g][Len(c[g])] = g
                     /\ g = Top => Len(c[g]) = 1
                     /\ g # Top => /\ Len(c[g]) = Len(c[up[g]]) + 1
                                   /\ \A j \in 1 .. Len(c[up[g]]) : c[g][j] = c[up[g]][j]
  BY ChainIs
<1> HIDE DEF c
<1>2. ASSUME NEW g \in Fun, \A h \in Fun : h < g => h \in S PROVE g \in S
  <2> SUFFICES ASSUME NEW j \in 1 .. Len(c[g]) PROVE Good(g, j)
    OBVIOUS
  <2>1. CASE j = Len(c[g])
    BY <1>1, <2>1
  <2>2. CASE j # Len(c[g])
    <3>1. j \in Nat /\ j < Len(c[g]) /\ j >= 1 /\ Len(c[g]) \in Nat
      BY <1>1, <2>2
    <3>2. g # Top
      BY <1>1, <3>1
    <3>3. up[g] \in Fun /\ up[g] \in S
      BY <1>2, <3>2 DEF Climbs
    <3>4. Len(c[up[g]]) \in Nat /\ j \in 1 .. Len(c[up[g]])
      BY <1>1, <3>1, <3>2, <3>3
    <3>5. Good(up[g], j)
      BY <3>3, <3>4
    <3>6. \A k \in 1 .. j : k \in 1 .. Len(c[up[g]])
      BY <3>4
    <3>7. \A k \in 1 .. j : c[g][k] = c[up[g]][k]
      BY <1>1, <3>2, <3>6
    <3>8. j \in 1 .. j
      BY <3>1
    <3> QED BY <3>5, <3>7, <3>8
  <2> QED BY <2>1, <2>2
<1> HIDE DEF S
<1>3. f \in S
  BY <1>2, FromCallers
<1> QED BY <1>3 DEF S, c

OnChain(up, p, f) == \E i \in 1 .. Len(Chain(up)[f]) : Chain(up)[f][i] = p

LEMMA OnChainStep ==
  ASSUME NEW up, Climbs(up), NEW f \in Fun, NEW p
  PROVE  /\ OnChain(up, p, f) <=> p = f \/ (f # Top /\ OnChain(up, p, up[f]))
         /\ OnChain(up, p, f) => p \in Fun
<1> DEFINE c == Chain(up)
<1>1. \A g \in Fun : /\ c[g] \in Seq(Fun) /\ Len(c[g]) \in Nat \ {0}
                     /\ c[g][1] = Top /\ c[g][Len(c[g])] = g
                     /\ g = Top => Len(c[g]) = 1
                     /\ g # Top => /\ Len(c[g]) = Len(c[up[g]]) + 1
                                   /\ \A j \in 1 .. Len(c[up[g]]) : c[g][j] = c[up[g]][j]
  BY ChainIs
<1> HIDE DEF c
<1>2. OnChain(up, p, f) <=> \E i \in 1 .. Len(c[f]) : c[f][i] = p
  BY DEF OnChain, c
<1>3. CASE f = Top
  BY <1>1, <1>2, <1>3
<1>4. CASE f # Top
  <2>1. up[f] \in Fun
    BY DEF Climbs
  <2>2. OnChain(up, p, up[f]) <=> \E i \in 1 .. Len(c[up[f]]) : c[up[f]][i] = p
    BY DEF OnChain, c
  <2> DEFINE n == Len(c[up[f]])
  <2>3. n \in Nat \ {0} /\ Len(c[f]) = n + 1 /\ c[f][n + 1] = f
        /\ \A i \in 1 .. n : c[f][i] = c[up[f]][i]
    BY <1>1, <1>4, <2>1
  <2>4. 1 .. (n + 1) = (1 .. n) \cup {n + 1}
    BY <2>3
  <2>5. OnChain(up, p, f) <=> \E i \in (1 .. n) \cup {n + 1} : c[f][i] = p
    BY <1>2, <2>3, <2>4
  <2>6. OnChain(up, p, f) <=> p = f \/ \E i \in 1 .. n : c[up[f]][i] = p
    BY <2>3, <2>5
  <2>7. \A i \in 1 .. n : c[up[f]][i] \in Fun
    BY <1>1, <2>1
  <2> QED BY <1>4, <2>2, <2>6, <2>7
<1> QED BY <1>3, <1>4

\* The nearest function above f with a single instance.
LEMMA ClimbIs ==
  ASSUME NEW up, Climbs(up), NEW single, Top \in single, NEW f \in Fun
  PROVE  /\ Climb(up, single)[f] \in Fun \cap single
         /\ OnChain(up, Climb(up, single)[f], f)
         /\ \A p \in single : OnChain(up, p, f) => OnChain(up, p, Climb(up, single)[f])
<1> DEFINE Body(g, c) == IF g \in single THEN g ELSE c[up[g]]
           F == [p \in Fun \X [Fun -> Fun] |-> Body(p[1], p[2])]
<1>1. ASSUME NEW g \in Fun, NEW c, c \in [Fun -> Fun] PROVE Body(g, c) \in Fun
  BY <1>1 DEF Climbs
<1>2. ASSUME NEW g \in Fun, NEW c, NEW d, \A h \in Fun : h < g => c[h] = d[h]
      PROVE  Body(g, c) = Body(g, d)
  BY <1>2 DEF Climbs
<1>3. PICK c \in [Fun -> Fun] : \A g \in Fun : c[g] = Body(g, c)
  <2>1. \A g \in Fun, c \in [Fun -> Fun] : F[<<g, c>>] = Body(g, c)
    OBVIOUS
  <2> HIDE DEF Body, F
  <2>2. Stepwise(Fun, F)
    BY <1>1, <1>2, <2>1, FunIs DEF Stepwise
  <2>3. Solved(Fun, F)
    BY <2>2, Recursion
  <2> QED BY <2>1, <2>3 DEF Solved
<1> DEFINE n == Climb(up, single)
<1>4. n = [g \in Fun |-> Body(g, n)]
  <2>1. c = [g \in Fun |-> Body(g, c)]
    BY <1>3
  <2> QED BY <2>1 DEF Climb
<1> HIDE DEF n
<1> DEFINE Good(g) == /\ n[g] \in Fun \cap single /\ OnChain(up, n[g], g)
                      /\ \A p \in single : OnChain(up, p, g) => OnChain(up, p, n[g])
           S == {g \in Fun : Good(g)}
<1>5. ASSUME NEW g \in Fun, \A h \in Fun : h < g => h \in S PROVE g \in S
  <2>1. n[g] = Body(g, n)
    <3> HIDE DEF Body
    <3> QED BY <1>4
  <2>2. CASE g \in single
    BY <2>1, <2>2, OnChainStep
  <2>3. CASE g \notin single
    <3>1. up[g] \in Fun /\ Good(up[g]) /\ n[g] = n[up[g]] /\ g # Top
      BY <1>5, <2>1, <2>3 DEF Climbs
    <3>2. OnChain(up, n[g], g)
      BY <3>1, OnChainStep
    <3>3. \A p \in single : OnChain(up, p, g) => OnChain(up, p, up[g])
      BY <2>3, OnChainStep
    <3> QED BY <3>1, <3>2, <3>3
  <2> QED BY <2>2, <2>3
<1> HIDE DEF S
<1>6. f \in S
  BY <1>5, FromCallers
<1> QED BY <1>6 DEF S, n

\* The lowest common dominator of a single instance is above all uses, and
\* below every other that has one, and only such above it.
LEMMA CommonIs ==
  ASSUME NEW up, Climbs(up), NEW uses \in SUBSET Fun, uses # {}, NEW single
  PROVE  LET q == Common(up, uses, single)
         IN  /\ q \in Fun /\ q \in single \cup {Top}
             /\ \A f \in uses : OnChain(up, q, f)
             /\ \A p \in Fun :
                  /\ \A f \in uses : OnChain(up, p, f)
                  /\ \A x \in Fun : OnChain(up, x, p) => x \in single
                  => OnChain(up, p, q)
<1> DEFINE c == Chain(up)
           f0 == CHOOSE f \in uses : TRUE
           first == c[f0]
           I == {i \in DOMAIN first : \A k \in 1 .. i : SameUpTo(up, uses, k) /\ first[k] \in single}
           m == Max({1} \cup I)
           q == Common(up, uses, single)
<1>1. \A g \in Fun : /\ c[g] \in Seq(Fun) /\ Len(c[g]) \in Nat \ {0} /\ c[g][1] = Top
                     /\ DOMAIN c[g] = 1 .. Len(c[g])
  BY ChainIs
<1>2. \A g \in Fun : \A i \in 1 .. Len(c[g]) :
        c[g][i] \in Fun /\ Len(c[c[g][i]]) = i /\ \A k \in 1 .. i : c[c[g][i]][k] = c[g][k]
  BY ChainPrefix
<1>3. f0 \in uses /\ f0 \in Fun
  OBVIOUS
<1>4. q = first[m]
  BY DEF Common
<1>5. \A k : SameUpTo(up, uses, k) <=>
        \A f, g \in uses : k <= Len(c[f]) /\ k <= Len(c[g]) /\ c[f][k] = c[g][k]
  BY DEF SameUpTo
<1>6. \A p, f : OnChain(up, p, f) <=> \E i \in 1 .. Len(c[f]) : c[f][i] = p
  BY DEF OnChain
<1> HIDE DEF c, f0, q
<1>7. /\ m \in {1} \cup I /\ m \in 1 .. Len(first)
      /\ \A i \in I : i <= m
  <2>1. I \subseteq 1 .. Len(first) /\ 1 \in 1 .. Len(first) /\ Len(first) \in Nat
    BY <1>1, <1>3
  <2> HIDE DEF I
  <2>2. {1} \cup I \subseteq 1 .. Len(first)
    BY <2>1
  <2>3. IsFiniteSet({1} \cup I) /\ {1} \cup I \in SUBSET Int
    <3>1. IsFiniteSet(1 .. Len(first)) /\ 1 .. Len(first) \subseteq Int
      BY <2>1, FS_Interval
    <3>2. IsFiniteSet({1} \cup I)
      BY <2>2, <3>1, FS_Subset
    <3> QED BY <2>2, <3>1, <3>2
  <2>4. Max({1} \cup I) \in {1} \cup I /\ \A y \in {1} \cup I : Max({1} \cup I) >= y
    BY <2>3, MaxIsGreatest
  <2>5. \A i \in I : i <= m
    BY <2>1, <2>4
  <2> QED BY <2>2, <2>4, <2>5
<1>8. q \in Fun /\ q \in single \cup {Top}
  <2>1. m \in 1 .. m
    BY <1>7
  <2>2. m \in I => first[m] \in single
    BY <2>1
  <2>3. first[1] = Top
    BY <1>1, <1>3
  <2> HIDE DEF I, m
  <2>4. q \in Fun
    BY <1>2, <1>3, <1>4, <1>7
  <2> QED BY <1>4, <1>7, <2>2, <2>3, <2>4
<1>9. ASSUME NEW f \in uses PROVE OnChain(up, q, f) /\ m \in 1 .. Len(c[f]) /\ c[f][m] = q
  <2>1. m = 1 => m \in 1 .. Len(c[f]) /\ c[f][m] = first[m]
    <3> HIDE DEF m, I
    <3>1. Len(c[f]) \in Nat \ {0} /\ c[f][1] = first[1]
      BY <1>1, <1>3
    <3> QED BY <3>1
  <2>2. m \in I => m \in 1 .. Len(c[f]) /\ c[f][m] = first[m]
    <3>1. m \in I => SameUpTo(up, uses, m)
      BY <1>7
    <3>2. m \in Nat /\ m >= 1 /\ Len(c[f]) \in Nat
      BY <1>1, <1>3, <1>7
    <3> HIDE DEF I, m
    <3> QED BY <1>3, <1>5, <3>1, <3>2
  <2> HIDE DEF I, m
  <2> QED BY <1>4, <1>6, <1>7, <2>1, <2>2
<1>10. ASSUME NEW p \in Fun, \A f \in uses : OnChain(up, p, f),
              \A x \in Fun : OnChain(up, x, p) => x \in single
       PROVE  OnChain(up, p, q)
  <2> DEFINE j == Len(c[p])
  <2>1. j \in Nat \ {0}
    BY <1>1
  <2>2. ASSUME NEW f \in uses
        PROVE  j \in 1 .. Len(c[f]) /\ c[f][j] = p /\ \A k \in 1 .. j : c[f][k] = c[p][k]
    <3>1. PICK i \in 1 .. Len(c[f]) : c[f][i] = p
      BY <1>6, <1>10
    <3>2. i = j
      BY <1>2, <3>1
    <3> QED BY <1>2, <3>1, <3>2
  <2>3. \A k \in 1 .. j : c[p][k] \in single
    BY <1>2, <1>6, <1>10
  <2>4. \A k \in 1 .. j : SameUpTo(up, uses, k) /\ first[k] \in single
    <3> SUFFICES ASSUME NEW k \in 1 .. j PROVE SameUpTo(up, uses, k) /\ first[k] \in single
      OBVIOUS
    <3>1. \A f \in uses : k <= Len(c[f]) /\ c[f][k] = c[p][k]
      <4> SUFFICES ASSUME NEW f \in uses PROVE k <= Len(c[f]) /\ c[f][k] = c[p][k]
        OBVIOUS
      <4>1. Len(c[f]) \in Nat /\ j <= Len(c[f])
        BY <1>1, <2>2
      <4> QED BY <2>1, <2>2, <4>1
    <3> QED BY <1>3, <1>5, <2>3, <3>1
  <2>5. j \in I
    BY <1>1, <1>3, <2>2, <2>4
  <2>6. j <= m /\ m \in Nat
    BY <1>7, <2>5
  <2> HIDE DEF I, m
  <2>7. \A k \in 1 .. m : c[q][k] = first[k]
    BY <1>2, <1>3, <1>4, <1>7
  <2>8. Len(c[q]) = m
    BY <1>2, <1>3, <1>4, <1>7
  <2>9. j \in 1 .. m /\ c[q][j] = p
    BY <1>3, <2>1, <2>2, <2>6, <2>7
  <2> QED BY <1>6, <2>8, <2>9
<1> QED BY <1>8, <1>9, <1>10 DEF q

-----------------------------------------------------------------------------
(***************************************************************************)
(* fun_dominator_allocation: the unit of a shared function is put into the *)
(* nearest function above all its callers that is reached in one way.      *)
(***************************************************************************)
\* The functions are all reached, so what dom_info finds are the dominators.
LEMMA DominatorsFound ==
  ASSUME prog \in Programs
  PROVE  Dom = ImmediateDominators(Fun, Calls, Top)
<1>1. Calls \in SUBSET Pairs /\ Entered(Calls)
  BY CallsAre
<1>2. Calls \in SUBSET (Fun \X Fun)
  BY <1>1 DEF Pairs
<1>3. ASSUME NEW R \in SUBSET Fun, Closed(R, Calls, Top, {}) PROVE Fun \subseteq R
  <2>1. Top \in R /\ \A e \in Calls : e[1] \in R => e[2] \in R
    BY <1>3 DEF Closed
  <2>2. ASSUME NEW f \in Fun, \A g \in Fun : g < f => g \in R PROVE f \in R
    <3>1. CASE f = Top
      BY <2>1, <3>1
    <3>2. CASE f # Top
      <4>1. PICK g \in Fun : <<g, f>> \in Calls
        BY <1>1, <3>2 DEF Entered
      <4>2. g < f
        BY <1>1, <4>1 DEF Pairs
      <4> QED BY <2>1, <2>2, <4>1, <4>2
    <3> QED BY <3>1, <3>2
  <2> QED BY <2>2, FromCallers
<1>4. Reached(Fun, Calls, Top, {}) = Fun
  BY <1>3 DEF Reached
<1>5. DominatorMap(Fun, Calls, Top) = ImmediateDominators(Fun, Calls, Top)
  BY <1>2, <1>4, FunIs, DominatorsAreRight
<1> QED BY <1>5 DEF Dom

LEMMA DomFacts ==
  ASSUME prog \in Programs
  PROVE  /\ Climbs(Dom) /\ Dom[Top] = Top
         /\ \A v \in Fun \ {Top} :
              /\ Dom[v] \in Fun /\ Dom[v] < v /\ Above(Calls, Dom[v], v)
              /\ \A c \in Fun \ {v} : Above(Calls, c, v) => Above(Calls, c, Dom[v])
<1>1. Calls \in SUBSET Pairs /\ Entered(Calls)
  BY CallsAre
<1> DEFINE D == ImmediateDominators(Fun, Calls, Top)
<1>2. /\ D[Top] = Top
      /\ \A v \in Fun \ {Top} :
           /\ D[v] \in Fun /\ D[v] < v /\ Above(Calls, D[v], v)
           /\ \A c \in Fun \ {v} : Above(Calls, c, v) => Above(Calls, c, D[v])
  BY <1>1, ImmediateIs
<1>3. \A v \in Fun : D[v] \in Fun
  BY <1>2, FunIs
<1>4. D \in [Fun -> Fun]
  <2>1. D = [v \in Fun |-> D[v]]
    BY DEF ImmediateDominators
  <2> HIDE DEF D
  <2> QED BY <1>3, <2>1
<1> HIDE DEF D
<1>5. Dom = D
  BY DominatorsFound DEF D
<1> QED BY <1>2, <1>4, <1>5 DEF Climbs

\* The chain of a function holds its dominators.
LEMMA ChainIsAbove ==
  ASSUME prog \in Programs, NEW p \in Fun, NEW f \in Fun
  PROVE  OnChain(Dom, p, f) <=> Above(Calls, p, f)
<1> DEFINE S == {g \in Fun : OnChain(Dom, p, g) <=> Above(Calls, p, g)}
<1>1. Calls \in SUBSET Pairs
  BY CallsAre
<1>2. ASSUME NEW g \in Fun, \A h \in Fun : h < g => h \in S PROVE g \in S
  <2>1. OnChain(Dom, p, g) <=> p = g \/ (g # Top /\ OnChain(Dom, p, Dom[g]))
    BY DomFacts, OnChainStep
  <2>2. g = Top => (Above(Calls, p, g) <=> p = g)
    BY <1>1, AboveStep
  <2>3. g # Top /\ p # g => (OnChain(Dom, p, Dom[g]) <=> Above(Calls, p, Dom[g]))
    BY <1>2, DomFacts
  <2>4. g # Top /\ p # g => (Above(Calls, p, Dom[g]) <=> Above(Calls, p, g))
    BY <1>1, DomFacts, AboveTransitive
  <2>5. p = g => Above(Calls, p, g)
    BY <1>1, AboveSelf
  <2> QED BY <2>1, <2>2, <2>3, <2>4, <2>5
<1> HIDE DEF S
<1>3. f \in S
  BY <1>2, FromCallers
<1> QED BY <1>3 DEF S

LEMMA SinglesAre ==
  ASSUME prog \in Programs
  PROVE  /\ Top \in SinglePaths /\ SinglePaths \subseteq Fun
         /\ \A f \in SinglePaths \ {Top} :
              \E g \in SinglePaths : Callers(f) = {g} /\ prog.calls[<<g, f>>] = 1
<1> DEFINE none == {}
           points == prog.calls
           n == Counted(none, points)
<1>1. \A f \in Fun : n[f] = 1 <=>
        \/ f = Top \/ f \in none
        \/ \E g \in Fun : Callers(f) = {g} /\ n[g] = 1 /\ points[<<g, f>>] = 1
  <2>1. \A e \in Calls : points[e] \in Nat \ {0}
    BY CallsAre
  <2> HIDE DEF none, points
  <2> QED BY <2>1, Counts
<1> HIDE DEF n
<1>2. SinglePaths = {f \in Fun : n[f] = 1}
  BY DEF SinglePaths, Paths, n
<1> QED BY <1>1, <1>2, FunIs

\* What is above a function reached in one way is reached in one way.
LEMMA SinglesUpwards ==
  ASSUME prog \in Programs, NEW d \in Fun, NEW p \in SinglePaths, Above(Calls, d, p)
  PROVE  d \in SinglePaths
<1> DEFINE S == {f \in Fun : f \in SinglePaths /\ Above(Calls, d, f) => d \in SinglePaths}
<1>1. ASSUME NEW f \in Fun, \A g \in Fun : g < f => g \in S PROVE f \in S
  <2> SUFFICES ASSUME f \in SinglePaths, Above(Calls, d, f), d # f PROVE d \in SinglePaths
    OBVIOUS
  <2>1. f # Top /\ \A g \in Fun : <<g, f>> \in Calls => Above(Calls, d, g)
    BY CallsAre, AboveStep
  <2>2. PICK g \in SinglePaths : Callers(f) = {g}
    BY <2>1, SinglesAre
  <2>3. g \in Fun /\ g < f /\ <<g, f>> \in Calls
    BY <2>2, CallersAre, SinglesAre
  <2> QED BY <1>1, <2>1, <2>2, <2>3
<1> HIDE DEF S
<1>2. p \in S
  BY <1>1, FromCallers, SinglesAre
<1> QED BY <1>2 DEF S

LEMMA OwnOrDominatorIs ==
  ASSUME prog \in Programs, NEW g \in Fun
  PROVE  /\ OwnOrDominator(g) \in Fun /\ Above(Calls, OwnOrDominator(g), g)
         /\ \A p \in SinglePaths : Above(Calls, p, g) => Above(Calls, p, OwnOrDominator(g))
<1>1. Calls \in SUBSET Pairs
  BY CallsAre
<1>2. CASE Cardinality(Callers(g)) = 1 \/ g = Top
  <2>1. OwnOrDominator(g) = g
    BY <1>2, DomFacts DEF OwnOrDominator
  <2> QED BY <1>1, <2>1, AboveSelf
<1>3. CASE Cardinality(Callers(g)) # 1 /\ g # Top
  <2>1. OwnOrDominator(g) = Dom[g]
    BY <1>3 DEF OwnOrDominator
  <2>2. g \notin SinglePaths
    BY <1>3, CallersAre, SinglesAre
  <2>3. SinglePaths \subseteq Fun
    BY SinglesAre
  <2> QED BY <1>3, <2>1, <2>2, <2>3, DomFacts
<1> QED BY <1>2, <1>3

LEMMA UnitIs ==
  ASSUME prog \in Programs, NEW f \in Fun, Cardinality(Callers(f)) > 1
  PROVE  /\ UnitOf(f) \in SinglePaths /\ UnitOf(f) < f
         /\ \A g \in Callers(f) : Above(Calls, UnitOf(f), g)
         /\ \A p \in SinglePaths : p # f /\ Above(Calls, p, f) => Above(Calls, p, UnitOf(f))
<1> DEFINE uses == {OwnOrDominator(g) : g \in Callers(f)}
           u == UnitOf(f)
<1>1. Calls \in SUBSET Pairs /\ Entered(Calls)
  BY CallsAre
<1>2. /\ Callers(f) \subseteq Fun /\ Callers(f) # {}
      /\ \A g \in Callers(f) : g < f /\ <<g, f>> \in Calls
  <2>1. f # Top
    BY CallersAre
  <2> QED BY <2>1, CallersAre
<1>3. uses \subseteq Fun /\ uses # {}
  BY <1>2, OwnOrDominatorIs
<1>4. Climbs(Dom) /\ SinglePaths \subseteq Fun /\ Top \in SinglePaths
  BY DomFacts, SinglesAre
<1>5. /\ u \in SinglePaths
      /\ \A x \in uses : OnChain(Dom, u, x)
      /\ \A p \in SinglePaths : (\A x \in uses : OnChain(Dom, p, x)) => OnChain(Dom, p, u)
  <2>1. CASE Cardinality(uses) = 1
    <3> DEFINE x == CHOOSE g \in uses : TRUE
    <3>1. IsFiniteSet(uses)
      <4> HIDE DEF uses
      <4> QED BY <1>3, FunIs, FS_Subset
    <3>2. uses = {x} /\ x \in Fun
      <4> HIDE DEF uses
      <4>1. \E y : uses = {y}
        BY <2>1, <3>1, FS_Singleton
      <4> QED BY <1>3, <4>1
    <3>3. u = Climb(Dom, SinglePaths)[x]
      BY <2>1 DEF UnitOf
    <3> HIDE DEF uses, u, x
    <3> QED BY <1>4, <3>2, <3>3, ClimbIs
  <2>2. CASE Cardinality(uses) # 1
    <3>1. u = Common(Dom, uses, SinglePaths)
      BY <2>2 DEF UnitOf
    <3> HIDE DEF uses, u
    <3>2. /\ u \in Fun /\ u \in SinglePaths \cup {Top}
          /\ \A x \in uses : OnChain(Dom, u, x)
          /\ \A p \in Fun :
               /\ \A x \in uses : OnChain(Dom, p, x)
               /\ \A y \in Fun : OnChain(Dom, y, p) => y \in SinglePaths
               => OnChain(Dom, p, u)
      BY <1>3, <1>4, <3>1, CommonIs
    <3>3. \A p \in SinglePaths, y \in Fun : OnChain(Dom, y, p) => y \in SinglePaths
      BY <1>4, ChainIsAbove, SinglesUpwards
    <3> QED BY <1>4, <3>2, <3>3
  <2> QED BY <2>1, <2>2
<1>6. ASSUME NEW g \in Callers(f) PROVE Above(Calls, u, g)
  <2>1. OwnOrDominator(g) \in uses /\ g \in Fun
    BY <1>2
  <2>2. Above(Calls, u, OwnOrDominator(g))
    BY <1>3, <1>4, <1>5, <2>1, ChainIsAbove
  <2> QED BY <1>1, <1>3, <1>4, <1>5, <2>1, <2>2, OwnOrDominatorIs, AboveTransitive
<1>7. u < f
  <2>1. PICK g \in Callers(f) : TRUE
    BY <1>2
  <2>2. u <= g /\ g < f /\ u \in Nat /\ g \in Nat /\ f \in Nat
    BY <1>1, <1>2, <1>4, <1>5, <1>6, <2>1, AboveIsLess, FunIs
  <2> HIDE DEF u
  <2> QED BY <2>2
<1>8. ASSUME NEW p \in SinglePaths, p # f, Above(Calls, p, f) PROVE Above(Calls, p, u)
  <2>1. \A g \in Callers(f) : Above(Calls, p, g)
    BY <1>1, <1>2, <1>4, <1>8, AboveStep
  <2>2. \A x \in uses : x \in Fun /\ Above(Calls, p, x)
    BY <1>2, <2>1, OwnOrDominatorIs
  <2>3. \A x \in uses : OnChain(Dom, p, x)
    <3> HIDE DEF uses
    <3> QED BY <1>4, <2>2, ChainIsAbove
  <2> HIDE DEF uses, u
  <2> QED BY <1>4, <1>5, <2>3, ChainIsAbove
<1> QED BY <1>5, <1>6, <1>7, <1>8

-----------------------------------------------------------------------------
(* The hierarchy of units once functions are shared. *)

SharedIs == shared = [f \in Shareable |-> UnitOf(f)]

LEMMA SharedAre ==
  ASSUME prog \in Programs, SharedIs
  PROVE  /\ DOMAIN shared = Shareable /\ Shareable \subseteq Fun
         /\ \A f \in DOMAIN shared :
              /\ Cardinality(Callers(f)) > 1 /\ f # Top
              /\ shared[f] = UnitOf(f) /\ shared[f] \in SinglePaths /\ shared[f] \in Fun
              /\ shared[f] < f /\ shared[f] \notin DOMAIN shared
<1>1. DOMAIN shared = Shareable /\ Shareable \subseteq Fun
  BY DEF SharedIs, Shareable
<1>2. \A f \in DOMAIN shared : f \in Fun /\ Cardinality(Callers(f)) > 1 /\ f # Top /\ shared[f] = UnitOf(f)
  <2>1. \A f \in Shareable : Cardinality(Callers(f)) > 1 /\ shared[f] = UnitOf(f)
    BY DEF SharedIs, Shareable
  <2> QED BY <1>1, <2>1, CallersAre
<1>3. \A f \in DOMAIN shared : shared[f] \in SinglePaths /\ shared[f] < f
  BY <1>2, UnitIs
<1>4. \A p \in SinglePaths : p \in Fun /\ p \notin DOMAIN shared
  <2> SUFFICES ASSUME NEW p \in SinglePaths, p \in DOMAIN shared PROVE FALSE
    BY SinglesAre
  <2>1. p \in Fun /\ p # Top /\ Cardinality(Callers(p)) > 1
    BY <1>2
  <2>2. Cardinality(Callers(p)) = 1
    BY <2>1, SinglesAre, CallersAre
  <2> QED BY <2>1, <2>2
<1> QED BY <1>1, <1>2, <1>3, <1>4

LEMMA HierarchyIs ==
  ASSUME prog \in Programs, SharedIs
  PROVE  /\ Hierarchy \in SUBSET Pairs /\ Entered(Hierarchy)
         /\ \A f \in Fun, g \in Fun :
              <<g, f>> \in Hierarchy <=>
                IF f \in DOMAIN shared THEN g = shared[f] ELSE g \in Callers(f)
<1>1. \A f \in DOMAIN shared : f \in Fun /\ shared[f] \in Fun /\ shared[f] < f
  BY SharedAre
<1>2. Hierarchy \in SUBSET Pairs
  <2>1. Calls \subseteq Pairs /\ \A f \in DOMAIN shared : <<shared[f], f>> \in Pairs
    BY <1>1, CallsAre DEF Pairs
  <2> QED BY <2>1 DEF Hierarchy
<1>3. ASSUME NEW f \in Fun, NEW g \in Fun
      PROVE  <<g, f>> \in Hierarchy <=>
               IF f \in DOMAIN shared THEN g = shared[f] ELSE g \in Callers(f)
  BY <1>1 DEF Hierarchy, Callers
<1>4. ASSUME NEW f \in Fun \ {Top} PROVE \E g \in Fun : <<g, f>> \in Hierarchy
  <2>1. CASE f \in DOMAIN shared
    BY <1>1, <1>3, <2>1
  <2>2. CASE f \notin DOMAIN shared
    BY <1>3, <2>2, CallersAre
  <2> QED BY <2>1, <2>2
<1> QED BY <1>2, <1>3, <1>4 DEF Entered

LEMMA EnclosesIs ==
  ASSUME prog \in Programs, SharedIs, NEW d \in Fun, NEW v \in Fun
  PROVE  /\ Encloses(d, v) <=> Above(Hierarchy, d, v)
         /\ Encloses(d, v) <=>
              \/ d = v
              \/ v # Top /\ IF v \in DOMAIN shared THEN Encloses(d, shared[v])
                            ELSE \A g \in Callers(v) : Encloses(d, g)
<1>1. \A x \in Fun : Encloses(d, x) <=> Above(Hierarchy, d, x)
  BY DEF Encloses, Above
<1>2. Above(Hierarchy, d, v) <=>
        d = v \/ (v # Top /\ \A g \in Fun : <<g, v>> \in Hierarchy => Above(Hierarchy, d, g))
  BY HierarchyIs, AboveStep
<1>3. CASE v \in DOMAIN shared
  <2>1. shared[v] \in Fun /\ \A g \in Fun : <<g, v>> \in Hierarchy <=> g = shared[v]
    BY <1>3, SharedAre, HierarchyIs
  <2> QED BY <1>1, <1>2, <1>3, <2>1
<1>4. CASE v \notin DOMAIN shared
  <2>1. Callers(v) \subseteq Fun /\ \A g \in Fun : <<g, v>> \in Hierarchy <=> g \in Callers(v)
    BY <1>4, CallersAre, HierarchyIs
  <2> QED BY <1>1, <1>2, <1>4, <2>1
<1> QED BY <1>3, <1>4

\* What is reached in one way and dominates a function encloses it, wherever
\* units are shared from.
LEMMA SinglesEnclose ==
  ASSUME prog \in Programs, SharedIs,
         NEW p \in SinglePaths, NEW v \in Fun, Above(Calls, p, v)
  PROVE  Encloses(p, v)
<1> DEFINE S == {f \in Fun : Above(Calls, p, f) => Encloses(p, f)}
<1>1. p \in Fun
  BY SinglesAre
<1>2. ASSUME NEW f \in Fun, \A g \in Fun : g < f => g \in S PROVE f \in S
  <2> SUFFICES ASSUME Above(Calls, p, f), p # f PROVE Encloses(p, f)
    BY <1>1, EnclosesIs
  <2>1. f # Top /\ \A g \in Fun : <<g, f>> \in Calls => Above(Calls, p, g)
    BY <1>1, CallsAre, AboveStep
  <2>2. CASE f \in DOMAIN shared
    <3>1. Cardinality(Callers(f)) > 1 /\ shared[f] = UnitOf(f) /\ shared[f] < f /\ shared[f] \in Fun
      BY <2>2, SharedAre
    <3>2. Above(Calls, p, shared[f])
      BY <3>1, UnitIs
    <3>3. Encloses(p, shared[f])
      BY <1>2, <3>1, <3>2
    <3> QED BY <1>1, <2>1, <2>2, <3>3, EnclosesIs
  <2>3. CASE f \notin DOMAIN shared
    <3>1. \A g \in Callers(f) : g \in Fun /\ g < f /\ <<g, f>> \in Calls
      BY CallersAre
    <3>2. \A g \in Callers(f) : Encloses(p, g)
      BY <1>2, <2>1, <3>1
    <3> QED BY <1>1, <2>1, <2>3, <3>2, EnclosesIs
  <2> QED BY <2>2, <2>3
<1> HIDE DEF S
<1>3. v \in S
  BY <1>2, FromCallers
<1> QED BY <1>3 DEF S

\* How often a unit is there in the hierarchy.
LEMMA UnitsAre ==
  ASSUME prog \in Programs, SharedIs
  PROVE  /\ Units[Top] = 1
         /\ \A f \in DOMAIN shared : Units[f] = Units[shared[f]]
         /\ \A f \in Fun \ (DOMAIN shared \cup {Top}) :
              Units[f] = 1 <=>
                \E g \in Fun : /\ Callers(f) = {g} /\ Units[g] = 1
                               /\ f \in OneUnit \/ prog.calls[<<g, f>>] = 1
<1> DEFINE Per(g, f) == UnitsFor(f, prog.calls[<<g, f>>])
           Sum(f, c) == SumFunction([g \in Callers(f) |-> c[g] * Per(g, f)])
           Body(f, c) == IF f = Top THEN 1
                         ELSE IF f \in DOMAIN shared THEN c[shared[f]] ELSE Sum(f, c)
           P == Nat \ {0}
           F == [p \in Fun \X [Fun -> P] |-> Body(p[1], p[2])]
<1>1. ASSUME NEW f \in Fun \ {Top}, NEW c, \A g \in Callers(f) : c[g] \in Nat \ {0}
      PROVE  /\ Sum(f, c) \in P
             /\ Sum(f, c) = 1 <=> \E g \in Fun : Callers(f) = {g} /\ c[g] = 1 /\ Per(g, f) = 1
  <2> DEFINE points == [e \in Calls |-> Per(e[1], e[2])]
  <2>1. \A g \in Callers(f) : <<g, f>> \in Calls /\ points[<<g, f>>] = Per(g, f)
    BY CallersAre
  <2>2. \A g \in Callers(f) : Per(g, f) \in Nat \ {0}
    <3>1. \A g \in Callers(f) : prog.calls[<<g, f>>] \in Nat \ {0}
      BY <2>1, CallsAre
    <3>2. prog.limit[f] \in Nat
      BY ProgramsAssumption
    <3> QED BY <3>1, <3>2 DEF UnitsFor
  <2> HIDE DEF Per, points
  <2>3. \A g \in Callers(f) : c[g] \in Nat \ {0} /\ points[<<g, f>>] \in Nat \ {0}
    BY <1>1, <2>1, <2>2
  <2>4. [g \in Callers(f) |-> c[g] * Per(g, f)] = [g \in Callers(f) |-> c[g] * points[<<g, f>>]]
    BY <2>1
  <2>5. /\ SumFunction([g \in Callers(f) |-> c[g] * points[<<g, f>>]]) \in Nat \ {0}
        /\ SumFunction([g \in Callers(f) |-> c[g] * points[<<g, f>>]]) = 1 <=>
             \E g \in Fun : Callers(f) = {g} /\ c[g] = 1 /\ points[<<g, f>>] = 1
    BY <2>3, SumOfCallers
  <2>6. \A g \in Fun : Callers(f) = {g} => points[<<g, f>>] = Per(g, f)
    BY <2>1
  <2> QED BY <2>4, <2>5, <2>6
<1>2. ASSUME NEW f \in Fun, NEW c, c \in [Fun -> P] PROVE Body(f, c) \in P
  <2>1. CASE f # Top /\ f \notin DOMAIN shared
    <3>1. \A g \in Callers(f) : c[g] \in Nat \ {0}
      BY <1>2, CallersAre
    <3>2. Sum(f, c) \in P
      BY <1>1, <2>1, <3>1
    <3> HIDE DEF Sum, P
    <3> QED BY <2>1, <3>2
  <2>2. CASE ~(f # Top /\ f \notin DOMAIN shared)
    <3>1. f \in DOMAIN shared => shared[f] \in Fun
      BY SharedAre
    <3> HIDE DEF Sum
    <3> QED BY <1>2, <2>2, <3>1
  <2> QED BY <2>1, <2>2
<1>3. ASSUME NEW f \in Fun, NEW c, NEW d, \A g \in Fun : g < f => c[g] = d[g]
      PROVE  Body(f, c) = Body(f, d)
  <2>1. \A g \in Callers(f) : c[g] = d[g]
    BY <1>3, CallersAre
  <2>2. [g \in Callers(f) |-> c[g] * Per(g, f)] = [g \in Callers(f) |-> d[g] * Per(g, f)]
    BY <2>1
  <2>3. f \in DOMAIN shared => c[shared[f]] = d[shared[f]]
    BY <1>3, SharedAre
  <2> QED BY <2>2, <2>3
<1>4. PICK c \in [Fun -> P] : \A f \in Fun : c[f] = Body(f, c)
  <2>1. \A f \in Fun, c \in [Fun -> P] : F[<<f, c>>] = Body(f, c)
    OBVIOUS
  <2>2. P # {}
    OBVIOUS
  <2> HIDE DEF Body, F, P
  <2>3. Stepwise(P, F)
    BY <1>2, <1>3, <2>1, <2>2 DEF Stepwise
  <2>4. Solved(P, F)
    BY <2>3, Recursion
  <2> QED BY <2>1, <2>4 DEF Solved
<1> DEFINE n == Units
<1>5. n = [f \in Fun |-> Body(f, n)]
  <2>1. c = [f \in Fun |-> Body(f, c)]
    BY <1>4
  <2> QED BY <2>1 DEF Units
<1> HIDE DEF n
<1>6. n \in [Fun -> P]
  <2> DEFINE S == {f \in Fun : n[f] = c[f]}
  <2>1. ASSUME NEW f \in Fun, \A g \in Fun : g < f => g \in S PROVE f \in S
    <3>1. \A g \in Fun : g < f => c[g] = n[g]
      BY <2>1
    <3>2. Body(f, c) = Body(f, n)
      BY <1>3, <3>1
    <3> HIDE DEF Body
    <3> QED BY <1>4, <1>5, <3>2
  <2> HIDE DEF S
  <2>2. Fun \subseteq S
    BY <2>1, FromCallers
  <2> HIDE DEF Body, P
  <2> QED BY <1>4, <1>5, <2>2 DEF S
<1>7. \A f \in Fun : n[f] = Body(f, n)
  <2> HIDE DEF Body
  <2> QED BY <1>5
<1>8. n[Top] = 1
  BY <1>7, FunIs
<1>9. ASSUME NEW f \in DOMAIN shared PROVE n[f] = n[shared[f]]
  <2>1. f \in Fun /\ f # Top
    BY SharedAre
  <2> HIDE DEF Sum
  <2> QED BY <1>7, <2>1
<1>10. ASSUME NEW f \in Fun \ (DOMAIN shared \cup {Top})
       PROVE  n[f] = 1 <=> \E g \in Fun : Callers(f) = {g} /\ n[g] = 1 /\ Per(g, f) = 1
  <2>1. n[f] = Sum(f, n)
    <3> HIDE DEF Sum
    <3> QED BY <1>7
  <2>2. \A g \in Callers(f) : n[g] \in Nat \ {0}
    BY <1>6, CallersAre
  <2> HIDE DEF Sum, Per
  <2> QED BY <1>1, <2>1, <2>2
<1>11. ASSUME NEW f \in Fun, NEW g \in Callers(f)
       PROVE  Per(g, f) = 1 <=> f \in OneUnit \/ prog.calls[<<g, f>>] = 1
  <2>1. prog.calls[<<g, f>>] \in Nat \ {0}
    BY CallersAre, CallsAre
  <2>2. prog.limit[f] \in Nat
    BY ProgramsAssumption
  <2> QED BY <2>1, <2>2 DEF UnitsFor, OneUnit
<1> HIDE DEF Per
<1>12. ASSUME NEW f \in Fun \ (DOMAIN shared \cup {Top})
       PROVE  n[f] = 1 <=> \E g \in Fun : /\ Callers(f) = {g} /\ n[g] = 1
                                          /\ f \in OneUnit \/ prog.calls[<<g, f>>] = 1
  <2>1. n[f] = 1 <=> \E g \in Fun : Callers(f) = {g} /\ n[g] = 1 /\ Per(g, f) = 1
    BY <1>10
  <2>2. \A g \in Fun : Callers(f) = {g} =>
          (Per(g, f) = 1 <=> f \in OneUnit \/ prog.calls[<<g, f>>] = 1)
    BY <1>11
  <2> QED BY <2>1, <2>2
<1> HIDE DEF F, P
<1>13. Units = n
  BY DEF n
<1> QED BY <1>8, <1>9, <1>12, <1>13

LEMMA SinglesOnce ==
  ASSUME prog \in Programs, SharedIs, NEW p \in SinglePaths
  PROVE  Units[p] = 1
<1> DEFINE S == {f \in Fun : f \in SinglePaths => Units[f] = 1}
<1>1. ASSUME NEW f \in Fun, \A g \in Fun : g < f => g \in S PROVE f \in S
  <2> SUFFICES ASSUME f \in SinglePaths, f # Top PROVE Units[f] = 1
    BY UnitsAre
  <2>1. PICK g \in SinglePaths : Callers(f) = {g} /\ prog.calls[<<g, f>>] = 1
    BY SinglesAre
  <2>2. g \in Fun /\ g < f /\ Cardinality(Callers(f)) = 1
    BY <2>1, CallersAre, SinglesAre
  <2>3. f \notin DOMAIN shared
    BY <2>2, SharedAre
  <2> QED BY <1>1, <2>1, <2>2, <2>3, UnitsAre
<1> HIDE DEF S
<1>2. p \in S
  BY <1>1, FromCallers, SinglesAre
<1> QED BY <1>2 DEF S

\* A shared function is served by one unit, above all its callers.
LEMMA FunctionsServed ==
  ASSUME prog \in Programs, SharedIs, NEW f \in DOMAIN shared
  PROVE  Units[f] = 1 /\ \A g \in Callers(f) : Encloses(shared[f], g)
<1>1. f \in Fun /\ Cardinality(Callers(f)) > 1 /\ shared[f] = UnitOf(f) /\ shared[f] \in SinglePaths
  BY SharedAre
<1>2. Units[f] = 1
  BY <1>1, SinglesOnce, UnitsAre
<1>3. \A g \in Callers(f) : g \in Fun /\ Above(Calls, shared[f], g)
  BY <1>1, UnitIs, CallersAre
<1> QED BY <1>1, <1>2, <1>3, SinglesEnclose

-----------------------------------------------------------------------------
(***************************************************************************)
(* mem_dominator_allocation: a variable is put above all that use it.      *)
(***************************************************************************)
\* Whatever several functions call is shared by them.
AllShared ==
  \/ prog.noProxy
  \/ \A f \in Fun : Cardinality(Callers(f)) > 1 => /\ f \notin prog.limited
                                                 /\ UnitOf(f) \notin prog.limited

LEMMA AllSharedIs ==
  ASSUME prog \in Programs, SharedIs, AllShared
  PROVE  \/ DOMAIN shared = {} /\ Hierarchy = Calls
         \/ ~prog.noProxy /\ \A f \in Fun : Cardinality(Callers(f)) > 1 => f \in DOMAIN shared
<1>1. DOMAIN shared = Shareable
  BY SharedAre
<1>2. CASE prog.noProxy
  <2>1. DOMAIN shared = {}
    BY <1>1, <1>2 DEF Shareable
  <2>2. Hierarchy = Calls
    <3>1. {<<shared[f], f>> : f \in DOMAIN shared} = {}
      BY <2>1
    <3>2. {e \in Calls : e[2] \notin DOMAIN shared} = Calls
      BY <2>1
    <3> QED BY <3>1, <3>2 DEF Hierarchy
  <2> QED BY <2>1, <2>2
<1>3. CASE ~prog.noProxy
  BY <1>1, <1>3 DEF Shareable, AllShared
<1> QED BY <1>2, <1>3

LEMMA EnclosesTransitive ==
  ASSUME prog \in Programs, SharedIs, NEW a \in Fun, NEW b \in Fun, NEW v \in Fun,
         Encloses(a, b), Encloses(b, v)
  PROVE  Encloses(a, v)
  BY HierarchyIs, EnclosesIs, AboveTransitive

LEMMA RemappedIs ==
  ASSUME prog \in Programs, SharedIs, NEW f \in Fun
  PROVE  /\ Remapped(f) \in Fun /\ Remapped(f) \notin DOMAIN shared /\ Remapped(f) <= f
         /\ Encloses(Remapped(f), f)
         /\ f \in DOMAIN shared => Remapped(f) \in SinglePaths
         /\ f \notin DOMAIN shared => Remapped(f) = f
<1>1. CASE f \in DOMAIN shared
  <2>1. /\ shared[f] \in Fun /\ shared[f] \in SinglePaths /\ shared[f] < f
        /\ shared[f] \notin DOMAIN shared /\ f # Top
    BY <1>1, SharedAre
  <2>2. Remapped(f) = shared[f]
    BY <1>1 DEF Remapped
  <2>3. Encloses(shared[f], shared[f])
    BY <2>1, EnclosesIs
  <2>4. Encloses(shared[f], f)
    BY <1>1, <2>1, <2>3, EnclosesIs
  <2> QED BY <1>1, <2>1, <2>2, <2>4, FunIs
<1>2. CASE f \notin DOMAIN shared
  <2>1. Remapped(f) = f
    BY <1>2 DEF Remapped
  <2>2. Encloses(f, f)
    BY EnclosesIs
  <2> QED BY <1>2, <2>1, <2>2, FunIs
<1> QED BY <1>1, <1>2

LEMMA UpIs ==
  ASSUME prog \in Programs, SharedIs
  PROVE  /\ Climbs(Up) /\ Up[Top] = Top
         /\ \A f \in Fun : Up[f] = Remapped(Dom[f]) /\ Up[f] \in Fun \ DOMAIN shared
<1>1. \A f \in Fun : Up[f] = Remapped(Dom[f]) /\ Dom[f] \in Fun
  BY DomFacts DEF Up, Climbs
<1>2. \A f \in Fun : Up[f] \in Fun \ DOMAIN shared
  BY <1>1, RemappedIs
<1>3. Up \in [Fun -> Fun]
  BY <1>2 DEF Up
<1>4. ASSUME NEW f \in Fun \ {Top} PROVE Up[f] < f
  <2>1. Up[f] <= Dom[f] /\ Dom[f] < f
    BY <1>1, DomFacts, RemappedIs
  <2>2. Up[f] \in Nat /\ Dom[f] \in Nat /\ f \in Nat
    BY <1>1, <1>2, FunIs
  <2> QED BY <2>1, <2>2
<1>5. Up[Top] = Top
  <2>1. Top \in Fun /\ Dom[Top] = Top
    BY FunIs, DomFacts
  <2>2. Top \notin DOMAIN shared
    BY SharedAre
  <2> QED BY <1>1, <2>1, <2>2 DEF Remapped
<1> QED BY <1>1, <1>2, <1>3, <1>4, <1>5 DEF Climbs

LEMMA UpEncloses ==
  ASSUME prog \in Programs, SharedIs, AllShared, NEW x \in Fun \ DOMAIN shared
  PROVE  Encloses(Up[x], x)
<1>1. Up[x] = Remapped(Dom[x]) /\ Up[x] \in Fun /\ Dom[x] \in Fun
  BY UpIs, DomFacts DEF Climbs
<1>2. Encloses(Up[x], Dom[x])
  BY <1>1, RemappedIs
<1>3. CASE x = Top
  BY <1>3, UpIs, EnclosesIs
<1>4. CASE x # Top /\ Cardinality(Callers(x)) = 1
  <2>1. PICK g \in Fun : Callers(x) = {g}
    BY <1>4, CallersAre
  <2>2. g < x /\ g # x /\ g \in Nat /\ \A h \in Fun : <<h, x>> \in Calls <=> h = g
    <3>1. g \in Nat /\ x \in Nat
      BY FunIs
    <3>2. g < x
      BY <2>1, CallersAre
    <3>3. \A h \in Fun : <<h, x>> \in Calls <=> h = g
      BY <2>1 DEF Callers
    <3> QED BY <3>1, <3>2, <3>3
  <2>3. Above(Calls, g, x)
    BY <1>4, <2>2, CallsAre, AboveStep, AboveSelf
  <2>4. Above(Calls, g, Dom[x])
    BY <1>4, <2>2, <2>3, DomFacts
  <2>5. Dom[x] < x /\ Above(Calls, Dom[x], x) /\ x \in Nat
    BY <1>4, DomFacts, FunIs
  <2>6. Dom[x] # x
    BY <2>5
  <2>7. Above(Calls, Dom[x], g)
    BY <1>1, <2>2, <2>5, <2>6, CallsAre, AboveStep
  <2>8. g <= Dom[x] /\ Dom[x] <= g /\ Dom[x] \in Nat
    BY <1>1, <2>4, <2>7, CallsAre, AboveIsLess, FunIs
  <2>9. Dom[x] = g
    BY <2>2, <2>8
  <2> QED BY <1>1, <1>2, <1>4, <2>1, <2>9, EnclosesIs
<1>5. CASE x # Top /\ Cardinality(Callers(x)) # 1
  <2>1. Cardinality(Callers(x)) > 1
    BY <1>5, CallersAre
  <2>2. DOMAIN shared = {} /\ Hierarchy = Calls
    BY <2>1, AllSharedIs
  <2>3. Up[x] = Dom[x]
    BY <1>1, <2>2 DEF Remapped
  <2>4. Above(Calls, Dom[x], x)
    BY <1>5, DomFacts
  <2> QED BY <1>1, <2>2, <2>3, <2>4, EnclosesIs
<1> QED BY <1>3, <1>4, <1>5

LEMMA OnUpEncloses ==
  ASSUME prog \in Programs, SharedIs, AllShared,
         NEW x \in Fun \ DOMAIN shared, NEW p, OnChain(Up, p, x)
  PROVE  p \in Fun /\ Encloses(p, x)
<1> DEFINE S == {f \in Fun : f \notin DOMAIN shared /\ OnChain(Up, p, f) => p \in Fun /\ Encloses(p, f)}
<1>1. ASSUME NEW f \in Fun, \A g \in Fun : g < f => g \in S PROVE f \in S
  <2> SUFFICES ASSUME f \notin DOMAIN shared, OnChain(Up, p, f) PROVE p \in Fun /\ Encloses(p, f)
    OBVIOUS
  <2>1. CASE p = f
    BY <2>1, EnclosesIs
  <2>2. CASE p # f
    <3>1. f # Top /\ OnChain(Up, p, Up[f]) /\ Up[f] \in Fun \ DOMAIN shared /\ Up[f] < f
      BY <2>2, UpIs, OnChainStep DEF Climbs
    <3>2. p \in Fun /\ Encloses(p, Up[f])
      BY <1>1, <3>1
    <3>3. Encloses(Up[f], f)
      BY UpEncloses
    <3> QED BY <3>1, <3>2, <3>3, EnclosesTransitive
  <2> QED BY <2>1, <2>2
<1> HIDE DEF S
<1>2. x \in S
  BY <1>1, FromCallers
<1> QED BY <1>2 DEF S

LEMMA FiledIs ==
  ASSUME prog \in Programs, SharedIs, AllShared, NEW v, NEW f \in Fun
  PROVE  FiledUnder(v, f) \in Fun \ DOMAIN shared /\ Encloses(FiledUnder(v, f), f)
<1> DEFINE r == Remapped(f)
<1>1. r \in Fun \ DOMAIN shared /\ Encloses(r, f)
  BY RemappedIs
<1>2. FiledUnder(v, f) = r \/ FiledUnder(v, f) = Remapped(Dom[r])
  BY DEF FiledUnder
<1> HIDE DEF r
<1>3. Remapped(Dom[r]) = Up[r] /\ Up[r] \in Fun \ DOMAIN shared /\ Encloses(Up[r], r)
  BY <1>1, UpIs, UpEncloses
<1>4. Encloses(Up[r], f)
  BY <1>1, <1>3, EnclosesTransitive
<1> QED BY <1>1, <1>2, <1>3, <1>4

LEMMA TypesOfProgram ==
  ASSUME prog \in Programs
  PROVE  /\ prog.limited \subseteq Fun
         /\ \A v \in Var : /\ Of(v).users \subseteq Fun /\ Of(v).users # {}
                           /\ Of(v).internal \in BOOLEAN /\ Of(v).state \in BOOLEAN
                           /\ Of(v).written \in BOOLEAN /\ Of(v).dynamic \in BOOLEAN
                           /\ Of(v).size \in Sizes /\ Of(v).alignment \in Alignments
<1>1. prog.vars \in [Var -> Variables] /\ prog.limited \subseteq Fun
  BY ProgramsAssumption
<1>2. \A v \in Var : Of(v) \in Variables
  BY <1>1 DEF Of
<1>3. ASSUME NEW w \in Variables
      PROVE  /\ w.users \subseteq Fun /\ w.users # {}
             /\ w.internal \in BOOLEAN /\ w.state \in BOOLEAN /\ w.written \in BOOLEAN
             /\ w.dynamic \in BOOLEAN /\ w.size \in Sizes /\ w.alignment \in Alignments
  <2>1. w.users \subseteq Fun /\ w.users # {}
    <3>1. w.users \in (SUBSET Fun) \ {{}}
      BY DEF Variables
    <3> QED BY <3>1
  <2>2. w.internal \in BOOLEAN /\ w.state \in BOOLEAN /\ w.written \in BOOLEAN /\ w.dynamic \in BOOLEAN
    BY DEF Variables
  <2>3. w.size \in Sizes /\ w.alignment \in Alignments
    BY DEF Variables
  <2> QED BY <2>1, <2>2, <2>3, Zenon
<1> QED BY <1>1, <1>2, <1>3

LEMMA InstancesAre ==
  ASSUME prog \in Programs
  PROVE  /\ Top \in Single /\ Single \subseteq Fun
         /\ \A f \in Single \ (DOMAIN shared \cup OneUnit \cup {Top}) :
              \E g \in Single : /\ Callers(f) = {g}
                                /\ (prog.mapped /\ g = Top) \/ prog.calls[<<g, f>>] = 1
<1> DEFINE fixed == DOMAIN shared \cup OneUnit
           points == [e \in Calls |-> IF prog.mapped /\ e[1] = Top THEN 1 ELSE prog.calls[e]]
           n == Counted(fixed, points)
<1>1. \A e \in Calls : points[e] \in Nat \ {0}
  <2>1. \A e \in Calls : prog.calls[e] \in Nat \ {0}
    BY CallsAre
  <2> QED BY <2>1
<1>2. \A f \in Fun : n[f] = 1 <=>
        \/ f = Top \/ f \in fixed
        \/ \E g \in Fun : Callers(f) = {g} /\ n[g] = 1 /\ points[<<g, f>>] = 1
  <2> HIDE DEF fixed, points
  <2> QED BY <1>1, Counts
<1>3. \A f \in Fun, g \in Fun :
        Callers(f) = {g} => points[<<g, f>>] = IF prog.mapped /\ g = Top THEN 1 ELSE prog.calls[<<g, f>>]
  BY CallersAre
<1>4. Single = {f \in Fun : n[f] = 1}
  BY DEF Single, Instances
<1> HIDE DEF n, points
<1> QED BY <1>2, <1>3, <1>4, FunIs

\* Where a variable is put encloses all that use it.
LEMMA PlacedEncloses ==
  ASSUME prog \in Programs, SharedIs, AllShared, NEW v \in Var
  PROVE  Placed(v) \in Fun /\ \A f \in Of(v).users : Encloses(Placed(v), f)
<1> DEFINE uses == {FiledUnder(v, f) : f \in Of(v).users}
           only == CHOOSE f \in uses : TRUE
           single == IF IsWritten(v) THEN Single ELSE Fun
           q == Placed(v)
<1>1. Of(v).users \subseteq Fun /\ Of(v).users # {}
  BY TypesOfProgram
<1>2. uses \subseteq Fun \ DOMAIN shared /\ uses # {} /\ only \in uses
  BY <1>1, FiledIs
<1>3. ASSUME NEW f \in Of(v).users, OnChain(Up, q, FiledUnder(v, f)) PROVE q \in Fun /\ Encloses(q, f)
  <2>1. f \in Fun /\ FiledUnder(v, f) \in Fun \ DOMAIN shared /\ Encloses(FiledUnder(v, f), f)
    BY <1>1, FiledIs
  <2>2. q \in Fun /\ Encloses(q, FiledUnder(v, f))
    <3> HIDE DEF q
    <3> QED BY <1>3, <2>1, OnUpEncloses
  <2> QED BY <2>1, <2>2, EnclosesTransitive
<1>4. CASE prog.noLocal
  <2>1. q = Top
    BY <1>4 DEF Placed
  <2>2. \A f \in Fun : Encloses(Top, f)
    BY FunIs, HierarchyIs, EnclosesIs, AboveTop
  <2> QED BY <1>1, <2>1, <2>2, FunIs
<1>5. CASE ~prog.noLocal /\ Cardinality(uses) = 1
  <2>1. q = Climb(Up, Single)[only] \/ q = only
    BY <1>5 DEF Placed
  <2> HIDE DEF q, only
  <2>2. \A f \in Of(v).users : FiledUnder(v, f) = only
    <3>1. IsFiniteSet(uses)
      <4> HIDE DEF uses
      <4>1. uses \subseteq Fun
        BY <1>2
      <4> QED BY <4>1, FunIs, FS_Subset
    <3>2. \E y : uses = {y}
      <4> HIDE DEF uses
      <4> QED BY <1>5, <3>1, FS_Singleton
    <3> QED BY <1>2, <3>2
  <2>3. only \in Fun
    BY <1>2
  <2>4. OnChain(Up, q, only)
    BY <2>1, <2>3, UpIs, InstancesAre, ClimbIs, OnChainStep
  <2> QED BY <1>1, <1>3, <2>2, <2>4 DEF q
<1>6. CASE ~prog.noLocal /\ Cardinality(uses) # 1
  <2>1. q = Common(Up, uses, single)
    BY <1>6 DEF Placed
  <2> HIDE DEF q, single
  <2>2. \A x \in uses : OnChain(Up, q, x)
    <3> HIDE DEF uses
    <3> QED BY <1>2, <2>1, UpIs, CommonIs
  <2>3. \A f \in Of(v).users : OnChain(Up, q, FiledUnder(v, f))
    BY <2>2
  <2> QED BY <1>1, <1>3, <2>3 DEF q
<1> QED BY <1>4, <1>5, <1>6

-----------------------------------------------------------------------------
(***************************************************************************)
(* A variable that keeps its value is where there is a single unit.        *)
(***************************************************************************)
\* The number of units mem_dominator_allocation counts with is that of the
\* circuit: a function is constrained to one unit only where it is reached
\* along one path anyway, a memory-mapped top function calls no function
\* twice, and a function that several call is shared or has a dominator that
\* is there once.
KeptOnce ==
  /\ OneUnit \subseteq SinglePaths
  /\ prog.mapped => \A f \in Fun \ {Top} : prog.calls[<<Top, f>>] <= 1
  /\ \A f \in Fun : Cardinality(Callers(f)) > 1 => f \in Shareable \/ Dom[f] \in SinglePaths

LEMMA InstancesOnce ==
  ASSUME prog \in Programs, SharedIs, KeptOnce, NEW p \in Single
  PROVE  Units[p] = 1
<1> DEFINE S == {f \in Fun : f \in Single => Units[f] = 1}
<1>1. ASSUME NEW f \in Fun, \A g \in Fun : g < f => g \in S PROVE f \in S
  <2> SUFFICES ASSUME f \in Single PROVE Units[f] = 1
    OBVIOUS
  <2>1. CASE f = Top
    BY <2>1, UnitsAre
  <2>2. CASE f \in DOMAIN shared
    BY <2>2, FunctionsServed
  <2>3. CASE f \in OneUnit
    BY <2>3, SinglesOnce DEF KeptOnce
  <2>4. CASE f \notin DOMAIN shared \cup OneUnit \cup {Top}
    <3>1. PICK g \in Single : /\ Callers(f) = {g}
                              /\ (prog.mapped /\ g = Top) \/ prog.calls[<<g, f>>] = 1
      BY <2>4, InstancesAre
    <3>2. g \in Fun /\ g < f /\ <<g, f>> \in Calls
      BY <3>1, InstancesAre, CallersAre
    <3>3. prog.calls[<<g, f>>] \in Nat \ {0}
      BY <3>2, CallsAre
    <3>4. prog.calls[<<g, f>>] = 1
      <4>1. CASE prog.mapped /\ g = Top
        <5>1. prog.calls[<<g, f>>] <= 1
          BY <2>4, <4>1 DEF KeptOnce
        <5> QED BY <3>3, <5>1
      <4> QED BY <3>1, <4>1
    <3>5. Units[g] = 1
      BY <1>1, <3>1, <3>2
    <3> QED BY <2>4, <3>1, <3>2, <3>4, <3>5, UnitsAre
  <2> QED BY <2>1, <2>2, <2>3, <2>4
<1> HIDE DEF S
<1>2. p \in S
  BY <1>1, FromCallers, InstancesAre
<1> QED BY <1>2 DEF S

\* A state variable is filed under a function that uses it, or one that is
\* there once.
LEMMA FiledOnce ==
  ASSUME prog \in Programs, SharedIs, KeptOnce, NEW v, Of(v).state, NEW f \in Fun
  PROVE  FiledUnder(v, f) \in Fun /\ (FiledUnder(v, f) = f \/ FiledUnder(v, f) \in SinglePaths)
<1> DEFINE r == Remapped(f)
<1>1. r \in Fun /\ r \notin DOMAIN shared /\ (r = f \/ r \in SinglePaths)
  BY RemappedIs
<1>2. FiledUnder(v, f) = IF Cardinality(Callers(r)) # 1 THEN Remapped(Dom[r]) ELSE r
  BY DEF FiledUnder
<1> HIDE DEF r
<1>3. CASE Cardinality(Callers(r)) = 1
  BY <1>1, <1>2, <1>3
<1>4. CASE r = Top
  <2>1. Remapped(Dom[r]) = Top
    BY <1>1, <1>4, UpIs
  <2>2. Cardinality(Callers(r)) # 1
    BY <1>1, <1>4, CallersAre
  <2> QED BY <1>2, <2>1, <2>2, SinglesAre, FunIs
<1>5. CASE Cardinality(Callers(r)) # 1 /\ r # Top
  <2>1. Cardinality(Callers(r)) > 1
    BY <1>1, <1>5, CallersAre
  <2>2. Dom[r] \in SinglePaths
    BY <1>1, <2>1, SharedAre DEF KeptOnce
  <2>3. Dom[r] \in Fun /\ Dom[r] \notin DOMAIN shared
    <3>1. Dom[r] \in Fun
      BY <2>2, SinglesAre
    <3>2. Cardinality(Callers(Dom[r])) = 1 \/ Dom[r] = Top
      BY <2>2, <3>1, SinglesAre, CallersAre
    <3>3. Cardinality(Callers(Dom[r])) = 1 \/ Cardinality(Callers(Dom[r])) = 0
      BY <3>1, <3>2, CallersAre
    <3> QED BY <3>1, <3>3, SharedAre
  <2>4. Remapped(Dom[r]) = Dom[r]
    BY <2>3, RemappedIs
  <2> QED BY <1>2, <1>5, <2>2, <2>3, <2>4
<1> QED BY <1>3, <1>4, <1>5

LEMMA PlacedOnce ==
  ASSUME prog \in Programs, SharedIs, KeptOnce, NEW v \in Var, Of(v).state, Of(v).written
  PROVE  Units[Placed(v)] = 1
<1> DEFINE uses == {FiledUnder(v, f) : f \in Of(v).users}
           only == CHOOSE f \in uses : TRUE
           single == IF IsWritten(v) THEN Single ELSE Fun
           q == Placed(v)
<1>1. Of(v).users \subseteq Fun /\ Of(v).users # {}
  BY TypesOfProgram
<1>2. uses \subseteq Fun /\ uses # {} /\ only \in uses
  BY <1>1, FiledOnce
<1>3. IsWritten(v)
  BY DEF IsWritten
<1>4. CASE prog.noLocal
  BY <1>4, UnitsAre DEF Placed
<1>5. CASE ~prog.noLocal /\ Cardinality(uses) = 1
  <2>1. q = IF only \in Of(v).users THEN Climb(Up, Single)[only] ELSE only
    BY <1>3, <1>5 DEF Placed
  <2>2. PICK f \in Of(v).users : only = FiledUnder(v, f)
    BY <1>2
  <2> HIDE DEF q, only
  <2>3. only \in Fun /\ (only \in Of(v).users \/ only \in SinglePaths)
    BY <1>1, <2>2, FiledOnce
  <2>4. CASE only \in Of(v).users
    <3>1. q \in Single
      BY <2>1, <2>3, <2>4, UpIs, InstancesAre, ClimbIs
    <3> QED BY <3>1, InstancesOnce DEF q
  <2>5. CASE only \notin Of(v).users
    <3>1. q \in SinglePaths
      BY <2>1, <2>3, <2>5
    <3> QED BY <3>1, SinglesOnce DEF q
  <2> QED BY <2>4, <2>5
<1>6. CASE ~prog.noLocal /\ Cardinality(uses) # 1
  <2>1. q = Common(Up, uses, Single)
    BY <1>3, <1>6 DEF Placed
  <2> HIDE DEF q, only
  <2>2. q \in Single \cup {Top}
    <3> HIDE DEF uses
    <3> QED BY <1>2, <2>1, UpIs, CommonIs
  <2> QED BY <2>2, InstancesOnce, InstancesAre DEF q
<1> QED BY <1>4, <1>5, <1>6

-----------------------------------------------------------------------------
(***************************************************************************)
(* FlattenSeq puts sequences one behind the other: what is in the result   *)
(* has a block and a position of its own it comes from.                    *)
(***************************************************************************)
\* F consists of the first n sequences of s.
Flattened(F, s, n, T) ==
  /\ F \in Seq(T)
  /\ \A i \in 1 .. n : \A k \in 1 .. Len(s[i]) : \E a \in 1 .. Len(F) : F[a] = s[i][k]
  /\ \E block, pos \in [1 .. Len(F) -> Nat] :
       /\ \A a \in 1 .. Len(F) : /\ block[a] \in 1 .. n /\ pos[a] \in 1 .. Len(s[block[a]])
                                 /\ F[a] = s[block[a]][pos[a]]
       /\ \A a, b \in 1 .. Len(F) : a # b => block[a] # block[b] \/ pos[a] # pos[b]

LEMMA FlattenedOne ==
  ASSUME NEW T, NEW s \in Seq(Seq(T)), Len(s) > 0
  PROVE  Flattened(s[1], s, 1, T)
<1> DEFINE F == s[1]
           block == [a \in 1 .. Len(F) |-> 1]
           pos == [a \in 1 .. Len(F) |-> a]
<1>1. F \in Seq(T) /\ Len(F) \in Nat
  OBVIOUS
<1>2. block \in [1 .. Len(F) -> Nat] /\ pos \in [1 .. Len(F) -> Nat]
  BY <1>1
<1>3. \A a \in 1 .. Len(F) : block[a] = 1 /\ pos[a] = a
  OBVIOUS
<1>4. /\ \A a \in 1 .. Len(F) : /\ block[a] \in 1 .. 1 /\ pos[a] \in 1 .. Len(s[block[a]])
                                /\ F[a] = s[block[a]][pos[a]]
      /\ \A a, b \in 1 .. Len(F) : a # b => block[a] # block[b] \/ pos[a] # pos[b]
  BY <1>1, <1>3
<1>5. \A i \in 1 .. 1 : \A k \in 1 .. Len(s[i]) : \E a \in 1 .. Len(F) : F[a] = s[i][k]
  OBVIOUS
<1> HIDE DEF F, block, pos
<1> QED BY <1>1, <1>2, <1>4, <1>5 DEF Flattened, F

LEMMA FlattenedNext ==
  ASSUME NEW T, NEW s \in Seq(Seq(T)), NEW n \in Nat, n + 1 <= Len(s),
         NEW F, Flattened(F, s, n, T)
  PROVE  Flattened(F \o s[n + 1], s, n + 1, T)
<1> DEFINE B == s[n + 1]
           G == F \o B
<1>1. F \in Seq(T) /\ B \in Seq(T) /\ G \in Seq(T) /\ Len(F) \in Nat /\ Len(B) \in Nat
      /\ Len(G) = Len(F) + Len(B)
  BY DEF Flattened
<1>2. /\ \A a \in 1 .. Len(F) : a \in 1 .. Len(G) /\ G[a] = F[a]
      /\ \A k \in 1 .. Len(B) : Len(F) + k \in 1 .. Len(G) /\ G[Len(F) + k] = B[k]
      /\ \A a \in 1 .. Len(G) : a \notin 1 .. Len(F) =>
                                  a - Len(F) \in 1 .. Len(B) /\ G[a] = B[a - Len(F)]
  BY <1>1
<1> HIDE DEF G
<1>3. PICK block, pos \in [1 .. Len(F) -> Nat] :
       /\ \A a \in 1 .. Len(F) : /\ block[a] \in 1 .. n /\ pos[a] \in 1 .. Len(s[block[a]])
                                 /\ F[a] = s[block[a]][pos[a]]
       /\ \A a, b \in 1 .. Len(F) : a # b => block[a] # block[b] \/ pos[a] # pos[b]
  BY DEF Flattened
<1> DEFINE block2 == [a \in 1 .. Len(G) |-> IF a \in 1 .. Len(F) THEN block[a] ELSE n + 1]
           pos2 == [a \in 1 .. Len(G) |-> IF a \in 1 .. Len(F) THEN pos[a] ELSE a - Len(F)]
<1>4. \A a \in 1 .. Len(G) :
        /\ a \in 1 .. Len(F) => block2[a] = block[a] /\ pos2[a] = pos[a]
        /\ a \notin 1 .. Len(F) => block2[a] = n + 1 /\ pos2[a] = a - Len(F)
  OBVIOUS
<1>5. block2 \in [1 .. Len(G) -> Nat] /\ pos2 \in [1 .. Len(G) -> Nat]
  BY <1>1, <1>2
<1> HIDE DEF block2, pos2
<1>6. ASSUME NEW a \in 1 .. Len(G)
      PROVE  /\ block2[a] \in 1 .. n + 1 /\ pos2[a] \in 1 .. Len(s[block2[a]])
             /\ G[a] = s[block2[a]][pos2[a]]
  <2>1. CASE a \in 1 .. Len(F)
    <3>1. block2[a] = block[a] /\ pos2[a] = pos[a] /\ G[a] = F[a]
      BY <1>2, <1>4, <2>1
    <3>2. block[a] \in 1 .. n /\ pos[a] \in 1 .. Len(s[block[a]]) /\ F[a] = s[block[a]][pos[a]]
      BY <1>3, <2>1
    <3> QED BY <3>1, <3>2
  <2>2. CASE a \notin 1 .. Len(F)
    <3>1. block2[a] = n + 1 /\ pos2[a] = a - Len(F)
      BY <1>4, <2>2
    <3>2. a - Len(F) \in 1 .. Len(B) /\ G[a] = B[a - Len(F)]
      BY <1>2, <2>2
    <3> QED BY <3>1, <3>2
  <2> QED BY <2>1, <2>2
<1>7. ASSUME NEW a \in 1 .. Len(G), NEW b \in 1 .. Len(G), a # b
      PROVE  block2[a] # block2[b] \/ pos2[a] # pos2[b]
  <2>1. CASE a \in 1 .. Len(F) /\ b \in 1 .. Len(F)
    BY <1>3, <1>4, <1>7, <2>1
  <2>2. CASE a \in 1 .. Len(F) /\ b \notin 1 .. Len(F)
    BY <1>3, <1>4, <2>2
  <2>3. CASE a \notin 1 .. Len(F) /\ b \in 1 .. Len(F)
    BY <1>3, <1>4, <2>3
  <2>4. CASE a \notin 1 .. Len(F) /\ b \notin 1 .. Len(F)
    BY <1>1, <1>4, <1>7, <2>4
  <2> QED BY <2>1, <2>2, <2>3, <2>4
<1>8. ASSUME NEW i \in 1 .. n + 1, NEW k \in 1 .. Len(s[i])
      PROVE  \E a \in 1 .. Len(G) : G[a] = s[i][k]
  <2>1. CASE i \in 1 .. n
    <3>1. PICK a \in 1 .. Len(F) : F[a] = s[i][k]
      BY <2>1 DEF Flattened
    <3> QED BY <1>2, <3>1
  <2>2. CASE i = n + 1
    BY <1>2, <2>2
  <2>3. i \in 1 .. n \/ i = n + 1
    OBVIOUS
  <2> QED BY <2>1, <2>2, <2>3
<1>9. /\ \A a \in 1 .. Len(G) : /\ block2[a] \in 1 .. n + 1 /\ pos2[a] \in 1 .. Len(s[block2[a]])
                                 /\ G[a] = s[block2[a]][pos2[a]]
      /\ \A a, b \in 1 .. Len(G) : a # b => block2[a] # block2[b] \/ pos2[a] # pos2[b]
  BY <1>6, <1>7
<1>10. \A i \in 1 .. n + 1 : \A k \in 1 .. Len(s[i]) : \E a \in 1 .. Len(G) : G[a] = s[i][k]
  BY <1>8
<1>11. Flattened(G, s, n + 1, T)
  BY <1>1, <1>5, <1>9, <1>10, Zenon DEF Flattened
<1> QED BY <1>11 DEF G

LEMMA FlattenIs ==
  ASSUME NEW T, NEW s \in Seq(Seq(T))
  PROVE  Flattened(FlattenSeq(s), s, Len(s), T)
<1>1. CASE Len(s) = 0
  <2>1. FlattenSeq(s) = << >> /\ s = << >>
    BY <1>1 DEF FlattenSeq
  <2>2. [a \in 1 .. 0 |-> 0] \in [1 .. 0 -> Nat]
    OBVIOUS
  <2>3. Len(<< >>) = 0 /\ << >> \in Seq(T) /\ \A a : a \notin 1 .. 0
    OBVIOUS
  <2>4. Flattened(<< >>, << >>, 0, T)
    BY <2>2, <2>3, Zenon DEF Flattened
  <2> QED BY <1>1, <2>1, <2>4
<1>2. CASE Len(s) # 0
  <2> DEFINE n == Len(s)
             Body(i, c) == IF i = 1 THEN s[i] ELSE c[i - 1] \o s[i]
             Good(k, c) == \A i \in 1 .. n : i <= k => c[i] = Body(i, c)
             K == {k \in Nat : \E c \in [1 .. n -> Seq(T)] : Good(k, c)}
             P(c) == c = [i \in 1 .. n |-> Body(i, c)]
  <2>1. n \in Nat \ {0} /\ \A i \in 1 .. n : s[i] \in Seq(T)
    BY <1>2
  <2> HIDE DEF n
  <2>2. 0 \in K
    <3>1. [i \in 1 .. n |-> << >>] \in [1 .. n -> Seq(T)]
      OBVIOUS
    <3>2. \A i \in 1 .. n : ~(i <= 0)
      BY <2>1
    <3> QED BY <3>1, <3>2
  <2>3. ASSUME NEW k \in Nat, k \in K PROVE k + 1 \in K
    <3>1. PICK c \in [1 .. n -> Seq(T)] : Good(k, c)
      BY <2>3
    <3> DEFINE d == [i \in 1 .. n |-> IF i = k + 1 THEN Body(i, c) ELSE c[i]]
    <3>2. \A i \in 1 .. n : Body(i, c) \in Seq(T)
      BY <2>1
    <3>3. d \in [1 .. n -> Seq(T)]
      BY <3>2
    <3>4. \A i \in 1 .. n : i <= k => d[i] = c[i]
      <4> HIDE DEF Body
      <4>1. \A i \in 1 .. n : i <= k => i # k + 1
        BY <2>1
      <4> QED BY <4>1
    <3>5. \A i \in 1 .. n : i <= k + 1 => Body(i, d) = Body(i, c)
      <4> HIDE DEF d
      <4>1. \A i \in 1 .. n : i # 1 => i - 1 \in 1 .. n /\ (i <= k + 1 => i - 1 <= k)
        BY <2>1
      <4> QED BY <3>4, <4>1
    <3>6. Good(k + 1, d)
      <4> SUFFICES ASSUME NEW i \in 1 .. n, i <= k + 1 PROVE d[i] = Body(i, d)
        OBVIOUS
      <4>1. Body(i, d) = Body(i, c)
        BY <3>5
      <4>2. CASE i = k + 1
        <5>1. d[i] = Body(i, c)
          BY <4>2
        <5> QED BY <4>1, <5>1
      <4>3. CASE i # k + 1
        <5>1. i <= k
          BY <4>3
        <5> HIDE DEF Body, d
        <5> QED BY <3>1, <3>4, <4>1, <5>1
      <4> QED BY <4>2, <4>3
    <3> HIDE DEF d, Good
    <3> QED BY <3>3, <3>6
  <2> HIDE DEF K
  <2>4. n \in K
    BY <2>1, <2>2, <2>3, Induct
  <2>5. PICK c \in [1 .. n -> Seq(T)] : Good(n, c)
    BY <2>4 DEF K
  <2>6. P(c)
    <3> HIDE DEF Body
    <3>1. \A i \in 1 .. n : c[i] = Body(i, c)
      BY <2>5, <2>1
    <3> QED BY <3>1
  <2> DEFINE f == CHOOSE q : P(q)
  <2>7. P(f)
    BY <2>6
  <2>8. FlattenSeq(s) = f[n]
    BY <1>2 DEF FlattenSeq, n
  <2> HIDE DEF f
  <2>9. \A i \in 1 .. n : f[i] = Body(i, f)
    BY <2>7
  <2> DEFINE L == {k \in Nat : k + 1 <= n => Flattened(f[k + 1], s, k + 1, T)}
  <2>10. 0 \in L
    BY <2>1, <2>9, FlattenedOne DEF n
  <2>11. ASSUME NEW k \in Nat, k \in L PROVE k + 1 \in L
    <3> SUFFICES ASSUME k + 1 + 1 <= n PROVE Flattened(f[k + 1 + 1], s, k + 1 + 1, T)
      OBVIOUS
    <3>1. Flattened(f[k + 1], s, k + 1, T)
      BY <2>1, <2>11
    <3>2. f[k + 1 + 1] = f[k + 1] \o s[k + 1 + 1]
      <4>1. k + 1 + 1 \in 1 .. n /\ k + 1 + 1 # 1 /\ k + 1 + 1 - 1 = k + 1
        BY <2>1
      <4>2. \A i \in 1 .. n : i # 1 => Body(i, f) = f[i - 1] \o s[i]
        OBVIOUS
      <4> HIDE DEF Body
      <4>3. \A i \in 1 .. n : i # 1 => f[i] = f[i - 1] \o s[i]
        BY <2>9, <4>2
      <4>4. PICK i, j : i = k + 1 + 1 /\ j = k + 1
        OBVIOUS
      <4>5. i \in 1 .. n /\ i # 1 /\ i - 1 = j
        BY <4>1, <4>4
      <4>6. f[i] = f[j] \o s[i]
        BY <4>3, <4>5
      <4> QED BY <4>4, <4>6
    <3>3. k + 1 \in Nat
      OBVIOUS
    <3>4. Flattened(f[k + 1] \o s[k + 1 + 1], s, k + 1 + 1, T)
      BY <3>1, <3>3, FlattenedNext DEF n
    <3> QED BY <3>2, <3>4
  <2> HIDE DEF L
  <2>12. \A k \in Nat : k \in L
    BY <2>10, <2>11, Induct
  <2>13. n - 1 + 1 = n /\ n - 1 \in Nat
    BY <2>1
  <2>14. n - 1 \in L
    BY <2>12, <2>13
  <2>15. Flattened(f[n - 1 + 1], s, n - 1 + 1, T)
    BY <2>1, <2>13, <2>14 DEF L
  <2> QED BY <2>8, <2>13, <2>15 DEF n
<1> QED BY <1>1, <1>2

-----------------------------------------------------------------------------
(***************************************************************************)
(* The calls to the memory: first those that choose private memories and   *)
(* the alignment, then those that give addresses, one for a symbol unless  *)
(* it is an internal variable.                                             *)
(***************************************************************************)
EarlyCalls ==
  [op : {"private"}, fun : Fun, symbol : Symbol, size : Sizes, alignment : Alignments]
    \cup [op : {"align"}, fun : Fun, symbol : {0}, size : {0}, alignment : Alignments]

VarRequests ==
  [op : {"internal", "external"}, fun : Fun, symbol : Symbol, size : Sizes, alignment : Alignments]

ParameterRequests ==
  [op : {"parameter", "last parameter"}, fun : Fun, symbol : Symbol, size : Sizes, alignment : {1}]

LateCalls == VarRequests \cup ParameterRequests

\* A symbol that has an address must not get another by these calls.
Fresh(c) == c.op # "internal"

Distinct(q) ==
  \A a, b \in 1 .. Len(q) : a # b /\ Fresh(q[b]) => q[a].symbol # q[b].symbol

Holds(q, c) == \E a \in 1 .. Len(q) : q[a] = c

\* The calls of a function are for the variables placed in it, and those of
\* the top function for the parameters.
Owned(c, p, f) == IF c.symbol \in Var THEN p[c.symbol] = f ELSE f = Top

LEMMA SequenceOver ==
  ASSUME NEW S, IsFiniteSet(S), S = 1 .. Cardinality(S), NEW T,
         NEW g, \A x \in S : g[x] \in Seq(T), DOMAIN g = S, g = [x \in S |-> g[x]]
  PROVE  g \in Seq(Seq(T)) /\ Len(g) = Cardinality(S)
<1>1. Cardinality(S) \in Nat
  BY FS_CardinalityType
<1> DEFINE n == Cardinality(S)
<1>2. S = 1 .. n /\ n \in Nat
  BY <1>1
<1> HIDE DEF n
<1>3. g \in [1 .. n -> Seq(T)]
  BY <1>2
<1>4. g \in Seq(Seq(T))
  BY <1>2, <1>3, SMT
<1>5. Len(g) = n
  BY <1>2, <1>3, SMT
<1> QED BY <1>4, <1>5 DEF n

\* No two elements of F come from one place in the sequences of g.
Separate(F, g, S) ==
  \A a, b \in 1 .. Len(F) : a # b =>
    \E x, y \in S : \E k \in 1 .. Len(g[x]), l \in 1 .. Len(g[y]) :
      F[a] = g[x][k] /\ F[b] = g[y][l] /\ (x = y => k # l)

\* What FlattenSeq of one sequence for every function or variable holds.
LEMMA FlattenOver ==
  ASSUME NEW S, IsFiniteSet(S), S = 1 .. Cardinality(S), NEW T,
         NEW g, \A x \in S : g[x] \in Seq(T), DOMAIN g = S, g = [x \in S |-> g[x]]
  PROVE  /\ FlattenSeq(g) \in Seq(T)
         /\ \A x \in S : \A k \in 1 .. Len(g[x]) : Holds(FlattenSeq(g), g[x][k])
         /\ \A a \in 1 .. Len(FlattenSeq(g)) : \E x \in S : Holds(g[x], FlattenSeq(g)[a])
         /\ Separate(FlattenSeq(g), g, S)
<1> DEFINE F == FlattenSeq(g)
<1>1. g \in Seq(Seq(T)) /\ Len(g) = Cardinality(S)
  BY SequenceOver
<1>2. Flattened(F, g, Cardinality(S), T)
  BY <1>1, FlattenIs
<1> HIDE DEF F
<1>3. F \in Seq(T) /\ \A x \in S : \A k \in 1 .. Len(g[x]) : Holds(F, g[x][k])
  BY <1>2 DEF Flattened, Holds
<1>4. PICK block, pos \in [1 .. Len(F) -> Nat] :
       /\ \A a \in 1 .. Len(F) : /\ block[a] \in 1 .. Cardinality(S) /\ pos[a] \in 1 .. Len(g[block[a]])
                                 /\ F[a] = g[block[a]][pos[a]]
       /\ \A a, b \in 1 .. Len(F) : a # b => block[a] # block[b] \/ pos[a] # pos[b]
  BY <1>2 DEF Flattened
<1>5. \A a \in 1 .. Len(F) : block[a] \in S
  BY <1>4
<1>6. \A a \in 1 .. Len(F) : \E x \in S : Holds(g[x], F[a])
  BY <1>4, <1>5 DEF Holds
<1>7. ASSUME NEW a \in 1 .. Len(F), NEW b \in 1 .. Len(F), a # b
      PROVE  \E x, y \in S : \E k \in 1 .. Len(g[x]), l \in 1 .. Len(g[y]) :
               F[a] = g[x][k] /\ F[b] = g[y][l] /\ (x = y => k # l)
  <2>1. PICK x, y, k, l : x = block[a] /\ y = block[b] /\ k = pos[a] /\ l = pos[b]
    OBVIOUS
  <2>2. /\ x \in S /\ y \in S /\ k \in 1 .. Len(g[x]) /\ l \in 1 .. Len(g[y])
        /\ F[a] = g[x][k] /\ F[b] = g[y][l]
    BY <1>4, <1>5, <2>1
  <2>3. x = y => k # l
    BY <1>4, <1>7, <2>1
  <2>4. x \in S /\ y \in S /\ k \in 1 .. Len(g[x]) /\ l \in 1 .. Len(g[y])
    BY <2>2
  <2> USE <2>4
  <2> WITNESS x \in S, y \in S
  <2> WITNESS k \in 1 .. Len(g[x]), l \in 1 .. Len(g[y])
  <2> QED BY <2>2, <2>3
<1>8. Separate(F, g, S)
  BY <1>7, Zenon DEF Separate
<1> QED BY <1>3, <1>6, <1>8 DEF F

LEMMA VarCallIs ==
  ASSUME prog \in Programs, NEW v \in Var, NEW f \in Fun, NEW op \in {"internal", "external"}
  PROVE  /\ VarCall(op, f, v) \in VarRequests
         /\ VarCall(op, f, v).symbol = v /\ VarCall(op, f, v).op = op
<1>1. Of(v).size \in Sizes /\ Of(v).alignment \in Alignments
  BY TypesOfProgram
<1>2. v \in Symbol
  BY SymbolsAssumption
<1> QED BY <1>1, <1>2 DEF VarCall, Call, VarRequests

LEMMA VarCallsAre ==
  ASSUME prog \in Programs, NEW v \in Var, NEW f \in Fun
  PROVE  /\ VarCalls(v, f) \in Seq(VarRequests)
         /\ \A a \in 1 .. Len(VarCalls(v, f)) : VarCalls(v, f)[a].symbol = v
         /\ Distinct(VarCalls(v, f))
         /\ Of(v).internal /\ ~IsCopied(v) => Holds(VarCalls(v, f), VarCall("internal", f, v))
         /\ IsCopied(v) => \A g \in Of(v).users : Holds(VarCalls(v, f), VarCall("internal", g, v))
<1> DEFINE q == VarCalls(v, f)
           Copy(g) == IF g \in Of(v).users THEN <<VarCall("internal", g, v)>> ELSE << >>
           s == [g \in Fun |-> Copy(g)]
<1>1. CASE ~(Of(v).internal /\ IsCopied(v))
  <2> DEFINE op == IF Of(v).internal THEN "internal" ELSE "external"
  <2>1. q = <<VarCall(op, f, v)>>
    BY <1>1 DEF VarCalls
  <2>2. VarCall(op, f, v) \in VarRequests /\ VarCall(op, f, v).symbol = v
    BY VarCallIs
  <2> HIDE DEF q, op
  <2>3. q \in Seq(VarRequests) /\ Len(q) = 1 /\ q[1] = VarCall(op, f, v)
    BY <2>1, <2>2
  <2>4. \A a \in 1 .. Len(q) : a = 1
    BY <2>3
  <2>5. Distinct(q) /\ Holds(q, VarCall(op, f, v)) /\ \A a \in 1 .. Len(q) : q[a].symbol = v
    BY <2>2, <2>3, <2>4 DEF Distinct, Holds
  <2>6. ~IsCopied(v)
    BY <1>1 DEF IsCopied
  <2> QED BY <2>3, <2>5, <2>6 DEF q, op
<1>2. CASE Of(v).internal /\ IsCopied(v)
  <2>1. q = FlattenSeq(s)
    BY <1>2 DEF VarCalls
  <2>2. \A g \in Fun : /\ VarCall("internal", g, v) \in VarRequests
                       /\ VarCall("internal", g, v).symbol = v /\ VarCall("internal", g, v).op = "internal"
    BY VarCallIs
  <2>3. \A g \in Fun : s[g] \in Seq(VarRequests)
    BY <2>2
  <2>4. \A g \in Fun : /\ \A k \in 1 .. Len(s[g]) : s[g][k].symbol = v /\ s[g][k].op = "internal"
                       /\ g \in Of(v).users => Len(s[g]) = 1 /\ s[g][1] = VarCall("internal", g, v)
    BY <2>2
  <2>5. DOMAIN s = Fun /\ s = [g \in Fun |-> s[g]]
    OBVIOUS
  <2> HIDE DEF s, q
  <2>6. /\ q \in Seq(VarRequests)
        /\ \A g \in Fun : \A k \in 1 .. Len(s[g]) : Holds(q, s[g][k])
        /\ \A a \in 1 .. Len(q) : \E g \in Fun : Holds(s[g], q[a])
    BY <2>1, <2>3, <2>5, FunIs, NumbersAssumption, FlattenOver
  <2>7. \A a \in 1 .. Len(q) : q[a].symbol = v /\ q[a].op = "internal"
    BY <2>4, <2>6 DEF Holds
  <2>8. Distinct(q)
    BY <2>7 DEF Distinct, Fresh
  <2>9. \A g \in Of(v).users : Holds(q, VarCall("internal", g, v))
    <3> TAKE g \in Of(v).users
    <3>1. g \in Fun
      BY TypesOfProgram
    <3>2. 1 \in 1 .. Len(s[g]) /\ s[g][1] = VarCall("internal", g, v)
      BY <2>4, <3>1
    <3> QED BY <2>6, <3>1, <3>2
  <2> QED BY <1>2, <2>6, <2>7, <2>8, <2>9 DEF q
<1> QED BY <1>1, <1>2

LEMMA DistinctParts ==
  ASSUME NEW T, NEW s \in Seq(T), NEW t \in Seq(T), Distinct(s), Distinct(t),
         \A a \in 1 .. Len(s), b \in 1 .. Len(t) : s[a].symbol # t[b].symbol
  PROVE  Distinct(s \o t)
<1> DEFINE q == s \o t
<1>1. /\ Len(q) = Len(s) + Len(t) /\ Len(s) \in Nat /\ Len(t) \in Nat
      /\ \A a \in 1 .. Len(q) : /\ a \in 1 .. Len(s) => q[a] = s[a]
                                /\ a \notin 1 .. Len(s) => a - Len(s) \in 1 .. Len(t) /\ q[a] = t[a - Len(s)]
  OBVIOUS
<1> HIDE DEF q
<1> SUFFICES ASSUME NEW a \in 1 .. Len(q), NEW b \in 1 .. Len(q), a # b, Fresh(q[b])
             PROVE  q[a].symbol # q[b].symbol
  BY DEF Distinct, q
<1>2. CASE a \in 1 .. Len(s) /\ b \in 1 .. Len(s)
  BY <1>1, <1>2 DEF Distinct
<1>3. CASE a \in 1 .. Len(s) /\ b \notin 1 .. Len(s)
  BY <1>1, <1>3
<1>4. CASE a \notin 1 .. Len(s) /\ b \in 1 .. Len(s)
  BY <1>1, <1>4, Zenon
<1>5. CASE a \notin 1 .. Len(s) /\ b \notin 1 .. Len(s)
  <2>1. PICK x, y : x = a - Len(s) /\ y = b - Len(s)
    OBVIOUS
  <2>2. x \in 1 .. Len(t) /\ q[a] = t[x] /\ y \in 1 .. Len(t) /\ q[b] = t[y]
    BY <1>1, <1>5, <2>1
  <2>3. x # y
    BY <1>1, <2>1
  <2> QED BY <2>2, <2>3 DEF Distinct
<1> QED BY <1>2, <1>3, <1>4, <1>5

LEMMA ParameterCallsAre ==
  ASSUME prog \in Programs, NEW f \in Fun
  PROVE  /\ ParameterCalls(f) \in Seq(ParameterRequests)
         /\ Distinct(ParameterCalls(f))
         /\ \A a \in 1 .. Len(ParameterCalls(f)) : ParameterCalls(f)[a].symbol \notin Var /\ f = Top
<1> DEFINE q == ParameterCalls(f)
           n == Len(prog.params)
           m == Cardinality(Var)
<1>1. CASE ~(prog.mapped /\ f = Top)
  <2>1. q = << >>
    BY <1>1 DEF ParameterCalls
  <2>2. Len(q) = 0 /\ q \in Seq(ParameterRequests) /\ \A a : a \notin 1 .. 0
    BY <2>1
  <2> HIDE DEF q
  <2> QED BY <2>2, Zenon DEF Distinct, q
<1>2. CASE prog.mapped /\ f = Top
  <2>1. prog.params \in Seq(Sizes)
    BY ProgramsAssumption
  <2>2. n \in Nat /\ DOMAIN prog.params = 1 .. n /\ \A i \in 1 .. n : prog.params[i] \in Sizes
    BY <2>1
  <2>3. m \in Nat /\ Var = 1 .. m
    BY NumbersAssumption, FS_CardinalityType
  <2>4. \A i \in 1 .. n : m + i \in Symbol /\ m + i \notin Var
    BY <2>2, <2>3, SymbolsAssumption
  <2>5. q = [i \in 1 .. n |-> Call(IF i = n THEN "last parameter" ELSE "parameter",
                                   f, m + i, prog.params[i], 1)]
    BY <1>2, <2>2 DEF ParameterCalls
  <2>6. \A i \in 1 .. n : q[i] \in ParameterRequests /\ q[i].symbol = m + i
    <3> TAKE i \in 1 .. n
    <3> DEFINE op == IF i = n THEN "last parameter" ELSE "parameter"
    <3>1. op \in {"parameter", "last parameter"}
      OBVIOUS
    <3>2. q[i] = Call(op, f, m + i, prog.params[i], 1)
      BY <2>5
    <3> HIDE DEF op, q, m, n
    <3>3. Call(op, f, m + i, prog.params[i], 1) \in ParameterRequests
      BY <2>2, <2>4, <3>1 DEF Call, ParameterRequests
    <3> QED BY <3>2, <3>3 DEF Call
  <2>7. q \in [1 .. n -> ParameterRequests]
    BY <2>5, <2>6
  <2> HIDE DEF q, n, m
  <2>8. q \in Seq(ParameterRequests) /\ Len(q) = n
    BY <2>2, <2>7
  <2>9. Distinct(q)
    BY <2>2, <2>3, <2>6, <2>8 DEF Distinct
  <2> QED BY <1>2, <2>4, <2>6, <2>8, <2>9 DEF q
<1> QED BY <1>1, <1>2

LEMMA CallsInAre ==
  ASSUME prog \in Programs, NEW p, NEW f \in Fun
  PROVE  /\ CallsIn(p, f) \in Seq(LateCalls) /\ Distinct(CallsIn(p, f))
         /\ \A a \in 1 .. Len(CallsIn(p, f)) : Owned(CallsIn(p, f)[a], p, f)
         /\ \A v \in Var : \A c : p[v] = f /\ Holds(VarCalls(v, f), c) => Holds(CallsIn(p, f), c)
<1> DEFINE g == [v \in Var |-> IF p[v] = f THEN VarCalls(v, f) ELSE << >>]
           F == FlattenSeq(g)
           P == ParameterCalls(f)
           Q == F \o P
<1>1. CallsIn(p, f) = Q
  BY DEF CallsIn
<1>2. \A v \in Var : (p[v] = f /\ g[v] = VarCalls(v, f)) \/ (p[v] # f /\ Len(g[v]) = 0)
  OBVIOUS
<1>3. \A v \in Var : g[v] \in Seq(VarRequests)
  BY VarCallsAre
<1>4. DOMAIN g = Var /\ g = [v \in Var |-> g[v]]
  OBVIOUS
<1>5. P \in Seq(ParameterRequests) /\ Distinct(P)
      /\ \A a \in 1 .. Len(P) : P[a].symbol \notin Var /\ f = Top
  BY ParameterCallsAre
<1> HIDE DEF g, P
<1>6. /\ F \in Seq(VarRequests)
      /\ \A v \in Var : \A k \in 1 .. Len(g[v]) : Holds(F, g[v][k])
      /\ \A a \in 1 .. Len(F) : \E v \in Var : Holds(g[v], F[a])
      /\ Separate(F, g, Var)
  BY <1>3, <1>4, NumbersAssumption, FlattenOver
<1> HIDE DEF F
<1>7. \A v \in Var : \A k \in 1 .. Len(g[v]) : p[v] = f /\ g[v] = VarCalls(v, f) /\ g[v][k].symbol = v
  <2> TAKE v \in Var
  <2> TAKE k \in 1 .. Len(g[v])
  <2>1. Len(g[v]) # 0
    OBVIOUS
  <2>2. p[v] = f /\ g[v] = VarCalls(v, f)
    BY <1>2, <2>1
  <2> QED BY <2>2, VarCallsAre
<1>8. \A a \in 1 .. Len(F) : F[a].symbol \in Var /\ Owned(F[a], p, f)
  BY <1>6, <1>7 DEF Holds, Owned
<1>9. Distinct(F)
  <2> SUFFICES ASSUME NEW a \in 1 .. Len(F), NEW b \in 1 .. Len(F), a # b, Fresh(F[b])
               PROVE  F[a].symbol # F[b].symbol
    BY DEF Distinct
  <2>1. PICK x \in Var, y \in Var : \E k \in 1 .. Len(g[x]), l \in 1 .. Len(g[y]) :
             F[a] = g[x][k] /\ F[b] = g[y][l] /\ (x = y => k # l)
    BY <1>6, Zenon DEF Separate
  <2>2. PICK k \in 1 .. Len(g[x]), l \in 1 .. Len(g[y]) :
             F[a] = g[x][k] /\ F[b] = g[y][l] /\ (x = y => k # l)
    BY <2>1
  <2>3. F[a].symbol = x /\ F[b].symbol = y
    BY <1>7, <2>2
  <2>4. CASE x = y
    <3>1. g[x] = VarCalls(x, f) /\ Distinct(VarCalls(x, f))
      BY <1>7, <2>2, VarCallsAre
    <3> QED BY <2>2, <2>4, <3>1 DEF Distinct
  <2> QED BY <2>3, <2>4
<1>10. Distinct(Q)
  <2>1. \A a \in 1 .. Len(F), b \in 1 .. Len(P) : F[a].symbol # P[b].symbol
    BY <1>5, <1>8
  <2>2. F \in Seq(LateCalls) /\ P \in Seq(LateCalls)
    BY <1>5, <1>6 DEF LateCalls
  <2> QED BY <1>5, <1>9, <2>1, <2>2, DistinctParts
<1>11. /\ Len(F) \in Nat /\ Len(P) \in Nat /\ Len(Q) = Len(F) + Len(P)
       /\ \A a \in 1 .. Len(F) : a \in 1 .. Len(Q) /\ Q[a] = F[a]
       /\ \A a \in 1 .. Len(Q) : a \notin 1 .. Len(F) => a - Len(F) \in 1 .. Len(P) /\ Q[a] = P[a - Len(F)]
  BY <1>5, <1>6
<1>12. Q \in Seq(LateCalls)
  <2>1. F \in Seq(LateCalls) /\ P \in Seq(LateCalls)
    BY <1>5, <1>6 DEF LateCalls
  <2> QED BY <2>1
<1> HIDE DEF Q
<1>13. \A a \in 1 .. Len(Q) : Owned(Q[a], p, f)
  BY <1>5, <1>8, <1>11 DEF Owned
<1>14. ASSUME NEW v \in Var, NEW c, p[v] = f, Holds(VarCalls(v, f), c) PROVE Holds(Q, c)
  <2>1. Holds(g[v], c)
    BY <1>2, <1>14
  <2>2. Holds(F, c)
    <3>1. PICK k \in 1 .. Len(g[v]) : g[v][k] = c
      BY <2>1 DEF Holds
    <3>2. Holds(F, g[v][k])
      BY <1>6
    <3> QED BY <3>1, <3>2
  <2> QED BY <1>11, <2>2 DEF Holds
<1> QED BY <1>1, <1>10, <1>12, <1>13, <1>14

LEMMA AllocateCallsAre ==
  ASSUME prog \in Programs, NEW p
  PROVE  /\ AllocateCalls(p) \in Seq(LateCalls) /\ Distinct(AllocateCalls(p))
         /\ \A v \in Var : \A c : p[v] \in Fun /\ Holds(VarCalls(v, p[v]), c)
                                    => Holds(AllocateCalls(p), c)
<1> DEFINE g == [f \in Fun |-> CallsIn(p, f)]
           F == FlattenSeq(g)
<1>1. AllocateCalls(p) = F
  BY DEF AllocateCalls
<1>2. \A f \in Fun : g[f] = CallsIn(p, f)
  OBVIOUS
<1>3. DOMAIN g = Fun /\ g = [f \in Fun |-> g[f]]
  OBVIOUS
<1> HIDE DEF g
<1>4. \A f \in Fun : g[f] \in Seq(LateCalls)
  BY <1>2, CallsInAre
<1>5. /\ F \in Seq(LateCalls)
      /\ \A f \in Fun : \A k \in 1 .. Len(g[f]) : Holds(F, g[f][k])
      /\ Separate(F, g, Fun)
  BY <1>3, <1>4, FunIs, NumbersAssumption, FlattenOver
<1> HIDE DEF F
<1>6. Distinct(F)
  <2> SUFFICES ASSUME NEW a \in 1 .. Len(F), NEW b \in 1 .. Len(F), a # b, Fresh(F[b])
               PROVE  F[a].symbol # F[b].symbol
    BY DEF Distinct
  <2>1. PICK x \in Fun, y \in Fun : \E k \in 1 .. Len(g[x]), l \in 1 .. Len(g[y]) :
             F[a] = g[x][k] /\ F[b] = g[y][l] /\ (x = y => k # l)
    BY <1>5, Zenon DEF Separate
  <2>2. PICK k \in 1 .. Len(g[x]), l \in 1 .. Len(g[y]) :
             F[a] = g[x][k] /\ F[b] = g[y][l] /\ (x = y => k # l)
    BY <2>1
  <2>3. CASE x = y
    <3>1. Distinct(g[x])
      BY <1>2, CallsInAre
    <3> QED BY <2>2, <2>3, <3>1 DEF Distinct
  <2>4. CASE x # y
    <3>1. Owned(F[a], p, x) /\ Owned(F[b], p, y)
      BY <1>2, <2>2, CallsInAre
    <3> QED BY <2>4, <3>1 DEF Owned
  <2> QED BY <2>3, <2>4
<1>7. ASSUME NEW v \in Var, NEW c, p[v] \in Fun, Holds(VarCalls(v, p[v]), c) PROVE Holds(F, c)
  <2>1. Holds(g[p[v]], c)
    BY <1>2, <1>7, CallsInAre
  <2>2. PICK k \in 1 .. Len(g[p[v]]) : g[p[v]][k] = c
    BY <2>1 DEF Holds
  <2>3. Holds(F, g[p[v]][k])
    BY <1>5, <1>7
  <2> QED BY <2>2, <2>3
<1> QED BY <1>1, <1>5, <1>6, <1>7

LEMMA EarlyCallsAre ==
  ASSUME prog \in Programs, setting \in Settings, unit = setting.bus
  PROVE  ClassifyCalls \o SparseCalls \in Seq(EarlyCalls)
<1>1. ClassifyCalls \in Seq(EarlyCalls)
  <2> DEFINE g == [v \in Var |-> IF BecomesPrivate(v) THEN <<VarCall("private", Top, v)>> ELSE << >>]
  <2>1. \A v \in Var : VarCall("private", Top, v) \in EarlyCalls
    <3> TAKE v \in Var
    <3>1. Of(v).size \in Sizes /\ Of(v).alignment \in Alignments /\ v \in Symbol /\ Top \in Fun
      BY TypesOfProgram, SymbolsAssumption, FunIs
    <3> QED BY <3>1 DEF VarCall, Call, EarlyCalls
  <2>2. \A v \in Var : g[v] \in Seq(EarlyCalls)
    BY <2>1
  <2>3. DOMAIN g = Var /\ g = [v \in Var |-> g[v]]
    OBVIOUS
  <2>4. ClassifyCalls = FlattenSeq(g)
    BY DEF ClassifyCalls
  <2> HIDE DEF g
  <2> QED BY <2>2, <2>3, <2>4, NumbersAssumption, FlattenOver
<1>2. SparseCalls \in Seq(EarlyCalls)
  <2> DEFINE onBus == {v \in Var : Of(v).internal /\ (~BecomesPrivate(v) \/ setting.nullCheck)}
             S == {unit} \cup {Of(v).size : v \in onBus}
             c == Call("align", Top, 0, 0, CeilPow2(Max(S)))
  <2>1. CASE ~prog.sparse
    BY <2>1 DEF SparseCalls
  <2>2. CASE prog.sparse
    <3>1. unit \in Nat \ {0}
      BY SettingsAssumption
    <3>2. onBus \subseteq Var /\ IsFiniteSet(Var)
      BY NumbersAssumption
    <3>3. \A v \in onBus : Of(v).size \in Sizes
      BY TypesOfProgram
    <3>4. SparseCalls = <<c>>
      BY <2>2 DEF SparseCalls
    <3> HIDE DEF onBus
    <3>5. S \subseteq Nat /\ unit \in S /\ S \subseteq Sizes \cup {unit}
      BY <3>1, <3>3, SizesAssumption
    <3>6. IsFiniteSet(S)
      <4>1. IsFiniteSet({Of(v).size : v \in onBus})
        <5> DEFINE of == [v \in onBus |-> Of(v).size]
                   T == {Of(v).size : v \in onBus}
        <5>1. IsFiniteSet(onBus) /\ of \in Surjection(onBus, T)
          BY <3>2, FS_Subset DEF Surjection
        <5> HIDE DEF T
        <5>2. IsFiniteSet(T)
          BY <5>1, FS_Surjection
        <5> QED BY <5>2 DEF T
      <4> QED BY <4>1, FS_AddElement
    <3> HIDE DEF S
    <3>7. Max(S) \in S /\ \A x \in S : x <= Max(S)
      <4>1. \E x \in S : \A y \in S : y <= x
        <5>1. S \in SUBSET Int /\ S # {}
          BY <3>5
        <5> QED BY <3>6, <5>1, GreatestOfFinite
      <4>2. \E x \in S : \A y \in S : x >= y
        BY <3>5, <4>1
      <4> QED BY <3>5, <4>2 DEF Max
    <3>8. Max(S) > 0 /\ Max(S) \in Sizes \cup {s.bus : s \in Settings}
      <4>1. Max(S) >= unit /\ Max(S) \in Nat
        BY <3>5, <3>7
      <4>2. unit \in {s.bus : s \in Settings}
        OBVIOUS
      <4> QED BY <3>1, <3>5, <3>7, <4>1, <4>2
    <3>9. CeilPow2(Max(S)) \in Alignments
      BY <3>8, SymbolsAssumption
    <3>10. c \in EarlyCalls
      BY <3>9, FunIs DEF Call, EarlyCalls
    <3> QED BY <3>4, <3>10
  <2> QED BY <2>1, <2>2
<1> QED BY <1>1, <1>2

\* First the calls that give no address, then those that give every symbol
\* one, but an internal variable.
Orderly(q) ==
  /\ q \in Seq(EarlyCalls \cup LateCalls)
  /\ \A a, b \in 1 .. Len(q) : a < b /\ q[b] \in EarlyCalls => q[a] \in EarlyCalls
  /\ \A a, b \in 1 .. Len(q) :
       a < b /\ q[a] \in LateCalls /\ q[b] \in LateCalls /\ Fresh(q[b]) => q[a].symbol # q[b].symbol

LEMMA EarlyOrLate == ASSUME NEW c \in EarlyCalls PROVE c \notin LateCalls
<1>1. c.op \in {"private", "align"}
  BY DEF EarlyCalls
<1>2. \A d \in LateCalls : d.op \in {"internal", "external", "parameter", "last parameter"}
  BY DEF LateCalls, VarRequests, ParameterRequests
<1> QED BY <1>1, <1>2

LEMMA OrderlyParts ==
  ASSUME NEW s \in Seq(EarlyCalls), NEW t \in Seq(LateCalls), Distinct(t)
  PROVE  Orderly(s \o t) /\ \A c : Holds(t, c) => Holds(s \o t, c)
<1> DEFINE q == s \o t
<1>1. /\ Len(q) = Len(s) + Len(t) /\ Len(s) \in Nat /\ Len(t) \in Nat
      /\ \A a \in 1 .. Len(q) : /\ a \in 1 .. Len(s) => q[a] = s[a]
                                /\ a \notin 1 .. Len(s) => a - Len(s) \in 1 .. Len(t) /\ q[a] = t[a - Len(s)]
      /\ \A b \in 1 .. Len(t) : b + Len(s) \in 1 .. Len(q) /\ q[b + Len(s)] = t[b]
  OBVIOUS
<1>2. q \in Seq(EarlyCalls \cup LateCalls)
  <2>1. s \in Seq(EarlyCalls \cup LateCalls) /\ t \in Seq(EarlyCalls \cup LateCalls)
    OBVIOUS
  <2> QED BY <2>1
<1> HIDE DEF q
<1>3. \A a \in 1 .. Len(s) : s[a] \in EarlyCalls
  OBVIOUS
<1>4. \A a \in 1 .. Len(t) : t[a] \in LateCalls
  OBVIOUS
<1>5. \A a \in 1 .. Len(q) : (a \in 1 .. Len(s) /\ q[a] \in EarlyCalls)
                             \/ (a \notin 1 .. Len(s) /\ q[a] \in LateCalls)
  BY <1>1, <1>3, <1>4
<1>6. ASSUME NEW a \in 1 .. Len(q), NEW b \in 1 .. Len(q), a < b, q[b] \in EarlyCalls
      PROVE  q[a] \in EarlyCalls
  <2>1. b \in 1 .. Len(s)
    BY <1>5, <1>6, EarlyOrLate
  <2>2. a \in 1 .. Len(s)
    BY <1>1, <1>6, <2>1
  <2> QED BY <1>5, <2>2, EarlyOrLate
<1>7. ASSUME NEW a \in 1 .. Len(q), NEW b \in 1 .. Len(q), a < b,
             q[a] \in LateCalls, q[b] \in LateCalls, Fresh(q[b])
      PROVE  q[a].symbol # q[b].symbol
  <2>1. a \notin 1 .. Len(s) /\ b \notin 1 .. Len(s)
    BY <1>5, <1>7, EarlyOrLate
  <2>2. PICK x, y : x = a - Len(s) /\ y = b - Len(s)
    OBVIOUS
  <2>3. x \in 1 .. Len(t) /\ q[a] = t[x] /\ y \in 1 .. Len(t) /\ q[b] = t[y]
    BY <1>1, <2>1, <2>2
  <2>4. x # y
    BY <1>1, <1>7, <2>2
  <2> QED BY <1>7, <2>3, <2>4 DEF Distinct
<1>8. \A c : Holds(t, c) => Holds(q, c)
  BY <1>1 DEF Holds
<1> QED BY <1>2, <1>6, <1>7, <1>8 DEF Orderly, q

LEMMA AllCallsAre ==
  ASSUME prog \in Programs, setting \in Settings, unit = setting.bus, NEW p
  PROVE  /\ Orderly(AllCalls(p))
         /\ \A v \in Var : \A c : p[v] \in Fun /\ Holds(VarCalls(v, p[v]), c) => Holds(AllCalls(p), c)
<1> DEFINE s == ClassifyCalls \o SparseCalls
           t == AllocateCalls(p)
<1>1. AllCalls(p) = s \o t
  BY DEF AllCalls
<1>2. s \in Seq(EarlyCalls) /\ t \in Seq(LateCalls) /\ Distinct(t)
  BY EarlyCallsAre, AllocateCallsAre
<1>3. \A v \in Var : \A c : p[v] \in Fun /\ Holds(VarCalls(v, p[v]), c) => Holds(t, c)
  BY AllocateCallsAre
<1> HIDE DEF s, t
<1> QED BY <1>1, <1>2, <1>3, OrderlyParts

\* What a call does, when it may be made.
LEMMA MadeIs ==
  ASSUME NEW c \in EarlyCalls \cup LateCalls, Made(c),
         c \in EarlyCalls => Allocated = {},
         c \in LateCalls /\ Fresh(c) => c.symbol \notin Allocated
  PROVE  /\ MemNext /\ setting' = setting
         /\ c \in EarlyCalls => Allocated' = Allocated
         /\ Allocated' \subseteq Allocated \cup {c.symbol}
         /\ scopes \subseteq scopes'
         /\ c.op = "internal" => <<c.fun, c.symbol>> \in scopes'
<1>1. CASE c.op = "private" /\ MakePrivate(c.symbol)
  <2>1. c \in EarlyCalls
    BY <1>1 DEF LateCalls, VarRequests, ParameterRequests
  <2>2. c.symbol \in Symbol
    BY <1>1, <2>1 DEF EarlyCalls
  <2>3. MemNext
    BY <1>1, <2>1, <2>2 DEF MemNext
  <2> QED BY <1>1, <2>3 DEF MakePrivate, Allocated
<1>2. CASE c.op = "align" /\ SetAlignment(c.alignment)
  <2>1. c \in EarlyCalls
    BY <1>2 DEF LateCalls, VarRequests, ParameterRequests
  <2>2. c.alignment \in Alignments
    BY <1>2, <2>1 DEF EarlyCalls
  <2>3. MemNext
    BY <1>2, <2>1, <2>2 DEF MemNext
  <2> QED BY <1>2, <2>3 DEF SetAlignment, Allocated
<1>3. ASSUME c.op \in {"internal", "external"}
      PROVE  c \in LateCalls /\ c.fun \in Scope /\ c.symbol \in Symbol /\ c.size \in Sizes
             /\ c.alignment \in Alignments
  <2>1. c \in VarRequests
    BY <1>3 DEF EarlyCalls, LateCalls, ParameterRequests
  <2> QED BY <2>1, SymbolsAssumption DEF LateCalls, VarRequests
<1>4. CASE c.op = "internal" /\ AddPrivate(c.fun, c.symbol, c.size, c.alignment)
  <2>1. c.symbol \in Symbol \ Allocated
    BY <1>3, <1>4 DEF AddPrivate
  <2>2. MemNext
    BY <1>3, <1>4, <2>1 DEF MemNext
  <2>3. c \notin EarlyCalls
    BY <1>3, <1>4, EarlyOrLate
  <2> QED BY <1>4, <2>2, <2>3 DEF AddPrivate, Allocated, With
<1>5. CASE c.op = "internal" /\ AddPrivateAgain(c.fun, c.symbol)
  <2>1. MemNext
    BY <1>3, <1>5 DEF MemNext
  <2> QED BY <1>5, <2>1 DEF AddPrivateAgain, Allocated
<1>6. CASE c.op = "internal" /\ AddInternal(c.fun, c.symbol, c.size, c.alignment)
  <2>1. c.symbol \in Symbol \ Allocated
    BY <1>3, <1>6 DEF AddInternal
  <2>2. MemNext
    BY <1>3, <1>6, <2>1 DEF MemNext
  <2>3. c \notin EarlyCalls
    BY <1>3, <1>6, EarlyOrLate
  <2> QED BY <1>6, <2>2, <2>3 DEF AddInternal, Allocated, With
<1>7. CASE c.op = "external" /\ AddExternal(c.symbol, c.size, c.alignment)
  <2>1. c.symbol \in Symbol \ Allocated
    BY <1>3, <1>7 DEF Fresh
  <2>2. MemNext
    BY <1>3, <1>7, <2>1 DEF MemNext
  <2>3. c \notin EarlyCalls
    BY <1>3, <1>7, EarlyOrLate
  <2> QED BY <1>7, <2>2, <2>3 DEF AddExternal, Allocated, With
<1>8. CASE c.op \in {"parameter", "last parameter"}
             /\ AddParameter(c.symbol, c.size, c.op = "last parameter")
  <2>1. c \in ParameterRequests
    BY <1>8 DEF EarlyCalls, LateCalls, VarRequests
  <2>2. c.symbol \in Symbol \ Allocated /\ c.size \in Sizes
    BY <1>8, <2>1 DEF Fresh, LateCalls, ParameterRequests
  <2>3. \E last \in BOOLEAN : AddParameter(c.symbol, c.size, last)
    BY <1>8, Zenon
  <2>4. MemNext
    BY <2>2, <2>3 DEF MemNext
  <2>5. c \notin EarlyCalls /\ c.op # "internal"
    BY <1>8, <2>1, EarlyOrLate DEF LateCalls
  <2>6. \A last : AddParameter(c.symbol, c.size, last) =>
          setting' = setting /\ scopes' = scopes /\ Allocated' = Allocated \cup {c.symbol}
    BY DEF AddParameter, Allocated, With
  <2> QED BY <2>3, <2>4, <2>5, <2>6
<1> QED BY <1>1, <1>2, <1>4, <1>5, <1>6, <1>7, <1>8 DEF Made

-----------------------------------------------------------------------------
(***************************************************************************)
(* The calls of all steps together use the memory as it is meant to be.    *)
(***************************************************************************)
\* No call still to be made gives an address to a symbol that has one and
\* may not get another, or changes the alignment after the first address.
CallsInv ==
  /\ prog \in Programs /\ setting \in Settings
  /\ pc \in {"share", "place"} => todo = << >> /\ Allocated = {} /\ unit = setting.bus
  /\ Orderly(todo)
  /\ \A b \in 1 .. Len(todo) :
       /\ todo[b] \in EarlyCalls => Allocated = {}
       /\ todo[b] \in LateCalls /\ Fresh(todo[b]) => todo[b].symbol \notin Allocated

LEMMA NothingToDo == Orderly(<< >>) /\ \A b \in 1 .. Len(<< >>) : FALSE
<1>1. Len(<< >>) = 0 /\ << >> \in Seq(EarlyCalls \cup LateCalls)
  OBVIOUS
<1>2. \A b : b \notin 1 .. 0
  OBVIOUS
<1> QED BY <1>1, <1>2, Zenon DEF Orderly

LEMMA CallsInvInit == Init => CallsInv
<1> SUFFICES ASSUME Init PROVE CallsInv
  OBVIOUS
<1>1. Allocated = {} /\ setting \in Settings /\ unit = setting.bus
  BY DEF Init, MemInit, Allocated
<1>2. prog \in Programs /\ todo = << >>
  BY DEF Init
<1> QED BY <1>1, <1>2, NothingToDo, Zenon DEF CallsInv

\* The first call still to be made.
LEMMA CallMemoryIs ==
  ASSUME CallsInv, CallMemory
  PROVE  LET c == todo[1]
         IN  /\ Len(todo) \in Nat \ {0} /\ todo' = Tail(todo) /\ Made(c)
             /\ Len(todo') = Len(todo) - 1
             /\ \A b \in 1 .. Len(todo') : b + 1 \in 1 .. Len(todo) /\ todo'[b] = todo[b + 1]
             /\ c \in EarlyCalls \cup LateCalls
             /\ c \in EarlyCalls => Allocated = {}
             /\ c \in LateCalls /\ Fresh(c) => c.symbol \notin Allocated
<1>1. todo \in Seq(EarlyCalls \cup LateCalls) /\ todo # << >>
  BY DEF CallsInv, Orderly, CallMemory
<1>2. /\ Len(todo) \in Nat \ {0} /\ Head(todo) = todo[1] /\ 1 \in 1 .. Len(todo)
      /\ todo[1] \in EarlyCalls \cup LateCalls
      /\ Len(Tail(todo)) = Len(todo) - 1
      /\ \A b \in 1 .. Len(Tail(todo)) : b + 1 \in 1 .. Len(todo) /\ Tail(todo)[b] = todo[b + 1]
  BY <1>1
<1>3. todo' = Tail(todo) /\ Made(Head(todo))
  BY DEF CallMemory
<1>4. /\ todo[1] \in EarlyCalls => Allocated = {}
      /\ todo[1] \in LateCalls /\ Fresh(todo[1]) => todo[1].symbol \notin Allocated
  BY <1>2 DEF CallsInv
<1> QED BY <1>2, <1>3, <1>4

LEMMA OrderlyTail ==
  ASSUME NEW q, Orderly(q), Len(q) > 0
  PROVE  Orderly(Tail(q))
<1> DEFINE t == Tail(q)
<1>1. /\ t \in Seq(EarlyCalls \cup LateCalls) /\ Len(q) \in Nat /\ Len(t) = Len(q) - 1
      /\ \A b \in 1 .. Len(t) : b + 1 \in 1 .. Len(q) /\ t[b] = q[b + 1]
  <2>1. q \in Seq(EarlyCalls \cup LateCalls)
    BY DEF Orderly
  <2> QED BY <2>1
<1> HIDE DEF t
<1>2. ASSUME NEW a \in 1 .. Len(t), NEW b \in 1 .. Len(t), a < b
      PROVE  /\ t[b] \in EarlyCalls => t[a] \in EarlyCalls
             /\ t[a] \in LateCalls /\ t[b] \in LateCalls /\ Fresh(t[b]) => t[a].symbol # t[b].symbol
  <2>1. PICK x, y : x = a + 1 /\ y = b + 1
    OBVIOUS
  <2>2. x \in 1 .. Len(q) /\ t[a] = q[x] /\ y \in 1 .. Len(q) /\ t[b] = q[y]
    BY <1>1, <2>1
  <2>3. x < y
    BY <1>2, <1>1, <2>1
  <2> QED BY <2>2, <2>3 DEF Orderly
<1> QED BY <1>1, <1>2 DEF Orderly, t

LEMMA CallsInvNext == CallsInv /\ [Next]_vars => CallsInv' /\ [MemNext]_memvars
<1> SUFFICES ASSUME CallsInv, [Next]_vars PROVE CallsInv' /\ [MemNext]_memvars
  OBVIOUS
<1>1. CASE ShareFunctions
  <2>1. /\ UNCHANGED <<prog, todo, memvars>> /\ pc = "share"
    BY <1>1 DEF ShareFunctions
  <2>2. UNCHANGED <<setting, symbols, unit>> /\ Allocated' = Allocated
    BY <2>1 DEF memvars, Allocated
  <2>3. todo = << >> /\ Allocated = {} /\ unit = setting.bus
    BY <2>1 DEF CallsInv
  <2>4. prog' \in Programs /\ setting' \in Settings /\ unit' = setting'.bus
    BY <2>1, <2>2, <2>3 DEF CallsInv
  <2>5. CallsInv'
    BY <2>1, <2>2, <2>3, <2>4, NothingToDo, Zenon DEF CallsInv
  <2> QED BY <2>1, <2>5
<1>2. CASE PlaceVariables
  <2>1. UNCHANGED <<prog, memvars>> /\ pc = "place" /\ pc' = "call" /\ todo' = AllCalls(place')
    BY <1>2 DEF PlaceVariables
  <2>2. UNCHANGED <<setting, symbols, unit>> /\ Allocated' = Allocated
    BY <2>1 DEF memvars, Allocated
  <2>3. Allocated = {} /\ unit = setting.bus /\ prog \in Programs /\ setting \in Settings
    BY <2>1 DEF CallsInv
  <2>4. Orderly(todo')
    BY <2>1, <2>3, AllCallsAre
  <2>5. CallsInv'
    BY <2>1, <2>2, <2>3, <2>4 DEF CallsInv
  <2> QED BY <2>1, <2>5
<1>3. CASE CallMemory
  <2> DEFINE c == todo[1]
  <2>1. /\ Len(todo) \in Nat \ {0} /\ todo' = Tail(todo) /\ Made(c)
        /\ Len(todo') = Len(todo) - 1
        /\ \A b \in 1 .. Len(todo') : b + 1 \in 1 .. Len(todo) /\ todo'[b] = todo[b + 1]
        /\ c \in EarlyCalls \cup LateCalls
        /\ c \in EarlyCalls => Allocated = {}
        /\ c \in LateCalls /\ Fresh(c) => c.symbol \notin Allocated
    BY <1>3, CallMemoryIs
  <2>2. /\ MemNext /\ setting' = setting
        /\ c \in EarlyCalls => Allocated' = Allocated
        /\ Allocated' \subseteq Allocated \cup {c.symbol}
    BY <2>1, MadeIs
  <2>3. UNCHANGED <<prog, pc>> /\ pc = "call"
    BY <1>3 DEF CallMemory
  <2>4. Orderly(todo')
    BY <2>1, OrderlyTail DEF CallsInv
  <2>5. ASSUME NEW b \in 1 .. Len(todo')
        PROVE  /\ todo'[b] \in EarlyCalls => Allocated' = {}
               /\ todo'[b] \in LateCalls /\ Fresh(todo'[b]) => todo'[b].symbol \notin Allocated'
    <3>1. PICK y \in 1 .. Len(todo) : y = b + 1 /\ todo'[b] = todo[y] /\ 1 < y
      BY <2>1
    <3>2. 1 \in 1 .. Len(todo)
      BY <2>1
    <3>3. /\ todo[y] \in EarlyCalls => Allocated = {}
          /\ todo[y] \in LateCalls /\ Fresh(todo[y]) => todo[y].symbol \notin Allocated
      BY DEF CallsInv
    <3>4. /\ todo[y] \in EarlyCalls => c \in EarlyCalls
          /\ c \in LateCalls /\ todo[y] \in LateCalls /\ Fresh(todo[y]) => c.symbol # todo[y].symbol
      BY <3>1, <3>2 DEF CallsInv, Orderly
    <3> HIDE DEF c
    <3> QED BY <2>1, <2>2, <3>1, <3>3, <3>4
  <2>6. CallsInv'
    BY <2>2, <2>3, <2>4, <2>5 DEF CallsInv
  <2> QED BY <2>2, <2>6
<1>4. CASE Finish
  <2>1. UNCHANGED <<prog, todo, memvars>> /\ pc' = "done" /\ todo = << >>
    BY <1>4 DEF Finish
  <2>2. UNCHANGED <<setting, symbols, unit>> /\ Allocated' = Allocated
    BY <2>1 DEF memvars, Allocated
  <2>3. prog' \in Programs /\ setting' \in Settings
    BY <2>1, <2>2 DEF CallsInv
  <2>4. CallsInv'
    BY <2>1, <2>2, <2>3, NothingToDo, Zenon DEF CallsInv
  <2> QED BY <2>1, <2>4
<1>5. CASE UNCHANGED vars
  <2>1. UNCHANGED <<prog, pc, todo, memvars>>
    BY <1>5 DEF vars
  <2>2. UNCHANGED <<setting, symbols, unit>> /\ Allocated' = Allocated
    BY <2>1 DEF memvars, Allocated
  <2> QED BY <2>1, <2>2 DEF CallsInv
<1> QED BY <1>1, <1>2, <1>3, <1>4, <1>5 DEF Next, Stopped

\* The calls to the memory, of all variables, copies and parameters, use it as
\* its assertions mean it to be used: nothing has an address when the
\* alignment of sparse memory starts anew, a variable is private before it has
\* one, and only a copied variable gets one twice.
THEOREM CallsObeyMemory == Spec => MemoryObeyed
<1>1. Init => MemInit
  BY DEF Init
<1>2. QED
  BY <1>1, CallsInvInit, CallsInvNext, PTL DEF Spec, MemoryObeyed, MemSpec

\* So the addresses are those of AddressSpace: the ranges of two symbols never
\* overlap, and all that is on the chip is below the largest address.
THEOREM AllocatedApart == Spec => []Disjoint
  BY CallsObeyMemory, AddressesDisjoint, PTL DEF MemoryObeyed

-----------------------------------------------------------------------------
(***************************************************************************)
(* What the steps do with what was decided: a variable is accessed by the  *)
(* function that has it, and connected to the others that use it.          *)
(***************************************************************************)
Due(f, v) == <<f, v>> \in scopes \/ Holds(todo, VarCall("internal", f, v))

Accessed(p) ==
  \A v \in Var : \A f \in Fun :
    p[v] \in Fun /\ Of(v).internal /\ (IF IsCopied(v) THEN f \in Of(v).users ELSE f = p[v])
      => Due(f, v)

Connected(p) ==
  \A v \in ThroughProxies : \A f \in Of(v).users : f # p[v] => <<f, v>> \in proxies

PlacementInv ==
  /\ pc \in {"share", "place", "call", "done"}
  /\ pc # "share" => SharedIs
  /\ pc \in {"call", "done"} =>
       place = [v \in Var |-> Placed(v)] /\ Accessed(place) /\ Connected(place)
  /\ pc = "done" => todo = << >>

\* What is decided depends on the program, the dominators and the functions
\* that are shared alone.
LEMMA SameProgram ==
  ASSUME prog' = prog
  PROVE  /\ \A f : UnitOf(f)' = UnitOf(f)
         /\ Shareable' = Shareable /\ ThroughProxies' = ThroughProxies
         /\ \A v : Of(v)' = Of(v) /\ (IsCopied(v)' <=> IsCopied(v))
         /\ \A v, f : VarCall("internal", f, v)' = VarCall("internal", f, v)
<1>2. \A f : UnitOf(f)' = UnitOf(f)
  BY DEF UnitOf, OwnOrDominator, Callers, Calls, Dom, SinglePaths, Paths, Counted
<1>3. \A f : Callers(f)' = Callers(f)
  BY DEF Callers, Calls
<1>4. Shareable' = Shareable
  BY <1>2, <1>3 DEF Shareable
<1>5. \A v : Of(v)' = Of(v) /\ (IsCopied(v)' <=> IsCopied(v))
  BY DEF Of, IsCopied, IsLocalPolicy
<1>6. ThroughProxies' = ThroughProxies
  BY DEF ThroughProxies, Of, IsCopied, IsLocalPolicy
<1>7. \A v, f : VarCall("internal", f, v)' = VarCall("internal", f, v)
  BY DEF VarCall, Call, Of
<1> QED BY <1>2, <1>4, <1>5, <1>6, <1>7

LEMMA SamePlace ==
  ASSUME prog' = prog, shared' = shared, NEW v
  PROVE  Placed(v)' = Placed(v)
  BY DEF Placed, FiledUnder, Remapped, Of, Up, Single, Instances, OneUnit, IsWritten,
         Callers, Calls, Dom, Counted

LEMMA PlacementInvInit == Init => PlacementInv
  BY DEF Init, PlacementInv

LEMMA AccessedAfter ==
  ASSUME prog' = prog, NEW p, Accessed(p), \A v \in Var, f \in Fun : Due(f, v) => Due(f, v)'
  PROVE  \A v \in Var : \A f \in Fun :
           p[v] \in Fun /\ Of(v)'.internal /\ (IF IsCopied(v)' THEN f \in Of(v)'.users ELSE f = p[v])
             => Due(f, v)'
<1>1. \A v : Of(v)' = Of(v) /\ (IsCopied(v)' <=> IsCopied(v))
  BY SameProgram
<1> TAKE v \in Var
<1> TAKE f \in Fun
<1>2. p[v] \in Fun /\ Of(v).internal /\ (IF IsCopied(v) THEN f \in Of(v).users ELSE f = p[v])
        => Due(f, v)
  BY DEF Accessed
<1> QED BY <1>1, <1>2

LEMMA PlacementInvNext == CallsInv /\ PlacementInv /\ [Next]_vars => PlacementInv'
<1> SUFFICES ASSUME CallsInv, PlacementInv, [Next]_vars PROVE PlacementInv'
  OBVIOUS
<1>1. CASE ShareFunctions
  <2>1. prog' = prog /\ pc' = "place" /\ shared' = [f \in Shareable |-> UnitOf(f)]
    BY <1>1 DEF ShareFunctions
  <2>2. SharedIs'
    BY <2>1, SameProgram DEF PlacementInv, SharedIs
  <2> QED BY <2>1, <2>2 DEF PlacementInv
<1>2. CASE PlaceVariables
  <2> DEFINE p == [v \in Var |-> Placed(v)]
  <2>1. /\ prog' = prog /\ pc = "place" /\ pc' = "call" /\ shared' = shared
        /\ place' = p /\ todo' = AllCalls(place')
        /\ proxies' = UNION {(Of(v).users \ {place'[v]}) \X {v} : v \in ThroughProxies}
        /\ prog \in Programs /\ setting \in Settings /\ unit = setting.bus
        /\ UNCHANGED memvars
    BY <1>2 DEF PlaceVariables, CallsInv
  <2>2. SharedIs'
    BY <2>1, SameProgram DEF PlacementInv, SharedIs
  <2>3. place' = [v \in Var |-> Placed(v)']
    BY <2>1, SamePlace
  <2> HIDE DEF p
  <2>4. ASSUME NEW v \in Var, NEW f \in Fun, p[v] \in Fun, Of(v).internal,
               IF IsCopied(v) THEN f \in Of(v).users ELSE f = p[v]
        PROVE  Due(f, v)'
    <3>1. Holds(VarCalls(v, p[v]), VarCall("internal", f, v))
      BY <2>1, <2>4, VarCallsAre
    <3>2. Holds(AllCalls(p), VarCall("internal", f, v))
      BY <2>1, <2>4, <3>1, AllCallsAre
    <3> QED BY <2>1, <3>2, SameProgram DEF Due
  <2>5. Accessed(place)'
    BY <2>1, <2>4, SameProgram DEF Accessed
  <2>6. Connected(place)'
    <3>1. \A v \in ThroughProxies : \A f \in Of(v).users : f # place'[v] => <<f, v>> \in proxies'
      BY <2>1
    <3> QED BY <2>1, <3>1, SameProgram DEF Connected
  <2> QED BY <2>1, <2>2, <2>3, <2>5, <2>6 DEF PlacementInv
<1>3. CASE CallMemory
  <2> DEFINE c == todo[1]
  <2>1. UNCHANGED <<prog, pc, shared, place, proxies>> /\ pc = "call"
    BY <1>3 DEF CallMemory
  <2>2. SharedIs' /\ Connected(place)'
    BY <2>1, SameProgram DEF PlacementInv, SharedIs, Connected
  <2>3. place' = [v \in Var |-> Placed(v)']
    BY <2>1, SamePlace DEF PlacementInv
  <2>4. /\ Len(todo) \in Nat \ {0} /\ Made(c) /\ Len(todo') = Len(todo) - 1
        /\ \A b \in 1 .. Len(todo') : b + 1 \in 1 .. Len(todo) /\ todo'[b] = todo[b + 1]
        /\ c \in EarlyCalls \cup LateCalls
        /\ c \in EarlyCalls => Allocated = {}
        /\ c \in LateCalls /\ Fresh(c) => c.symbol \notin Allocated
    BY <1>3, CallMemoryIs
  <2>5. scopes \subseteq scopes' /\ (c.op = "internal" => <<c.fun, c.symbol>> \in scopes')
    BY <2>4, MadeIs
  <2>6. ASSUME NEW v \in Var, NEW f \in Fun, Due(f, v) PROVE Due(f, v)'
    <3> DEFINE d == VarCall("internal", f, v)
    <3>1. d.op = "internal" /\ d.fun = f /\ d.symbol = v
      BY DEF VarCall, Call
    <3>2. d' = d
      BY <2>1, SameProgram
    <3> HIDE DEF d
    <3>3. CASE <<f, v>> \in scopes
      BY <2>5, <3>3 DEF Due
    <3>4. CASE Holds(todo, d)
      <4>1. PICK y \in 1 .. Len(todo) : todo[y] = d
        BY <3>4 DEF Holds
      <4>2. CASE y = 1
        BY <2>5, <3>1, <4>1, <4>2 DEF Due
      <4>3. CASE y # 1
        <5>1. y - 1 \in 1 .. Len(todo') /\ y - 1 + 1 = y
          BY <2>4, <4>1, <4>3
        <5>2. todo'[y - 1] = d
          BY <2>4, <4>1, <5>1
        <5>3. Holds(todo', d)
          BY <5>1, <5>2 DEF Holds
        <5> QED BY <3>2, <5>3 DEF Due, d
      <4> QED BY <4>2, <4>3
    <3> QED BY <2>6, <3>3, <3>4 DEF Due, d
  <2>7. Accessed(place)'
    <3>1. Accessed(place)
      BY <2>1 DEF PlacementInv
    <3> QED BY <2>1, <2>6, <3>1, AccessedAfter DEF Accessed
  <2> QED BY <2>1, <2>2, <2>3, <2>7 DEF PlacementInv
<1>4. CASE Finish
  <2>1. UNCHANGED <<prog, shared, place, proxies, todo, memvars>> /\ pc = "call" /\ pc' = "done"
        /\ todo = << >>
    BY <1>4 DEF Finish
  <2>2. SharedIs' /\ Connected(place)'
    BY <2>1, SameProgram DEF PlacementInv, SharedIs, Connected
  <2>3. place' = [v \in Var |-> Placed(v)']
    BY <2>1, SamePlace DEF PlacementInv
  <2>4. \A v \in Var, f \in Fun : Due(f, v) => Due(f, v)'
    BY <2>1, SameProgram DEF Due, memvars
  <2>5. Accessed(place)'
    <3>1. Accessed(place)
      BY <2>1 DEF PlacementInv
    <3> QED BY <2>1, <2>4, <3>1, AccessedAfter DEF Accessed
  <2> QED BY <2>1, <2>2, <2>3, <2>5 DEF PlacementInv
<1>5. CASE UNCHANGED vars
  <2>1. UNCHANGED <<prog, pc, shared, place, proxies, todo, memvars>>
    BY <1>5 DEF vars
  <2>3. SharedIs => SharedIs'
    BY <2>1, SameProgram DEF SharedIs
  <2>4. pc \in {"call", "done"} => place' = [v \in Var |-> Placed(v)'] /\ Accessed(place)' /\ Connected(place)'
    <3> SUFFICES ASSUME pc \in {"call", "done"}
                 PROVE  place' = [v \in Var |-> Placed(v)'] /\ Accessed(place)' /\ Connected(place)'
      OBVIOUS
    <3>1. place' = [v \in Var |-> Placed(v)']
      BY <2>1, SamePlace DEF PlacementInv
    <3>2. Connected(place)'
      BY <2>1, SameProgram DEF PlacementInv, Connected
    <3>3. \A v \in Var, f \in Fun : Due(f, v) => Due(f, v)'
      BY <2>1, SameProgram DEF Due, memvars
    <3>4. Accessed(place)
      BY DEF PlacementInv
    <3>5. Accessed(place)'
      BY <2>1, <3>3, <3>4, AccessedAfter DEF Accessed
    <3> QED BY <3>1, <3>2, <3>5
  <2> QED BY <2>1, <2>3, <2>4 DEF PlacementInv
<1> QED BY <1>1, <1>2, <1>3, <1>4, <1>5 DEF Next, Stopped

LEMMA ServedAtEnd == CallsInv /\ PlacementInv /\ AllShared => ServedFromAbove
<1> SUFFICES ASSUME CallsInv, PlacementInv, AllShared, pc = "done" PROVE ServedFromAbove
  BY DEF ServedFromAbove
<1>1. prog \in Programs /\ SharedIs /\ todo = << >>
  BY DEF CallsInv, PlacementInv
<1>2. \A f \in DOMAIN shared : Units[f] = 1 /\ \A g \in Callers(f) : Encloses(shared[f], g)
  BY <1>1, FunctionsServed
<1>3. ASSUME NEW v \in Var, NEW f \in Of(v).users, Of(v).internal, IsLocalPolicy, <<f, v>> \notin scopes
      PROVE  <<f, v>> \in proxies /\ Encloses(place[v], f)
  <2>1. place[v] = Placed(v) /\ f \in Fun
    BY <1>1, TypesOfProgram DEF PlacementInv
  <2>2. place[v] \in Fun /\ Encloses(place[v], f)
    BY <1>1, <2>1, PlacedEncloses
  <2>3. ~Due(f, v)
    <3>1. ~Holds(todo, VarCall("internal", f, v))
      <4>1. Len(<< >>) = 0 /\ \A a : a \notin 1 .. 0
        OBVIOUS
      <4> QED BY <1>1, <4>1, Zenon DEF Holds
    <3> QED BY <1>3, <3>1 DEF Due
  <2>4. ~IsCopied(v) /\ f # place[v]
    BY <1>3, <2>1, <2>2, <2>3 DEF PlacementInv, Accessed
  <2>5. v \in ThroughProxies
    BY <1>3, <2>4 DEF ThroughProxies
  <2> QED BY <2>2, <2>4, <2>5 DEF PlacementInv, Connected
<1>4. \A v \in Var : \A f \in Of(v).users :
         Of(v).internal => \/ <<f, v>> \in scopes
                           \/ ~IsLocalPolicy
                           \/ <<f, v>> \in proxies /\ Encloses(place[v], f)
  BY <1>3
<1> QED BY <1>2, <1>4 DEF ServedFromAbove

LEMMA OnceAtEnd == CallsInv /\ PlacementInv /\ KeptOnce => OneCopy
<1> SUFFICES ASSUME CallsInv, PlacementInv, KeptOnce, pc = "done",
                    NEW v \in Var, Of(v).state, Of(v).written
             PROVE  Units[place[v]] = 1
  BY DEF OneCopy
<1>1. prog \in Programs /\ SharedIs
  BY DEF CallsInv, PlacementInv
<1>2. place[v] = Placed(v)
  BY DEF PlacementInv
<1> QED BY <1>1, <1>2, PlacedOnce

\* Where every function several others call is shared, a shared function and
\* a private variable are above all they serve, and a shared function is
\* there once, in whatever program: a proxy never leads to a unit or a memory
\* that another instance has, or none.
THEOREM UsersAreServed == Spec /\ []AllShared => []ServedFromAbove
<1>1. Spec => [](CallsInv /\ PlacementInv)
  BY CallsInvInit, CallsInvNext, PlacementInvInit, PlacementInvNext, PTL DEF Spec
<1>2. QED
  BY <1>1, ServedAtEnd, PTL

\* A written variable that keeps its value is in memory once, where the units
\* mem_dominator_allocation counts are those of the circuit.
THEOREM StateIsOnce == Spec /\ []KeptOnce => []OneCopy
<1>1. Spec => [](CallsInv /\ PlacementInv)
  BY CallsInvInit, CallsInvNext, PlacementInvInit, PlacementInvNext, PTL DEF Spec
<1>2. QED
  BY <1>1, OnceAtEnd, PTL

\* In every program, what the balanced forests of dom_info find is the last
\* function on every path from the top function.
THEOREM DominatorsOfCalls == Spec => []DominatorsRight
<1>1. CallsInv => DominatorsRight
  BY DominatorsFound DEF CallsInv, DominatorsRight
<1>2. QED
  BY <1>1, CallsInvInit, CallsInvNext, PTL DEF Spec
=============================================================================
