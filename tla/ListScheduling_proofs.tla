------------------------ MODULE ListScheduling_proofs ------------------------
(* What the list scheduler guarantees whatever the block, the functional   *)
(* units and the times are.                                                *)
EXTENDS ListScheduling, Numbers

-----------------------------------------------------------------------------
(***************************************************************************)
(* Finite sets of integers, and divisions.                                 *)
(***************************************************************************)
LEMMA DivideType ==
  ASSUME NEW x \in Nat, NEW k \in Nat \ {0}
  PROVE  x \div k \in Nat
OBVIOUS

(* x \div k is the step x lies in when a step lasts k.                     *)
LEMMA DivideBounds ==
  ASSUME NEW x \in Nat, NEW k \in Nat \ {0}, NEW c \in Nat
  PROVE  /\ c * k <= x => c <= x \div k
         /\ x < (c + 1) * k => x \div k <= c
         /\ c < x \div k => (c + 1) * k <= x
OBVIOUS

LEMMA Products ==
  ASSUME NEW k \in Nat, NEW c \in Nat
  PROVE  /\ k * c \in Nat
         /\ c * k \in Nat
         /\ c >= 1 => k * c >= k
         /\ (c + 1) * k = c * k + k
OBVIOUS

-----------------------------------------------------------------------------
(***************************************************************************)
(* Operations and times.                                                   *)
(***************************************************************************)
LEMMA Constants ==
  /\ Clock \in Nat \ {0} /\ SetupHold \in Nat
  /\ 0 < SetupHold /\ SetupHold < Clock
  /\ IsFiniteSet(Op) /\ NoFu \notin Fu /\ NumberFu \in [Fu -> Nat \ {0}]
BY ConstantsAssumption

LEMMA Operations ==
  ASSUME TypeOK, NEW v \in Op
  PROVE  /\ Of(v) \in Info
         /\ Preds(v) \subseteq Op /\ DataPreds(v) \subseteq Preds(v)
BY BlocksAssumption DEF TypeOK, Of, Preds, DataPreds, Block

LEMMA Cycles ==
  ASSUME TypeOK
  PROVE  /\ CycleStart \in Nat /\ CycleEnd \in Nat
         /\ CycleEnd = CycleStart + Clock
BY Constants, Products DEF TypeOK, CycleStart, CycleEnd

(* An operation starts in the current step or later, once the values it    *)
(* reads are there.                                                        *)
LEMMA StartsLate ==
  ASSUME TypeOK, NEW v \in Op
  PROVE  /\ StartingTime(v) \in Nat
         /\ CycleStart <= StartingTime(v)
         /\ \A u \in DataPreds(v) : end[u] <= StartingTime(v)
<1> DEFINE ends == {end[u] : u \in DataPreds(v)}
           e == [u \in DataPreds(v) |-> end[u]]
<1>1. ends \subseteq Nat
  BY Operations DEF TypeOK
<1>2. IsFiniteSet(DataPreds(v))
  BY Operations, Constants, FS_Subset
<1>3. e \in Surjection(DataPreds(v), ends)
  BY DEF Surjection
<1>4. IsFiniteSet(ends)
  BY <1>2, <1>3, FS_Surjection
<1>5. {CycleStart} \cup ends = ends \cup {CycleStart}
  OBVIOUS
<1>6. IsFiniteSet({CycleStart} \cup ends)
  BY <1>4, <1>5, FS_AddElement
<1>7. {CycleStart} \cup ends \in SUBSET Int /\ {CycleStart} \cup ends # {}
  BY <1>1, Cycles
<1>8. StartingTime(v) = Max({CycleStart} \cup ends)
  BY DEF StartingTime
<1> HIDE DEF ends
<1>9. /\ StartingTime(v) \in {CycleStart} \cup ends
      /\ \A y \in {CycleStart} \cup ends : StartingTime(v) >= y
  BY <1>6, <1>7, <1>8, MaxIsGreatest
<1>10. StartingTime(v) \in Nat /\ CycleStart <= StartingTime(v)
  BY <1>1, <1>9, Cycles
<1>11. \A u \in DataPreds(v) : end[u] \in ends /\ end[u] \in Nat
  BY <1>1 DEF ends
<1> QED BY <1>9, <1>10, <1>11

(* It ends in the current step or later.                                   *)
LEMMA EndsLate ==
  ASSUME TypeOK, NEW v \in Op, NEW f \in Fu
  PROVE  /\ EndingTime(v, f) \in Nat /\ CycleStart <= EndingTime(v, f)
         /\ PlacedEnd(v, f) \in Nat /\ CycleStart <= PlacedEnd(v, f)
<1> DEFINE cycles == Max({1, Of(v).cycles})
<1>1. Of(v).cycles \in Nat /\ Of(v).delay \in Nat /\ Of(v).stage \in Nat
  BY Operations DEF Info
<1>2. cycles \in Nat /\ cycles >= 1
  <2>1. 1 \in Int /\ Of(v).cycles \in Int
    BY <1>1
  <2>2. Max({1, Of(v).cycles}) \in {1, Of(v).cycles} /\ Max({1, Of(v).cycles}) >= 1
    BY ONLY <2>1, MaxOfTwo
  <2> QED BY <1>1, <2>2
<1> HIDE DEF cycles
<1>3. /\ Clock * cycles \in Nat /\ Clock * cycles >= Clock
      /\ Clock * (cycles - 1) \in Nat
  BY <1>2, Constants, Products
<1>4. Clock * cycles - SetupHold \in Nat
  BY <1>3, Constants
<1>5. StagePeriod(v, f) \in Nat
  BY <1>1, Constants DEF StagePeriod
<1>6. EndingTime(v, f) \in Nat /\ CycleStart <= EndingTime(v, f)
  BY <1>1, <1>3, <1>4, <1>5, StartsLate, Cycles DEF EndingTime, cycles
<1>7. CycleEnd - SetupHold \in Nat /\ CycleStart <= CycleEnd - SetupHold
  BY Constants, Cycles
<1> QED BY <1>6, <1>7 DEF PlacedEnd

-----------------------------------------------------------------------------
(***************************************************************************)
(* Types.                                                                  *)
(***************************************************************************)
LEMMA CountsOfOperations ==
  ASSUME NEW S \in SUBSET Op
  PROVE  Cardinality(S) \in Nat
BY Constants, FS_Subset, FS_CardinalityType

LEMMA InitType == Init => TypeOK
<1> SUFFICES ASSUME Init PROVE TypeOK
  OBVIOUS
<1>1. block \in Block
  BY BlocksAssumption DEF Init
<1>2. queue \in Queues /\ black \in Queues /\ postponed \in Queues
  BY DEF Init, Queues, NoOps, ReadyVertices
<1>3. flags \in [unbounded : BOOLEAN, unboundedRW : BOOLEAN,
                 rwFunctions : BOOLEAN, loadStoreOp : BOOLEAN,
                 seeMulticycle : BOOLEAN, retConflict : BOOLEAN,
                 proxies : SUBSET Proxy, count : Nat]
  BY DEF Init, NoFlags
<1> QED BY <1>1, <1>2, <1>3 DEF Init, TypeOK

Flags == [unbounded : BOOLEAN, unboundedRW : BOOLEAN,
          rwFunctions : BOOLEAN, loadStoreOp : BOOLEAN,
          seeMulticycle : BOOLEAN, retConflict : BOOLEAN,
          proxies : SUBSET Proxy, count : Nat]

LEMMA BeginCycleType == TypeOK /\ BeginCycle => TypeOK'
<1> SUFFICES ASSUME TypeOK, BeginCycle PROVE TypeOK'
  OBVIOUS
<1>1. live' \subseteq Op /\ ready' \subseteq Fu
  BY DEF TypeOK, BeginCycle
<1>2. used' \in [Fu -> Nat]
  <2> DEFINE held(f) == {v \in live' : bound[v] = f /\ Holds(v)}
  <2>1. \A f \in Fu : Cardinality(held(f)) \in Nat
    BY <1>1, CountsOfOperations
  <2>2. used' = [f \in Fu |-> Cardinality(held(f))]
    BY DEF BeginCycle
  <2> HIDE DEF held
  <2> QED BY <2>1, <2>2
<1>3. flags' \in Flags
  <2> DEFINE b1 == LiveInNextCycle
             b2 == \E v \in live' : IsMemory(v)
             b3 == \E v \in live' : IsRWFunction(v)
             b4 == (RegisterOut /\ ~AllButOne) \/ \E v \in live' : Is(v, {"store"})
  <2>1. flags' = [NoFlags EXCEPT !.seeMulticycle = b1, !.loadStoreOp = b2,
                                 !.rwFunctions = b3, !.retConflict = b4]
    BY DEF BeginCycle
  <2>2. b1 \in BOOLEAN /\ b2 \in BOOLEAN /\ b3 \in BOOLEAN /\ b4 \in BOOLEAN
    BY DEF LiveInNextCycle
  <2> HIDE DEF b1, b2, b3, b4
  <2> QED BY <2>1, <2>2 DEF Flags, NoFlags
<1>4. pc' \in {"begin", "fill", "done", "unfeasible", "refused"}
  BY DEF BeginCycle
<1>5. unit' = NoFu
  BY DEF BeginCycle
<1>6. UNCHANGED <<block, cycle, schedule, queue, black, postponed, asap, arrays, others>>
  BY DEF BeginCycle
<1> QED BY <1>1, <1>2, <1>3, <1>4, <1>5, <1>6 DEF TypeOK, Flags, schedule, Queues

LEMMA QueueStepType ==
  TypeOK /\ (\/ \E f \in Fu : Consider(f)
             \/ \E v \in Op : AlreadyScheduled(v) \/ Blacklist(v) \/ Postpone(v)
             \/ Restart
             \/ Returned) => TypeOK'
<1> SUFFICES ASSUME TypeOK PROVE
      (\/ \E f \in Fu : Consider(f)
       \/ \E v \in Op : AlreadyScheduled(v) \/ Blacklist(v) \/ Postpone(v)
       \/ Restart
       \/ Returned) => TypeOK'
  OBVIOUS
<1>1. ASSUME NEW f \in Fu, Consider(f) PROVE TypeOK'
  BY <1>1 DEF TypeOK, Consider, schedule, Queues
<1>2. ASSUME NEW v \in Op, AlreadyScheduled(v) PROVE TypeOK'
  BY <1>2 DEF TypeOK, AlreadyScheduled, Popped, PopOnly, schedule, Queues
<1>3. ASSUME NEW v \in Op, Blacklist(v) PROVE TypeOK'
  BY <1>3 DEF TypeOK, Blacklist, Popped, PopOnly, schedule, Queues
<1>4. ASSUME NEW v \in Op, Postpone(v) PROVE TypeOK'
  BY <1>4 DEF TypeOK, Postpone, Popped, PopOnly, schedule, Queues
<1>5. ASSUME Restart PROVE TypeOK'
  BY <1>5 DEF TypeOK, Restart, AllDrained, NoOps, schedule, Queues
<1>6. ASSUME Returned PROVE TypeOK'
  BY <1>6 DEF TypeOK, Returned, vars, schedule, queues
<1> QED BY <1>1, <1>2, <1>3, <1>4, <1>5, <1>6

LEMMA EndCycleType == TypeOK /\ EndCycle => TypeOK'
<1> SUFFICES ASSUME TypeOK, EndCycle PROVE TypeOK'
  OBVIOUS
<1>1. arrays' \in 0 .. 1 /\ others' \in 0 .. 2
  <2>1. arrays' = Max({0, arrays - 1}) /\ others' = Max({0, others - 1})
    BY DEF EndCycle, EndCycleWith
  <2>2. arrays - 1 \in Int /\ others - 1 \in Int /\ 0 \in Int
    BY DEF TypeOK
  <2>3. /\ Max({0, arrays - 1}) \in {0, arrays - 1} /\ Max({0, arrays - 1}) >= 0
        /\ Max({0, others - 1}) \in {0, others - 1} /\ Max({0, others - 1}) >= 0
    BY ONLY <2>2, MaxOfTwo
  <2> QED BY <2>1, <2>3 DEF TypeOK
<1>2. queue' \in Queues /\ black' \in Queues /\ postponed' \in Queues
  BY DEF TypeOK, EndCycle, EndCycleWith, Queues, NoOps
<1>3. /\ cycle' = cycle + 1
      /\ pc' \in {"done", "begin"}
      /\ UNCHANGED <<block, schedule, ready, unit, used, live, asap, flags>>
  BY DEF EndCycle, EndCycleWith
<1> QED BY <1>1, <1>2, <1>3 DEF TypeOK, schedule

(* What Place does, with its times and its asap in Nat.                    *)
LEMMA PlaceFacts ==
  ASSUME TypeOK, NEW v \in Op, Place(v)
  PROVE  /\ pc = "fill" /\ unit \in Fu /\ v \in queue[unit] /\ v \notin scheduled
         /\ end' = [end EXCEPT ![v] = PlacedEnd(v, unit)]
         /\ end'[v] = PlacedEnd(v, unit) /\ end'[v] \in Nat
         /\ end'[v] \div Clock \in Nat /\ cycle <= end'[v] \div Clock
         /\ \A w \in Op : w # v => end'[w] = end[w]
         /\ asap' = [w \in Op |-> IF w \in Succs(v)
                                  THEN Max({asap[w], end'[v] \div Clock}) ELSE asap[w]]
         /\ \A w \in Op : asap'[w] \in Nat /\ asap'[w] >= asap[w]
         /\ \A w \in Succs(v) : w \in Op /\ end'[v] \div Clock <= asap'[w]
<1>1. pc = "fill" /\ unit \in Fu /\ v \in queue[unit] /\ v \notin scheduled
  BY DEF Place, Popped, TypeOK
<1>2. /\ end' = [end EXCEPT ![v] = PlacedEnd(v, unit)]
      /\ end'[v] = PlacedEnd(v, unit) /\ end'[v] \in Nat
      /\ \A w \in Op : w # v => end'[w] = end[w]
      /\ CycleStart <= end'[v]
  BY <1>1, EndsLate DEF TypeOK, Place
<1>3. end'[v] \div Clock \in Nat /\ cycle <= end'[v] \div Clock
  <2> DEFINE x == end'[v]
  <2>1. x \in Nat /\ cycle * Clock <= x /\ cycle \in Nat /\ Clock \in Nat \ {0}
    BY <1>2, Constants DEF CycleStart, TypeOK
  <2> HIDE DEF x
  <2>2. x \div Clock \in Nat /\ cycle <= x \div Clock
    BY <2>1, DivideType, DivideBounds
  <2> QED BY <2>2 DEF x
<1>4. asap' = [w \in Op |-> IF w \in Succs(v)
                            THEN Max({asap[w], end'[v] \div Clock}) ELSE asap[w]]
  BY DEF Place, AddSuccessors
<1>5. Succs(v) \subseteq Op
  BY DEF Succs
<1>6. ASSUME NEW w \in Op
      PROVE  /\ asap'[w] \in Nat /\ asap'[w] >= asap[w]
             /\ w \in Succs(v) => end'[v] \div Clock <= asap'[w]
  <2> DEFINE e == end'[v] \div Clock
  <2>1. asap[w] \in Nat /\ e \in Nat
    BY <1>3 DEF TypeOK
  <2>2. asap'[w] = IF w \in Succs(v) THEN Max({asap[w], e}) ELSE asap[w]
    BY <1>4
  <2> HIDE DEF e
  <2>3. /\ Max({asap[w], e}) \in {asap[w], e}
        /\ Max({asap[w], e}) >= asap[w] /\ Max({asap[w], e}) >= e
    <3>1. asap[w] \in Int /\ e \in Int
      BY <2>1
    <3> QED BY ONLY <3>1, MaxOfTwo
  <2>4. /\ asap'[w] \in Nat /\ asap'[w] >= asap[w]
        /\ w \in Succs(v) => e <= asap'[w]
    BY <2>1, <2>2, <2>3
  <2> QED BY <2>4 DEF e
<1> QED BY <1>1, <1>2, <1>3, <1>4, <1>5, <1>6

LEMMA PlaceType == ASSUME TypeOK, NEW v \in Op, Place(v) PROVE TypeOK'
<1>1. unit \in Fu /\ end' \in [Op -> Nat] /\ asap' \in [Op -> Nat]
  BY PlaceFacts DEF TypeOK
<1>2. /\ scheduled' \subseteq Op /\ cstep' \in [Op -> Nat] /\ start' \in [Op -> Nat]
      /\ bound' \in [Op -> Fu \cup {NoFu}] /\ used' \in [Fu -> Nat]
  BY <1>1, StartsLate DEF Place, TypeOK
<1>3. queue' \in Queues /\ ready' \subseteq Fu
  <2> DEFINE released == {w \in Succs(v) : Preds(w) \subseteq scheduled'}
  <2>1. released \subseteq Op /\ \A w \in released : Of(w).fus \subseteq Fu
    BY Operations DEF Succs, Info
  <2>2. queue' = [f \in Fu |-> (IF f = unit THEN queue[f] \ {v} ELSE queue[f])
                               \cup {w \in released : f \in Of(w).fus}]
    BY DEF Place, AddSuccessors
  <2>3. ready' = ready \cup UNION {Of(w).fus : w \in released}
    BY DEF Place, AddSuccessors
  <2> HIDE DEF released
  <2> QED BY <2>1, <2>2, <2>3 DEF TypeOK, Queues
<1>4. live' \subseteq Op
  BY DEF Place, TypeOK
<1>5. flags' \in Flags
  <2>1. Of(v).proxies \in SUBSET Proxy
    BY Operations DEF Info
  <2>2. flags \in Flags
    BY DEF TypeOK, Flags
  <2>3. /\ IsUnbounded(v) \in BOOLEAN /\ IsUnboundedRW(v) \in BOOLEAN
        /\ IsRWFunction(v) \in BOOLEAN /\ IsMemory(v) \in BOOLEAN
        /\ Is(v, {"store"}) \in BOOLEAN /\ Is(v, {"call"}) \in BOOLEAN
    BY DEF IsUnbounded, IsUnboundedRW, IsRWFunction, IsMemory, Is
  <2> DEFINE b1 == flags.unbounded \/ IsUnbounded(v)
             b2 == flags.unboundedRW \/ IsUnboundedRW(v)
             b3 == flags.rwFunctions \/ IsRWFunction(v)
             b4 == flags.loadStoreOp \/ IsMemory(v)
             b5 == flags.seeMulticycle
                     \/ (Of(v).bounded /\ PlacedEnd(v, unit) > CycleEnd)
             b6 == CASE Is(v, {"call"}) /\ Of(v).rw -> TRUE
                     [] IsMemory(v) -> Is(v, {"store"})
                     [] OTHER -> flags.retConflict
             prox == IF Is(v, {"call"}) THEN flags.proxies \cup Of(v).proxies
                     ELSE flags.proxies
             n == flags.count + 1
  <2>4. flags' = [flags EXCEPT
          !.count = n, !.unbounded = b1, !.unboundedRW = b2, !.rwFunctions = b3,
          !.loadStoreOp = b4, !.seeMulticycle = b5, !.retConflict = b6,
          !.proxies = prox]
    BY DEF Place, UpdateFlags
  <2>5. b1 \in BOOLEAN /\ b2 \in BOOLEAN /\ b3 \in BOOLEAN /\ b4 \in BOOLEAN
        /\ b5 \in BOOLEAN
    OBVIOUS
  <2>6. b6 \in BOOLEAN
    BY <2>2, <2>3 DEF Flags
  <2>7. n \in Nat /\ prox \in SUBSET Proxy
    BY <2>1, <2>2 DEF Flags
  <2> HIDE DEF b1, b2, b3, b4, b5, b6, prox, n
  <2>8. flags = [unbounded |-> flags.unbounded, unboundedRW |-> flags.unboundedRW,
                 rwFunctions |-> flags.rwFunctions, loadStoreOp |-> flags.loadStoreOp,
                 seeMulticycle |-> flags.seeMulticycle,
                 retConflict |-> flags.retConflict,
                 proxies |-> flags.proxies, count |-> flags.count]
    BY <2>2 DEF Flags
  <2>9. flags' = [unbounded |-> b1, unboundedRW |-> b2, rwFunctions |-> b3,
                  loadStoreOp |-> b4, seeMulticycle |-> b5, retConflict |-> b6,
                  proxies |-> prox, count |-> n]
    BY ONLY <2>4, <2>8
  <2> QED BY <2>5, <2>6, <2>7, <2>9 DEF Flags
<1>6. arrays' \in 0 .. 1 /\ others' \in 0 .. 2
  BY DEF Place, UpdateVuses, TypeOK
<1>7. UNCHANGED <<block, pc, cycle, unit, black, postponed>>
  BY DEF Place
<1> QED BY <1>1, <1>2, <1>3, <1>4, <1>5, <1>6, <1>7 DEF TypeOK, Flags

LEMMA NextType == TypeOK /\ [Next]_vars => TypeOK'
<1> SUFFICES ASSUME TypeOK, [Next]_vars PROVE TypeOK'
  OBVIOUS
<1>1. CASE UNCHANGED vars
  BY <1>1 DEF TypeOK, vars, schedule, queues
<1> QED BY <1>1, BeginCycleType, QueueStepType, PlaceType, EndCycleType DEF Next

(* The variables of the scheduler keep their types.                        *)
THEOREM SchedulerTyped == Spec => []TypeOK
BY InitType, NextType, PTL DEF Spec

-----------------------------------------------------------------------------
(***************************************************************************)
(* Dependences.                                                            *)
(***************************************************************************)
Waiting(f) == queue[f] \cup black[f] \cup postponed[f]

(* Whatever waits in a queue may be scheduled: this is what makes the      *)
(* order of the queues, the black list and the postponed operations        *)
(* irrelevant.                                                             *)
OnlyReleasedWait == \A f \in Fu : \A v \in Waiting(f) : Preds(v) \subseteq scheduled

(* The step an operation may start in counts every predecessor scheduled   *)
(* so far, those that are still to come excepted.                          *)
AsapIsRight == \A v \in Op : \A u \in Preds(v) \cap scheduled : CstepEnd(u) <= asap[v]

DependenceInv == OnlyReleasedWait /\ AsapIsRight /\ DependencesRespected

LEMMA SameOperations ==
  ASSUME block' = block
  PROVE  \A v : /\ Of(v)' = Of(v)
                /\ Preds(v)' = Preds(v) /\ DataPreds(v)' = DataPreds(v)
                /\ Succs(v)' = Succs(v)
BY DEF Of, Preds, DataPreds, Succs, Is

(* An operation that is placed has passed every check, for a control       *)
(* operation is postponed unless it is the last one.                       *)
LEMMA PlaceChecks ==
  ASSUME NEW v \in Op, Place(v)
  PROVE  /\ ~NoFreeResource(unit) /\ ~MemoryConflict(v, unit)
         /\ ~UnboundedConflict(v) /\ ~RegistersOutput(v)
         /\ CheckSchedulabilityConditions(v, unit)
BY DEF Place, Waits, Postpones

LEMMA InitDependence == Init => DependenceInv
<1> SUFFICES ASSUME Init PROVE DependenceInv
  OBVIOUS
<1>1. scheduled = {}
  BY DEF Init
<1>2. OnlyReleasedWait
  BY DEF Init, OnlyReleasedWait, Waiting, NoOps, ReadyVertices
<1> QED BY <1>1, <1>2 DEF DependenceInv, AsapIsRight, DependencesRespected

LEMMA DependenceKept ==
  ASSUME DependenceInv, UNCHANGED <<block, schedule, asap>>,
         \A f \in Fu : Waiting(f)' \subseteq Waiting(f)
  PROVE  DependenceInv'
<1>1. UNCHANGED <<scheduled, cstep, start, end, asap>>
  BY DEF schedule
<1>2. \A u : CstepEnd(u)' = CstepEnd(u)
  BY <1>1 DEF CstepEnd
<1>3. OnlyReleasedWait'
  BY <1>1, SameOperations DEF DependenceInv, OnlyReleasedWait
<1>4. AsapIsRight'
  BY <1>1, <1>2, SameOperations DEF DependenceInv, AsapIsRight
<1>5. DependencesRespected'
  BY <1>1, <1>2, SameOperations DEF DependenceInv, DependencesRespected
<1> QED BY <1>3, <1>4, <1>5 DEF DependenceInv

LEMMA PlaceDependence ==
  ASSUME TypeOK, DependenceInv, NEW v \in Op, Place(v)
  PROVE  DependenceInv'
<1>1. /\ scheduled' = scheduled \cup {v} /\ block' = block
      /\ cstep' = [cstep EXCEPT ![v] = cycle]
      /\ start' = [start EXCEPT ![v] = StartingTime(v)]
      /\ black' = black /\ postponed' = postponed
  BY DEF Place
<1>2. Preds(v) \subseteq scheduled /\ v \notin scheduled /\ v \notin Preds(v)
  BY PlaceFacts DEF DependenceInv, OnlyReleasedWait, Waiting
<1>3. \A u \in scheduled : u \in Op /\ u # v
  BY <1>2 DEF TypeOK
<1>4. /\ \A u \in scheduled : CstepEnd(u)' = CstepEnd(u)
      /\ CstepEnd(v)' = end'[v] \div Clock
  BY <1>3, PlaceFacts DEF CstepEnd
<1>5. \A w \in Op : asap[w] \in Nat /\ asap'[w] \in Nat /\ asap[w] <= asap'[w]
  BY PlaceFacts DEF TypeOK
<1>6. \A u \in scheduled : CstepEnd(u) \in Nat
  BY <1>3, DivideType, Constants DEF TypeOK, CstepEnd
<1>7. OnlyReleasedWait'
  <2> SUFFICES ASSUME NEW f \in Fu, NEW w \in Waiting(f)'
               PROVE  Preds(w) \subseteq scheduled'
    BY <1>1, SameOperations DEF OnlyReleasedWait
  <2>1. CASE w \in Waiting(f)
    BY <1>1, <2>1 DEF DependenceInv, OnlyReleasedWait
  <2>2. CASE w \notin Waiting(f)
    <3>1. w \in queue'[f] /\ w \notin queue[f]
      BY <1>1, <2>2 DEF Waiting
    <3> QED BY <3>1 DEF Place, AddSuccessors
  <2> QED BY <2>1, <2>2
<1>8. AsapIsRight'
  <2> SUFFICES ASSUME NEW w \in Op, NEW u \in Preds(w), u \in scheduled'
               PROVE  CstepEnd(u)' <= asap'[w]
    BY <1>1, SameOperations DEF AsapIsRight
  <2>1. CASE u = v
    BY <1>4, <2>1, PlaceFacts DEF Succs
  <2>2. CASE u # v
    <3>1. u \in scheduled /\ CstepEnd(u)' = CstepEnd(u) /\ CstepEnd(u) <= asap[w]
      BY <1>1, <1>4, <2>2 DEF DependenceInv, AsapIsRight
    <3> QED BY <1>5, <1>6, <3>1
  <2> QED BY <2>1, <2>2
<1>9. DependencesRespected'
  <2> SUFFICES ASSUME NEW w \in scheduled', NEW u \in Preds(w)
               PROVE  /\ u \in scheduled'
                      /\ CstepEnd(u)' <= cstep'[w]
                      /\ u \in DataPreds(w) => end'[u] <= start'[w]
    BY <1>1, SameOperations DEF DependencesRespected
  <2>1. CASE w = v
    <3>1. u \in scheduled /\ CstepEnd(u)' = CstepEnd(u) /\ end'[u] = end[u]
      BY <1>2, <1>3, <1>4, <2>1, PlaceFacts
    <3>2. asap[v] <= cycle
      BY PlaceChecks DEF CheckSchedulabilityConditions
    <3>3. CstepEnd(u) <= asap[v]
      BY <2>1, <3>1 DEF DependenceInv, AsapIsRight
    <3>4. cstep'[v] = cycle /\ start'[v] = StartingTime(v) /\ cycle \in Nat
      BY <1>1 DEF TypeOK
    <3>5. u \in DataPreds(v) => end[u] <= StartingTime(v)
      BY StartsLate
    <3> QED BY <1>1, <1>5, <1>6, <2>1, <3>1, <3>2, <3>3, <3>4, <3>5
  <2>2. CASE w # v
    <3>1. w \in scheduled /\ u \in scheduled
      BY <1>1, <2>2 DEF DependenceInv, DependencesRespected
    <3>2. /\ cstep'[w] = cstep[w] /\ start'[w] = start[w] /\ end'[u] = end[u]
          /\ CstepEnd(u)' = CstepEnd(u)
      BY <1>1, <1>3, <1>4, <3>1, PlaceFacts DEF TypeOK
    <3> QED BY <1>1, <3>1, <3>2 DEF DependenceInv, DependencesRespected
  <2> QED BY <2>1, <2>2
<1> QED BY <1>7, <1>8, <1>9 DEF DependenceInv

LEMMA NextDependence ==
  TypeOK /\ DependenceInv /\ [Next]_vars => DependenceInv'
<1> SUFFICES ASSUME TypeOK, DependenceInv, [Next]_vars PROVE DependenceInv'
  OBVIOUS
<1>1. CASE BeginCycle
  BY <1>1, DependenceKept DEF BeginCycle, Waiting
<1>2. ASSUME NEW f \in Fu, Consider(f) PROVE DependenceInv'
  BY <1>2, DependenceKept DEF Consider, Waiting
<1>3. ASSUME NEW v \in Op, AlreadyScheduled(v) PROVE DependenceInv'
  BY <1>3, DependenceKept DEF AlreadyScheduled, Popped, PopOnly, Waiting, TypeOK, Queues
<1>4. ASSUME NEW v \in Op, Blacklist(v) PROVE DependenceInv'
  BY <1>4, DependenceKept DEF Blacklist, Popped, PopOnly, Waiting, TypeOK, Queues
<1>5. ASSUME NEW v \in Op, Postpone(v) PROVE DependenceInv'
  BY <1>5, DependenceKept DEF Postpone, Popped, PopOnly, Waiting, TypeOK, Queues
<1>6. CASE Restart
  BY <1>6, DependenceKept DEF Restart, NoOps, Waiting, TypeOK, Queues
<1>7. CASE EndCycle
  BY <1>7, DependenceKept DEF EndCycle, EndCycleWith, NoOps, Waiting, TypeOK, Queues
<1>8. CASE UNCHANGED vars
  BY <1>8, DependenceKept DEF vars, schedule, queues, Waiting
<1> QED BY <1>1, <1>2, <1>3, <1>4, <1>5, <1>6, <1>7, <1>8, PlaceDependence
        DEF Next, Returned

(* Whatever the block, the delays and the number of units, an operation    *)
(* never starts before the operations it depends on have ended.            *)
THEOREM DependencesHold == Spec => []DependencesRespected
<1>1. DependenceInv => DependencesRespected
  BY DEF DependenceInv
<1> QED BY <1>1, InitType, NextType, InitDependence, NextDependence, PTL DEF Spec

-----------------------------------------------------------------------------
(***************************************************************************)
(* The abstract scheduler.                                                 *)
(***************************************************************************)
placed == [v \in scheduled |->
             [unit |-> bound[v], from |-> cstep[v], to |-> CstepEnd(v)]]

LEMMA InitAbstract == Init => Abstract!AbsInit
<1> SUFFICES ASSUME Init PROVE Abstract!AbsInit
  OBVIOUS
<1>1. block.pred \in [Op -> SUBSET Op]
  BY BlocksAssumption DEF Init, Block
<1>2. scheduled = {}
  BY DEF Init
<1>3. placed = << >>
  BY <1>2 DEF placed
<1> QED BY <1>1, <1>3 DEF Abstract!AbsInit, placed

LEMMA PlaceAbstract ==
  ASSUME TypeOK, DependenceInv, NEW v \in Op, Place(v)
  PROVE  Abstract!AbsNext
<1>1. /\ scheduled' = scheduled \cup {v} /\ block' = block
      /\ cstep' = [cstep EXCEPT ![v] = cycle]
      /\ bound' = [bound EXCEPT ![v] = unit]
  BY DEF Place
<1>2. Preds(v) \subseteq scheduled /\ v \notin scheduled /\ unit \in Fu
  BY PlaceFacts DEF DependenceInv, OnlyReleasedWait, Waiting
<1>3. \A u \in scheduled : u \in Op /\ u # v
  BY <1>2 DEF TypeOK
<1>4. \A u \in scheduled : CstepEnd(u)' = CstepEnd(u) /\ CstepEnd(u) \in Nat
  BY <1>3, PlaceFacts, DivideType, Constants DEF CstepEnd, TypeOK
<1>5. CstepEnd(v)' \in Nat /\ cycle <= CstepEnd(v)' /\ cycle \in Nat
  BY PlaceFacts DEF CstepEnd, TypeOK
<1>6. placed'[v] = [unit |-> unit, from |-> cycle, to |-> CstepEnd(v)']
  BY <1>1 DEF placed, TypeOK
<1>7. /\ DOMAIN placed' = DOMAIN placed \cup {v} /\ v \notin DOMAIN placed
      /\ DOMAIN placed = scheduled
  BY <1>1, <1>2 DEF placed
<1>8. ASSUME NEW u \in scheduled PROVE placed'[u] = placed[u]
  <2>1. bound'[u] = bound[u] /\ cstep'[u] = cstep[u] /\ CstepEnd(u)' = CstepEnd(u)
    BY <1>1, <1>3, <1>4 DEF TypeOK
  <2> QED BY <1>1, <2>1 DEF placed
<1>9. ASSUME NEW u \in Preds(v)
      PROVE  u \in scheduled /\ placed[u].to <= placed'[v].from
  <2>1. u \in scheduled /\ u \in Op /\ placed[u].to = CstepEnd(u)
    BY <1>2, <1>3 DEF placed
  <2>2. CstepEnd(u) <= asap[v]
    BY <2>1 DEF DependenceInv, AsapIsRight
  <2>3. asap[v] <= cycle /\ asap[v] \in Nat
    BY PlaceChecks DEF CheckSchedulabilityConditions, TypeOK
  <2> QED BY <1>4, <1>5, <1>6, <2>1, <2>2, <2>3
<1>10. block'.pred = block.pred /\ Preds(v) = block.pred[v]
  BY <1>1 DEF Preds
<1>11. placed'[v] \in [unit : Fu, from : Nat, to : Nat]
  BY <1>2, <1>5, <1>6
<1>12. placed'[v].from <= placed'[v].to
  BY <1>5, <1>6
<1> QED
  BY <1>7, <1>8, <1>9, <1>10, <1>11, <1>12
  DEF Abstract!AbsNext, Abstract!AbsPlace, Abstract!Places, placed

LEMMA NextAbstract ==
  TypeOK /\ DependenceInv /\ [Next]_vars => [Abstract!AbsNext]_(Abstract!absvars)
<1> SUFFICES ASSUME TypeOK, DependenceInv, [Next]_vars
             PROVE  [Abstract!AbsNext]_(Abstract!absvars)
  OBVIOUS
<1>1. ASSUME UNCHANGED <<block, schedule>> PROVE UNCHANGED Abstract!absvars
  BY <1>1 DEF Abstract!absvars, schedule, CstepEnd
<1>2. CASE \E v \in Op : Place(v)
  BY <1>2, PlaceAbstract
<1>3. CASE UNCHANGED <<block, schedule>>
  BY <1>1, <1>3
<1>4. (\E v \in Op : Place(v)) \/ UNCHANGED <<block, schedule>>
  BY DEF Next, vars, BeginCycle, Consider, AlreadyScheduled, Blacklist,
         Postpone, Restart, EndCycle, EndCycleWith, Returned
<1> QED BY <1>2, <1>3, <1>4

(* Every run of the list scheduler is a run of BlockSchedule: operations   *)
(* are given their places one by one and for good.                         *)
THEOREM PlacesAreForGood == Spec => PlacesForGood
<1> QED
  BY InitType, NextType, InitDependence, NextDependence, InitAbstract,
     NextAbstract, PTL
  DEF Spec, PlacesForGood, Abstract!AbsSpec

-----------------------------------------------------------------------------
(***************************************************************************)
(* What still runs.                                                        *)
(***************************************************************************)
(* No operation that runs on is missing from the live vertices when a      *)
(* control step begins, nor one that runs past the end of the current one. *)
Unforgotten ==
  /\ \A v \in scheduled : cstep[v] <= cycle /\ cstep[v] * Clock <= start[v]
  /\ pc = "begin" => \A v \in scheduled : /\ cstep[v] < cycle
                                          /\ CycleStart < end[v] => v \in live
  /\ pc = "fill" => \A v \in scheduled : CycleEnd < end[v] => v \in live

LEMMA InitUnforgotten == Init => Unforgotten
BY DEF Init, Unforgotten

(* What an operation that is placed leaves as it was.                      *)
LEMMA PlaceLeaves ==
  ASSUME TypeOK, NEW v \in Op, Place(v)
  PROVE  /\ scheduled' = scheduled \cup {v} /\ block' = block /\ cycle' = cycle
         /\ pc = "fill" /\ pc' = pc
         /\ v \notin scheduled /\ unit \in Fu
         /\ cstep'[v] = cycle /\ start'[v] = StartingTime(v) /\ bound'[v] = unit
         /\ \A u \in scheduled :
              /\ u \in Op /\ u # v /\ u \in scheduled'
              /\ cstep'[u] = cstep[u] /\ start'[u] = start[u]
              /\ end'[u] = end[u] /\ bound'[u] = bound[u]
         /\ \A u \in Op : u # v => bound'[u] = bound[u]
<1>1. /\ scheduled' = scheduled \cup {v} /\ block' = block /\ cycle' = cycle
      /\ pc = "fill" /\ pc' = pc /\ v \notin scheduled /\ unit \in Fu
  BY PlaceFacts DEF Place
<1>2. /\ cstep' = [cstep EXCEPT ![v] = cycle]
      /\ start' = [start EXCEPT ![v] = StartingTime(v)]
      /\ bound' = [bound EXCEPT ![v] = unit]
  BY DEF Place
<1>3. cstep \in [Op -> Nat] /\ start \in [Op -> Nat] /\ bound \in [Op -> Fu \cup {NoFu}]
  BY DEF TypeOK
<1>4. \A u \in scheduled : u \in Op /\ u # v /\ u \in scheduled'
  BY <1>1 DEF TypeOK
<1>5. \A u \in scheduled : end'[u] = end[u]
  BY <1>4, PlaceFacts
<1> QED BY <1>1, <1>2, <1>3, <1>4, <1>5

LEMMA NextUnforgotten ==
  TypeOK /\ Unforgotten /\ [Next]_vars => Unforgotten'
<1> SUFFICES ASSUME TypeOK, Unforgotten, [Next]_vars PROVE Unforgotten'
  OBVIOUS
<1>1. /\ CycleStart \in Nat /\ CycleEnd \in Nat /\ CycleStart < CycleEnd
      /\ cycle \in Nat
  BY Cycles, Constants DEF TypeOK
<1>2. \A v \in scheduled : /\ v \in Op /\ end[v] \in Nat /\ cstep[v] \in Nat
                           /\ start[v] \in Nat
  BY DEF TypeOK
<1>3. ASSUME UNCHANGED <<pc, cycle, schedule, live>> PROVE Unforgotten'
  BY <1>3 DEF Unforgotten, schedule, CycleStart, CycleEnd
<1>4. CASE BeginCycle
  <2>1. /\ UNCHANGED <<scheduled, cstep, start, end, cycle>>
        /\ live' = {v \in live : end[v] > CycleStart}
        /\ pc = "begin" /\ pc' \in {"fill", "unfeasible", "refused"}
    BY <1>4 DEF BeginCycle, schedule
  <2>2. CycleEnd' = CycleEnd
    BY <2>1 DEF CycleEnd
  <2> QED BY <1>1, <1>2, <2>1, <2>2 DEF Unforgotten
<1>5. CASE EndCycle
  <2>1. /\ UNCHANGED <<scheduled, cstep, start, end, live>>
        /\ cycle' = cycle + 1 /\ pc = "fill" /\ pc' \in {"done", "begin"}
    BY <1>5 DEF EndCycle, EndCycleWith, schedule, AllDrained
  <2>2. CycleStart' = CycleEnd
    BY <2>1 DEF CycleStart, CycleEnd
  <2> QED BY <1>1, <1>2, <2>1, <2>2 DEF Unforgotten
<1>6. ASSUME NEW v \in Op, Place(v) PROVE Unforgotten'
  <2>1. CycleEnd' = CycleEnd /\ end'[v] = PlacedEnd(v, unit)
    BY <1>6, PlaceLeaves, PlaceFacts DEF CycleEnd
  <2>2. CycleEnd < end'[v] => v \in live'
    BY <1>1, <1>6, <2>1, PlaceFacts DEF Place
  <2>3. live \subseteq live'
    BY <1>6 DEF Place
  <2>4. cstep'[v] * Clock <= start'[v]
    BY <1>6, PlaceLeaves, StartsLate DEF CycleStart
  <2> QED BY <1>1, <1>2, <1>6, <2>1, <2>2, <2>3, <2>4, PlaceLeaves DEF Unforgotten
<1>7. BeginCycle \/ EndCycle \/ (\E v \in Op : Place(v))
      \/ UNCHANGED <<pc, cycle, schedule, live>>
  BY DEF Next, vars, Consider, AlreadyScheduled, Blacklist, Postpone, Restart, Returned
<1> QED BY <1>3, <1>4, <1>5, <1>6, <1>7

-----------------------------------------------------------------------------
(***************************************************************************)
(* Functional units.                                                       *)
(***************************************************************************)
BusyWith(f, c) == {v \in Op : bound[v] = f /\ Busy(v, c)}

(* used_resources counts at least the operations that keep a unit busy in  *)
(* the current step, those of earlier steps included.                      *)
CountedRight ==
  pc = "fill" => \A f \in Fu : /\ used[f] <= NumberFu[f]
                               /\ Cardinality(BusyWith(f, cycle)) <= used[f]

ResourceInv == CountedRight /\ ResourceLimit

LEMMA LessBusy ==
  ASSUME NEW S \in SUBSET Op, NEW T \in SUBSET Op, S \subseteq T
  PROVE  /\ Cardinality(S) <= Cardinality(T)
         /\ Cardinality(S) \in Nat /\ Cardinality(T) \in Nat
BY Constants, FS_Subset, CountsOfOperations

LEMMA OneMoreBusy ==
  ASSUME NEW S \in SUBSET Op, NEW T \in SUBSET Op, NEW v \in Op, S \subseteq T \cup {v}
  PROVE  Cardinality(S) <= Cardinality(T) + 1
<1>1. IsFiniteSet(T)
  BY Constants, FS_Subset
<1>2. Cardinality(T \cup {v}) <= Cardinality(T) + 1
  <2>1. Cardinality(T \cup {v}) = IF v \in T THEN Cardinality(T) ELSE Cardinality(T) + 1
    BY <1>1, FS_AddElement
  <2> QED BY <2>1, CountsOfOperations
<1>3. T \cup {v} \in SUBSET Op
  OBVIOUS
<1> QED BY <1>2, <1>3, LessBusy, CountsOfOperations

LEMMA InitResource == Init => ResourceInv
<1> SUFFICES ASSUME Init PROVE ResourceInv
  OBVIOUS
<1>1. \A f \in Fu : \A c \in 0 .. cycle : BusyWith(f, c) = {}
  BY DEF Init, BusyWith, Busy
<1>2. \A f \in Fu : 0 <= NumberFu[f]
  BY Constants
<1> QED BY <1>1, <1>2, FS_EmptySet
        DEF Init, ResourceInv, CountedRight, ResourceLimit, BusyWith

LEMMA NextResource ==
  TypeOK /\ Unforgotten /\ ResourceInv /\ [Next]_vars => ResourceInv'
<1> SUFFICES ASSUME TypeOK, Unforgotten, ResourceInv, [Next]_vars PROVE ResourceInv'
  OBVIOUS
<1>1. \A f \in Fu : NumberFu[f] \in Nat /\ used[f] \in Nat
  BY Constants DEF TypeOK
<1>2. \A v \in scheduled : /\ v \in Op /\ end[v] \in Nat /\ cstep[v] \in Nat
                           /\ start[v] \in Nat
  BY DEF TypeOK
<1>3. cycle \in Nat
  BY DEF TypeOK
<1>4. \A f, c : BusyWith(f, c) \in SUBSET Op /\ BusyWith(f, c)' \in SUBSET Op
  BY DEF BusyWith
<1>5. \A f, c : Cardinality(BusyWith(f, c)) \in Nat /\ Cardinality(BusyWith(f, c)') \in Nat
  BY <1>4, CountsOfOperations
<1>6. ASSUME UNCHANGED <<block, schedule>>
      PROVE  \A f, c : BusyWith(f, c)' = BusyWith(f, c)
  BY <1>6, SameOperations DEF BusyWith, Busy, schedule, IsPipelined
<1>7. ASSUME UNCHANGED <<block, pc, cycle, schedule, used>> PROVE ResourceInv'
  BY <1>6, <1>7 DEF ResourceInv, CountedRight, ResourceLimit, BusyWith
<1>8. CASE BeginCycle
  <2>1. /\ UNCHANGED <<block, schedule, cycle>> /\ UNCHANGED <<end, cstep, start, bound>>
        /\ live' = {v \in live : end[v] > CycleStart} /\ pc = "begin"
        /\ used' = [f \in Fu |-> Cardinality({v \in live' : bound[v] = f /\ Holds(v)})]
        /\ (\E f \in Fu : used'[f] > NumberFu[f]) => pc' # "fill"
    BY <1>8 DEF BeginCycle, schedule, MoreThanThereAre
  <2>2. ResourceLimit'
    BY <1>6, <2>1 DEF ResourceInv, ResourceLimit, BusyWith
  <2>3. ASSUME NEW f \in Fu
        PROVE  used'[f] \in Nat /\ Cardinality(BusyWith(f, cycle)) <= used'[f]
    <3> DEFINE held == {v \in live' : bound[v] = f /\ Holds(v)}
    <3>1. held \in SUBSET Op
      BY <2>1 DEF TypeOK
    <3>2. BusyWith(f, cycle) \subseteq held
      <4> SUFFICES ASSUME NEW v \in BusyWith(f, cycle) PROVE v \in held
        OBVIOUS
      <4>1. v \in scheduled /\ bound[v] = f /\ Busy(v, cycle)
        BY DEF BusyWith, Busy
      <4>2. cstep[v] < cycle
        BY <2>1, <4>1 DEF Unforgotten
      <4>3. CycleStart < end[v] /\ (IsPipelined(v) => cycle < Of(v).ii + cstep[v])
        BY <1>2, <1>3, <4>1, <4>2 DEF Busy, CycleStart
      <4>4. v \in live'
        BY <1>2, <2>1, <4>1, <4>3, Cycles DEF Unforgotten
      <4>5. cstep[v] <= start[v] \div Clock /\ start[v] \div Clock \in Nat
        BY <1>2, <4>1, Constants, DivideBounds, DivideType DEF Unforgotten
      <4>6. Of(v).ii \in Nat
        BY <1>2, <4>1, Operations DEF Info
      <4>7. Holds(v)
        BY <1>2, <1>3, <4>1, <4>3, <4>5, <4>6 DEF Holds
      <4> QED BY <4>1, <4>4, <4>7
    <3>3. used'[f] = Cardinality(held)
      BY <2>1
    <3> QED BY <1>4, <3>1, <3>2, <3>3, LessBusy, CountsOfOperations
  <2>4. pc' = "fill" => \A f \in Fu : used'[f] <= NumberFu[f]
    BY <1>1, <2>1, <2>3
  <2>5. CountedRight'
    BY <1>6, <2>1, <2>3, <2>4 DEF CountedRight
  <2> QED BY <2>2, <2>5 DEF ResourceInv
<1>9. CASE EndCycle
  <2>1. /\ UNCHANGED <<block, schedule>> /\ cycle' = cycle + 1
        /\ pc = "fill" /\ pc' \in {"done", "begin"}
    BY <1>9 DEF EndCycle, EndCycleWith, AllDrained
  <2>2. ASSUME NEW f \in Fu PROVE BusyWith(f, cycle + 1) \subseteq BusyWith(f, cycle)
    <3> SUFFICES ASSUME NEW v \in BusyWith(f, cycle + 1) PROVE v \in BusyWith(f, cycle)
      OBVIOUS
    <3>1. v \in scheduled /\ cstep[v] <= cycle /\ Busy(v, cycle + 1)
      BY DEF BusyWith, Busy, Unforgotten
    <3>2. (cycle + 1) * Clock < end[v] => cycle * Clock < end[v]
      BY <1>2, <1>3, <3>1, Constants, Products
    <3>3. IsPipelined(v) /\ cycle + 1 < Of(v).ii + cstep[v] => cycle < Of(v).ii + cstep[v]
      BY <1>2, <1>3, <3>1, Operations DEF Info
    <3>4. Busy(v, cycle)
      BY <1>2, <1>3, <3>1, <3>2, <3>3 DEF Busy
    <3> QED BY <3>4 DEF BusyWith
  <2>3. ASSUME NEW f \in Fu, NEW c \in 0 .. cycle'
        PROVE  Cardinality(BusyWith(f, c)) <= NumberFu[f]
    <3>1. CASE c \in 0 .. cycle
      BY <3>1 DEF ResourceInv, ResourceLimit, BusyWith
    <3>2. CASE c = cycle + 1
      <4>1. Cardinality(BusyWith(f, cycle)) <= NumberFu[f]
        BY <1>3 DEF ResourceInv, ResourceLimit, BusyWith
      <4>2. Cardinality(BusyWith(f, c)) <= Cardinality(BusyWith(f, cycle))
        BY <1>4, <2>2, <3>2, LessBusy
      <4> QED BY <1>1, <1>5, <4>1, <4>2
    <3> QED BY <1>3, <2>1, <3>1, <3>2
  <2>4. ResourceLimit'
    BY <1>6, <2>1, <2>3 DEF ResourceLimit, BusyWith
  <2> QED BY <2>1, <2>4 DEF ResourceInv, CountedRight
<1>10. ASSUME NEW v \in Op, Place(v) PROVE ResourceInv'
  <2>1. used[unit] # NumberFu[unit] /\ used' = [used EXCEPT ![unit] = @ + 1]
    BY <1>10, PlaceChecks DEF NoFreeResource, Place
  <2>2. ASSUME NEW f, NEW c \in Nat, f # unit \/ c < cycle
        PROVE  BusyWith(f, c)' \subseteq BusyWith(f, c)
    <3> SUFFICES ASSUME NEW w \in BusyWith(f, c)' PROVE w \in BusyWith(f, c)
      OBVIOUS
    <3>1. /\ w \in Op /\ bound'[w] = f /\ w \in scheduled'
          /\ \/ c = cstep'[w]
             \/ /\ cstep'[w] < c /\ c * Clock < end'[w]
                /\ IsPipelined(w)' => c < Of(w)'.ii + cstep'[w]
      BY DEF BusyWith, Busy
    <3>2. w # v
      BY <1>3, <1>10, <2>2, <3>1, PlaceLeaves
    <3>3. w \in scheduled
      BY <1>10, <3>1, <3>2, PlaceLeaves
    <3>4. IsPipelined(w)' = IsPipelined(w) /\ Of(w)' = Of(w)
      BY <1>10, PlaceLeaves, SameOperations DEF IsPipelined
    <3> QED BY <1>10, <3>1, <3>3, <3>4, PlaceLeaves DEF BusyWith, Busy
  <2>3. BusyWith(unit, cycle)' \subseteq BusyWith(unit, cycle) \cup {v}
    <3> SUFFICES ASSUME NEW w \in BusyWith(unit, cycle)', w # v
                 PROVE  w \in BusyWith(unit, cycle)
      OBVIOUS
    <3>1. /\ w \in Op /\ bound'[w] = unit' /\ w \in scheduled' /\ cycle' = cycle /\ unit' = unit
          /\ \/ cycle' = cstep'[w]
             \/ /\ cstep'[w] < cycle' /\ cycle' * Clock < end'[w]
                /\ IsPipelined(w)' => cycle' < Of(w)'.ii + cstep'[w]
      BY <1>10 DEF BusyWith, Busy, Place
    <3>2. w \in scheduled
      BY <1>10, <3>1, PlaceLeaves
    <3>3. IsPipelined(w)' = IsPipelined(w) /\ Of(w)' = Of(w)
      BY <1>10, PlaceLeaves, SameOperations DEF IsPipelined
    <3> QED BY <1>10, <3>1, <3>2, <3>3, PlaceLeaves DEF BusyWith, Busy
  <2>4. CountedRight'
    <3> SUFFICES ASSUME NEW f \in Fu
                 PROVE  /\ used'[f] <= NumberFu[f]
                        /\ Cardinality(BusyWith(f, cycle)') <= used'[f]
      BY <1>10, PlaceLeaves DEF CountedRight, BusyWith, Busy, IsPipelined, Of
    <3>1. used[f] <= NumberFu[f] /\ Cardinality(BusyWith(f, cycle)) <= used[f]
      BY <1>10, PlaceLeaves DEF ResourceInv, CountedRight
    <3>2. CASE f # unit
      <4>1. used'[f] = used[f]
        BY <2>1, <3>2 DEF TypeOK
      <4>2. BusyWith(f, cycle)' \subseteq BusyWith(f, cycle)
        BY <1>3, <1>10, <2>2, <3>2, PlaceLeaves DEF BusyWith
      <4> QED BY <1>1, <1>4, <1>5, <3>1, <4>1, <4>2, LessBusy
    <3>3. CASE f = unit
      <4>1. used'[f] = used[f] + 1
        BY <2>1, <3>3 DEF TypeOK
      <4>2. BusyWith(f, cycle)' \subseteq BusyWith(f, cycle) \cup {v}
        BY <1>10, <2>3, <3>3 DEF BusyWith, Place
      <4>3. Cardinality(BusyWith(f, cycle)') <= Cardinality(BusyWith(f, cycle)) + 1
        BY <1>4, <4>2, OneMoreBusy
      <4> QED BY <1>1, <1>5, <2>1, <3>1, <3>3, <4>1, <4>3
    <3> QED BY <3>2, <3>3
  <2>5. ResourceLimit'
    <3> SUFFICES ASSUME NEW f \in Fu, NEW c \in 0 .. cycle
                 PROVE  Cardinality(BusyWith(f, c)') <= NumberFu[f]
      BY <1>10, PlaceLeaves DEF ResourceLimit, BusyWith
    <3>1. CASE c < cycle
      <4>1. BusyWith(f, c)' \subseteq BusyWith(f, c) /\ c \in Nat
        BY <1>3, <2>2, <3>1
      <4>2. Cardinality(BusyWith(f, c)) <= NumberFu[f]
        BY DEF ResourceInv, ResourceLimit, BusyWith
      <4> QED BY <1>1, <1>4, <1>5, <4>1, <4>2, LessBusy
    <3>2. CASE c = cycle
      <4>1. pc' = "fill" /\ cycle' = cycle
        BY <1>10, PlaceLeaves
      <4>2. /\ used'[f] <= NumberFu[f]
            /\ Cardinality(BusyWith(f, cycle)') <= used'[f]
        BY <2>4, <4>1 DEF CountedRight
      <4>3. used'[f] \in Nat
        BY <1>10, PlaceType DEF TypeOK
      <4>4. BusyWith(f, cycle)' = BusyWith(f, c)'
        BY <3>2, <4>1 DEF BusyWith, Busy
      <4> QED BY <1>1, <1>5, <4>2, <4>3, <4>4
    <3> QED BY <1>3, <3>1, <3>2
  <2> QED BY <2>4, <2>5 DEF ResourceInv
<1>11. BeginCycle \/ EndCycle \/ (\E v \in Op : Place(v))
       \/ UNCHANGED <<block, pc, cycle, schedule, used>>
  BY DEF Next, vars, Consider, AlreadyScheduled, Blacklist, Postpone, Restart, Returned
<1> QED BY <1>7, <1>8, <1>9, <1>10, <1>11

(* However many instances each unit has and however long operations run,   *)
(* no step uses more of them than there are.                               *)
THEOREM ResourcesSuffice == Spec => []ResourceLimit
<1>1. ResourceInv => ResourceLimit
  BY DEF ResourceInv
<1> QED BY <1>1, InitType, NextType, InitUnforgotten, NextUnforgotten,
           InitResource, NextResource, PTL DEF Spec

-----------------------------------------------------------------------------
(***************************************************************************)
(* Memory and the functions that touch it.                                 *)
(***************************************************************************)
(* The flags of the step tell of everything that runs in it.               *)
FlaggedRight ==
  pc = "fill" => \A v \in scheduled : Runs(v, cycle) =>
                   /\ IsMemory(v) => flags.loadStoreOp
                   /\ IsRWFunction(v) => flags.rwFunctions

FunctionInv == FlaggedRight /\ FunctionsExclusive

LEMMA NextFunction ==
  TypeOK /\ Unforgotten /\ FunctionInv /\ [Next]_vars => FunctionInv'
<1> SUFFICES ASSUME TypeOK, Unforgotten, FunctionInv, [Next]_vars PROVE FunctionInv'
  OBVIOUS
<1>1. \A v \in scheduled : v \in Op /\ end[v] \in Nat /\ cstep[v] \in Nat
  BY DEF TypeOK
<1>2. cycle \in Nat
  BY DEF TypeOK
<1>3. ASSUME UNCHANGED <<block, schedule>>
      PROVE  /\ \A v, c : Runs(v, c)' = Runs(v, c)
             /\ \A v : IsMemory(v)' = IsMemory(v) /\ IsRWFunction(v)' = IsRWFunction(v)
             /\ \A u, v : KeepsAway(u, v)' <=> KeepsAway(u, v)
  <2>1. /\ \A v, c : Runs(v, c)' = Runs(v, c)
        /\ \A v : IsMemory(v)' = IsMemory(v) /\ IsRWFunction(v)' = IsRWFunction(v)
                  /\ CallsRoot(v)' = CallsRoot(v)
    BY <1>3, SameOperations DEF Runs, schedule, IsMemory, IsRWFunction, CallsRoot, Is
  <2>2. cstep' = cstep
    BY <1>3 DEF schedule
  <2> QED BY <2>1, <2>2 DEF KeepsAway
<1>4. ASSUME UNCHANGED <<block, schedule, cycle>> PROVE FunctionsExclusive'
  <2>1. scheduled' = scheduled /\ cycle' = cycle
    BY <1>4 DEF schedule
  <2> QED BY <1>3, <1>4, <2>1 DEF FunctionInv, FunctionsExclusive
<1>5. ASSUME UNCHANGED <<block, pc, cycle, schedule, flags>> PROVE FunctionInv'
  <2>1. scheduled' = scheduled /\ cycle' = cycle /\ pc' = pc /\ flags' = flags
    BY <1>5 DEF schedule
  <2> QED BY <1>3, <1>4, <1>5, <2>1 DEF FunctionInv, FlaggedRight
<1>6. CASE BeginCycle
  <2>1. /\ UNCHANGED <<block, schedule, cycle>> /\ scheduled' = scheduled /\ pc = "begin"
        /\ live' = {v \in live : end[v] > CycleStart}
    BY <1>6 DEF BeginCycle, schedule
  <2>2. /\ flags'.loadStoreOp = \E v \in live' : IsMemory(v)
        /\ flags'.rwFunctions = \E v \in live' : IsRWFunction(v)
    BY <1>6 DEF BeginCycle, NoFlags
  <2>3. ASSUME NEW v \in scheduled, Runs(v, cycle) PROVE v \in live'
    <3>1. cstep[v] < cycle /\ CycleStart < end[v]
      BY <1>1, <1>2, <2>1, <2>3 DEF Unforgotten, Runs, CycleStart
    <3> QED BY <1>1, <2>1, <3>1, Cycles DEF Unforgotten
  <2>4. FlaggedRight'
    <3> SUFFICES ASSUME NEW v \in scheduled, Runs(v, cycle)
                 PROVE  /\ IsMemory(v) => flags'.loadStoreOp
                        /\ IsRWFunction(v) => flags'.rwFunctions
      BY <1>3, <2>1 DEF FlaggedRight
    <3> QED BY <2>2, <2>3
  <2> QED BY <1>4, <2>1, <2>4 DEF FunctionInv
<1>7. CASE EndCycle
  <2>1. /\ UNCHANGED <<block, schedule>> /\ scheduled' = scheduled /\ cycle' = cycle + 1
        /\ pc' \in {"done", "begin"}
    BY <1>7 DEF EndCycle, EndCycleWith, schedule
  <2>2. ASSUME NEW v \in scheduled, Runs(v, cycle + 1) PROVE Runs(v, cycle)
    <3>1. cstep[v] <= cycle /\ cstep[v] \in Nat /\ end[v] \in Nat
      BY <1>1 DEF Unforgotten
    <3>2. (cycle + 1) * Clock < end[v]
      BY <1>2, <2>2, <3>1 DEF Runs
    <3>3. cycle * Clock \in Nat /\ (cycle + 1) * Clock \in Nat
          /\ cycle * Clock < (cycle + 1) * Clock
      BY <1>2, Constants, Products
    <3>4. cycle * Clock < end[v]
      BY <3>1, <3>2, <3>3
    <3> QED BY <3>1, <3>4 DEF Runs
  <2>3. FunctionsExclusive'
    <3> SUFFICES ASSUME NEW u \in scheduled, NEW v \in scheduled, KeepsAway(u, v),
                        NEW c \in 0 .. cycle + 1, Runs(u, c), Runs(v, c)
                 PROVE  FALSE
      BY <1>3, <2>1 DEF FunctionsExclusive
    <3>1. CASE c \in 0 .. cycle
      BY <3>1 DEF FunctionInv, FunctionsExclusive
    <3>2. CASE c = cycle + 1
      <4>1. Runs(u, cycle) /\ Runs(v, cycle) /\ cycle \in 0 .. cycle
        BY <1>2, <2>2, <3>2
      <4> QED BY <4>1 DEF FunctionInv, FunctionsExclusive
    <3> QED BY <1>2, <3>1, <3>2
  <2> QED BY <2>1, <2>3 DEF FunctionInv, FlaggedRight
<1>8. ASSUME NEW v \in Op, Place(v) PROVE FunctionInv'
  <2>1. \A w : /\ IsMemory(w)' = IsMemory(w) /\ IsRWFunction(w)' = IsRWFunction(w)
               /\ CallsRoot(w)' = CallsRoot(w)
    BY <1>8, PlaceLeaves, SameOperations DEF IsMemory, IsRWFunction, CallsRoot, Is
  <2>2. ASSUME NEW w \in scheduled, NEW c PROVE Runs(w, c)' = Runs(w, c)
    BY <1>8, PlaceLeaves DEF Runs
  <2>3. ASSUME NEW c \in 0 .. cycle, Runs(v, c)' PROVE c = cycle
    BY <1>2, <1>8, <2>3, PlaceLeaves DEF Runs
  <2>4. /\ IsMemory(v) => ~flags.rwFunctions
        /\ IsRWFunction(v) /\ ~CallsRoot(v) => ~flags.loadStoreOp /\ ~flags.rwFunctions
    <3>1. ~FunctionConflict(v)
      BY <1>8, PlaceChecks DEF CheckSchedulabilityConditions
    <3>2. IsMemory(v) => ~CallsRoot(v)
      BY DEF IsMemory, CallsRoot, Is
    <3> QED BY <3>1, <3>2 DEF FunctionConflict, IsRWFunction
  <2>5. /\ flags.loadStoreOp \/ IsMemory(v) => flags'.loadStoreOp
        /\ flags.rwFunctions \/ IsRWFunction(v) => flags'.rwFunctions
    <3> DEFINE b3 == flags.rwFunctions \/ IsRWFunction(v)
               b4 == flags.loadStoreOp \/ IsMemory(v)
    <3>1. flags'.rwFunctions = b3 /\ flags'.loadStoreOp = b4
      BY <1>8 DEF Place, UpdateFlags, TypeOK
    <3> QED BY <3>1
  <2>6. FlaggedRight'
    <3> SUFFICES ASSUME NEW w \in scheduled', Runs(w, cycle)'
                 PROVE  /\ IsMemory(w) => flags'.loadStoreOp
                        /\ IsRWFunction(w) => flags'.rwFunctions
      BY <1>8, <2>1, PlaceLeaves DEF FlaggedRight
    <3>1. CASE w = v
      BY <2>5, <3>1
    <3>2. CASE w \in scheduled
      <4>1. Runs(w, cycle)
        BY <1>8, <2>2, <3>2, PlaceLeaves DEF Runs
      <4>2. /\ IsMemory(w) => flags.loadStoreOp
            /\ IsRWFunction(w) => flags.rwFunctions
        BY <1>8, <3>2, <4>1, PlaceLeaves DEF FunctionInv, FlaggedRight
      <4> QED BY <2>5, <4>2
    <3> QED BY <1>8, <3>1, <3>2, PlaceLeaves
  <2>7. ASSUME NEW w \in scheduled, NEW c \in 0 .. cycle, Runs(w, c)', Runs(v, c)'
        PROVE  ~KeepsAway(w, v)' /\ ~KeepsAway(v, w)'
    <3>1. Runs(w, cycle)
      BY <2>2, <2>3, <2>7
    <3>2. /\ IsMemory(w) => flags.loadStoreOp
          /\ IsRWFunction(w) => flags.rwFunctions
      BY <1>8, <3>1, PlaceLeaves DEF FunctionInv, FlaggedRight
    <3>3. ~KeepsAway(w, v)'
      BY <2>1, <2>4, <3>2 DEF KeepsAway
    <3>4. ~(cstep'[v] < cstep'[w])
      <4>1. cstep'[v] = cycle /\ cstep'[w] = cstep[w]
        BY <1>8, PlaceLeaves
      <4>2. cstep[w] <= cycle
        BY DEF Unforgotten
      <4> QED BY <1>1, <1>2, <4>1, <4>2
    <3>5. ~KeepsAway(v, w)'
      BY <2>1, <2>4, <3>2, <3>4 DEF KeepsAway
    <3> QED BY <3>3, <3>5
  <2>8. FunctionsExclusive'
    <3> SUFFICES ASSUME NEW u \in scheduled', NEW w \in scheduled', KeepsAway(u, w)',
                        NEW c \in 0 .. cycle, Runs(u, c)', Runs(w, c)'
                 PROVE  FALSE
      BY <1>8, PlaceLeaves DEF FunctionsExclusive
    <3>0. u # w
      BY DEF KeepsAway
    <3>1. CASE u = v /\ w \in scheduled
      BY <2>7, <3>1
    <3>2. CASE w = v /\ u \in scheduled
      BY <2>7, <3>2
    <3>3. CASE u \in scheduled /\ w \in scheduled
      <4>1. Runs(u, c) /\ Runs(w, c)
        BY <2>2, <3>3
      <4>2. KeepsAway(u, w)
        BY <1>8, <2>1, <3>3, PlaceLeaves DEF KeepsAway
      <4> QED BY <3>3, <4>1, <4>2 DEF FunctionInv, FunctionsExclusive
    <3> QED BY <1>8, <3>0, <3>1, <3>2, <3>3, PlaceLeaves
  <2> QED BY <2>6, <2>8 DEF FunctionInv
<1>9. BeginCycle \/ EndCycle \/ (\E v \in Op : Place(v))
      \/ UNCHANGED <<block, pc, cycle, schedule, flags>>
  BY DEF Next, vars, Consider, AlreadyScheduled, Blacklist, Postpone, Restart, Returned
<1> QED BY <1>5, <1>6, <1>7, <1>8, <1>9

(* A called function that touches memory never runs beside a load, a store *)
(* or another such function, however many steps each of them takes, but    *)
(* for the call of a root function, which may join what is there.          *)
THEOREM FunctionsKeptApart == Spec => []FunctionsExclusive
<1>1. FunctionInv => FunctionsExclusive
  BY DEF FunctionInv
<1>2. Init => FunctionInv
  BY DEF Init, FunctionInv, FlaggedRight, FunctionsExclusive
<1> QED BY <1>1, <1>2, InitType, NextType, InitUnforgotten, NextUnforgotten,
           NextFunction, PTL DEF Spec

-----------------------------------------------------------------------------
OnBus(v) == IsMemory(v) /\ FuKind[bound[v]] = "indirect"

OnPorts(v) == IsMemory(v) /\ FuKind[bound[v]] \in {"direct", "async"}

(* cstep_vuses_others and cstep_vuses_ARRAYs know of the accesses of the   *)
(* step, and of those of the step before if the controller is slow.        *)
PortsCounted ==
  \A v \in scheduled :
    /\ cstep[v] <= cycle
    /\ OnBus(v) /\ cstep[v] = cycle => others >= (IF SlowBus THEN 2 ELSE 1)
    /\ OnBus(v) /\ cstep[v] + 1 = cycle /\ SlowBus => others >= 1
    /\ OnPorts(v) /\ cstep[v] = cycle => arrays >= 1

MemoryInv == PortsCounted /\ MemoryExclusive

LEMMA NextMemory == TypeOK /\ MemoryInv /\ [Next]_vars => MemoryInv'
<1> SUFFICES ASSUME TypeOK, MemoryInv, [Next]_vars PROVE MemoryInv'
  OBVIOUS
<1>1. /\ cycle \in Nat /\ arrays \in 0 .. 1 /\ others \in 0 .. 2
      /\ \A v \in scheduled : v \in Op /\ cstep[v] \in Nat
  BY DEF TypeOK
<1>2. ASSUME UNCHANGED <<block, schedule>>
      PROVE  /\ \A v : OnBus(v)' = OnBus(v) /\ OnPorts(v)' = OnPorts(v)
             /\ MemoryExclusive'
             /\ scheduled' = scheduled /\ cstep' = cstep
  <2>1. scheduled' = scheduled /\ cstep' = cstep /\ bound' = bound
    BY <1>2 DEF schedule
  <2>2. \A v : IsMemory(v)' = IsMemory(v)
    BY <1>2, SameOperations DEF IsMemory, Is
  <2> QED BY <2>1, <2>2 DEF MemoryInv, MemoryExclusive, OnBus, OnPorts
<1>3. ASSUME UNCHANGED <<block, schedule, cycle, arrays, others>> PROVE MemoryInv'
  BY <1>2, <1>3 DEF MemoryInv, PortsCounted
<1>4. CASE EndCycle
  <2>1. UNCHANGED <<block, schedule>> /\ cycle' = cycle + 1
        /\ others' = Max({0, others - 1})
    BY <1>4 DEF EndCycle, EndCycleWith
  <2>2. others' >= others - 1
    <3>1. 0 \in Int /\ others - 1 \in Int
      BY <1>1
    <3>2. Max({0, others - 1}) >= others - 1
      BY ONLY <3>1, MaxOfTwo
    <3> QED BY <2>1, <3>2
  <2>3. PortsCounted'
    <3> SUFFICES ASSUME NEW v \in scheduled
                 PROVE  /\ cstep[v] <= cycle + 1 /\ cstep[v] # cycle + 1
                        /\ OnBus(v) /\ cstep[v] + 1 = cycle + 1 /\ SlowBus => others' >= 1
      BY <1>2, <2>1 DEF PortsCounted
    <3>1. /\ cstep[v] <= cycle
          /\ OnBus(v) /\ cstep[v] = cycle => others >= (IF SlowBus THEN 2 ELSE 1)
      BY DEF MemoryInv, PortsCounted
    <3>2. others' \in Nat
      BY <1>4, EndCycleType DEF TypeOK
    <3> QED BY <1>1, <2>2, <3>1, <3>2
  <2> QED BY <1>2, <2>1, <2>3 DEF MemoryInv
<1>5. ASSUME NEW v \in Op, Place(v) PROVE MemoryInv'
  <2>1. \A w : IsMemory(w)' = IsMemory(w)
    BY <1>5, PlaceLeaves, SameOperations DEF IsMemory, Is
  <2>2. ASSUME NEW w \in scheduled
        PROVE  /\ OnBus(w)' = OnBus(w) /\ OnPorts(w)' = OnPorts(w)
               /\ cstep'[w] = cstep[w]
    BY <1>5, <2>1, PlaceLeaves DEF OnBus, OnPorts
  <2>3. /\ OnBus(v)' = (IsMemory(v) /\ FuKind[unit] = "indirect")
        /\ OnPorts(v)' = (IsMemory(v) /\ FuKind[unit] \in {"direct", "async"})
        /\ cstep'[v] = cycle
    BY <1>5, <2>1, PlaceLeaves DEF OnBus, OnPorts
  <2>4. /\ OnPorts(v)' => ~(others > 0)
        /\ OnBus(v)' => ~(arrays > 0)
    BY <1>5, <2>3, PlaceChecks DEF MemoryConflict, Direct
  <2>5. /\ others' \in 0 .. 2 /\ arrays' \in 0 .. 1
        /\ others' >= others \/ others' >= (IF SlowBus THEN 2 ELSE 1)
        /\ arrays' >= arrays
    BY <1>1, <1>5, PlaceType DEF Place, UpdateVuses, TypeOK
  <2>6. OnBus(v)' => others' >= (IF SlowBus THEN 2 ELSE 1)
    <3>1. SUFFICES ASSUME IsMemory(v), FuKind[unit] = "indirect"
                   PROVE  others' >= (IF SlowBus THEN 2 ELSE 1)
      BY <2>3
    <3>2. others' = IF SlowBus THEN 2 ELSE 1
      BY <1>5, <3>1 DEF Place, UpdateVuses, Direct
    <3> QED BY <3>2
  <2>7. OnPorts(v)' => arrays' >= 1
    <3>1. SUFFICES ASSUME IsMemory(v), FuKind[unit] \in {"direct", "async"}
                   PROVE  arrays' >= 1
      BY <2>3
    <3>2. others = 0
      <4>1. OnPorts(v)'
        BY <2>3, <3>1
      <4>2. ~(others > 0)
        BY <2>4, <4>1
      <4> QED BY <1>1, <4>2
    <3>3. arrays' = 1
      BY <1>5, <3>1, <3>2 DEF Place, UpdateVuses, Direct
    <3> QED BY <3>3
  <2>8. PortsCounted'
    <3> SUFFICES ASSUME NEW w \in scheduled'
                 PROVE  /\ cstep'[w] <= cycle
                        /\ OnBus(w)' /\ cstep'[w] = cycle
                             => others' >= (IF SlowBus THEN 2 ELSE 1)
                        /\ OnBus(w)' /\ cstep'[w] + 1 = cycle /\ SlowBus => others' >= 1
                        /\ OnPorts(w)' /\ cstep'[w] = cycle => arrays' >= 1
      BY <1>5, PlaceLeaves DEF PortsCounted
    <3>1. CASE w = v
      BY <1>1, <2>3, <2>6, <2>7, <3>1
    <3>2. CASE w \in scheduled
      <4>1. /\ cstep[w] <= cycle /\ cstep[w] \in Nat
            /\ OnBus(w) /\ cstep[w] = cycle => others >= (IF SlowBus THEN 2 ELSE 1)
            /\ OnBus(w) /\ cstep[w] + 1 = cycle /\ SlowBus => others >= 1
            /\ OnPorts(w) /\ cstep[w] = cycle => arrays >= 1
        BY <1>1, <3>2 DEF MemoryInv, PortsCounted
      <4> QED BY <1>1, <2>2, <2>5, <3>2, <4>1
    <3> QED BY <1>5, <3>1, <3>2, PlaceLeaves
  <2>9. MemoryExclusive'
    <3> SUFFICES ASSUME NEW u \in scheduled', NEW w \in scheduled', OnPorts(u)', OnBus(w)'
                 PROVE  cstep'[u] # cstep'[w] /\ (SlowBus => cstep'[u] # cstep'[w] + 1)
      BY DEF MemoryExclusive, OnPorts, OnBus
    <3>1. CASE u \in scheduled /\ w \in scheduled
      BY <2>2, <3>1 DEF MemoryInv, MemoryExclusive, OnPorts, OnBus
    <3>2. CASE u = v /\ w = v
      BY <2>3, <3>2
    <3>3. CASE u = v /\ w \in scheduled
      <4>1. others = 0 /\ cstep'[u] = cycle /\ OnBus(w) /\ cstep'[w] = cstep[w]
        BY <1>1, <2>2, <2>3, <2>4, <3>3
      <4> QED BY <1>1, <3>3, <4>1 DEF MemoryInv, PortsCounted
    <3>4. CASE u \in scheduled /\ w = v
      <4>1. /\ arrays = 0 /\ cstep'[w] = cycle /\ OnPorts(u) /\ cstep'[u] = cstep[u]
            /\ cstep[u] <= cycle /\ cstep[u] \in Nat
        BY <1>1, <2>2, <2>3, <2>4, <3>4 DEF MemoryInv, PortsCounted
      <4> QED BY <1>1, <3>4, <4>1 DEF MemoryInv, PortsCounted
    <3> QED BY <1>5, <3>1, <3>2, <3>3, <3>4, PlaceLeaves
  <2> QED BY <2>8, <2>9 DEF MemoryInv
<1>6. EndCycle \/ (\E v \in Op : Place(v))
      \/ UNCHANGED <<block, schedule, cycle, arrays, others>>
  BY DEF Next, vars, BeginCycle, Consider, AlreadyScheduled, Blacklist, Postpone,
         Restart, Returned
<1> QED BY <1>3, <1>4, <1>5, <1>6

(* Accesses through the ports of a memory and accesses through the bus     *)
(* never share a step, nor follow a bus access at once if the memory       *)
(* controller is slow.                                                     *)
THEOREM MemoryKeptApart == Spec => []MemoryExclusive
<1>1. MemoryInv => MemoryExclusive
  BY DEF MemoryInv
<1>2. Init => MemoryInv
  BY DEF Init, MemoryInv, PortsCounted, MemoryExclusive
<1> QED BY <1>1, <1>2, InitType, NextType, NextMemory, PTL DEF Spec

-----------------------------------------------------------------------------
(***************************************************************************)
(* Operations of unbounded latency.                                        *)
(***************************************************************************)
(* The allocation of an operation, in the words of the assumptions.        *)
LEMMA Allocations ==
  ASSUME TypeOK, NEW v \in Op
  PROVE  /\ Of(v).cycles \in Nat /\ Of(v).delay \in Nat /\ Of(v).stage \in Nat
         /\ Of(v).cycles > 0 => Of(v).delay <= Clock * Of(v).cycles
         /\ Of(v).ii # 0 <=> Of(v).stage # 0
         /\ Of(v).stage # 0 => Of(v).cycles > 1
         /\ IsControl(v) => Of(v).bounded /\ Of(v).cycles = 0 /\ Of(v).delay <= Clock
         /\ Is(v, {"ret"}) => Of(v).delay = 0
         /\ Is(v, {"ret"}) => IsControl(v)
<1>1. block.class[v] \in Class
  BY DEF TypeOK, Block
<1>2. /\ Of(v).cycles > 0 => Of(v).delay <= Clock * Of(v).cycles
      /\ Of(v).ii # 0 <=> Of(v).stage # 0
      /\ Of(v).stage # 0 => Of(v).cycles > 1
  BY <1>1, TimesAssumption DEF Of
<1>3. /\ IsControl(v) => Of(v).bounded /\ Of(v).cycles = 0 /\ Of(v).delay <= Clock
      /\ Is(v, {"ret"}) => Of(v).delay = 0
  BY <1>1, ControlAssumption DEF Of, Is, IsControl
<1>4. Of(v).cycles \in Nat /\ Of(v).delay \in Nat /\ Of(v).stage \in Nat
  BY Operations DEF Info
<1> QED BY <1>2, <1>3, <1>4 DEF Is, IsControl

(* Whatever takes one cycle, and the branch or return of a block, ends in  *)
(* the step it is placed in.                                               *)
LEMMA EndsInStep ==
  ASSUME TypeOK, NEW v \in Op, Place(v), Of(v).cycles = 1 \/ IsControl(v)
  PROVE  EndingTime(v, unit) <= CycleEnd
<1> DEFINE cycles == Max({1, Of(v).cycles})
<1>1. /\ Of(v).cycles \in {0, 1} /\ Of(v).delay \in Nat /\ Of(v).stage = 0 /\ Of(v).ii = 0
      /\ Of(v).delay <= Clock
  BY Allocations, Constants
<1>2. cycles = 1
  <2>1. 1 \in Int /\ Of(v).cycles \in Int
    BY <1>1
  <2>2. Max({1, Of(v).cycles}) \in {1, Of(v).cycles} /\ Max({1, Of(v).cycles}) >= 1
    BY ONLY <2>1, MaxOfTwo
  <2> QED BY <1>1, <2>2
<1>3. StagePeriod(v, unit) = 0
  BY <1>1, Constants DEF StagePeriod
<1>4. EndingTime(v, unit) = IF FuKind[unit] = "indirect" /\ Of(v).delay >= Clock * 1 - SetupHold
                            THEN StartingTime(v) + (Clock * 1 - SetupHold)
                            ELSE StartingTime(v) + Of(v).delay
  BY <1>2, <1>3 DEF EndingTime
<1>5. /\ StartingTime(v) \in Nat /\ CycleStart <= StartingTime(v)
      /\ CycleStart \in Nat /\ CycleEnd = CycleStart + Clock
  BY StartsLate, Cycles
<1>6. EndingTime(v, unit) <= StartingTime(v) + Of(v).delay
  BY <1>1, <1>4, <1>5, Constants
<1>7. CASE StartingTime(v) = CycleStart
  BY <1>1, <1>4, <1>5, <1>7, Constants
<1>8. CASE StartingTime(v) # CycleStart
  <2>1. Chained(v)
    BY <1>5, <1>8 DEF Chained
  <2>2. /\ unit \in Fu /\ ~IsPipelined(v)
        /\ ~CannotBeChained(v, unit) /\ ~MultiCond(v, unit)
    BY <1>1, PlaceFacts, PlaceChecks DEF CheckSchedulabilityConditions, IsPipelined
  <2>3. EndingTime(v, unit) \in Nat
    BY <2>2, EndsLate
  <2>4. CASE Of(v).cycles = 1
    <3>1. ~FirstCycleLate(v, unit)
      BY <2>1, <2>2, <2>4 DEF MultiCond
    <3>2. EndingTime(v, unit) - (1 - 1) * Clock + SetupHold <= CycleEnd
      BY <1>5, <2>3, <2>4, <3>1, Constants DEF FirstCycleLate
    <3> QED BY <1>5, <2>3, <3>2, Constants
  <2>5. CASE IsControl(v) /\ ~Is(v, {"ret"})
    <3>1. ~Late(v, unit)
      BY <2>1, <2>2, <2>5, Allocations DEF CannotBeChained
    <3> QED BY <1>5, <2>3, <3>1, Constants DEF Late
  <2>6. CASE Is(v, {"ret"})
    <3>1. Of(v).delay = 0 /\ StartingTime(v) < CycleEnd
      BY <1>5, <2>2, <2>6, Allocations, Constants DEF CannotBeChained
    <3> QED BY <1>4, <1>5, <3>1, Constants
  <2> QED BY <2>4, <2>5, <2>6
<1> QED BY <1>7, <1>8

(* seeMulticycle knows of everything that runs past the step, the other    *)
(* two flags of every operation of unbounded latency in it, and such an    *)
(* operation never has an ending time past its own step.                   *)
WaitsInStep == \A v \in scheduled : ~Of(v).bounded => end[v] <= (cstep[v] + 1) * Clock

UnboundedFlagged ==
  pc = "fill" => \A v \in scheduled :
    /\ cstep[v] = cycle /\ IsUnbounded(v) => flags.unbounded
    /\ cstep[v] = cycle /\ IsUnboundedRW(v) => flags.unboundedRW
    /\ CycleEnd < end[v] => flags.seeMulticycle

UnboundedInv == WaitsInStep /\ UnboundedFlagged /\ UnboundedAlone

(* What an operation that is placed does to the flags of the step.         *)
LEMMA PlaceFlags ==
  ASSUME TypeOK, NEW v \in Op, Place(v)
  PROVE  /\ flags.unbounded \/ IsUnbounded(v) => flags'.unbounded
         /\ flags.unboundedRW \/ IsUnboundedRW(v) => flags'.unboundedRW
         /\ flags.rwFunctions \/ IsRWFunction(v) => flags'.rwFunctions
         /\ flags.seeMulticycle \/ (Of(v).bounded /\ PlacedEnd(v, unit) > CycleEnd)
              => flags'.seeMulticycle
         /\ Is(v, {"call"}) /\ Of(v).rw => flags'.retConflict
         /\ flags.retConflict /\ ~IsMemory(v) => flags'.retConflict
<1> DEFINE b1 == flags.unbounded \/ IsUnbounded(v)
           b2 == flags.unboundedRW \/ IsUnboundedRW(v)
           b3 == flags.rwFunctions \/ IsRWFunction(v)
           b5 == flags.seeMulticycle \/ (Of(v).bounded /\ PlacedEnd(v, unit) > CycleEnd)
           b6 == CASE Is(v, {"call"}) /\ Of(v).rw -> TRUE
                   [] IsMemory(v) -> Is(v, {"store"})
                   [] OTHER -> flags.retConflict
<1>1. /\ flags'.unbounded = b1 /\ flags'.unboundedRW = b2 /\ flags'.rwFunctions = b3
      /\ flags'.seeMulticycle = b5 /\ flags'.retConflict = b6
  BY DEF Place, UpdateFlags, TypeOK
<1>2. Is(v, {"call"}) => ~IsMemory(v)
  BY DEF Is, IsMemory
<1>3. Is(v, {"call"}) /\ Of(v).rw => b6
  BY <1>2
<1>4. flags.retConflict /\ ~IsMemory(v) => b6
  BY <1>2
<1> HIDE DEF b6
<1> QED BY <1>1, <1>3, <1>4

LEMMA NextUnbounded ==
  TypeOK /\ Unforgotten /\ UnboundedInv /\ [Next]_vars => UnboundedInv'
<1> SUFFICES ASSUME TypeOK, Unforgotten, UnboundedInv, [Next]_vars PROVE UnboundedInv'
  OBVIOUS
<1>1. \A v \in scheduled : v \in Op /\ end[v] \in Nat /\ cstep[v] \in Nat
  BY DEF TypeOK
<1>2. cycle \in Nat /\ CycleStart \in Nat /\ CycleEnd \in Nat /\ CycleEnd = CycleStart + Clock
  BY Cycles DEF TypeOK
<1>3. ASSUME UNCHANGED <<block, schedule>>
      PROVE  /\ scheduled' = scheduled /\ cstep' = cstep /\ end' = end
             /\ \A v : /\ Of(v)' = Of(v) /\ IsUnbounded(v)' = IsUnbounded(v)
                       /\ IsUnboundedRW(v)' = IsUnboundedRW(v)
             /\ \A v, c : CrossesEndOf(v, c)' = CrossesEndOf(v, c)
             /\ WaitsInStep' /\ UnboundedAlone'
  <2>1. scheduled' = scheduled /\ cstep' = cstep /\ end' = end
    BY <1>3 DEF schedule
  <2>2. \A v : /\ Of(v)' = Of(v) /\ IsUnbounded(v)' = IsUnbounded(v)
               /\ IsUnboundedRW(v)' = IsUnboundedRW(v)
    BY <1>3, SameOperations DEF IsUnbounded, IsUnboundedRW
  <2>3. \A v, c : CrossesEndOf(v, c)' = CrossesEndOf(v, c)
    BY <2>1 DEF CrossesEndOf, Runs
  <2> QED BY <2>1, <2>2, <2>3 DEF UnboundedInv, WaitsInStep, UnboundedAlone
<1>4. ASSUME UNCHANGED <<block, schedule, pc, cycle, flags>> PROVE UnboundedInv'
  BY <1>3, <1>4 DEF UnboundedInv, UnboundedFlagged, CycleEnd
<1>5. CASE BeginCycle
  <2>1. UNCHANGED <<block, schedule, cycle>> /\ pc = "begin"
    BY <1>5 DEF BeginCycle
  <2>2. flags'.seeMulticycle = LiveInNextCycle
    BY <1>5 DEF BeginCycle, NoFlags
  <2>3. ASSUME NEW v \in scheduled, CycleEnd < end[v] PROVE LiveInNextCycle
    <3>1. CycleStart < end[v]
      BY <1>1, <1>2, <2>3, Constants
    <3>2. v \in live
      BY <2>1, <3>1 DEF Unforgotten
    <3> QED BY <2>3, <3>2, <1>1, <1>2 DEF LiveInNextCycle
  <2>4. UnboundedFlagged'
    <3> SUFFICES ASSUME NEW v \in scheduled
                 PROVE  cstep[v] # cycle /\ (CycleEnd < end[v] => flags'.seeMulticycle)
      BY <1>3, <2>1 DEF UnboundedFlagged, CycleEnd
    <3>1. cstep[v] < cycle
      BY <2>1 DEF Unforgotten
    <3> QED BY <1>1, <1>2, <2>2, <2>3, <3>1
  <2> QED BY <1>3, <2>1, <2>4 DEF UnboundedInv
<1>6. CASE EndCycle
  <2>1. UNCHANGED <<block, schedule>> /\ pc' \in {"done", "begin"}
    BY <1>6 DEF EndCycle, EndCycleWith
  <2> QED BY <1>3, <2>1 DEF UnboundedInv, UnboundedFlagged
<1>7. ASSUME NEW v \in Op, Place(v) PROVE UnboundedInv'
  <2>1. \A w : /\ Of(w)' = Of(w) /\ IsUnbounded(w)' = IsUnbounded(w)
               /\ IsUnboundedRW(w)' = IsUnboundedRW(w)
    BY <1>7, PlaceLeaves, SameOperations DEF IsUnbounded, IsUnboundedRW
  <2>2. /\ unit \in Fu /\ end'[v] = PlacedEnd(v, unit) /\ end'[v] \in Nat
        /\ cstep'[v] = cycle /\ cycle' = cycle /\ CycleEnd' = CycleEnd
        /\ scheduled' = scheduled \cup {v} /\ v \notin scheduled
    BY <1>7, PlaceFacts, PlaceLeaves DEF CycleEnd
  <2>3. \A w \in scheduled : cstep'[w] = cstep[w] /\ end'[w] = end[w] /\ cstep[w] <= cycle
    BY <1>7, PlaceLeaves DEF Unforgotten
  <2>4. ~Of(v).bounded => end'[v] <= CycleEnd
    <3>1. EndingTime(v, unit) \in Nat
      BY <2>2, EndsLate
    <3> QED BY <1>2, <2>2, <3>1, Constants DEF PlacedEnd, Late
  <2>5. WaitsInStep'
    <3> SUFFICES ASSUME NEW w \in scheduled', ~Of(w).bounded
                 PROVE  end'[w] <= (cstep'[w] + 1) * Clock
      BY <2>1 DEF WaitsInStep
    <3>1. CASE w = v
      BY <2>2, <2>4, <3>1 DEF CycleEnd
    <3>2. CASE w \in scheduled
      BY <2>3, <3>2 DEF UnboundedInv, WaitsInStep
    <3> QED BY <2>2, <3>1, <3>2
  <2>6. UnboundedFlagged'
    <3> SUFFICES ASSUME NEW w \in scheduled'
                 PROVE  /\ cstep'[w] = cycle /\ IsUnbounded(w) => flags'.unbounded
                        /\ cstep'[w] = cycle /\ IsUnboundedRW(w) => flags'.unboundedRW
                        /\ CycleEnd < end'[w] => flags'.seeMulticycle
      BY <2>1, <2>2 DEF UnboundedFlagged
    <3>1. CASE w = v
      <4>1. CycleEnd < end'[v] => Of(v).bounded /\ PlacedEnd(v, unit) > CycleEnd
        BY <1>2, <2>2, <2>4
      <4> QED BY <1>7, <3>1, <4>1, PlaceFlags
    <3>2. CASE w \in scheduled
      <4>1. /\ cstep[w] = cycle /\ IsUnbounded(w) => flags.unbounded
            /\ cstep[w] = cycle /\ IsUnboundedRW(w) => flags.unboundedRW
            /\ CycleEnd < end[w] => flags.seeMulticycle
        BY <1>7, <3>2, PlaceLeaves DEF UnboundedInv, UnboundedFlagged
      <4> QED BY <1>7, <2>3, <3>2, <4>1, PlaceFlags
    <3> QED BY <2>2, <3>1, <3>2
  \* What crosses the end of a step that is over was placed in or before it.
  <2>7. ASSUME NEW w \in scheduled, NEW c PROVE CrossesEndOf(w, c)' = CrossesEndOf(w, c)
    BY <1>7, PlaceLeaves DEF CrossesEndOf, Runs
  <2>8. ASSUME NEW c \in Nat, c <= cycle, CrossesEndOf(v, c)'
        PROVE  c = cycle /\ CycleEnd < end'[v]
    BY <1>2, <2>2, <2>8 DEF CrossesEndOf, Runs, CycleEnd
  <2>9. ASSUME NEW u \in scheduled,
               IsUnbounded(u) \/ (IsUnboundedRW(u) /\ Of(v).cycles > 0),
               CrossesEndOf(v, cstep[u])'
        PROVE  FALSE
    <3>1. cstep[u] = cycle /\ CycleEnd < end'[v] /\ Of(v).bounded
      BY <1>1, <1>2, <2>2, <2>3, <2>4, <2>8, <2>9
    <3>2. end'[v] = EndingTime(v, unit)
      BY <2>2, <3>1 DEF PlacedEnd
    <3>3. Late(v, unit)
      BY <1>2, <2>2, <3>1, <3>2, Constants DEF Late
    <3>4. ~flags.unbounded /\ ~(Of(v).cycles > 1 /\ flags.unboundedRW)
      BY <1>7, <3>1, <3>3, PlaceChecks DEF CheckSchedulabilityConditions, MultiCond
    <3>5. /\ IsUnbounded(u) => flags.unbounded
          /\ IsUnboundedRW(u) => flags.unboundedRW
      BY <1>7, <3>1, PlaceLeaves DEF UnboundedInv, UnboundedFlagged
    <3>6. Of(v).cycles = 1
      BY <2>9, <3>4, <3>5, Allocations
    <3> QED BY <1>2, <1>7, <2>2, <3>1, <3>2, <3>6, EndsInStep
  <2>10. ASSUME NEW w \in scheduled, ~Of(v).bounded, CrossesEndOf(w, cycle)
         PROVE  FALSE
    <3>1. CycleEnd < end[w]
      BY <2>10 DEF CrossesEndOf, CycleEnd
    <3>2. flags.seeMulticycle
      BY <1>7, <3>1, PlaceLeaves DEF UnboundedInv, UnboundedFlagged
    <3> QED BY <1>7, <2>10, <3>2, PlaceChecks DEF CheckSchedulabilityConditions, MultiCond
  <2>11. ASSUME NEW u \in scheduled, cstep[u] = cycle
         PROVE  ~(IsUnbounded(u) /\ IsUnboundedRW(v)) /\ ~(IsUnbounded(v) /\ IsUnboundedRW(u))
    <3>1. /\ IsUnbounded(u) => flags.unbounded
          /\ IsUnboundedRW(u) => flags.unboundedRW
      BY <1>7, <2>11, PlaceLeaves DEF UnboundedInv, UnboundedFlagged
    <3> QED BY <1>7, <3>1, PlaceChecks DEF UnboundedConflict
  <2>12. UnboundedAlone'
    <3> SUFFICES ASSUME NEW u \in scheduled', NEW w \in scheduled'
                 PROVE  /\ IsUnbounded(u) \/ (IsUnboundedRW(u) /\ Of(w).cycles > 0) =>
                             ~CrossesEndOf(w, cstep[u])'
                        /\ IsUnbounded(u) /\ IsUnboundedRW(w) => cstep'[u] # cstep'[w]
      BY <2>1 DEF UnboundedAlone
    <3>0. IsUnbounded(u) \/ IsUnboundedRW(u) => ~Of(u).bounded
      BY DEF IsUnbounded, IsUnboundedRW
    <3>1. CASE u = v /\ w = v
      <4>1. ~(IsUnbounded(v) /\ IsUnboundedRW(v))
        BY DEF IsUnbounded, IsUnboundedRW
      <4>2. ~Of(v).bounded => ~CrossesEndOf(v, cstep[v])'
        BY <1>2, <2>2, <2>4, <2>8
      <4> QED BY <3>0, <3>1, <4>1, <4>2
    <3>2. CASE u = v /\ w \in scheduled
      <4>1. ~Of(v).bounded => ~CrossesEndOf(w, cstep[v])'
        <5>1. CrossesEndOf(w, cstep[v])' = CrossesEndOf(w, cycle)
          BY <2>2, <2>3, <3>2 DEF CrossesEndOf, Runs
        <5> QED BY <2>10, <3>2, <5>1
      <4>2. IsUnbounded(v) /\ IsUnboundedRW(w) => cstep'[v] # cstep'[w]
        BY <2>2, <2>3, <2>11, <3>2
      <4> QED BY <3>0, <3>2, <4>1, <4>2
    <3>3. CASE u \in scheduled /\ w = v
      <4>1. IsUnbounded(u) /\ IsUnboundedRW(v) => cstep'[u] # cstep'[v]
        BY <2>2, <2>3, <2>11, <3>3
      <4> QED BY <2>9, <3>3, <4>1
    <3>4. CASE u \in scheduled /\ w \in scheduled
      <4>1. CrossesEndOf(w, cstep[u])' = CrossesEndOf(w, cstep[u])
        BY <2>2, <2>3, <3>4 DEF CrossesEndOf, Runs
      <4> QED BY <2>3, <3>4, <4>1 DEF UnboundedInv, UnboundedAlone
    <3> QED BY <2>2, <3>1, <3>2, <3>3, <3>4
  <2> QED BY <2>5, <2>6, <2>12 DEF UnboundedInv
<1>8. BeginCycle \/ EndCycle \/ (\E v \in Op : Place(v))
      \/ UNCHANGED <<block, schedule, pc, cycle, flags>>
  BY DEF Next, vars, Consider, AlreadyScheduled, Blacklist, Postpone, Restart, Returned
<1> QED BY <1>4, <1>5, <1>6, <1>7, <1>8

(* While an operation of unbounded latency holds the state of a step,      *)
(* nothing whose cycles are counted runs on, and the two kinds of such     *)
(* operations never share a step.                                          *)
THEOREM UnboundedKeptAlone == Spec => []UnboundedAlone
<1>1. UnboundedInv => UnboundedAlone
  BY DEF UnboundedInv
<1>2. Init => UnboundedInv
  BY DEF Init, UnboundedInv, WaitsInStep, UnboundedFlagged, UnboundedAlone
<1> QED BY <1>1, <1>2, InitType, NextType, InitUnforgotten, NextUnforgotten,
           NextUnbounded, PTL DEF Spec

-----------------------------------------------------------------------------
(***************************************************************************)
(* The end of a block.                                                     *)
(***************************************************************************)
(* A branch or return is placed once everything else is: for it is         *)
(* postponed as long as something is missing.                              *)
LEMMA PlacedLast ==
  ASSUME TypeOK, NEW v \in Op, Place(v), IsControl(v)
  PROVE  scheduled' = Op
<1>1. AllButOne
  BY DEF Place, Waits, Postpones
<1>2. /\ scheduled' = scheduled \cup {v} /\ v \notin scheduled
      /\ scheduled \in SUBSET Op /\ scheduled' \in SUBSET Op
  BY DEF Place, TypeOK
<1>3. IsFiniteSet(scheduled) /\ IsFiniteSet(Op)
  BY <1>2, Constants, FS_Subset
<1>4. Cardinality(scheduled') = Cardinality(scheduled) + 1
  BY <1>2, <1>3, FS_AddElement
<1>5. Cardinality(scheduled) \in Nat /\ Cardinality(Op) \in Nat
  BY <1>3, FS_CardinalityType
<1>6. Cardinality(scheduled') = Cardinality(Op)
  BY <1>1, <1>4, <1>5 DEF AllButOne
<1> QED BY <1>2, <1>3, <1>6, FS_Subset

LEMMA NextControl ==
  TypeOK /\ Unforgotten /\ UnboundedInv /\ ControlLast /\ [Next]_vars => ControlLast'
<1> SUFFICES ASSUME TypeOK, Unforgotten, UnboundedInv, ControlLast, [Next]_vars
             PROVE  ControlLast'
  OBVIOUS
<1>1. CASE UNCHANGED <<block, schedule>>
  <2>1. scheduled' = scheduled /\ cstep' = cstep /\ end' = end
    BY <1>1 DEF schedule
  <2>2. /\ \A v : Of(v)' = Of(v) /\ IsControl(v)' = IsControl(v)
        /\ \A v, c : CrossesEndOf(v, c)' = CrossesEndOf(v, c)
    BY <1>1, <2>1, SameOperations DEF IsControl, Is, CrossesEndOf, Runs
  <2> QED BY <2>1, <2>2 DEF ControlLast
<1>2. ASSUME NEW v \in Op, Place(v) PROVE ControlLast'
  <2>1. \A w : Of(w)' = Of(w) /\ IsControl(w)' = IsControl(w)
    BY <1>2, PlaceLeaves, SameOperations DEF IsControl, Is
  <2>2. /\ unit \in Fu /\ end'[v] = PlacedEnd(v, unit) /\ end'[v] \in Nat
        /\ cstep'[v] = cycle /\ scheduled' = scheduled \cup {v} /\ v \notin scheduled
        /\ cycle \in Nat /\ CycleEnd \in Nat
    BY <1>2, PlaceFacts, PlaceLeaves, Cycles DEF TypeOK
  <2>3. \A w \in scheduled : ~IsControl(w)
    BY <2>2 DEF ControlLast
  <2>4. SUFFICES ASSUME IsControl(v)
                 PROVE  /\ scheduled' = Op
                        /\ \A w \in Op : /\ cstep'[w] <= cycle
                                         /\ ~CrossesEndOf(w, cycle)'
                                         /\ Of(w).bounded \/ cstep'[w] < cycle
    <3>1. \A w : CrossesEndOf(w, cycle)' = CrossesEndOf(w, cstep[v])'
      BY <1>2, <2>2, PlaceLeaves DEF CrossesEndOf, Runs
    <3> QED BY <2>1, <2>2, <2>3, <2>4, <3>1 DEF ControlLast
  <2>5. scheduled' = Op
    BY <1>2, <2>4, PlacedLast
  <2>6. ~flags.unbounded /\ ~flags.unboundedRW /\ ~LiveInNextCycle
    BY <1>2, <2>4, PlaceChecks DEF UnboundedConflict
  <2>7. cycle' = cycle /\ pc = "fill"
    BY <1>2, PlaceLeaves
  <2>8. ASSUME NEW w \in Op
        PROVE  /\ cstep'[w] <= cycle
               /\ ~CrossesEndOf(w, cycle)'
               /\ Of(w).bounded \/ cstep'[w] < cycle
    <3>1. CASE w = v
      <4>1. Of(v).bounded /\ end'[v] = EndingTime(v, unit)
        BY <2>2, <2>4, Allocations DEF PlacedEnd
      <4>2. end'[v] <= CycleEnd
        BY <1>2, <2>4, <4>1, EndsInStep
      <4>3. ~CrossesEndOf(v, cycle)'
        BY <2>2, <2>7, <4>2 DEF CrossesEndOf, CycleEnd
      <4> QED BY <2>2, <3>1, <4>1, <4>3
    <3>2. CASE w \in scheduled
      <4>1. /\ cstep'[w] = cstep[w] /\ end'[w] = end[w] /\ cstep[w] <= cycle
            /\ cstep[w] \in Nat /\ end[w] \in Nat
        BY <1>2, <3>2, PlaceLeaves DEF Unforgotten, TypeOK
      <4>2. ~(CycleEnd < end[w])
        <5>1. CycleEnd < end[w] => w \in live
          BY <2>7, <3>2 DEF Unforgotten
        <5> QED BY <2>2, <2>6, <4>1, <5>1 DEF LiveInNextCycle
      <4>3. ~CrossesEndOf(w, cycle)'
        BY <2>7, <4>1, <4>2 DEF CrossesEndOf, CycleEnd
      <4>4. cstep[w] = cycle => ~IsUnbounded(w) /\ ~IsUnboundedRW(w)
        BY <2>6, <2>7, <3>2 DEF UnboundedInv, UnboundedFlagged
      <4>5. Of(w).bounded \/ cstep[w] < cycle
        BY <2>2, <4>1, <4>4 DEF IsUnbounded, IsUnboundedRW
      <4> QED BY <4>1, <4>3, <4>5
    <3> QED BY <2>2, <2>5, <3>1, <3>2
  <2> QED BY <2>5, <2>8
<1>3. (\E v \in Op : Place(v)) \/ UNCHANGED <<block, schedule>>
  BY DEF Next, vars, BeginCycle, Consider, AlreadyScheduled, Blacklist, Postpone,
         Restart, EndCycle, EndCycleWith, Returned
<1> QED BY <1>1, <1>2, <1>3

(* The branch or return of a block is in its last step, and leaves nothing *)
(* behind that still runs or that may take any number of cycles.           *)
THEOREM ControlComesLast == Spec => []ControlLast
<1>1. Init => UnboundedInv /\ ControlLast
  BY DEF Init, UnboundedInv, WaitsInStep, UnboundedFlagged, UnboundedAlone, ControlLast
<1> QED BY <1>1, InitType, NextType, InitUnforgotten, NextUnforgotten,
           NextUnbounded, NextControl, PTL DEF Spec

-----------------------------------------------------------------------------
(* A load resets retConflict to FALSE, whatever called function has set it *)
(* in this step: but no load shares a step with such a function.           *)
ReturnHeldBack ==
  pc = "fill" => \A v \in scheduled : cstep[v] = cycle /\ IsRWFunction(v) =>
                   flags.rwFunctions /\ flags.retConflict

EndsAfterStep == \A v \in scheduled : cstep[v] * Clock <= end[v]

ReturnInv == /\ block \in Blocks
             /\ EndsAfterStep /\ ReturnHeldBack /\ ReturnsAfterStores

LEMMA NextReturn ==
  TypeOK /\ DependenceInv /\ Unforgotten /\ ControlLast /\ ReturnInv /\ [Next]_vars
    => ReturnInv'
<1> SUFFICES ASSUME TypeOK, DependenceInv, Unforgotten, ControlLast, ReturnInv,
                    [Next]_vars
             PROVE  ReturnInv'
  OBVIOUS
<1>1. \A v \in scheduled : v \in Op /\ end[v] \in Nat /\ cstep[v] \in Nat
  BY DEF TypeOK
<1>2. cycle \in Nat /\ CycleStart \in Nat
  BY Cycles DEF TypeOK
<1>3. ASSUME UNCHANGED <<block, schedule>>
      PROVE  /\ scheduled' = scheduled /\ cstep' = cstep
             /\ \A v : IsRWFunction(v)' = IsRWFunction(v)
             /\ block' \in Blocks /\ EndsAfterStep' /\ ReturnsAfterStores'
  <2>1. scheduled' = scheduled /\ cstep' = cstep /\ end' = end
    BY <1>3 DEF schedule
  <2>2. /\ \A v, t : Is(v, t)' = Is(v, t)
        /\ \A v : IsRWFunction(v)' = IsRWFunction(v)
        /\ \A v, c : Runs(v, c)' = Runs(v, c)
    BY <1>3, <2>1, SameOperations DEF Is, IsRWFunction, Runs
  <2>3. ReturnsAfterStores'
    BY <2>1, <2>2 DEF ReturnInv, ReturnsAfterStores
  <2>4. EndsAfterStep'
    BY <2>1 DEF ReturnInv, EndsAfterStep
  <2> QED BY <1>3, <2>1, <2>2, <2>3, <2>4 DEF ReturnInv
<1>4. CASE UNCHANGED <<block, schedule, pc, cycle, flags>>
  BY <1>3, <1>4 DEF ReturnInv, ReturnHeldBack
<1>5. CASE BeginCycle
  <2>1. UNCHANGED <<block, schedule, cycle>> /\ pc = "begin"
    BY <1>5 DEF BeginCycle
  <2>2. \A v \in scheduled : cstep[v] # cycle
    BY <1>1, <1>2, <2>1 DEF Unforgotten
  <2> QED BY <1>3, <2>1, <2>2 DEF ReturnInv, ReturnHeldBack
<1>6. CASE EndCycle
  <2>1. UNCHANGED <<block, schedule>> /\ pc' \in {"done", "begin"}
    BY <1>6 DEF EndCycle, EndCycleWith
  <2> QED BY <1>3, <2>1 DEF ReturnInv, ReturnHeldBack
<1>7. ASSUME NEW v \in Op, Place(v) PROVE ReturnInv'
  <2>1. /\ \A w, t : Is(w, t)' = Is(w, t)
        /\ \A w : Of(w)' = Of(w) /\ IsRWFunction(w)' = IsRWFunction(w)
    BY <1>7, PlaceLeaves, SameOperations DEF Is, IsRWFunction
  <2>2. /\ unit \in Fu /\ end'[v] = PlacedEnd(v, unit) /\ end'[v] \in Nat
        /\ cstep'[v] = cycle /\ cycle' = cycle /\ pc = "fill" /\ block' = block
        /\ scheduled' = scheduled \cup {v} /\ v \notin scheduled
    BY <1>7, PlaceFacts, PlaceLeaves
  <2>3. \A w \in scheduled : /\ w \in Op /\ w # v /\ cstep'[w] = cstep[w]
                             /\ end'[w] = end[w] /\ cstep[w] <= cycle
    BY <1>7, PlaceLeaves DEF Unforgotten
  <2>4. EndsAfterStep'
    <3> SUFFICES ASSUME NEW w \in scheduled' PROVE cstep'[w] * Clock <= end'[w]
      BY DEF EndsAfterStep
    <3>1. CASE w = v
      BY <2>2, <3>1, EndsLate DEF CycleStart
    <3>2. CASE w \in scheduled
      BY <2>3, <3>2 DEF ReturnInv, EndsAfterStep
    <3> QED BY <2>2, <3>1, <3>2
  <2>5. ReturnHeldBack'
    <3> SUFFICES ASSUME NEW w \in scheduled', cstep'[w] = cycle, IsRWFunction(w)
                 PROVE  flags'.rwFunctions /\ flags'.retConflict
      BY <2>1, <2>2 DEF ReturnHeldBack
    <3>1. CASE w = v
      BY <1>7, <3>1, PlaceFlags DEF IsRWFunction
    <3>2. CASE w \in scheduled
      <4>1. flags.rwFunctions /\ flags.retConflict
        BY <2>2, <2>3, <3>2 DEF ReturnInv, ReturnHeldBack
      <4>2. ~IsMemory(v)
        <5>1. ~FunctionConflict(v)
          BY <1>7, PlaceChecks DEF CheckSchedulabilityConditions
        <5> QED BY <4>1, <5>1 DEF FunctionConflict, IsMemory, CallsRoot, Is
      <4> QED BY <1>7, <4>1, <4>2, PlaceFlags
    <3> QED BY <2>2, <3>1, <3>2
  \* A return that is placed: the stores of the block have ended, and no
  \* called function has started in its step.
  <2>6. \A w \in scheduled : ~Is(w, {"ret"})
    BY <2>2, <2>3 DEF ControlLast, IsControl, Is
  <2>7. ASSUME Is(v, {"ret"}), NEW w \in scheduled, Is(w, {"store"})
        PROVE  ~Runs(w, cycle)
    <3>1. w \in Op /\ w \in DataPreds(v) /\ w \in Preds(v)
      <4>1. block \in Blocks /\ w \in Op
        BY <2>3, <2>7 DEF ReturnInv
      <4>2. ClassInfo[block.class[v]].type = "ret" /\ ClassInfo[block.class[w]].type = "store"
        BY <2>7 DEF Is, Of
      <4>3. w \in block.pred[v]
        BY <4>1, <4>2, ReturnAssumption
      <4> QED BY <2>7, <4>1, <4>3 DEF DataPreds, Preds, Is
    <3>2. CstepEnd(w) <= asap[v] /\ asap[v] <= cycle
      BY <1>7, <2>7, <3>1, PlaceChecks
      DEF DependenceInv, AsapIsRight, CheckSchedulabilityConditions
    <3>3. CstepEnd(w) # cycle
      <4>1. ~CanBeChained(w, v, unit)
        BY <2>7 DEF CanBeChained
      <4>2. ~CannotBeChained(v, unit)
        BY <1>7, PlaceChecks DEF CheckSchedulabilityConditions
      <4> QED BY <3>1, <4>1, <4>2 DEF CannotBeChained
    <3>4. asap[v] \in Nat /\ end[w] \in Nat /\ cstep[w] \in Nat
      BY <1>1, <2>7 DEF TypeOK
    <3> DEFINE e == end[w]
    <3>5. e \in Nat /\ e \div Clock < cycle /\ e \div Clock \in Nat
      <4>1. CstepEnd(w) = e \div Clock /\ e \div Clock \in Nat
        BY <3>4, DivideType, Constants DEF CstepEnd
      <4> QED BY <1>2, <3>2, <3>3, <3>4, <4>1
    <3> HIDE DEF e
    <3>6. ~(cycle * Clock <= e)
      BY <1>2, <3>5, Constants, DivideBounds
    <3>7. cstep[w] * Clock <= e
      BY <2>7 DEF ReturnInv, EndsAfterStep, e
    <3>8. cstep[w] # cycle /\ ~(cycle * Clock < e)
      <4>1. cycle * Clock \in Nat
        BY <1>2, Constants, Products
      <4> QED BY <3>5, <3>6, <3>7, <4>1
    <3> QED BY <3>8 DEF Runs, e
  <2>8. ASSUME Is(v, {"ret"}), NEW w \in scheduled, IsRWFunction(w) PROVE cstep[w] # cycle
    <3>1. ~flags.retConflict
      BY <1>7, <2>8, PlaceChecks DEF CheckSchedulabilityConditions
    <3> QED BY <2>2, <2>8, <3>1 DEF ReturnInv, ReturnHeldBack
  <2>9. ReturnsAfterStores'
    <3> SUFFICES ASSUME NEW u \in scheduled', NEW w \in scheduled', Is(u, {"ret"})
                 PROVE  /\ Is(w, {"store"}) => ~Runs(w, cstep[u])'
                        /\ IsRWFunction(w) => cstep'[w] # cstep'[u]
      BY <2>1 DEF ReturnsAfterStores
    <3>1. u = v
      BY <2>2, <2>6
    <3>2. CASE w = v
      BY <3>1, <3>2 DEF Is, IsRWFunction
    <3>3. CASE w \in scheduled
      <4>1. Runs(w, cstep[u])' = Runs(w, cycle)
        BY <1>7, <2>2, <2>3, <3>1, <3>3, PlaceLeaves DEF Runs
      <4> QED BY <2>2, <2>3, <2>7, <2>8, <3>1, <3>3, <4>1
    <3> QED BY <2>2, <3>2, <3>3
  <2> QED BY <2>2, <2>4, <2>5, <2>9 DEF ReturnInv
<1>8. BeginCycle \/ EndCycle \/ (\E v \in Op : Place(v))
      \/ UNCHANGED <<block, schedule, pc, cycle, flags>>
  BY DEF Next, vars, Consider, AlreadyScheduled, Blacklist, Postpone, Restart, Returned
<1> QED BY <1>4, <1>5, <1>6, <1>7, <1>8

(* A function never returns while one of its stores runs, nor in the step  *)
(* in which it calls a function that touches memory: though the flag that  *)
(* guards the return is reset by every load.                               *)
THEOREM ReturnsComeLate == Spec => []ReturnsAfterStores
<1>1. ReturnInv => ReturnsAfterStores
  BY DEF ReturnInv
<1>2. Init => UnboundedInv /\ ControlLast /\ ReturnInv
  BY DEF Init, UnboundedInv, WaitsInStep, UnboundedFlagged, UnboundedAlone,
         ControlLast, ReturnInv, EndsAfterStep, ReturnHeldBack, ReturnsAfterStores
<1> QED BY <1>1, <1>2, InitType, NextType, InitDependence, NextDependence,
           InitUnforgotten, NextUnforgotten, NextUnbounded, NextControl,
           NextReturn, PTL DEF Spec
=============================================================================
