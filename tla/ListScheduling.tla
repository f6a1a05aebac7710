--------------------------- MODULE ListScheduling ---------------------------
(***************************************************************************)
(* The list scheduler of bambu (HLS/scheduling/parametric_list_based.cpp): *)
(* exec() gives every operation of one basic block a control step, a       *)
(* starting and an ending time and a functional unit.                      *)
(*                                                                         *)
(* A control step lasts Clock time units.  Within a step the units whose   *)
(* queue is not empty are taken one after the other and each one's queue   *)
(* is drained: an operation is scheduled, blacklisted until the next step, *)
(* or postponed until the other operations of the block are placed.        *)
(*                                                                         *)
(* Abstracted: the priority metrics (any operation of a queue may come     *)
(* first), and the delays of connections, multiplexers, phi outputs and    *)
(* the controller (zero, so that a time is the sum of operation delays).   *)
(* Times are integers; the slack EPSILON the code takes from a time is     *)
(* subsumed by SetupHold >= 1.                                             *)
(***************************************************************************)
EXTENDS Integers, FiniteSets, FiniteSetsExt

CONSTANTS
  Op,         \* the operations of the basic block
  Fu,         \* the functional unit types
  NoFu,       \* no functional unit is being considered
  FuKind,     \* memory units are "private", "direct", "async" or "indirect"
  FuRank,     \* resource_ordering_functor: which ready unit is taken first
  NumberFu,   \* instances of each functional unit type
  Proxy,      \* the functions that are reached through a proxy
  Clock,      \* time units of a control step
  SetupHold,  \* time units lost to the setup and hold of a register
  Chaining,   \* operations may be chained within a control step
  SlowBus,    \* the memory controller answers one step later (not D00, D10)
  Class,      \* the classes of operations
  ClassInfo,  \* what the allocation knows of each class
  Blocks      \* the basic blocks: classes and predecessors of the operations

(* The function is pipelined with an initiation interval of 1; parameters  *)
(* that forbid to chain loads and stores.                                  *)
Options == {"simple pipeline", "bus-no-chain", "load-store-no-chain"}

Block == [class : [Op -> Class], pred : [Op -> SUBSET Op], registerOut : BOOLEAN,
          options : SUBSET Options]

Types == {"plain", "phi", "load", "store", "call", "branch", "ret"}

(* What the allocation knows of an operation: its kind, the units that     *)
(* implement it, its delay, the cycles it takes (0: combinational), its    *)
(* initiation interval and stage period (0: not pipelined), whether its    *)
(* latency is bounded and its inputs are registered, whether it touches    *)
(* memory or is an access to an interface of the function, whether the     *)
(* function it calls is a root function (a dataflow module is one), and    *)
(* which proxied functions it reaches.                                     *)
Info == [type : Types, fus : (SUBSET Fu) \ {{}}, delay : Nat, cycles : Nat,
         ii : Nat, stage : Nat, bounded : BOOLEAN, registered : BOOLEAN,
         rw : BOOLEAN, interface : BOOLEAN, root : BOOLEAN, proxies : SUBSET Proxy]

ASSUME ConstantsAssumption ==
  /\ IsFiniteSet(Op)
  /\ NoFu \notin Fu
  /\ FuKind \in [Fu -> {"none", "private", "direct", "async", "indirect"}]
  /\ FuRank \in [Fu -> Nat]
  /\ NumberFu \in [Fu -> Nat \ {0}]
  /\ Clock \in Nat \ {0}
  /\ SetupHold \in 1 .. Clock - 1
  /\ Chaining \in BOOLEAN /\ SlowBus \in BOOLEAN

ASSUME BlocksAssumption ==
  /\ ClassInfo \in [Class -> Info]
  /\ Blocks \subseteq Block

(* What get_execution_time and GetTimeLatency return: an operation that    *)
(* takes cycles ends within them, and only a pipelined one has a stage     *)
(* period.  compute_exec_stage_time refuses a stage period in one cycle.   *)
(* A combinational operation may be slower than the clock.                 *)
ASSUME TimesAssumption ==
  \A c \in Class : LET i == ClassInfo[c] IN
    /\ i.cycles > 0 => i.delay <= Clock * i.cycles
    /\ i.ii # 0 <=> i.stage # 0
    /\ i.stage # 0 => i.cycles > 1

(* A branch only reads its condition, and a return is not a circuit at all *)
(* (has_to_be_synthetized).                                                *)
ASSUME ControlAssumption ==
  \A c \in Class : LET i == ClassInfo[c] IN
    /\ i.type \in {"branch", "ret"} => i.bounded /\ i.cycles = 0 /\ i.delay <= Clock
    /\ i.type = "ret" => i.delay = 0

(* add_op_exit_flow_edges: a return follows the other operations of its    *)
(* block, the stores among them.                                           *)
ASSUME ReturnAssumption ==
  \A b \in Blocks : \A u, v \in Op :
    ClassInfo[b.class[u]].type = "ret" /\ ClassInfo[b.class[v]].type = "store" =>
      v \in b.pred[u]

VARIABLES
  block,      \* the basic block that is scheduled
  pc,         \* "begin" of a control step, "fill", "done", "unfeasible", "refused"
  cycle,      \* current_cycle
  scheduled,  \* the operations that have a control step
  cstep,      \* the control step an operation starts in
  start,      \* its starting time
  end,        \* its ending time
  bound,      \* its functional unit type
  queue,      \* priority_queues
  ready,      \* ready_resources
  unit,       \* the unit whose queue is drained
  black,      \* black_list
  postponed,  \* postponed_resources
  used,       \* used_resources
  live,       \* live_vertices
  asap,       \* current_ASAP
  flags,      \* what the current step already contains
  arrays,     \* cstep_vuses_ARRAYs
  others      \* cstep_vuses_others

schedule == <<scheduled, cstep, start, end, bound>>
queues == <<queue, ready, unit, black, postponed>>
vars == <<block, pc, cycle, schedule, queues, used, live, asap, flags, arrays,
          others>>

(***************************************************************************)
(* The operations and the units.                                           *)
(***************************************************************************)
Of(v) == ClassInfo[block.class[v]]

Is(v, types) == Of(v).type \in types

IsMemory(v) == Is(v, {"load", "store"})

IsControl(v) == Is(v, {"branch", "ret"})

(* A call that may read or write memory behind the scheduler's back.       *)
IsRWFunction(v) ==
  Is(v, {"call"}) /\ Of(v).rw /\ ~Of(v).interface

CallsRoot(v) == Is(v, {"call"}) /\ Of(v).root

Has(option) == option \in block.options

IsUnbounded(v) == ~Of(v).bounded /\ ~Of(v).interface

IsUnboundedRW(v) == ~Of(v).bounded /\ Of(v).interface

IsPipelined(v) == Of(v).ii # 0

Direct(f) == FuKind[f] \in {"private", "direct", "async"}

Preds(v) == block.pred[v]

DataPreds(v) == {u \in Preds(v) : ~Is(u, {"phi"})}

Succs(v) == {w \in Op : v \in Preds(w)}

CycleStart == cycle * Clock

CycleEnd == (cycle + 1) * Clock

CstepEnd(v) == end[v] \div Clock

AllButOne == Cardinality(scheduled) = Cardinality(Op) - 1

(* check_if_is_live_in_next_cycle                                          *)
LiveInNextCycle == \E v \in live : end[v] > CycleEnd

(***************************************************************************)
(* compute_starting_ending_time_asap and compute_exec_stage_time: when the *)
(* operation v would start and end on unit f in the current step.          *)
(***************************************************************************)
(* Mutant: an operation starts with its step, whatever it is chained to.   *)
StartsAtOnce(v) == CycleStart

StartingTime(v) == Max({CycleStart} \cup {end[u] : u \in DataPreds(v)})

StagePeriod(v, f) ==
  LET stage == Of(v).stage
      late == stage + SetupHold >= Clock
  IN  IF late /\ (FuKind[f] = "indirect" \/ IsPipelined(v))
      THEN Clock - SetupHold ELSE stage

EndingTime(v, f) ==
  LET cycles == Max({1, Of(v).cycles})
      delay == Of(v).delay
      fits == Clock * cycles - SetupHold
  IN  IF StagePeriod(v, f) # 0
      THEN CycleStart + Clock * (cycles - 1) + StagePeriod(v, f)
      ELSE IF FuKind[f] = "indirect" /\ delay >= fits THEN StartingTime(v) + fits
      ELSE StartingTime(v) + delay

(* Mutant: what follows a store may be chained to it.                      *)
ChainedToStore(u, v, f) ==
  /\ Of(u).bounded
  /\ ~(Of(u).delay > 0 /\ Is(v, {"load"}) /\ FuKind[f] = "async")
  /\ ~(Is(u, {"branch"}) /\ (Is(v, {"store"}) \/ ~Of(v).bounded))

(* AllocationInformation::CanBeChained                                     *)
CanBeChained(u, v, f) ==
  /\ ~Is(u, {"store"})
  /\ Of(u).bounded
  /\ ~(Of(u).delay > 0 /\ Is(v, {"load"}) /\ FuKind[f] = "async")
  /\ ~(Is(u, {"branch"}) /\ (Is(v, {"store"}) \/ ~Of(v).bounded))
  /\ ~(Has("bus-no-chain") /\ "indirect" \in {FuKind[bound[u]], FuKind[f]})
  /\ ~(Has("load-store-no-chain") /\ (Is(u, {"load"}) \/ IsMemory(v)))

(* check_non_direct_operation_chaining: a load that ends in the current    *)
(* step reaches v through operations that end in it too.                   *)
EndingHere == {u \in scheduled : CstepEnd(u) = cycle}

ChainsTo(v) ==
  LET grow[n \in 0 .. Cardinality(Op)] ==
        IF n = 0 THEN Preds(v) \cap EndingHere
        ELSE grow[n - 1] \cup
             (EndingHere \cap UNION {Preds(u) : u \in grow[n - 1]})
  IN  grow[Cardinality(Op)]

NonDirectChaining(v, f) ==
  \E u \in ChainsTo(v) :
    /\ Is(u, {"load"})
    /\ \/ FuKind[f] = "indirect"
       \/ FuKind[f] = "async" /\ FuKind[bound[u]] = "async"
       \/ FuKind[bound[u]] = "indirect"

(***************************************************************************)
(* CheckSchedulabilityConditions: what keeps v out of the current step.    *)
(***************************************************************************)
Late(v, f) == EndingTime(v, f) + SetupHold > CycleEnd

Chained(v) == StartingTime(v) > CycleStart

(* The first cycle of a multi-cycle operation does not fit in what is left *)
(* of the step.                                                            *)
FirstCycleLate(v, f) ==
  EndingTime(v, f) - (Of(v).cycles - 1) * Clock + SetupHold > CycleEnd

PipeliningCond(v, f) ==
  /\ IsPipelined(v) /\ Chained(v)
  /\ \/ flags.unbounded
     \/ (IF Of(v).registered THEN 0 ELSE StagePeriod(v, f))
          + StartingTime(v) + SetupHold > CycleEnd

CannotBeChained(v, f) ==
  \/ StartingTime(v) >= CycleEnd
  \/ /\ ~IsPipelined(v) /\ ~Is(v, {"ret"}) /\ Of(v).cycles = 0
     /\ Chained(v) /\ Late(v, f)
  \/ IsMemory(v) /\ NonDirectChaining(v, f)
  \/ \E u \in DataPreds(v) : CstepEnd(u) = cycle /\ ~CanBeChained(u, v, f)
  \/ Chained(v) /\ Is(v, {"load"}) /\ FuKind[f] = "async"
  \/ Chained(v) /\ ~Chaining

MultiCond(v, f) ==
  \/ Of(v).cycles > 1 /\ (flags.unboundedRW \/ flags.unbounded)
  \/ flags.seeMulticycle /\ ~Of(v).bounded
  \/ /\ ~IsPipelined(v) /\ Of(v).cycles > 0
     /\ Chained(v) /\ FirstCycleLate(v, f)
  \/ Late(v, f) /\ flags.unbounded /\ Of(v).bounded

(* A call of a root function does not look at what the step contains, but  *)
(* what comes after it does.                                               *)
FunctionConflict(v) ==
  /\ ~CallsRoot(v)
  /\ \/ IsMemory(v) /\ flags.rwFunctions
     \/ /\ Is(v, {"call"}) /\ Of(v).rw
        /\ flags.loadStoreOp \/ flags.rwFunctions
     \/ Is(v, {"call"}) /\ Of(v).proxies \cap flags.proxies # {}

CalledTooLate(v, f) ==
  /\ Is(v, {"call"}) /\ ~IsPipelined(v) /\ Of(v).cycles > 1
  /\ ~Of(v).registered
  /\ \E u \in DataPreds(v) : cstep[u] = cycle
  /\ FirstCycleLate(v, f)

CheckSchedulabilityConditions(v, f) ==
  /\ asap[v] <= cycle
  /\ ~PipeliningCond(v, f)
  /\ ~CannotBeChained(v, f)
  /\ ~(Is(v, {"ret"}) /\ (flags.unbounded \/ flags.retConflict))
  /\ ~MultiCond(v, f)
  /\ ~FunctionConflict(v)
  /\ ~CalledTooLate(v, f)

(***************************************************************************)
(* The checks exec makes itself before it computes the times.              *)
(***************************************************************************)
NoFreeResource(f) == used[f] = NumberFu[f]

(* Direct and indirect accesses to memory do not share a step.             *)
MemoryConflict(v, f) ==
  /\ IsMemory(v)
  /\ \/ FuKind[f] \in {"direct", "async"} /\ others > 0
     \/ ~Direct(f) /\ arrays > 0

(* Mutant: a branch next to an operation that runs on.                     *)
BranchesEarly(v) ==
  \/ IsControl(v) /\ (flags.unbounded \/ flags.unboundedRW)
  \/ IsUnbounded(v) /\ (flags.unboundedRW \/ LiveInNextCycle)
  \/ IsUnboundedRW(v) /\ flags.unbounded

UnboundedConflict(v) ==
  \/ IsControl(v) /\ (flags.unbounded \/ flags.unboundedRW \/ LiveInNextCycle)
  \/ IsUnbounded(v) /\ (flags.unboundedRW \/ LiveInNextCycle)
  \/ IsUnboundedRW(v) /\ flags.unbounded

(* registering_output_p: the value returned by the top function is         *)
(* registered, it gets a step of its own.                                  *)
RegisterOut == block.registerOut

RegistersOutput(v) ==
  Is(v, {"ret"}) /\ AllButOne /\ flags.count # 0 /\ RegisterOut

Waits(v, f) ==
  \/ NoFreeResource(f)
  \/ MemoryConflict(v, f)
  \/ UnboundedConflict(v)
  \/ ~(IsControl(v) /\ ~AllButOne)
     /\ (RegistersOutput(v) \/ ~CheckSchedulabilityConditions(v, f))

(* Mutant: a control operation is postponed even when it is the last one.  *)
AlwaysPostponed(v, f) ==
  IsControl(v) /\ ~NoFreeResource(f) /\ ~UnboundedConflict(v)

(* A control operation that nothing else holds back comes last.            *)
Postpones(v, f) ==
  /\ IsControl(v) /\ ~AllButOne
  /\ ~NoFreeResource(f) /\ ~UnboundedConflict(v)

-----------------------------------------------------------------------------
NoOps == [f \in Fu |-> {}]

(* The operations that can be scheduled at the beginning of the block.     *)
ReadyVertices == {v \in Op : Preds(v) = {}}

NoFlags == [unbounded |-> FALSE, unboundedRW |-> FALSE, rwFunctions |-> FALSE,
            loadStoreOp |-> FALSE, seeMulticycle |-> FALSE,
            retConflict |-> FALSE, proxies |-> {}, count |-> 0]

Init ==
  /\ block \in Blocks
  /\ pc = "begin" /\ cycle = 0
  /\ scheduled = {}
  /\ cstep = [v \in Op |-> 0]
  /\ start = [v \in Op |-> 0]
  /\ end = [v \in Op |-> 0]
  /\ bound = [v \in Op |-> NoFu]
  /\ queue = [f \in Fu |-> {v \in ReadyVertices : f \in Of(v).fus}]
  /\ ready = {} /\ unit = NoFu
  /\ black = NoOps /\ postponed = NoOps
  /\ used = [f \in Fu |-> 0]
  /\ live = {}
  /\ asap = [v \in Op |-> 0]
  /\ flags = NoFlags
  /\ arrays = 0 /\ others = 0

(* Mutant: only a pipelined operation holds its unit while it runs.        *)
HoldsIfPipelined(v) ==
  IsPipelined(v) /\ cycle < Of(v).ii + start[v] \div Clock

(* A live operation holds its unit: for good if it is not pipelined, for   *)
(* its initiation interval otherwise.                                      *)
Holds(v) ==
  IsPipelined(v) => cycle < Of(v).ii + start[v] \div Clock

(* Mutant: the calls that still run are forgotten.                         *)
ForgetsFunctions ==
  /\ pc = "begin"
  /\ live' = {v \in live : end[v] > CycleStart}
  /\ used' = [f \in Fu |->
               Cardinality({v \in live' : bound[v] = f /\ Holds(v)})]
  /\ flags' = [NoFlags EXCEPT
        !.seeMulticycle = LiveInNextCycle,
        !.loadStoreOp = \E v \in live' : IsMemory(v),
        !.retConflict = \/ RegisterOut /\ ~AllButOne
                        \/ \E v \in live' : Is(v, {"store"})]
  /\ pc' = "fill"
  /\ ready' = {f \in Fu : queue[f] # {}}
  /\ unit' = NoFu
  /\ UNCHANGED <<block, cycle, schedule, queue, black, postponed, asap, arrays,
                 others>>

(* exec throws "Unfeasible scheduling", or refuses a function that is to   *)
(* be pipelined with an operation that is "not compatible with II=1".      *)
MoreThanThereAre == \E f \in Fu : used'[f] > NumberFu[f]

TakesTooLong == Has("simple pipeline") /\ \E v \in live' : Of(v).ii # 1

(* The beginning of a control step: what is still running holds its unit   *)
(* and what it conflicts with; the flags of the last step are forgotten.   *)
BeginCycle ==
  /\ pc = "begin"
  /\ LET alive == {v \in live : end[v] > CycleStart}
     IN  /\ live' = alive
         /\ used' = [f \in Fu |->
                      Cardinality({v \in alive : bound[v] = f /\ Holds(v)})]
         /\ flags' = [NoFlags EXCEPT
                !.seeMulticycle = LiveInNextCycle,
                !.loadStoreOp = \E v \in alive : IsMemory(v),
                !.rwFunctions = \E v \in alive : IsRWFunction(v),
                !.retConflict = \/ RegisterOut /\ ~AllButOne
                                \/ \E v \in alive : Is(v, {"store"})]
  /\ pc' = CASE MoreThanThereAre -> "unfeasible"
            [] ~MoreThanThereAre /\ TakesTooLong -> "refused"
            [] OTHER -> "fill"
  /\ ready' = {f \in Fu : queue[f] # {}}
  /\ unit' = NoFu
  /\ UNCHANGED <<block, cycle, schedule, queue, black, postponed, asap, arrays,
                 others>>

(* The next unit is considered once the queue of the last one is empty.    *)
Drained == unit # NoFu => queue[unit] = {}

Consider(f) ==
  /\ pc = "fill" /\ Drained
  /\ f \in ready /\ \A g \in ready : FuRank[f] <= FuRank[g]
  /\ unit' = f
  /\ ready' = ready \ {f}
  /\ UNCHANGED <<block, pc, cycle, schedule, queue, black, postponed, used,
                 live, asap, flags, arrays, others>>

(* The operation taken from the queue of the unit that is considered.      *)
Popped(v) ==
  /\ pc = "fill" /\ unit # NoFu
  /\ v \in queue[unit]

PopOnly(v) == queue' = [queue EXCEPT ![unit] = @ \ {v}]

(* Another unit has implemented it meanwhile.                              *)
AlreadyScheduled(v) ==
  /\ Popped(v) /\ v \in scheduled
  /\ PopOnly(v)
  /\ UNCHANGED <<block, pc, cycle, schedule, ready, unit, black, postponed,
                 used, live, asap, flags, arrays, others>>

Blacklist(v) ==
  /\ Popped(v) /\ v \notin scheduled
  /\ Waits(v, unit)
  /\ PopOnly(v)
  /\ black' = [black EXCEPT ![unit] = @ \cup {v}]
  /\ UNCHANGED <<block, pc, cycle, schedule, ready, unit, postponed, used,
                 live, asap, flags, arrays, others>>

Postpone(v) ==
  /\ Popped(v) /\ v \notin scheduled
  /\ Postpones(v, unit)
  /\ PopOnly(v)
  /\ postponed' = [postponed EXCEPT ![unit] = @ \cup {v}]
  /\ UNCHANGED <<block, pc, cycle, schedule, ready, unit, black, used, live,
                 asap, flags, arrays, others>>

(* An operation that waits for an unbounded time ends with its step.       *)
PlacedEnd(v, f) ==
  IF ~Of(v).bounded /\ Late(v, f) THEN CycleEnd - SetupHold
  ELSE EndingTime(v, f)

(* Mutant: the flag tells of the last operation only.                      *)
FlagsOfLast(v, f) ==
  flags' = [flags EXCEPT
    !.count = @ + 1,
    !.unbounded = IsUnbounded(v),
    !.unboundedRW = @ \/ IsUnboundedRW(v),
    !.rwFunctions = @ \/ IsRWFunction(v),
    !.loadStoreOp = @ \/ IsMemory(v),
    !.seeMulticycle = @ \/ (Of(v).bounded /\ PlacedEnd(v, f) > CycleEnd)]

UpdateFlags(v, f) ==
  flags' = [flags EXCEPT
    !.count = @ + 1,
    !.unbounded = @ \/ IsUnbounded(v),
    !.unboundedRW = @ \/ IsUnboundedRW(v),
    !.rwFunctions = @ \/ IsRWFunction(v),
    !.loadStoreOp = @ \/ IsMemory(v),
    !.seeMulticycle = @ \/ (Of(v).bounded /\ PlacedEnd(v, f) > CycleEnd),
    !.retConflict = CASE Is(v, {"call"}) /\ Of(v).rw -> TRUE
                      [] IsMemory(v) -> Is(v, {"store"})
                      [] OTHER -> @,
    !.proxies = IF Is(v, {"call"}) THEN @ \cup Of(v).proxies ELSE @]

(* Mutant: the steps the bus is taken for add up.                          *)
VusesAddUp(v, f) ==
  LET shared == IsMemory(v) /\ FuKind[f] # "private"
      toArray == shared /\ Direct(f) /\ others = 0
  IN  /\ arrays' = IF toArray THEN 1 ELSE arrays
      /\ others' = IF shared /\ ~toArray THEN others + (IF SlowBus THEN 2 ELSE 1)
                   ELSE others

(* cstep_vuses_ARRAYs and cstep_vuses_others: accesses to memory that is   *)
(* not private to the function.                                            *)
UpdateVuses(v, f) ==
  LET shared == IsMemory(v) /\ FuKind[f] # "private"
      toArray == shared /\ Direct(f) /\ others = 0
  IN  /\ arrays' = IF toArray THEN 1 ELSE arrays
      /\ others' = IF shared /\ ~toArray THEN (IF SlowBus THEN 2 ELSE 1)
                   ELSE others

(* Mutant: a successor is released by its first predecessor.               *)
ReleasesEarly(v) ==
  /\ queue' = [f \in Fu |-> (queue[f] \ {v}) \cup {w \in Succs(v) : f \in Of(w).fus}]
  /\ ready' = ready \cup UNION {Of(w).fus : w \in Succs(v)}
  /\ asap' = [w \in Op |-> IF w \in Succs(v) THEN Max({asap[w], end'[v] \div Clock})
                            ELSE asap[w]]

(* The successors whose predecessors are all scheduled enter the queues of *)
(* the units that implement them.                                          *)
AddSuccessors(v) ==
  LET released == {w \in Succs(v) : Preds(w) \subseteq scheduled'}
  IN  /\ queue' = [f \in Fu |->
                     (IF f = unit THEN queue[f] \ {v} ELSE queue[f])
                     \cup {w \in released : f \in Of(w).fus}]
      /\ ready' = ready \cup UNION {Of(w).fus : w \in released}
      /\ asap' = [w \in Op |->
                    IF w \in Succs(v) THEN Max({asap[w], end'[v] \div Clock})
                    ELSE asap[w]]

Place(v) ==
  /\ Popped(v) /\ v \notin scheduled
  /\ ~Waits(v, unit) /\ ~Postpones(v, unit)
  /\ scheduled' = scheduled \cup {v}
  /\ cstep' = [cstep EXCEPT ![v] = cycle]
  /\ start' = [start EXCEPT ![v] = StartingTime(v)]
  /\ end' = [end EXCEPT ![v] = PlacedEnd(v, unit)]
  /\ bound' = [bound EXCEPT ![v] = unit]
  /\ used' = [used EXCEPT ![unit] = @ + 1]
  /\ live' = IF PlacedEnd(v, unit) > CycleEnd THEN live \cup {v} ELSE live
  /\ UpdateFlags(v, unit)
  /\ UpdateVuses(v, unit)
  /\ AddSuccessors(v)
  /\ UNCHANGED <<block, pc, cycle, unit, black, postponed>>

(* Every queue is empty: the postponed operations are queued again, and    *)
(* tried again at once if nothing is blacklisted.                          *)
AllDrained == pc = "fill" /\ ready = {} /\ Drained

Restart ==
  /\ AllDrained
  /\ postponed # NoOps /\ black = NoOps
  /\ queue' = [f \in Fu |-> queue[f] \cup postponed[f]]
  /\ ready' = {f \in Fu : postponed[f] # {}}
  /\ postponed' = NoOps
  /\ UNCHANGED <<block, pc, cycle, schedule, unit, black, used, live, asap,
                 flags, arrays, others>>

(* The step ends: blacklisted operations are queued again for the next.    *)
EndCycleWith(a, o) ==
  /\ AllDrained
  /\ postponed = NoOps \/ black # NoOps
  /\ queue' = [f \in Fu |-> queue[f] \cup postponed[f] \cup black[f]]
  /\ black' = NoOps /\ postponed' = NoOps
  /\ arrays' = a /\ others' = o
  /\ cycle' = cycle + 1
  /\ pc' = IF scheduled = Op THEN "done" ELSE "begin"
  /\ UNCHANGED <<block, schedule, ready, unit, used, live, asap, flags>>

(* Mutant: the memory ports are free at once.                              *)
FreesAtOnce == EndCycleWith(0, 0)

EndCycle == EndCycleWith(Max({0, arrays - 1}), Max({0, others - 1}))

(* exec has returned, or has thrown an error.                              *)
Returned == pc \in {"done", "unfeasible", "refused"} /\ UNCHANGED vars

Next ==
  \/ BeginCycle
  \/ \E f \in Fu : Consider(f)
  \/ \E v \in Op : AlreadyScheduled(v) \/ Blacklist(v) \/ Postpone(v) \/ Place(v)
  \/ Restart
  \/ EndCycle
  \/ Returned

(* exec is a loop of one thread: it takes its next step until it returns.  *)
Spec == Init /\ [][Next]_vars /\ WF_vars(Next)

-----------------------------------------------------------------------------
(***************************************************************************)
(* Properties.                                                             *)
(***************************************************************************)
Queues == [Fu -> SUBSET Op]

(* Every variable has its type.                                            *)
TypeOK ==
  /\ block \in Block
  /\ pc \in {"begin", "fill", "done", "unfeasible", "refused"}
  /\ cycle \in Nat
  /\ scheduled \subseteq Op
  /\ cstep \in [Op -> Nat] /\ start \in [Op -> Nat] /\ end \in [Op -> Nat]
  /\ bound \in [Op -> Fu \cup {NoFu}]
  /\ queue \in Queues /\ black \in Queues /\ postponed \in Queues
  /\ ready \subseteq Fu /\ unit \in Fu \cup {NoFu}
  /\ used \in [Fu -> Nat]
  /\ live \subseteq Op
  /\ asap \in [Op -> Nat]
  /\ flags \in [unbounded : BOOLEAN, unboundedRW : BOOLEAN,
                rwFunctions : BOOLEAN, loadStoreOp : BOOLEAN,
                seeMulticycle : BOOLEAN, retConflict : BOOLEAN,
                proxies : SUBSET Proxy, count : Nat]
  /\ arrays \in 0 .. 1 /\ others \in 0 .. 2

(* An operation is scheduled after its predecessors, does not start before *)
(* the values it reads are there, and not in a step before the one a       *)
(* predecessor ends in: whatever was blacklisted, postponed or queued on   *)
(* several units in between.                                               *)
DependencesRespected ==
  \A v \in scheduled : \A u \in Preds(v) :
    /\ u \in scheduled
    /\ CstepEnd(u) <= cstep[v]
    /\ u \in DataPreds(v) => end[u] <= start[v]

(* The steps in which an operation keeps its unit busy.                    *)
Busy(v, c) ==
  /\ v \in scheduled
  /\ \/ c = cstep[v]
     \/ /\ cstep[v] < c /\ c * Clock < end[v]
        /\ IsPipelined(v) => c < Of(v).ii + cstep[v]

(* No step uses more instances of a unit than there are, counting the      *)
(* operations of earlier steps that still run: used_resources is rebuilt   *)
(* at every step from the live vertices.                                   *)
ResourceLimit ==
  \A f \in Fu : \A c \in 0 .. cycle :
    Cardinality({v \in Op : bound[v] = f /\ Busy(v, c)}) <= NumberFu[f]

Runs(v, c) == v \in scheduled /\ cstep[v] <= c /\ (c = cstep[v] \/ c * Clock < end[v])

CrossesEndOf(v, c) == Runs(v, c) /\ (c + 1) * Clock < end[v]

(* The state of an operation of unbounded latency can last any number of   *)
(* cycles: nothing that counts cycles runs across the end of that step,    *)
(* whichever of the two was scheduled first, not even a slow combinational *)
(* operation unless the former is an access to an interface; and such an   *)
(* access does not share the step with another kind of unbounded operation. *)
UnboundedAlone ==
  \A u, v \in scheduled :
    /\ IsUnbounded(u) \/ (IsUnboundedRW(u) /\ Of(v).cycles > 0) =>
         ~CrossesEndOf(v, cstep[u])
    /\ IsUnbounded(u) /\ IsUnboundedRW(v) => cstep[u] # cstep[v]

(* Memory that is not private is reached through its own ports or through  *)
(* the bus in one step, never both: and a slow memory controller is left   *)
(* alone one step more.                                                    *)
MemoryExclusive ==
  \A u, v \in scheduled :
    IsMemory(u) /\ IsMemory(v) /\ FuKind[bound[u]] \in {"direct", "async"}
      /\ FuKind[bound[v]] = "indirect" =>
      /\ cstep[u] # cstep[v]
      /\ SlowBus => cstep[u] # cstep[v] + 1

(* The function u keeps v away.  Only the call of a root function may join *)
(* what is there: what starts in a later step still waits for it.          *)
KeepsAway(u, v) ==
  /\ u # v /\ IsRWFunction(u) /\ (IsMemory(v) \/ IsRWFunction(v))
  /\ ~CallsRoot(v) /\ (CallsRoot(u) => cstep[u] < cstep[v])

(* A called function that touches memory and a load or store, or two such  *)
(* functions, never run in the same step, in whichever order they were     *)
(* placed, but for the call of a root function that joins the others.      *)
FunctionsExclusive ==
  \A u, v \in scheduled :
    KeepsAway(u, v) => \A c \in 0 .. cycle : ~(Runs(u, c) /\ Runs(v, c))

(* The branch or the return of the block is in its last step, with nothing *)
(* unbounded and nothing that still runs after it.                         *)
ControlLast ==
  \A u \in scheduled : IsControl(u) =>
    /\ scheduled = Op
    /\ \A v \in Op :
         /\ cstep[v] <= cstep[u]
         /\ ~CrossesEndOf(v, cstep[u])
         /\ Of(v).bounded \/ cstep[v] < cstep[u]

(* A function never returns in a step in which a store runs or a call that *)
(* touches memory starts.                                                  *)
ReturnsAfterStores ==
  \A u, v \in scheduled : Is(u, {"ret"}) =>
    /\ Is(v, {"store"}) => ~Runs(v, cstep[u])
    /\ IsRWFunction(v) => cstep[v] # cstep[u]

(* Two calls that reach the same proxied function never run in the same    *)
(* step.                                                                   *)
ProxiesExclusive ==
  \A u, v \in scheduled :
    u # v /\ Is(u, {"call"}) /\ Is(v, {"call"})
      /\ Of(u).proxies \cap Of(v).proxies # {} =>
      \A c \in 0 .. cycle : ~(Runs(u, c) /\ Runs(v, c))

(* The scheduler implements BlockSchedule: it places the operations one at *)
(* a time, each after its predecessors, and never moves one again.         *)
Abstract == INSTANCE BlockSchedule WITH
  Unit <- Fu, pred <- block.pred,
  placed <- [v \in scheduled |->
               [unit |-> bound[v], from |-> cstep[v], to |-> CstepEnd(v)]]

PlacesForGood == Abstract!AbsSpec

(* Every block is scheduled, however the queues, the black list and the    *)
(* postponed operations are mixed; only a pipeline may be refused.         *)
Terminates == <>(pc = "done" \/ (pc = "refused" /\ Has("simple pipeline")))
=============================================================================
