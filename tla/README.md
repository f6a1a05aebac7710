# A verification development for PandA-Bambu

Bambu is a high-level synthesis tool: it reads C/C++, transforms an
intermediate representation, allocates, schedules and binds it, writes HDL and
can co-simulate the generated hardware with the original program. This
directory holds TLA+ models of parts of it, what TLC checks about them and what
TLAPS proves. Paths below are relative to the root of the repository.

## 1. Inventory

| Part | Where | State it keeps | Operations | What makes it hard | Modelled |
|---|---|---|---|---|---|
| Design flow manager | `src/design_flows` | graph of steps, a status per step, the set of possibly ready steps | `AddStep(s)`, `Exec`, `DeExecute` | relationships change while the flow runs; steps invalidate earlier ones | `DesignFlow` |
| Co-simulation protocol | `etc/libbambu/libmdpi` (`mdpi.c`, `mdpi_ipc_sig.h`) | a shared file: a handle and one operation | reserve, request, response, release, exit | two processes, three threads, exits at any time | `Mdpi` |
| Co-simulation testbench | `mdpi_driver.cpp`, wrapper written by `mdpi_wrapper_c_writer.cpp` | interfaces, memory map, the simulator's pid | set-up of a call, start, end, the IPC thread, signal handler, destructor | handlers and destructors that run the protocol again; registers that repeat what another process knows | `Mdpi`, `Testbench` |
| Testbench modules | `etc/lib/technology/NC_STD_IPs.xml` | FSM READY .. ABORT, FIFO registers | `m_next`, `m_read`, `m_write`, reset, set-up, cycle limit | one counter drives reset, set-up and start; what they show is refreshed now and then | `Testbench` |
| Run-time allocator | `etc/libbambu/memmgr.c` | pool, circular free list | `malloc`, `free`, `memalign`, `calloc` | pool limit, coalescing, header units | `Allocator` |
| List scheduling | `src/HLS/scheduling/parametric_list_based.cpp` | schedule, queues per unit, black list, what each control step contains | `exec` of a basic block | every rule has to hold for operations of earlier steps that still run | `ListScheduling` |
| Memory allocation | `src/HLS/memory`, `src/HLS/functions` | where units and variables are put, addresses | `fun_dominator_allocation`, `mem_dominator_allocation`, the class `memory` | decisions of several steps have to fit one circuit | `MemoryAllocation`, `AddressSpace` |
| Graph algorithms | `src/algorithms` | - | dominators, clique covering, loops | the dominator algorithm is written for speed | `Dominance` (dominators) |
| Range and bit arithmetic | `src/utility` | values | transfer functions | wrap-around | no |
| Liveness, binding | `src/HLS/liveness`, `src/HLS/binding` | live sets, registers | fixed point, colouring | conflicts across iterations | no |
| State transition graph, controller, datapath | `src/HLS/stg`, `src/HLS/architecture_creation` | state graph, circuits | generation | built from the schedule of each block | no |
| Front end | `src/frontend_analysis` | the representation | about 100 steps | their order: the design flow manager's business | as steps |
| Representation, circuits, parsers, technology, wrappers, plugins, floating-point libraries, vendored code | `src/tree`, `src/circuit`, `src/parser`, `src/polixml`, `src/technology`, `src/wrapper`, `etc/*_plugin`, `etc/libbambu/{libm,softfloat}`, `ext` | data | - | no behaviour of their own in time | no |

How they interact. Everything the tool does is a step of the design flow
manager: a step knows which steps it depends on, which ones it has to follow
and, after it has run, which earlier ones must run again; the manager calls
`ComputeRelationships` and `Exec` of the step, nothing else. Scheduling and
memory allocation are such steps; they communicate through what they leave in
the HLS managers. The co-simulation runs outside the tool: the testbench
process forks the simulator, the two share a memory-mapped file and signal each
other; the simulator calls `m_next` from the testbench FSM and `m_read`,
`m_write`, `m_state` from the interface modules, and the testbench process runs
the golden function in its main thread while a thread of its own answers the
simulator.

What makes the modelled parts correct:

* manager: a step runs after everything it was ordered after, and again when
  one of those did; no registered step is forgotten; necessity reaches all
  dependences; the loop ends.
* protocol: the one shared operation is never worked on by two threads; an
  answer belongs to its request; results are compared after exactly one run of
  the design; both processes end, and the simulator learns how the testbench
  ended.
* testbench: a design starts once a call, after its reset and set-up; it reads
  what is in the FIFOs, in order; its addresses lead to the memory that was
  mapped; the arguments hold what it wrote.
* allocator: what is handed out lies in the pool, is large enough and belongs
  to one caller; nothing of the pool is lost; a refusal is justified.
* scheduler: no operation before its operands, no unit and no memory port used
  twice, nothing that counts cycles in a state that lasts for an unknown time;
  every block is scheduled.
* memory allocation: what is shared is above everything that uses it and there
  once; a static variable exists once; addresses are apart.

The hazards behind these properties are listed with their lines in
`PROJECT.json`.

## 2. Modules

```
FlowOrder              what a flow manager promises (abstract)
DesignFlow             design_flow_manager.cpp; refines FlowOrder
DesignFlow_proofs      its theorems
MCDesignFlow           every flow of four steps, for TLC

SimPhases              the simulator as the C testbench sees it (abstract)
Mdpi                   the co-simulation protocol and both its ends; refines SimPhases
Mdpi_proofs
MCMdpi                 scenarios, for TLC
DeviceMap              class device_memmap: addresses of the design
Testbench              the clocked modules and the set-up of a call; refines SimPhases
Testbench_proofs
MCTestbench            benches, for TLC

BlockSchedule          what a scheduler promises for a basic block (abstract)
ListScheduling         parametric_list_based.cpp; refines BlockSchedule
ListScheduling_proofs
MCScheduling           basic blocks and units, for TLC

Dominators             what a dominator is, by definition
Dominance              Dominance.hpp, which finds them
Dominance_proofs
AddressSpace           class memory: the addresses of variables
MemoryAllocation       fun_dominator_allocation and mem_dominator_allocation; their
                       calls of the class memory refine AddressSpace
MemoryAllocation_proofs  also of AddressSpace
MCMemory               call graphs and variables, for TLC

Heap                   what an allocator promises (abstract)
Allocator              memmgr.c; refines Heap
Allocator_proofs
MCAllocator            the calls of memalign and calloc, for TLC

Numbers                least and greatest elements, induction, quotients: lemmas
                       the proofs of several components share
```

`Mdpi` and `Testbench` are two halves of one system: `Mdpi` carries the
requests and knows the design only by its phase, `Testbench` has the registers
and answers a request within the clock edge that makes it. They meet in
`SimPhases`, which both are shown to implement: the phase a report or an answer
leads to is the phase the clocked modules are in.

### DesignFlow

| Model | Code |
|---|---|
| `status` | `DesignFlowStepInfo::status`; NONEXISTENT stands for "no vertex" as in `GetStatus` |
| `edges`, `needs` | the edges of `design_flow_graph`, and those with the DEPENDENCE type |
| `ready` | `possibly_ready`: the vertices it holds, each with the key it was filed under |
| `flow`, `changed` | what `ComputeRelationships` of the steps answers, and the steps whose success has changed it |
| `forced` | history: invalidated steps that have not run since |
| `left` | bound on invalidations; 0 is the option `disable-invalidations` |
| `AddSteps(S)` | `AddStep`, `AddSteps`, that is `RecursivelyAddSteps(S, false)` |
| `Iterate` | one iteration of the loop of `Exec`: `PutAside` is the `continue` of line 709, `Perform` the rest, with `StopAlreadySkipped` and `StopNotBefore` for its two checks |
| `FinishExec` | the check after the loop |

`RecursivelyAddSteps` is a depth-first recursion with two flags per step. What
it changes does not depend on its order: the steps worked on as necessary are
those reachable along dependences through steps that were absent or
unnecessary (`NeededBy`), the others those reachable through absent ones
(`OptionalFor`), and every one of them gets all its edges before it is looked
at for readiness. The same holds of `DeExecute` (`Cone`), except for
`already_visited`, whose order matters: `rank` is the order in which the
unordered set of invalidated steps is walked.

What `Exec()` of a step does to the representation is one of `Outcomes`; a
SUCCESS may make dependences appear (`late`) or disappear (`gone`).
`ComputeRelationships(INVALIDATION_RELATIONSHIP)` answers any subset of the
steps the flow allows. Abstracted: the entry vertex (always EMPTY, so that it
satisfies every in-edge) and its edges, the tie-break of the priority key,
profiling, the feedback graph (debug output only), the DOT files. A check that
throws stops the model where it is found: `pc` says which, and the other
variables keep the values they had before the iteration.

### Mdpi

| Model | Code |
|---|---|
| `handle` | `__m_ipc_file->handle` |
| `op` | `__m_ipc_file->operation`: `head` is the first byte of the payload union (`sc.state` or `interface.id`), `info` says who wrote the rest |
| `pc`, `seen`, `plan` | where each thread is; the local `expected` of `__ipc_exit`; why it was entered |
| `sim`, `driver`, `child`, `code` | the two processes, `__m_sim_pid # 0`, the exit code |
| `phase`, `req` | the testbench FSM; the request the simulator is making |
| `Sim` | `m_next`, `m_read`/`m_write`/`m_state`, `m_builtin_exit`, `m_fini`, `__m_fini` |
| `Main` | the wrapper's sequence `__m_sim_start`, golden function, `__m_sim_end`, and `__m_sig_handler`, `__mdpi_driver_fini`, `__m_exit`, `__m_abort` |
| `Loop` | `__m_driver_loop` |
| `scenario` | what the two processes are built from and may meet: number of calls, registered and used interfaces, ways to end early, assertions (`__M_OUT_LVL > 4`) |

A step is one access to the atomic handle, one `kill()`, or the plain accesses
to the operation between two of those. This is enough because plain accesses
of different threads never overlap where `OneAtATime` holds, and where it does
not (the violations) the coarser step only hides orders, it adds none. A wait
is a poll with a timeout, so that a signal only shortens it; the signal is not
modelled, its failure is (`NotifyFails`: `kill()` on a process that is gone).
The variant modelled is the one with `MDPI_PARALLEL_VERIFICATION` (the loop in
a thread of its own); in the other the loop runs to its end inside
`__m_sim_start`, which is one of the interleavings of this one.

### Testbench and DeviceMap

| Model | Code |
|---|---|
| `fsm`, `left` | the registers of `TestbenchFSM`: state, next state, reset, `__cycle_count`, setup and start ports; `over_time` |
| `source`, `sink` | `TestbenchFifoRead` and `TestbenchFifoWrite` with the `fifo_interface` behind each |
| `mmu`, `windows` | `__m_mmu` (`device_memmap`), and where the wrapper mapped each argument |
| `host`, `device` | bytes the design has written: in the C testbench's memory, and by the design's addresses |
| `consumed`, `asserted`, `runs` | histories: elements read, cycles of reset, set-up and start |
| `Ask` | the clock edge that leads to READY: `m_next`, and in the C testbench `__m_memsetup` and the registration of the interfaces |
| `Edge` | any other clock edge of all modules together, with what the design does |
| `Clocked`, `SourceNext`, `SinkNext` | the always blocks of the three modules |
| `Mapping`, `AddrMap`, `MapAddr` | `device_memmap::map`, `addrmap`, `mapaddr` |
| `ArgWindows`, `CopiedBack` | the addresses the wrapper chooses, with the larger copies of arguments, and `__m_argmap_fini` |

The design is any circuit: it reads, writes and finishes as it likes within its
run; a bench says whether it waits for the FIFOs (`obeys`). An answer comes
within the edge that asks for it, as the DPI calls block. Memory is the set of
bytes written since the call began, which is what the mapping could get wrong;
elements of a stream are their numbers, and 0 is what lies behind the last.

### ListScheduling

| Model | Code |
|---|---|
| `scheduled`, `cstep`, `start`, `end`, `bound` | `schedule`, starting and ending times, `HLS->Rfu` |
| `queue`, `ready`, `unit` | `priority_queues`, `ready_resources`, the unit whose queue is drained |
| `black`, `postponed` | `black_list`, `postponed_resources` |
| `used`, `live`, `asap` | `used_resources`, `live_vertices`, `current_ASAP` |
| `flags` | `unbounded`, `unbounded_RW`, `RWFunctions`, `LoadStoreOp`, `proxy_functions_used`, `cstep_has_RET_conflict`, direct and indirect accesses of the step |
| `arrays`, `others` | `cstep_vuses_ARRAYs`, `cstep_vuses_others` |
| `BeginCycle`, `Consider`, `Blacklist`, `Postpone`, `AlreadyScheduled`, `Place`, `Restart`, `EndCycle` | one each for what the loops of `exec` do |
| `CheckSchedulabilityConditions`, `CanBeChained`, `NonDirectChaining`, `StartingTime`, `EndingTime` | the functions of these names, `check_non_direct_operation_chaining`, `compute_starting_ending_time_asap` |

Any operation of a queue may come first, which covers every priority metric.
Times are multiples of a unit; the delays of connections, multiplexers and the
controller are zero, so that a time is a sum of operation delays. What an
operation is comes from its class (`ClassInfo`): kind, units, delay, cycles,
initiation interval, whether it is bounded, touches memory, is an access to an
interface, calls a root function, reaches proxied functions. A root function is
a top function or a module of a dataflow design, which is made one
(`dataflow_cg_ext.cpp:198`). `CheckSchedulabilityConditions` does not ask
what the step contains when such a function is called (line 458), so the call
may join a load, a store or another call; `KeepsAway` says what is left:
whatever comes in a later step still waits for it. `block.options` has a
function that is to be pipelined, which `exec` refuses (`pc` is `"refused"`) when an
operation with another initiation interval than 1 is still alive at the
beginning of a step, and the parameters `bus-no-chain` and `load-store-no-chain`.

### MemoryAllocation, AddressSpace and Dominance

| Model | Code |
|---|---|
| `DominatorMap`, `Dom` | `dom_info`: Lengauer and Tarjan with balanced forests, and what the allocations get from it |
| `Search`, `Visit` | `calc_dfs_tree`, `calc_dfs_tree_rec`: `open` are the calls that have not returned |
| `Evaluated` and `Eval`, `LinkRoots` | `eval` with `compress`, and what it returns; `link_roots` |
| `chain`, `over` | `set_chain`, and `set_child` followed from a root |
| `Stepped`, `Explicit` | one iteration of the loop of `calc_idoms`, and the loop after it |
| `ShareFunctions` | `fun_dominator_allocation::Exec`: which functions are shared and from where (`proxied_functions`) |
| `PlaceVariables` | `mem_dominator_allocation::Exec`: `memory_allocation_map`, `classify_variables`, proxies of variables; `todo` are the calls of the class `memory` it makes |
| `CallMemory` | the next of these calls |
| `SetAlignment`, `AddPrivate`, `AddInternal`, `AddParameter`, `AddExternal`, `MakePrivate` | the methods of the class `memory` |
| `start`, `next`, `nextOff`, `unit`, `largest` | `internal_base_address_start`, `next_base_address`, `next_off_base_address`, `internal_base_address_alignment`, `maximum_private_memory_size` |

`AddressSpace` is the class with the callers it is meant for, `MemoryAllocation`
the callers it has; that the second uses it as the first says is the property
`MemoryObeyed`.

### Allocator

| Model | Code |
|---|---|
| `heap.next`, `heap.size` | the headers, by the quanta they lie at; `Base` is the quanta of `base` |
| `heap.freep`, `heap.pos` | `freep`, `SAMM_pool_free_pos` |
| `live`, `refused` | history: the pointers handed out with the bytes asked for, and what the last call did not get |
| `Fitting`, `Take` | the search of `malloc`, and the block it takes out or cuts |
| `Grown` | `__hide_get_mem_from_pool` |
| `Insert` | `free` of a block, also of a new one and of what `memalign` cuts off |
| `Malloc`, `Memalign`, `Calloc`, `Free` | the calls |

The list is followed through `next` as the code does (`Walk`), so that order and
joining are results and not assumptions; a walk of `Most` links sees the whole
list, as free blocks do not overlap. Sizes and positions wrap at `Word`, which
stands for `size_t`. The bytes in the blocks (the `memset` of `calloc`) are not
modelled, and the caller is a legal one: it frees what is live.

## 3. Runs

All runs are exhaustive within their bounds.

| Run | Asks | Bounds |
|---|---|---|
| `MCDesignFlow_flows` | is nothing lost and nothing stale, is necessity propagated, is a rerun always caused, does the loop end, is `FlowOrder` implemented? | all 3^6 acyclic graphs of 4 steps, one composed step, two results per step; one late or one disappearing dependence; 2 invalidations in total; assertions on |
| `MCDesignFlow_forced` | is an invalidated step executed again? (**no**) | the same graphs, two steps invalidated at once |
| `MCMdpi_protocol` | one thread at a time, own answers, a clean end, a report of the end for `m_fini`, both processes end, `SimPhases` implemented? | scenarios `Plain`, `Faulty` (2 calls, every way either side can fail, an unregistered interface), `Stopped`, `StoppedEarly` (cycle limit and built-in exit, in the last and in the first of two calls); 3 accesses |
| `MCMdpi_commit`, `MCMdpi_abort`, `MCMdpi_builtin` | three expectations stated in the code (**violated**) | one fault each |
| `MCTestbench_calls` | what FIFOs show, the order of elements, reset and set-up, the mapping, the arguments, `SimPhases` implemented? | 5 benches: an argument in a larger copy, segments behind each other, two arguments that are one memory with reset at each call, a design that ignores the FIFOs, files that cannot be read; 2 calls, 6 cycles, 2 bytes written |
| `MCScheduling_blocks` | dependences, units, memory ports, unbounded and control operations, `BlockSchedule` implemented, every block scheduled? | blocks of three operations in a chain, fork, join or side by side, of 16 kinds (one of them combinational and slower than the clock), closed by a branch or return; the outer kinds of each shape are from four; calls of a root function before, after and beside accesses to memory; each option with pipelined operations and loads |
| `MCScheduling_proxies` | are calls that reach the same proxied function kept apart? (**no**) | two such calls and a third operation |
| `MCMemory_calls` | dominators, sharing, one copy of static variables, disjoint addresses, the class `memory` used as meant? | all call graphs of 4 functions that are all reached (up to 2 calls per pair), a variable used anywhere; two graphs with each option; two settings of the memory |
| `MCAllocator_calls` | is the pool tiled, is a refusal justified, is `Heap` implemented? | `malloc`, `free`, `calloc`, `memalign` in every order; 12 quantas, new blocks of at least 4 |
| `MCAllocator_memalign` | does `memalign` keep the pool tiled? (**no**) | one alignment of two quantas |

Why the bounds are enough. Four steps are what the hazards of the manager
need: a step that invalidates, two invalidated ones in each other's way and one
after them, with the exit as a fifth vertex; all graphs of that size are
tried, so that every diamond, chain and shortcut occurs. In the co-simulation
the second call is what makes stale answers of the first visible, and one
access more than interfaces makes requests follow each other on the same one.
In the testbench the second call finds the counter and the registers the first
one left, the limit of six cycles is reached within a run, and the FIFOs are
shorter than a run, so that they become empty and full. In the scheduler three
operations are a conflict between two and one that is in between, in time or in
the graph; the step of four time units holds one short operation, or two
chained ones, but none of the long ones. Four functions are a diamond, the
smallest graph in which the dominator of a function is not its caller. In the
allocator twelve quantas hold three grown blocks or one of eight and a rest,
and up to six live blocks with gaps on either side of each, exact fits, cuts
and joins. Every request of that run takes an even number of quantas, so that
every pointer has the alignment `memalign` asks for and nothing is cut off; the
other run is about the cut.

`DominatorsRight` is about graphs of four vertices in the run; `DominatorsAreRight`
is about all.

Deadlock is checked for the testbench, the scheduler and the memory allocation:
their models have a step of their own for having ended, so that a model that
stops elsewhere is an error (an assertion of the class `memory` is one: the
action is then disabled). It is not checked for the manager and the protocol,
whose programs stop, nor for the allocator, whose caller may have nothing left
to ask for.

Fairness. `DesignFlow` and `ListScheduling` are one thread each: weak fairness
of `Next` only says that the program goes on. In `Mdpi` the simulator and the
two threads are scheduled by the operating system; weak fairness of each says
that none is starved. The polls need no more: `Wait` stays enabled until the
waited-for state is left, and that state is only left by the thread that waits,
or by an exit. `Testbench`, `MemoryAllocation` and `Allocator` state no
liveness: a design may run for ever up to its cycle limit, the second is a fixed
sequence, and the third does what it is called for.

## 4. What the violations show

* `InvalidatedIsReexecuted`. `design_flow_step.hpp:98` says "Target must be
  reexecuted". `already_visited` is shared by all the invalidated steps of an
  iteration (`design_flow_manager.cpp:801`); a skipped step that is invalidated
  together with one of its predecessors, and comes after it in the unordered
  set, has been visited as a mere successor by then and is skipped again.
* `LegalCommit`. The `continue` in `__ipc_exit` (`mdpi_ipc_sig.h:182`) was meant
  to wait for the lock to be released, but jumps to the condition of the
  do-while, whose exchange of LOCKED for LOCKED succeeds. Waiting there
  instead would not be enough: from the signal handler it would wait for the
  thread it has interrupted.
* `AbortIsReported`. `__ipc_abort` reports ABORT, then `exit()` runs the
  destructor, which reports END with a return value of 0 in the same place.
* `ExpectedRequest`. After a built-in exit the testbench reads the operation
  before the simulator has written its last report in it.
* `ProxiesExclusive`. `parametric_list_based.cpp:1220` puts off an operation
  whose "proxy function may conflict with other functions calling the same proxy
  function", but the set it asks is empty again in every control step (line
  740): a call of two steps that reaches the function is not in it in its second.
* `Tiled`. `memalign` writes both sizes in bytes (`memmgr.c:315`), while
  `memmgr.c:70` counts a size in quantas: what it frees reaches into live
  blocks.

More observations, which no statement of the code is against, so that no run is
about them; they limit what the passing runs assume:

* Manager. With dependences that disappear and steps that invalidate, `UpToDate`
  does not hold (`design_flow_manager.cpp:626`). A dependence that appears late
  may name a step that was skipped, which stops the tool when assertions are
  compiled in (line 378).
* Protocol. An `exit()` of the golden function between two requests leaves the
  simulator waiting for FREE (`mdpi_driver.cpp:586`). A stop in the first of two
  calls is noticed by an assertion only; without it both sides may hang
  (`mdpi.c:117`). A testbench that never calls the design would take the lock
  from the simulator with its report of the end.
* Scheduler. An operation with no cycles may be slower than the clock:
  `allocation.cpp:1180` warns that its fastest unit "will be used as multi-cycle
  unit" and goes on. Next to an unbounded access to an interface such an
  operation runs across the end of the step
  (`parametric_list_based.cpp` flags a step by the cycles an operation counts),
  so `UnboundedAlone` says it of operations that count cycles only; next to any
  other unbounded operation it is kept out like the rest.
* Testbench. The value a FIFO is left with after its last element is read from
  behind it (`mdpi_driver.cpp:416`); `ReadInOrder` says that no design gets to
  see it. Of two arguments that are one memory and are mapped to larger copies,
  the one copied back last wins (`mdpi_wrapper_c_writer.cpp:844`). Of two
  arguments whose memories overlap without being the same, say bytes 100..101
  and 101..102, the second gets an address inside the segment of the first
  (`mapaddr`, `mdpi_driver.cpp:221`, finds the first segment that leads to its
  first byte) and runs past the end of it into the next one: `ArgumentsHold`
  fails on such a bench, which is why its theorem asks for `SeparateMemories`.
* Memory allocation. `OneCopy` does not hold with `--disable-function-proxy`,
  for functions constrained to one unit for each caller (`-C=f`, `-C=f=1`), which
  line 947 takes for one unit in all, and for a memory-mapped top function that calls a function twice
  (`mem_dominator_allocation.cpp:943`, `947`, `1027`); the run has these options
  with a call graph in which no function calls another twice, and the other
  limits (`-C=f=2`, `-C=f=u`) with calls made twice too.
  `ServedFromAbove` does not hold of every program with `-C` either: a limited
  function that several others call is not shared, nor is one whose unit would
  be put in a limited function. A variable it uses is put in its dominator,
  which need not be above the other users once these have been shared from
  further up (five functions: 1 calls 2 twice, 2 calls 3 and 4, 3 calls 4 and 5,
  4 calls 5; the number of 5 is limited).
  `get_allocated_internal_memory` (`memory.hpp:533`) subtracts a start that
  private variables may have moved past the next address.
* Allocator. `calloc` cuts its arguments to the 19 bits of `POOL_SIZE` before it
  multiplies them (`memmgr.c:339`); `malloc` grants requests near the largest
  `size_t` with no room, as `nbytes + sizeof(SAMM_header_t) - 1` wraps (line 177;
  the model wraps too).

## 5. Proofs

`tlapm` checks every proof to its leaves. No constant is bounded in them: they
hold for any sets of steps, operations, units, symbols, scenarios and benches
and for a pool of any size, with the declared assumptions. What a theorem
assumes beyond those stands in its statement and below.

| Module | Theorem | Statement |
|---|---|---|
| `DesignFlow_proofs` | `Typing`, `NoStepIsLost` | `Spec => []TypeOK`, `Spec => []NoLostStep` |
| | `StaysUpToDate`, `FlowOrderIsKept` | `Spec => []UpToDate`, `Spec => KeepsOrder` (refinement of `FlowOrder`), when no dependence disappears |
| | `NeedsStayNecessary`, `RerunsHaveCauses` | `Spec => []NeedsAreNecessary`, `Spec => RerunsAreCaused` |
| | `EndsComplete` | `Spec => []CompleteAtEnd`, when the possible relationships are acyclic |
| `Mdpi_proofs` | `Typing`, `ReportStays`, `PhasesImplemented` | `TypeOK`, `EndStateKept` and the refinement of `SimPhases`, however the processes end |
| | `HandleExcludes`, `AnswersAreOwn`, `EndsCleanly` | `OneAtATime`, `OwnAnswer`, `CleanEnd`: without faults |
| `Testbench_proofs` | `StartsClean`, `ShowsTheTruth`, `ReadsInOrder` | `CleanStart`, `ShownIsTrue`, `ReadInOrder` |
| | `TypesHold`, `MapIsExact` | `TypeOK`, `MapsExactly` |
| | `ArgumentsAreWritten` | `ArgumentsHold`, when the memories that are mapped are the same or apart |
| | `TestbenchImplementsPhases` | `Spec => RunsInPhases` (refinement of `SimPhases`) |
| `ListScheduling_proofs` | `SchedulerTyped`, `DependencesHold`, `ResourcesSuffice`, `FunctionsKeptApart`, `MemoryKeptApart` | `TypeOK`, `DependencesRespected`, `ResourceLimit`, `FunctionsExclusive`, `MemoryExclusive` |
| | `UnboundedKeptAlone`, `ControlComesLast`, `ReturnsComeLate` | `UnboundedAlone`, `ControlLast`, `ReturnsAfterStores` |
| | `PlacesAreForGood` | `Spec => PlacesForGood` (refinement of `BlockSchedule`) |
| `Dominance_proofs` | `DominatorsAreRight` | `DominatorMap` is `ImmediateDominators` for every finite graph that is reached from its entry |
| `MemoryAllocation_proofs` | `AddressesDisjoint` | `MemSpec => []Disjoint` |
| | `DominatorsOfCalls` | `Spec => []DominatorsRight` |
| | `CallsObeyMemory`, `AllocatedApart` | `Spec => MemoryObeyed` (refinement of `AddressSpace`), `Spec => []Disjoint` |
| | `UsersAreServed` | `ServedFromAbove`, when every function several others call is shared, or none is |
| | `StateIsOnce` | `OneCopy`, when the units are counted as they are instantiated |
| `Allocator_proofs` | `AllocatorTyped`, `PoolTiled` | `TypeOK`, `Tiled`, when no request wraps around and `memalign` cuts no block |
| | `RefusesWhenFull` | `RefusedWhenFull`, when no request wraps around and no alignment exceeds a header's |
| | `ImplementsHeap` | `Spec => KeepsPromise` (refinement of `Heap`), when `calloc` cuts none of its arguments either |

The arguments.

*Manager.* `NoLostStep` is not inductive: a step that is completed may have
successors that were put aside, and one that is taken out of the set may have
been waiting behind steps that are not in the graph. `IInv` adds that the edges
lie between registered vertices (`EdgesRegistered`, `EdgesShaped`) and that the
set holds waiting vertices only (`HeldIsWaiting`). One iteration then keeps it
for three reasons, one lemma each: what is put aside has just got an edge from
a waiting predecessor; what `DeExecute` reaches is either started on, with all
its predecessors completed, or has a predecessor in the cone; and a waiting
successor of the completed step has a waiting predecessor or is inserted.
`UpToDate` needs `EdgesCurrent`: every edge is a relationship the target still
has, which is what disappearing dependences break. The refinement follows the
same case split. `EndsComplete` takes a waiting step that has no waiting
predecessor and applies `NoLostStep` to an empty set; such a step exists because
the possible relationships are well founded (`Acyclic`).
`NeedsAreNecessary` is kept by `NInv`, which states it of the dependences
the flow gives each step instead of those in the graph so far: the recursion of
`AddSteps` follows every one of them, and a step is skipped only when it was not
necessary, and never before `Exec`. `RerunsAreCaused` is about one step of the loop: what `DeExecute`
starts on again is in its cone, and every vertex of a cone is reached from one
of the invalidated vertices the cone was made from (`ReachFromOne`).

*Protocol.* `Safe` holds in every scenario: an IPC thread exists only while main
runs or waits or after main has left it for good (`Ordered`), an answer to a
request for a state has the type of a state, and once the simulator has been
told END or ABORT a thread of the testbench has left, so that all that is written
from then on is a report of that kind (`Told`). `Whole` holds as long as neither process
ends before its time; it ties the handle to the program counters. `SimHolds`
says what the handle is wherever the simulator is, `Served` that the IPC thread
and main touch the operation only while a request is pending, of which there is
one; `Roles` that main leaves only after the last call; `Asked` what the
operation holds from the request to the answer; `Counted` where the runs of the
design stand. `OneAtATime` then follows because no two of the touching places
agree on the handle.

*Testbench.* `Clean` says for each state of the FSM how much of the reset is
still due and what has been asserted: in SETUP the cycles seen and the counter
add up to those promised, or to one more, the cycle the FSM was ready in. `Shown`
says that between set-up and done both FIFO modules are enabled, that what they
show agrees with the base of the interface, and that as many elements were
consumed as it has moved. The stop on a read of an empty FIFO is what makes
`ReadInOrder` hold of designs that do not wait.

The map of addresses is made by a recursion over the variables and the
arguments, so what it is comes from an induction over them (`MapsAll`). Its step
is `MappingIs`, about one call of `map()`: on free addresses it never fails,
gives the segment its offset and leaves every other address what it had. That
needs more of the map than its offsets: no two entries that say unmapped follow
each other, which is what `map()` relies on when it looks at the entries before
and behind the new segment; no segment is without an end, which `mapaddr` needs;
and nothing is mapped at 0, which `addrmap` takes for none (`WellFormed`). That
the addresses are free comes from the way they are chosen (`LayoutIs`): the
arguments lie one behind the other and behind the variables. Then `MapIsExact`
follows, as the map changes only when a call is set up (`SetUp`). For
`ArgumentsAreWritten`, `Through` says that the design writes through its pointers
only; `PointerLeads` that the address `mapaddr` finds, of whatever segment, leads
back to the whole memory that was looked for; `HostIs` that a byte of it is
written exactly when the design wrote it there; and `CopiedIs` goes through
`__m_argmap_fini`, one copy after the other. `TypesHold` adds the limits of the
counters (`Bounded`): a run that is under way is counted with those to come.

Assumed of a bench: its variables do not overlap and the first address after the
memory lies behind them, which is what `AddressesDisjoint` and the `base_addr` of
the wrapper (`mdpi_wrapper_c_writer.cpp:764`) give; sizes and alignments are not
0; and no memory of the testbench has the very address it is mapped to
(`OffsetsAssumption`), as the map keeps offsets and 0 is its mark for unmapped.
`ArgumentsAreWritten` alone assumes `SeparateMemories`: two memories that are
mapped are one and the same or apart, and an argument that is mapped to a copy
shares its memory with nothing else; section 4 says what happens otherwise. All
benches of `MCTestbench_calls` are such, among them one with aliased arguments.

*Scheduler.* Each property has its own strengthening: `OnlyReleasedWait` (what
is queued, blacklisted or postponed has all predecessors placed) and
`AsapIsRight` for the dependences; `Unforgotten` (every placed operation that
still runs is live) and `CountedRight` (`used_resources` counts the operations
that hold a unit in this step) for the units; `FlaggedRight` and `PortsCounted`
(what a step contains, the flags and counters know) for the exclusions. Most of
the work is arithmetic on steps that last `Clock` time units, stated once as
lemmas on division, and the maximum of a finite set, which the library defines
by CHOOSE (`MaxIsGreatest`).
`UnboundedInv` ties the flags of the current step to what is placed in it, so
that whatever comes second, the unbounded operation or the one that would run on,
meets the flag of the first. Its arithmetic needs `TimesAssumption`: what takes
cycles ends within them (`get_execution_time`, `allocation_information.cpp:346`),
and a stage period belongs to pipelined units of more than one cycle
(`GetTimeLatency`, line 2121, and the check at
`parametric_list_based.cpp:1738`). A branch or return is the last operation that
is placed (`PlacedLast`), after everything else has ended; `ControlAssumption`
says that it fits in a step (a branch only reads its condition and
`has_to_be_synthetized` denies a return, `allocation_information.cpp:1019`).
`ReturnInv` says that a return is held back once a called function that touches
memory has been placed in the step. A load clears that mark, but never shares a
step with such a function. Stores keep a return out by themselves: it follows
those of its block (`ReturnAssumption`, `add_op_exit_flow_edges.cpp:112`) and
takes no time.

*Addresses.* `AInv` says that everything that has an address ends below the
counter of its space (`EndsBelow`), for internal memory also across the change
of the alignment, which needs that nothing has an address yet.

*Dominators.* `Searched` is what is known of the numbers the search gives: an
edge to a greater number comes from above, where `Line` is a vertex with those
above it in the tree, and the vertices below one are numbered without a gap. The
key of w is the least of the predecessors above w and of the keys on the way up
from the others until w is above them (`KeyIs`). With the definition of a
dominator this meets in one lemma: d dominates w if it is w, or before w and no
vertex after d on the way up from w has a key before d (`DominatesIf`, whose proof
gives the set of vertices reached without d, or a way around d). So the immediate
dominator of w is its key, or that of the vertex with the least key on the way up
to it: `Settled` says this of `dom` before the last loop, `ExplicitIs` what the
loop makes of it, `NearestIs` that this is the dominator.

In the forest, `Linked` has two functions the code does not keep: `root` is the
root of the tree a vertex is in, and `best` the vertex of the least key on its way
up to the root. What `pathMin` has is the best, or the best is further up the
chain (`Remembered`); the trees over a root are sorted by their keys (`Sorted`).
`compress` keeps that (`CompressIs`), `eval` returns the best (`EvaluatedIs`), and
what `link_roots` does to `root` and `best` does not depend on the sizes it
compares: the balancing chains trees that all have a greater key than the one put
on top of them, whichever way round (`RebalancedIs`, `LinkRootsIs`). `InLoop` is
then the invariant of the loop of `calc_idoms`: `root` and `best` are those of the
tree searched (`Sees`), the keys of the vertices done are right, and each of these
is in the bucket of its key, below no child of it that is done, or settled
(`SteppedIs`). The search has an invariant of its own, `Visiting`: the calls that
have not returned are the way up from the last vertex, and what the others lead
to has been visited. `SameDominators` exchanges names and numbers.

What edges are visited first is left open. No call graph has an edge to its
entry, nor has `Dominance`: `dom_info` keeps the number of the entry where an
edge to it would not find it (`dfs_order[last_basic_block]`).

*Memory allocation.* What a function finds its way up by (`Chain`, `Climb`, the
numbers of paths and of units) is a recursive function over the numbers of the
functions; that one exists, and what it is at f, is proved from the least number
at which it would fail (`Recursion`). Dominators are taken by their definition:
the dominators of a vertex are in line (`AboveIsLinear`), so the immediate one
exists (`ImmediateIs`), and the chain of immediate ones lists them all
(`ChainIsAbove`). `CommonIs` and `ClimbIs` say what the searches along the chains
return. The sharing of functions changes the hierarchy, so that a dominator in
the graph of calls need not be above in the circuit; but a function that is
reached on a single path has one caller that calls it once, is never
shared, and stays above everything it dominates (`SinglesEnclose`). Units and
variables are put in such functions (`UnitIs`, `PlacedEncloses`), and each of
them is there once (`SinglesOnce`). For `OneCopy`, `InstancesOnce` says that a
function `mem_dominator_allocation` counts once is there once. `PlacementInv`
ties the state to this: what was shared and placed, and that the connections are
those the placement leads to, made or still due (`Accessed`, `Connected`).
The calls of the class `memory` are made in one long sequence. `CallsInv` says of
what is left of it: no call gives an address to a symbol that has one, but a copied
internal variable, and no call for the alignment comes after one for an address. The
parts of the sequence are put together with `FlattenSeq`, whose effect is proved
for any sequence of sequences (`FlattenIs`, `FlattenOver`).

`AllShared` and `KeptOnce` are hypotheses. `AllShared`
excludes `-C` where it keeps a function from being shared, and `KeptOnce` the
options of section 4; both, with `CallsInv` and `PlacementInv`, were found to hold
in every state of `MCMemory_calls`. `SymbolsAssumption` says that every variable
and parameter is a symbol and every block of sparse memory an alignment.

*Allocator.* `Inv` speaks of the free list as a ring: `Shape` says that the
headers with a link, `freep` and `base` among them, form one circle that goes up
in addresses but for one link (`Ring`), that free and live blocks divide the used part of the pool
(`Pieces`), and that no two free ones touch. Before the first call there is no
list, so `Inv` states it of `Started(heap)`. The code follows links, the model
too; `WalkCircle` shows that a walk of `Most` links from `freep` passes every
header of the ring before it is back. From there on no proof follows links:
`PlaceFits` says that `free` stops at the one header whose link the block
belongs on, `FittingFinds` that `malloc` finds a block if there is one,
`InsertKeeps` and `TakeKeeps` that joining with either neighbour, both or none,
and exact fits and cuts, keep `Shape` and leave every live block alone
(`Untouched`). `GrownKeeps` does the same for a new piece of the pool.
`RefusedWhenFull` follows because after a refusal every free block is too small
and, as no two touch, so is every gap; `ImplementsHeap` adds `Fits`, every
live block has the bytes its caller asked for. Walks are recursive functions:
that one exists, and what it does at n, is proved from the least number at which
it would fail (`Least`, `Induct`), for each walk anew, not from the library's
induction theorems.

The hypotheses limit the calls to what the code handles; section 4 says what
happens without the first three. `ModestCalls`: no request, with its
header and the pool, reaches the end of `size_t`, where line 177 wraps.
`AlreadyAligned`: whenever `memalign` finds a block, its pointer has the alignment
asked for, so that the sizes in bytes of line 315 are not written. `SmallArrays`:
`calloc` is given numbers below its cut. `SmallAlignments`, for `RefusesWhenFull`
only: a larger alignment makes `memalign` ask for up to `align - 1` bytes more
than the caller wants, and a request may be refused although the bytes are there.
The first three hold in every state of `MCAllocator_calls`.

Only model-checked: liveness (`Ends`, `BothEnd`, `Terminates`), which is out of
this prover's reach, and `RefusedWhenFull` with alignments above a header's,
where it depends on the sizes asked for.

## 6. Not modelled

* Protocol: `__ipc_init`/`__ipc_init1` (both processes start past them), the
  variant without signals `mdpi_ipc_atomic.h`, a SIGINT or SIGSEGV that enters
  the handler from outside, the two seconds of sleep in it.
* Testbench: the port, array and channel interfaces, `shared_memmap`, memory
  reads, the comparison of results.
* Manager: the profile, the debug graphs, steps that throw.
* Scheduler: the re-scheduling of single operations afterwards, the SDC and the
  fixed scheduler, speculation, the delays of connections, multiplexers and the
  controller.
* Memory allocation: several top functions (one variable used by two of them is
  allocated for each, which an assertion refuses, `memory.cpp:243`), functions
  whose address is taken, an allocation read from XML, the analysis of accesses
  in `finalize_memory_allocation`, addresses that wrap around.
* Allocator: the contents of blocks, `SAMM_print_stats`, and a `base` that lies
  right behind the pool (`ApartAssumption`), where `free` would join the last
  block with it.
* The other components, for the reasons given with each in `PROJECT.json`: most
  are sequential transformations of large data or generators of text.

## 7. Plan

1. Done: the modules above, their runs and proofs.
2. The handshake `__ipc_init` and `__ipc_init1` with a stale file of an earlier
   run, and the atomic variant as an instance of the same protocol.
3. The state transition graph made of a schedule: states of unbounded operations,
   and the registers binding derives from liveness over it, composed with
   `ListScheduling`.
4. The transfer functions of `Range` against exact sets at small widths, and
   clique covering against a reference definition on small graphs.
