------------------------------ MODULE Testbench ------------------------------
(***************************************************************************)
(* The testbench of a design, on both sides of the interface Mdpi carries: *)
(* the clocked modules in the simulator (TestbenchFSM, TestbenchFifoRead   *)
(* and TestbenchFifoWrite of NC_STD_IPs.xml) and, in the C testbench, the  *)
(* set-up of a call by the generated wrapper (__m_memsetup and             *)
(* __m_argmap_fini) and the FIFO and memory interfaces (mdpi_driver.cpp).  *)
(*                                                                         *)
(* A step is one rising edge of the clock.  All registers change together; *)
(* what the modules ask of the C testbench at that edge is answered within *)
(* it.  The design is any circuit that reads and writes FIFOs, waiting for *)
(* them or not, and writes to the pointers it was given.                   *)
(*                                                                         *)
(* Memory is modelled by the set of bytes the design has written since the *)
(* call began.  One argument is a FIFO that is read, one a FIFO that is    *)
(* written, the others are pointers.                                       *)
(***************************************************************************)
EXTENDS Integers, Sequences, DeviceMap

CONSTANTS
  Benches,    \* what is mapped, and how the testbench is parameterised
  Calls,      \* how often the top function is called
  MaxCycles,  \* MAX_SIM_CYCLES
  Writes      \* bound: bytes the design writes to memory in one call

(* A bench has memory variables and pointer arguments, the first address   *)
(* after the memory of the design and its alignment, the elements of the   *)
(* FIFO that is read, the room in the one that is written, whether the     *)
(* files that initialise the variables can be read, the reset, and whether *)
(* the design waits for the FIFOs.  The variables have the addresses the   *)
(* memory allocation gave them, so they do not overlap, and the first      *)
(* address after the memory lies behind them (__m_memsetup).               *)
Positive == Nat \ {0}

ASSUME BenchesAssumption ==
  \A b \in Benches :
    /\ b.vars \in Seq([dst : Positive, src : Positive, bytes : Positive])
    /\ b.args \in Seq([addr : Positive, size : Positive, align : Positive, copy : Positive])
    /\ b.base \in Positive /\ b.align \in Positive
    /\ \A i, j \in DOMAIN b.vars : i # j =>
         \/ b.vars[i].dst + b.vars[i].bytes <= b.vars[j].dst
         \/ b.vars[j].dst + b.vars[j].bytes <= b.vars[i].dst
    /\ \A i \in DOMAIN b.vars : b.vars[i].dst + b.vars[i].bytes <= b.base
    /\ b.stream \in Nat /\ b.room \in Nat /\ b.readable \in BOOLEAN /\ b.obeys \in BOOLEAN
    /\ b.resetCycles \in Positive /\ b.resetAlways \in BOOLEAN

ASSUME CallsAssumption == Calls \in Nat /\ MaxCycles \in Nat /\ Writes \in Nat

VARIABLES
  bench,     \* never changes
  mmu,       \* __m_mmu
  windows,   \* where each pointer argument is mapped: first address, memory, size
  host,      \* bytes of the C testbench's memory the design has written
  device,    \* history: addresses of the design it has written
  fsm,       \* the registers of TestbenchFSM
  left,      \* cycles until over_time
  source,    \* the FIFO that is read: its module's registers and the interface
  sink,      \* the FIFO that is written
  busy,      \* the design runs
  stop,      \* why $finish was called, or "no"
  calls,     \* calls still to be made
  runs,      \* completed runs of the design
  consumed,  \* history: the elements the design has read in this call
  asserted   \* history: cycles of reset since the last run, setups, starts

memory == <<mmu, windows>>
vars == <<bench, memory, host, device, fsm, left, source, sink, busy, stop,
          calls, runs, consumed, asserted>>

-----------------------------------------------------------------------------
(* The set-up of a call.                                                   *)

RoundUp(n, align) == n + (align - 1) - ((n - 1) % align)

(* __m_memsetup: the variables are mapped, then the pointer arguments one  *)
(* behind the other.  An argument whose size is no multiple of its         *)
(* alignment is mapped to a larger copy.                                   *)
(* Mutant: every argument is mapped as it is.                              *)
SetupNoExtension(b) ==
  LET arg[i \in 0 .. Len(b.args)] ==
        IF i = 0
        THEN [base |-> b.base, windows |-> << >>]
        ELSE LET a == b.args[i]
                 dst == RoundUp(arg[i - 1].base, b.align)
             IN  [base |-> dst + a.size, windows |-> Append(arg[i - 1].windows,
                    [dst |-> dst, src |-> a.addr, bytes |-> a.size])]
  IN  arg[Len(b.args)].windows

Layout(b) ==
  LET arg[i \in 0 .. Len(b.args)] ==
        IF i = 0
        THEN [base |-> b.base, windows |-> << >>]
        ELSE LET a == b.args[i]
                 dst == RoundUp(arg[i - 1].base, b.align)
                 bytes == RoundUp(a.size, a.align)
             IN  [base |-> dst + bytes, windows |-> Append(arg[i - 1].windows,
                    [dst |-> dst, src |-> IF bytes = a.size THEN a.addr ELSE a.copy,
                     bytes |-> bytes])]
  IN  arg

ArgWindows(b) == Layout(b)[Len(b.args)].windows

Mapped(ws) ==
  LET all[i \in 0 .. Len(ws)] ==
        IF i = 0 THEN [map |-> EmptyMap, failed |-> FALSE]
        ELSE LET r == Mapping(all[i - 1].map, ws[i].dst, ws[i].src, ws[i].bytes)
             IN  [map |-> r.map, failed |-> all[i - 1].failed \/ r.failed]
  IN  all

MapAll(ws) == Mapped(ws)[Len(ws)]

WindowsOf == [b \in Benches |-> ArgWindows(b)]

MappingOf == [b \in Benches |-> MapAll(b.vars \o WindowsOf[b])]

(* No memory has the address it is mapped to: its offset would be the one  *)
(* that stands for unmapped.                                               *)
ASSUME OffsetsAssumption ==
  \A b \in Benches : LET all == b.vars \o WindowsOf[b] IN
    \A i \in DOMAIN all : all[i].src # all[i].dst

(* __m_argmap_fini: the copies of the arguments are copied back, one after *)
(* the other.                                                              *)
Copied ==
  LET copied[i \in 0 .. Len(windows)] ==
        IF i = 0 THEN host
        ELSE LET a == bench.args[i]
                 bytes == 0 .. a.size - 1
             IN  IF windows[i].src = a.addr THEN copied[i - 1]
                 ELSE (copied[i - 1] \ {a.addr + k : k \in bytes})
                      \cup {a.addr + k : k \in {j \in bytes : windows[i].src + j \in host}}
  IN  copied

CopiedBack == Copied[Len(windows)]

-----------------------------------------------------------------------------
(* TestbenchFSM: the next values of its registers.                         *)

Loaded == bench.resetAlways \/ fsm.count > 0

(* The registers when the FSM is ready and knows what comes next.          *)
FromReady ==
  [fsm EXCEPT !.state = fsm.succ,
     !.reset = @ \/ (fsm.succ = "setup" /\ Loaded),
     !.count = IF fsm.succ # "setup" THEN @
               ELSE IF Loaded THEN bench.resetCycles ELSE 1]

(* Mutant: the reset is not released before the set-up.                    *)
SetupInReset ==
  IF fsm.count > 1 THEN [fsm EXCEPT !.count = @ - 1, !.reset = TRUE, !.setup = FALSE]
  ELSE IF fsm.count = 1 THEN [fsm EXCEPT !.setup = TRUE, !.count = 0]
  ELSE [fsm EXCEPT !.state = "running", !.setup = FALSE, !.start = TRUE, !.reset = FALSE]

FromSetup ==
  IF fsm.count > 1 THEN [fsm EXCEPT !.count = @ - 1, !.reset = TRUE, !.setup = FALSE]
  ELSE IF fsm.count = 1 THEN [fsm EXCEPT !.setup = TRUE, !.reset = FALSE, !.count = 0]
  ELSE [fsm EXCEPT !.state = "running", !.setup = FALSE, !.start = TRUE]

(* Mutant: the simulation ends when the design is done.                    *)
EndsWhenDone(done) ==
  [fsm EXCEPT !.start = FALSE, !.state = IF done THEN "end" ELSE @]

FromRunning(done) ==
  [fsm EXCEPT !.start = FALSE, !.state = IF done THEN "done" ELSE @]

Clocked(done) ==
  CASE fsm.state = "ready"   -> FromReady
    [] fsm.state = "setup"   -> FromSetup
    [] fsm.state = "running" -> FromRunning(done)
    [] fsm.state = "done"    -> [fsm EXCEPT !.state = "ready"]
    [] OTHER                 -> fsm

-----------------------------------------------------------------------------
(* The FIFO interfaces.  Elements are numbered; what lies behind the last  *)
(* one is Garbage.                                                         *)
Garbage == 0

Element(i) == IF i < bench.stream THEN i + 1 ELSE Garbage

Size(base, end) == end - base

(* Mutant: a pop copies the element it leaves behind.                      *)
PopsCurrent ==
  [source EXCEPT !.base = @ + 1, !.val = Element(source.base),
                 !.ready = Size(source.base + 1, bench.stream) > 0]

(* fifo_interface::read with shift: the base moves on, and the element it  *)
(* moves to is copied, if there is one or not.                             *)
Pop ==
  [source EXCEPT !.base = @ + 1, !.val = Element(source.base + 1),
                 !.ready = Size(source.base + 1, bench.stream) > 0]

(* read without shift, when the module is set up.  Mutant: it does not     *)
(* refresh what the last call left.                                        *)
PeekValue ==
  [source EXCEPT !.val = IF source.base = bench.stream THEN Garbage
                         ELSE Element(source.base), !.enable = TRUE]

Peek ==
  [source EXCEPT !.val = IF source.base = bench.stream THEN Garbage
                         ELSE Element(source.base),
                 !.ready = Size(source.base, bench.stream) > 0, !.enable = TRUE]

(* The posedge block of TestbenchFifoRead.                                 *)
SourceNext(read, done) ==
  IF fsm.setup THEN Peek
  ELSE IF (source.enable \/ done) /\ read /\ source.ready
       THEN [Pop EXCEPT !.enable = source.enable /\ ~done]
       ELSE [source EXCEPT !.enable = @ /\ ~done]

TooManyReads(read, done) ==
  ~fsm.setup /\ (source.enable \/ done) /\ read /\ ~source.ready

(* The posedge block of TestbenchFifoWrite: m_state when it is set up, a   *)
(* push when the design writes.  Mutant: the end is overrun.               *)
PushesPastEnd(write, done) ==
  LET pushes == (sink.enable \/ done) /\ write /\ sink.base <= bench.room
  IN  [base |-> IF pushes THEN sink.base + 1 ELSE sink.base,
       ready |-> IF fsm.setup THEN Size(sink.base, bench.room) > 0
                 ELSE IF pushes THEN Size(sink.base + 1, bench.room) > 0
                 ELSE sink.ready,
       enable |-> IF fsm.setup THEN TRUE ELSE sink.enable /\ ~done]

SinkNext(write, done) ==
  LET pushes == (sink.enable \/ done) /\ write /\ sink.base < bench.room
  IN  [base |-> IF pushes THEN sink.base + 1 ELSE sink.base,
       ready |-> IF fsm.setup THEN Size(sink.base, bench.room) > 0
                 ELSE IF pushes THEN Size(sink.base + 1, bench.room) > 0
                 ELSE sink.ready,
       enable |-> IF fsm.setup THEN TRUE ELSE sink.enable /\ ~done]

TooManyWrites(write, done) ==
  (sink.enable \/ done) /\ write /\ sink.base = bench.room

-----------------------------------------------------------------------------
(* The design.  It is active from the cycle of start_port to the one of    *)
(* done_port.                                                              *)
Active == ~fsm.reset /\ (fsm.start \/ busy)

(* The addresses the design may write: it gets the first address of each   *)
(* argument from mapaddr (__m_interface_ptr), and writes whole words of    *)
(* its alignment.                                                          *)
Writable ==
  IF ~Active \/ Cardinality(device) = Writes THEN {}
  ELSE UNION {{MapAddr(mmu, windows[i].src) + k :
                 k \in 0 .. RoundUp(bench.args[i].size, bench.args[i].align) - 1} :
              i \in DOMAIN windows}

-----------------------------------------------------------------------------
NoFifo == [base |-> 0, val |-> Garbage, ready |-> FALSE, enable |-> FALSE]

NoSink == [base |-> 0, ready |-> FALSE, enable |-> FALSE]

NothingAsserted == [reset |-> 0, setups |-> 0, starts |-> 0]

Init ==
  /\ bench \in Benches
  /\ mmu = EmptyMap /\ windows = << >>
  /\ host = {} /\ device = {}
  /\ fsm = [state |-> "ready", succ |-> "ready", reset |-> TRUE,
            count |-> bench.resetCycles, setup |-> FALSE, start |-> FALSE]
  /\ left = 0
  /\ source = NoFifo /\ sink = NoSink
  /\ busy = FALSE /\ stop = "no"
  /\ calls = Calls /\ runs = 0
  /\ consumed = << >>
  /\ asserted = NothingAsserted

(* m_next(STATE_READY) from a testbench that calls the design again: the   *)
(* memory is mapped and the interfaces are registered anew.                *)
NextCall ==
  LET mapping == MappingOf[bench]
  IN  /\ calls > 0
      /\ calls' = calls - 1
      /\ fsm' = [Clocked(FALSE) EXCEPT
                   !.succ = IF mapping.failed \/ ~bench.readable THEN "abort" ELSE "setup"]
      /\ mmu' = mapping.map /\ windows' = WindowsOf[bench]
      /\ source' = [SourceNext(FALSE, FALSE) EXCEPT !.base = 0]
      /\ sink' = [SinkNext(FALSE, FALSE) EXCEPT !.base = 0]
      /\ host' = {} /\ device' = {} /\ consumed' = << >>
      /\ asserted' = [NothingAsserted EXCEPT !.reset =
                     IF bench.resetAlways /\ fsm.state = "done" THEN 0 ELSE asserted.reset]

(* m_next(STATE_READY) from one that has ended.                            *)
NoCall ==
  /\ calls = 0
  /\ fsm' = [Clocked(FALSE) EXCEPT !.succ = "end"]
  /\ UNCHANGED <<memory, host, device, source, sink, calls, consumed, asserted>>

(* The edge after which the FSM is ready: the testbench is asked.          *)
Ask ==
  /\ stop = "no"
  /\ Clocked(FALSE).state = "ready"
  /\ NextCall \/ NoCall
  /\ runs' = runs + (IF fsm.state = "done" THEN 1 ELSE 0)
  /\ UNCHANGED <<bench, left, busy, stop>>

(* The histories of the signals, seen at the same edge.                    *)
Seen ==
  [reset  |-> IF fsm.reset THEN Min({asserted.reset + 1, bench.resetCycles})
              ELSE asserted.reset,
   setups |-> asserted.setups + (IF fsm.setup THEN 1 ELSE 0),
   starts |-> asserted.starts + (IF fsm.start THEN 1 ELSE 0)]

(* What the simulation stops on at an edge.                                *)
Stops(read, write, done) ==
  LET next == Clocked(done).state
  IN  {s \in {"end", "abort"} : next = s}
      \cup {s \in {"too many reads"} : TooManyReads(read, done)}
      \cup {s \in {"too many writes"} : TooManyWrites(write, done)}
      \cup {s \in {"timeout"} : next = "running" /\ left <= 1}

(* Any other edge.  The design reads, writes and finishes as it likes, but *)
(* within its run, and when the FIFOs let it if it obeys them; mem is the address of a byte  *)
(* it writes (mem_interface::write).                                       *)
Edge(read, write, done, mem) ==
  /\ stop = "no"
  /\ Clocked(done).state # "ready"
  /\ done => Active
  /\ read => Active /\ (bench.obeys => source.ready)
  /\ write => Active /\ (bench.obeys => sink.ready)
  /\ mem \subseteq Writable
  /\ fsm' = Clocked(done)
  /\ left' = IF Clocked(done).state = "setup" THEN MaxCycles + 1
            ELSE (left - 1) % (MaxCycles + 2)  \* any number will do outside a run
  /\ source' = SourceNext(read, done)
  /\ sink' = SinkNext(write, done)
  /\ consumed' = IF read THEN Append(consumed, source.val) ELSE consumed
  /\ busy' = (Active /\ ~done)
  /\ device' = device \cup mem
  /\ host' = host \cup {AddrMap(mmu, a) : a \in mem}
  /\ stop' \in IF Stops(read, write, done) = {} THEN {"no"} ELSE Stops(read, write, done)
  /\ asserted' = Seen
  /\ UNCHANGED <<bench, memory, calls, runs>>

Finished == stop # "no" /\ UNCHANGED vars

Next ==
  \/ Ask
  \/ \E read, write, done \in BOOLEAN, mem \in {{}} \cup {{a} : a \in Writable} :
       Edge(read, write, done, mem)
  \/ Finished

Spec == Init /\ [][Next]_vars

-----------------------------------------------------------------------------
TypeOK ==
  /\ bench \in Benches
  /\ \A b \in DOMAIN mmu : b \in Nat /\ mmu[b] \in Int
  /\ \A i \in DOMAIN windows : windows[i].dst \in Nat /\ windows[i].src \in Nat
  /\ host \subseteq Nat /\ device \subseteq Nat /\ Cardinality(device) <= Writes
  /\ fsm.state \in {"ready", "setup", "running", "done", "end", "abort"}
  /\ fsm.succ \in {"ready", "setup", "end", "abort"}
  /\ fsm.count \in 0 .. bench.resetCycles
  /\ left \in 0 .. MaxCycles + 1
  /\ source.base \in 0 .. bench.stream + 1 /\ sink.base \in 0 .. bench.room
  /\ source.val \in 0 .. bench.stream
  /\ busy \in BOOLEAN
  /\ stop \in {"no", "end", "abort", "timeout", "too many reads", "too many writes"}
  /\ calls \in 0 .. Calls /\ runs \in 0 .. Calls

(* While the design runs, what the FIFOs show it is true of the interfaces *)
(* in the other process: the head of what is left to read, and whether     *)
(* there is room, although the registers are refreshed only when the       *)
(* module is set up and when the design reads or writes.                   *)
ShownIsTrue ==
  (Active /\ stop = "no") =>
    /\ source.ready <=> source.base < bench.stream
    /\ source.ready => source.val = Element(source.base)
    /\ sink.ready <=> sink.base < bench.room

(* A design reads the elements in their order, none twice and none that is *)
(* not there: the element behind the last one, which a pop copies, never   *)
(* reaches a design without the simulation stopping, whether the design    *)
(* waits for the FIFO or not.                                              *)
ReadInOrder ==
  stop \in {"no", "end"} => \A i \in DOMAIN consumed : consumed[i] = i

(* The design starts once in a call, after one cycle of set-up and the     *)
(* cycles of reset it was promised, and nothing is set up or runs in reset.*)
CleanStart ==
  /\ (fsm.setup \/ fsm.start \/ busy) => ~fsm.reset
  /\ Active => /\ asserted.reset = bench.resetCycles
               /\ asserted.setups = 1
               /\ asserted.starts = IF fsm.start THEN 0 ELSE 1

(* Whatever was mapped, an address of the design leads to the one memory   *)
(* that was mapped there, and to none if none was.                         *)
MapsExactly ==
  LET all == bench.vars \o windows
      top == Max({0} \cup {all[i].dst + all[i].bytes : i \in DOMAIN all})
      at(a) == {i \in DOMAIN all : all[i].dst <= a /\ a < all[i].dst + all[i].bytes}
  IN  windows # << >> =>
        \A a \in 0 .. top + 1 :
          AddrMap(mmu, a) = IF at(a) = {} THEN 0
                            ELSE LET w == all[CHOOSE i \in at(a) : TRUE] IN w.src + (a - w.dst)

(* When a run is over, the arguments hold what the design wrote through    *)
(* the addresses it was given, also through the larger copies some of them *)
(* were mapped to, and no other memory has been written.                   *)
ArgumentsHold ==
  LET bytes(i) == {k \in 0 .. bench.args[i].size - 1 : TRUE}
      written(i) == {k \in bytes(i) : MapAddr(mmu, windows[i].src) + k \in device}
      mapped == UNION {{windows[i].src + k : k \in 0 .. windows[i].bytes - 1} : i \in DOMAIN windows}
      memoryOf(i) == {bench.args[i].addr + k : k \in bytes(i)}
  IN  fsm.state = "done" =>
        /\ host \subseteq mapped
        /\ \A i \in DOMAIN windows :
             CopiedBack \cap memoryOf(i) =
               (UNION {{bench.args[j].addr + k : k \in written(j)} : j \in DOMAIN windows})
                 \cap memoryOf(i)

(* To the C testbench it is the simulator of SimPhases.                    *)
Phases == INSTANCE SimPhases WITH
  phase <- CASE fsm.state = "ready" -> "ready"
             [] fsm.state = "end"   -> "ended"
             [] fsm.state = "abort" -> "aborted"
             [] OTHER               -> "running"

RunsInPhases == Phases!PhasesSpec
=============================================================================
