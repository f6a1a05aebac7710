--------------------------- MODULE Testbench_proofs ---------------------------
(* The testbench, for every bench, every number of calls and every limit of  *)
(* cycles.  Clean ties the registers of the FSM to what it has asserted,     *)
(* Shown those of the FIFO modules to the interfaces.  MapsTo says what the  *)
(* device map has been made of, SetUp that a call maps what its bench says,  *)
(* Through that the design's memory was written through its pointers.        *)
EXTENDS Testbench, Numbers

Typed ==
  /\ bench \in Benches
  /\ fsm \in [state : {"ready", "setup", "running", "done", "end", "abort"},
              succ : {"ready", "setup", "end", "abort"},
              reset : BOOLEAN, count : Nat, setup : BOOLEAN, start : BOOLEAN]
  /\ source \in [base : Nat, val : Nat, ready : BOOLEAN, enable : BOOLEAN]
  /\ sink \in [base : Nat, ready : BOOLEAN, enable : BOOLEAN]
  /\ asserted \in [reset : Nat, setups : Nat, starts : Nat]
  /\ busy \in BOOLEAN
  /\ consumed \in Seq(Nat)
  /\ runs \in Nat

Idle == ~fsm.setup /\ ~fsm.start /\ ~busy

(* What is still due of the reset before the set-up.                         *)
Clean ==
  /\ fsm.state = "ready" =>
       /\ Idle
       /\ fsm.succ \in {"ready", "setup"} =>
            /\ asserted.setups = 0 /\ asserted.starts = 0
            /\ fsm.count = 0 =>
                 /\ ~fsm.reset
                 /\ asserted.reset = IF bench.resetAlways THEN 0 ELSE bench.resetCycles
            /\ fsm.count # 0 =>
                 fsm.reset /\ fsm.count = bench.resetCycles /\ asserted.reset = 0
       /\ fsm.succ = "ready" => fsm.count # 0
  /\ fsm.state = "setup" =>
       /\ ~fsm.start /\ ~busy /\ asserted.setups = 0 /\ asserted.starts = 0
       /\ fsm.setup <=> fsm.count = 0
       /\ fsm.setup => ~fsm.reset /\ asserted.reset = bench.resetCycles
       /\ fsm.count # 0 =>
            /\ fsm.reset => asserted.reset \in {bench.resetCycles - fsm.count,
                                                bench.resetCycles - fsm.count + 1}
            /\ ~fsm.reset => fsm.count = 1 /\ asserted.reset = bench.resetCycles
  /\ fsm.state \in {"running", "done"} =>
       /\ ~fsm.reset /\ ~fsm.setup /\ fsm.count = 0
       /\ asserted.reset = bench.resetCycles /\ asserted.setups = 1
       /\ asserted.starts = IF fsm.start THEN 0 ELSE 1
  /\ fsm.state = "running" => (fsm.start <=> ~busy)
  /\ fsm.state = "done" => Idle
  /\ fsm.state \in {"end", "abort"} => Idle /\ stop # "no"

(* As many elements have been read as the base has moved.                    *)
Shown ==
  /\ fsm.state = "setup" \/ (fsm.state = "ready" /\ fsm.succ = "setup") =>
       source.base = 0 /\ sink.base = 0 /\ consumed = << >>
  /\ (fsm.state = "running" /\ stop = "no") =>
       /\ source.enable /\ sink.enable
       /\ source.ready <=> source.base < bench.stream
       /\ source.ready => source.val = Element(source.base)
       /\ sink.ready <=> sink.base < bench.room
       /\ sink.base <= bench.room
       /\ Len(consumed) = source.base
  /\ ReadInOrder

Inv == Typed /\ Clean /\ Shown

-----------------------------------------------------------------------------
LEMMA BenchTyped ==
  ASSUME Typed
  PROVE  /\ bench.stream \in Nat /\ bench.room \in Nat /\ bench.obeys \in BOOLEAN
         /\ bench.resetCycles \in Nat \ {0} /\ bench.resetAlways \in BOOLEAN
BY BenchesAssumption DEF Typed, Positive

(* The registers of the FIFO modules after a read, and after an edge.        *)
LEMMA PopFields ==
  ASSUME Typed
  PROVE  /\ Pop \in [base : Nat, val : Nat, ready : BOOLEAN, enable : BOOLEAN]
         /\ Pop.base = source.base + 1
         /\ Pop.val = Element(source.base + 1)
         /\ Pop.ready <=> source.base + 1 < bench.stream
         /\ Pop.enable = source.enable
<1> DEFINE base == source.base + 1
           val == Element(source.base + 1)
           ready == Size(source.base + 1, bench.stream) > 0
<1>1. base \in Nat /\ val \in Nat /\ ready \in BOOLEAN
  BY BenchTyped DEF Typed, Element, Garbage
<1>4. ready <=> source.base + 1 < bench.stream
  BY BenchTyped DEF Typed, Size
<1>2. Pop = [source EXCEPT !.base = base, !.val = val, !.ready = ready]
  BY Zenon DEF Pop
<1> HIDE DEF base, ready, val
<1>3. /\ Pop \in [base : Nat, val : Nat, ready : BOOLEAN, enable : BOOLEAN]
      /\ Pop.base = base /\ Pop.val = val /\ Pop.ready = ready
      /\ Pop.enable = source.enable
  <2>1. source \in [base : Nat, val : Nat, ready : BOOLEAN, enable : BOOLEAN]
    BY DEF Typed
  <2> QED
    BY <1>1, <1>2, <2>1
<1> QED
  BY <1>3, <1>4 DEF base, val

LEMMA PeekFields ==
  ASSUME Typed
  PROVE  /\ Peek \in [base : Nat, val : Nat, ready : BOOLEAN, enable : BOOLEAN]
         /\ Peek.base = source.base
         /\ source.base < bench.stream => Peek.val = Element(source.base)
         /\ Peek.ready <=> source.base < bench.stream
         /\ Peek.enable
<1> DEFINE val == IF source.base = bench.stream THEN Garbage ELSE Element(source.base)
           ready == Size(source.base, bench.stream) > 0
<1>1. val \in Nat /\ ready \in BOOLEAN /\ (ready <=> source.base < bench.stream)
  BY BenchTyped DEF Typed, Element, Garbage, Size
<1>2. Peek = [source EXCEPT !.val = val, !.ready = ready, !.enable = TRUE]
  BY Zenon DEF Peek
<1>3. source.base < bench.stream => val = Element(source.base)
  BY BenchTyped DEF Typed
<1> HIDE DEF ready, val
<1>4. /\ Peek \in [base : Nat, val : Nat, ready : BOOLEAN, enable : BOOLEAN]
      /\ Peek.base = source.base /\ Peek.val = val /\ Peek.ready = ready
      /\ Peek.enable = TRUE
  BY <1>1, <1>2 DEF Typed
<1> QED
  BY <1>1, <1>3, <1>4

LEMMA SinkFields ==
  ASSUME Typed, NEW write \in BOOLEAN, NEW done \in BOOLEAN
  PROVE  LET next == SinkNext(write, done)
             pushes == (sink.enable \/ done) /\ write /\ sink.base < bench.room
         IN  /\ next \in [base : Nat, ready : BOOLEAN, enable : BOOLEAN]
             /\ next.base = IF pushes THEN sink.base + 1 ELSE sink.base
             /\ fsm.setup => (next.ready <=> sink.base < bench.room) /\ next.enable
             /\ ~fsm.setup =>
                  /\ pushes => (next.ready <=> sink.base + 1 < bench.room)
                  /\ ~pushes => next.ready = sink.ready
                  /\ next.enable = (sink.enable /\ ~done)
<1> DEFINE pushes == (sink.enable \/ done) /\ write /\ sink.base < bench.room
           base == IF pushes THEN sink.base + 1 ELSE sink.base
           ready == IF fsm.setup THEN Size(sink.base, bench.room) > 0
                    ELSE IF pushes THEN Size(sink.base + 1, bench.room) > 0
                    ELSE sink.ready
           enable == IF fsm.setup THEN TRUE ELSE sink.enable /\ ~done
<1>1. SinkNext(write, done) = [base |-> base, ready |-> ready, enable |-> enable]
  BY Zenon DEF SinkNext
<1>2. base \in Nat
  BY DEF Typed
<1>3. ready \in BOOLEAN /\ enable \in BOOLEAN
  <2>1. (Size(sink.base, bench.room) > 0) \in BOOLEAN
        /\ (Size(sink.base + 1, bench.room) > 0) \in BOOLEAN
    OBVIOUS
  <2>2. sink.ready \in BOOLEAN
    BY DEF Typed
  <2> QED
    BY <2>1, <2>2, Zenon
<1>4. /\ fsm.setup => (ready <=> sink.base < bench.room) /\ enable
      /\ ~fsm.setup =>
           /\ pushes => (ready <=> sink.base + 1 < bench.room)
           /\ ~pushes => ready = sink.ready
           /\ enable = (sink.enable /\ ~done)
  <2>1. /\ Size(sink.base, bench.room) > 0 <=> sink.base < bench.room
        /\ Size(sink.base + 1, bench.room) > 0 <=> sink.base + 1 < bench.room
    <3>1. sink.base \in Nat /\ bench.room \in Nat
      BY BenchTyped DEF Typed
    <3> QED
      BY <3>1 DEF Size
  <2> QED
    BY <2>1, Zenon
<1>5. base = IF pushes THEN sink.base + 1 ELSE sink.base
  OBVIOUS
<1> HIDE DEF base, ready, enable, pushes
<1>6. /\ SinkNext(write, done) \in [base : Nat, ready : BOOLEAN, enable : BOOLEAN]
      /\ SinkNext(write, done).base = base
      /\ SinkNext(write, done).ready = ready
      /\ SinkNext(write, done).enable = enable
  BY <1>1, <1>2, <1>3
<1> QED
  BY <1>4, <1>5, <1>6, Zenon DEF pushes

LEMMA InitKeeps == Init => Inv
<1> SUFFICES ASSUME Init PROVE Inv
  OBVIOUS
<1>1. Typed
  <2>1. bench \in Benches /\ bench.resetCycles \in Nat
    BY BenchesAssumption DEF Init, Positive
  <2>2. /\ fsm = [state |-> "ready", succ |-> "ready", reset |-> TRUE,
                   count |-> bench.resetCycles, setup |-> FALSE, start |-> FALSE]
        /\ source = NoFifo /\ sink = NoSink /\ asserted = NothingAsserted
        /\ busy = FALSE /\ consumed = << >> /\ runs = 0
    BY DEF Init
  <2>3. << >> \in Seq(Nat)
    OBVIOUS
  <2> QED
    BY <2>1, <2>2, <2>3 DEF Typed, NoFifo, NoSink, NothingAsserted, Garbage
<1> QED
  BY <1>1, BenchTyped DEF Init, Inv, Clean, Shown, Idle, ReadInOrder, NoFifo, NoSink,
     NothingAsserted

(* The testbench is asked from READY before the first call and from DONE.    *)
LEMMA AskedFrom ==
  ASSUME Inv, Ask
  PROVE  /\ \/ fsm.state = "ready" /\ fsm.succ = "ready"
            \/ fsm.state = "done"
         /\ Clocked(FALSE) = [fsm EXCEPT !.state = "ready"]
         /\ Idle
         /\ fsm.state = "done" =>
              /\ fsm.count = 0 /\ ~fsm.reset
              /\ asserted.reset = bench.resetCycles
<1> USE DEF Inv, Typed, Clean, Idle, Ask
<1>1. fsm.state \in {"ready", "done"}
  BY DEF Clocked, FromSetup, FromRunning
<1>2. CASE fsm.state = "ready"
  <2>1. Clocked(FALSE) = FromReady /\ FromReady.state = fsm.succ
    BY <1>2 DEF Clocked, FromReady
  <2>2. fsm.succ = "ready"
    BY <2>1
  <2>3. FromReady = [fsm EXCEPT !.state = "ready"]
    BY <2>2 DEF FromReady
  <2> QED BY <1>2, <2>1, <2>2, <2>3
<1>3. CASE fsm.state = "done"
  BY <1>3 DEF Clocked
<1> QED
  BY <1>1, <1>2, <1>3

LEMMA AskKeeps ==
  ASSUME Inv, Ask
  PROVE  Inv'
<1>1. /\ \/ fsm.state = "ready" /\ fsm.succ = "ready"
         \/ fsm.state = "done"
      /\ Clocked(FALSE) = [fsm EXCEPT !.state = "ready"]
      /\ Idle
      /\ fsm.state = "done" =>
           fsm.count = 0 /\ ~fsm.reset /\ asserted.reset = bench.resetCycles
  BY AskedFrom
<1>2. /\ bench' = bench /\ busy' = busy /\ stop' = stop /\ stop = "no"
      /\ runs' \in Nat
  BY DEF Ask, Inv, Typed
<1>3. bench.resetCycles \in Nat \ {0} /\ bench.resetAlways \in BOOLEAN
  BY BenchTyped DEF Inv
<1>4. CASE NextCall
  <2>1. PICK next \in {"setup", "abort"} :
          fsm' = [fsm EXCEPT !.state = "ready", !.succ = next]
    BY <1>1, <1>4 DEF NextCall, Inv, Typed
  <2>2. /\ source' = [source EXCEPT !.base = 0, !.enable = source.enable]
        /\ sink' = [sink EXCEPT !.base = 0]
    BY <1>1, <1>4 DEF NextCall, Idle, SourceNext, SinkNext, Inv, Typed
  <2>3. /\ consumed' = << >>
        /\ asserted' = [reset |-> IF bench.resetAlways /\ fsm.state = "done" THEN 0
                                  ELSE asserted.reset, setups |-> 0, starts |-> 0]
    BY <1>4 DEF NextCall, NothingAsserted
  <2>4. Typed'
    <3>1. asserted' \in [reset : Nat, setups : Nat, starts : Nat]
      BY <2>3 DEF Inv, Typed
    <3>2. /\ source' \in [base : Nat, val : Nat, ready : BOOLEAN, enable : BOOLEAN]
          /\ sink' \in [base : Nat, ready : BOOLEAN, enable : BOOLEAN]
      BY <2>2 DEF Inv, Typed
    <3>3. consumed' \in Seq(Nat)
      BY <2>3
    <3> QED BY <1>2, <2>1, <3>1, <3>2, <3>3 DEF Inv, Typed
  <2>5. Clean'
    BY <1>1, <1>2, <1>3, <2>1, <2>3 DEF Inv, Typed, Clean, Idle
  <2>6. Shown'
    BY <2>1, <2>2, <2>3, <1>2 DEF Inv, Typed, Shown, ReadInOrder
  <2> QED BY <2>4, <2>5, <2>6 DEF Inv
<1>5. CASE NoCall
  <2>1. fsm' = [fsm EXCEPT !.state = "ready", !.succ = "end"]
    BY <1>1, <1>5 DEF NoCall, Inv, Typed
  <2>2. UNCHANGED <<source, sink, consumed, asserted>>
    BY <1>5 DEF NoCall
  <2>3. Typed'
    BY <1>2, <2>1, <2>2 DEF Inv, Typed
  <2>4. Clean'
    BY <1>1, <1>2, <2>1, <2>2 DEF Inv, Typed, Clean, Idle
  <2>5. Shown'
    BY <2>1, <2>2, <1>2 DEF Inv, Typed, Shown, ReadInOrder
  <2> QED BY <2>3, <2>4, <2>5 DEF Inv
<1> QED
  BY <1>4, <1>5 DEF Ask

-----------------------------------------------------------------------------
(* The values the registers take at an edge.                                 *)
LEMMA EdgeTyped ==
  ASSUME Inv, NEW read \in BOOLEAN, NEW write \in BOOLEAN, NEW done \in BOOLEAN,
         NEW mem, Edge(read, write, done, mem)
  PROVE  Typed'
<1> USE BenchTyped DEF Inv, Typed
<1>1. bench' \in Benches /\ runs' \in Nat /\ busy' \in BOOLEAN
  BY DEF Edge, Active
<1>2. fsm' \in [state : {"ready", "setup", "running", "done", "end", "abort"},
              succ : {"ready", "setup", "end", "abort"},
              reset : BOOLEAN, count : Nat, setup : BOOLEAN, start : BOOLEAN]
  <2>1. FromReady \in [state : {"ready", "setup", "running", "done", "end", "abort"},
              succ : {"ready", "setup", "end", "abort"},
              reset : BOOLEAN, count : Nat, setup : BOOLEAN, start : BOOLEAN]
    BY DEF FromReady, Loaded
  <2>2. FromSetup \in [state : {"ready", "setup", "running", "done", "end", "abort"},
              succ : {"ready", "setup", "end", "abort"},
              reset : BOOLEAN, count : Nat, setup : BOOLEAN, start : BOOLEAN]
    <3>1. CASE fsm.count > 1
      <4>1. fsm.count - 1 \in Nat
        BY <3>1
      <4> QED BY <3>1, <4>1 DEF FromSetup
    <3>2. CASE ~(fsm.count > 1)
      BY <3>2 DEF FromSetup
    <3> QED BY <3>1, <3>2
  <2> QED
    BY <2>1, <2>2 DEF Edge, Clocked, FromRunning
<1>3. source' \in [base : Nat, val : Nat, ready : BOOLEAN, enable : BOOLEAN]
  <2>1. source' = SourceNext(read, done) /\ bench.stream \in Nat
    BY DEF Edge
  <2> QED
    BY <2>1, PeekFields, PopFields DEF SourceNext
<1>4. sink' \in [base : Nat, ready : BOOLEAN, enable : BOOLEAN]
  <2>1. sink' = SinkNext(write, done) /\ bench.room \in Nat
    BY DEF Edge
  <2> QED
    BY <2>1, SinkFields
<1>5. asserted' \in [reset : Nat, setups : Nat, starts : Nat]
  <2>1. /\ asserted' = Seen /\ bench.resetCycles \in Nat
        /\ asserted \in [reset : Nat, setups : Nat, starts : Nat]
    BY DEF Edge
  <2> HIDE DEF Inv, Typed
  <2>2. Min({asserted.reset + 1, bench.resetCycles}) \in Nat
    BY <2>1, MinOfTwo
  <2>3. /\ (IF fsm.reset THEN Min({asserted.reset + 1, bench.resetCycles})
             ELSE asserted.reset) \in Nat
        /\ asserted.setups + (IF fsm.setup THEN 1 ELSE 0) \in Nat
        /\ asserted.starts + (IF fsm.start THEN 1 ELSE 0) \in Nat
    BY <2>1, <2>2
  <2> QED
    BY <2>1, <2>3 DEF Seen
<1>6. consumed' \in Seq(Nat)
  BY DEF Edge
<1> QED
  BY <1>1, <1>2, <1>3, <1>4, <1>5, <1>6

LEMMA EdgeClean ==
  ASSUME Inv, NEW read \in BOOLEAN, NEW write \in BOOLEAN, NEW done \in BOOLEAN,
         NEW mem, Edge(read, write, done, mem)
  PROVE  Clean'
<1>1. /\ fsm' = Clocked(done) /\ asserted' = Seen /\ busy' = (Active /\ ~done)
      /\ done => Active
      /\ bench' = bench /\ stop = "no"
      /\ Clocked(done).state # "ready"
      /\ Clocked(done).state \in {"end", "abort"} => stop' # "no"
  BY DEF Edge, Stops
<1>2. Typed /\ Clean /\ bench.resetCycles \in Nat \ {0} /\ bench.resetAlways \in BOOLEAN
  BY BenchTyped DEF Inv
<1>3. Seen.setups = asserted.setups + (IF fsm.setup THEN 1 ELSE 0)
      /\ Seen.starts = asserted.starts + (IF fsm.start THEN 1 ELSE 0)
      /\ (~fsm.reset => Seen.reset = asserted.reset)
      /\ (fsm.reset => Seen.reset = IF asserted.reset + 1 <= bench.resetCycles
                                    THEN asserted.reset + 1 ELSE bench.resetCycles)
  <2>1. asserted.reset \in Nat
    BY <1>2 DEF Typed
  <2>2. Min({asserted.reset + 1, bench.resetCycles}) =
          IF asserted.reset + 1 <= bench.resetCycles
          THEN asserted.reset + 1 ELSE bench.resetCycles
    BY <1>2, <2>1, MinOfTwo
  <2> QED
    BY <2>2 DEF Seen
<1>4. fsm.state \in {"ready", "setup", "running"}
  BY <1>1, <1>2 DEF Typed, Clean, Clocked
<1>5. CASE fsm.state = "ready"
  <2>1. fsm' = FromReady /\ ~busy'
    BY <1>1, <1>2, <1>5 DEF Clocked, Clean, Idle, Active
  <2>2. fsm.succ # "ready"
    BY <1>1, <1>2, <1>5 DEF Clocked, FromReady, Typed
  <2> QED
    BY <1>1, <1>2, <1>3, <1>5, <2>1, <2>2 DEF Clean, Typed, Idle, FromReady, Loaded
<1>6. CASE fsm.state = "setup"
  <2>1. fsm' = FromSetup /\ ~busy'
    BY <1>1, <1>2, <1>6 DEF Clocked, Clean, Idle, Active
  <2>2. CASE fsm.count > 1
    <3>1. fsm' = [fsm EXCEPT !.count = fsm.count - 1, !.reset = TRUE, !.setup = FALSE]
      BY <2>1, <2>2 DEF FromSetup
    <3>2. /\ fsm'.state = "setup" /\ fsm'.count = fsm.count - 1 /\ fsm'.reset
          /\ ~fsm'.setup /\ ~fsm'.start /\ fsm.reset /\ ~fsm.setup /\ ~fsm.start
          /\ fsm.count \in Nat /\ fsm.count # 0 /\ asserted.reset \in Nat
      BY <1>2, <1>6, <2>2, <3>1 DEF Clean, Typed
    <3>3. asserted'.reset \in {bench.resetCycles - fsm'.count, bench.resetCycles - fsm'.count + 1}
      BY <1>1, <1>2, <1>3, <1>6, <2>2, <3>2 DEF Clean
    <3>4. asserted'.setups = 0 /\ asserted'.starts = 0
      BY <1>1, <1>2, <1>3, <1>6, <3>2 DEF Clean
    <3> QED BY <1>1, <1>2, <2>1, <2>2, <3>2, <3>3, <3>4 DEF Clean, Idle
  <2>3. CASE fsm.count = 1
    <3>1. fsm' = [fsm EXCEPT !.setup = TRUE, !.reset = FALSE, !.count = 0]
      BY <2>1, <2>3 DEF FromSetup
    <3>2. /\ fsm'.state = "setup" /\ fsm'.count = 0 /\ ~fsm'.reset
          /\ fsm'.setup /\ ~fsm'.start /\ ~fsm.setup /\ ~fsm.start
          /\ asserted.reset \in Nat
      BY <1>2, <1>6, <2>3, <3>1 DEF Clean, Typed
    <3>3. asserted'.reset = bench.resetCycles
      BY <1>1, <1>2, <1>3, <1>6, <2>3, <3>2 DEF Clean
    <3>4. asserted'.setups = 0 /\ asserted'.starts = 0
      BY <1>1, <1>2, <1>3, <1>6, <3>2 DEF Clean
    <3> QED BY <1>1, <2>1, <3>2, <3>3, <3>4 DEF Clean, Idle
  <2>4. CASE fsm.count = 0
    <3>1. fsm' = [fsm EXCEPT !.state = "running", !.setup = FALSE, !.start = TRUE]
      BY <2>1, <2>4 DEF FromSetup
    <3>2. /\ fsm'.state = "running" /\ fsm'.count = 0 /\ ~fsm'.reset
          /\ ~fsm'.setup /\ fsm'.start /\ fsm.setup /\ ~fsm.reset /\ ~fsm.start
      BY <1>2, <1>6, <2>4, <3>1 DEF Clean, Typed
    <3>3. asserted'.reset = bench.resetCycles
      BY <1>1, <1>2, <1>3, <1>6, <3>2 DEF Clean
    <3>4. asserted'.setups = 1 /\ asserted'.starts = 0
      BY <1>1, <1>2, <1>3, <1>6, <3>2 DEF Clean
    <3> QED BY <1>1, <2>1, <3>2, <3>3, <3>4 DEF Clean, Idle
  <2> QED
    BY <1>2, <2>2, <2>3, <2>4 DEF Typed
<1>7. CASE fsm.state = "running"
  <2>1. fsm' = FromRunning(done) /\ Active /\ busy' = ~done
    BY <1>1, <1>2, <1>7 DEF Clocked, Clean, Idle, Active, Typed
  <2> QED
    BY <1>1, <1>2, <1>3, <1>7, <2>1 DEF Clean, Typed, Idle, FromRunning
<1> QED
  BY <1>4, <1>5, <1>6, <1>7

LEMMA EdgeShown ==
  ASSUME Inv, NEW read \in BOOLEAN, NEW write \in BOOLEAN, NEW done \in BOOLEAN,
         NEW mem, Edge(read, write, done, mem)
  PROVE  Shown'
<1>1. /\ fsm' = Clocked(done) /\ bench' = bench /\ stop = "no"
      /\ source' = SourceNext(read, done) /\ sink' = SinkNext(write, done)
      /\ consumed' = IF read THEN Append(consumed, source.val) ELSE consumed
      /\ read => Active
      /\ write => Active
      /\ done => Active
      /\ Clocked(done).state # "ready"
  BY DEF Edge
<1>2. Typed /\ Clean /\ Shown /\ bench.stream \in Nat /\ bench.room \in Nat
  BY BenchTyped DEF Inv
<1>3. fsm.state \in {"ready", "setup", "running"}
  BY <1>1, <1>2 DEF Typed, Clean, Clocked
<1>4. CASE fsm.state \in {"ready", "setup"}
  <2>1. ~Active
    BY <1>2, <1>4 DEF Clean, Idle, Active
  <2>2. /\ consumed' = consumed
        /\ ~fsm.setup => source'.base = source.base
        /\ fsm.setup => source' = Peek
        /\ sink'.base = sink.base
        /\ fsm.setup => (sink'.ready <=> sink.base < bench.room) /\ sink'.enable
    <3>1. ~read /\ ~write /\ ~done
      BY <1>1, <2>1, Zenon
    <3>2. /\ sink'.base = sink.base
          /\ fsm.setup => (sink'.ready <=> sink.base < bench.room) /\ sink'.enable
      BY <1>1, <1>2, <3>1, SinkFields
    <3>3. ~fsm.setup => source'.base = source.base
      BY <1>1, <1>2, <3>1 DEF SourceNext, Typed
    <3>4. fsm.setup => source' = Peek
      BY <1>1 DEF SourceNext
    <3> QED BY <1>1, <3>1, <3>2, <3>3, <3>4
  <2>3. CASE fsm.state = "ready"
    <3>1. fsm'.state \in {"setup", "end", "abort"} /\ ~fsm.setup
      BY <1>1, <1>2, <2>3 DEF Clocked, FromReady, Typed, Clean, Idle
    <3>2. fsm'.state = "setup" => fsm.succ = "setup"
      BY <1>1, <1>2, <2>3 DEF Clocked, FromReady, Typed
    <3> QED BY <1>1, <1>2, <2>2, <2>3, <3>1, <3>2 DEF Shown, ReadInOrder, Typed
  <2>4. CASE fsm.state = "setup"
    <3>1. fsm'.state = IF fsm.setup THEN "running" ELSE "setup"
      BY <1>1, <1>2, <2>4 DEF Clocked, FromSetup, Typed, Clean
    <3> QED BY <1>1, <1>2, <2>2, <2>4, <3>1,
            PeekFields DEF Shown, ReadInOrder, Typed, Element
  <2> QED BY <1>4, <2>3, <2>4
<1>5. CASE fsm.state = "running"
  <2>1. /\ fsm'.state = IF done THEN "done" ELSE "running"
        /\ ~fsm.setup
    BY <1>1, <1>2, <1>5 DEF Clocked, FromRunning, Typed, Clean
  <2>2. /\ (read /\ ~source.ready) => stop' \notin {"no", "end"}
        /\ (write /\ sink.base = bench.room) => stop' \notin {"no", "end"}
    <3>1. Clocked(done).state \notin {"end", "abort"}
      BY <1>1, <2>1
    <3> QED BY <1>2, <1>5, <2>1, <3>1, <1>1
            DEF Edge, Stops, TooManyReads, TooManyWrites, Shown
  <2>3. source' = IF read /\ source.ready
                  THEN [Pop EXCEPT !.enable = source.enable /\ ~done]
                  ELSE [source EXCEPT !.enable = @ /\ ~done]
    BY <1>1, <1>2, <1>5, <2>1 DEF SourceNext, Shown
  <2>4. /\ sink'.enable = (sink.enable /\ ~done)
        /\ write /\ sink.base < bench.room =>
             sink'.base = sink.base + 1 /\ (sink'.ready <=> sink.base + 1 < bench.room)
        /\ ~(write /\ sink.base < bench.room) =>
             sink'.base = sink.base /\ sink'.ready = sink.ready
    BY <1>1, <1>2, <1>5, <2>1, SinkFields DEF Shown
  <2>5. ASSUME stop' \in {"no", "end"}
        PROVE  \A i \in DOMAIN consumed' : consumed'[i] = i
    BY <1>1, <1>2, <1>5, <2>2, <2>5 DEF Shown, ReadInOrder, Typed, Element
  <2>6. ASSUME fsm'.state = "running", stop' = "no"
        PROVE  /\ source'.enable /\ sink'.enable
               /\ source'.ready <=> source'.base < bench.stream
               /\ source'.ready => source'.val = Element(source'.base)
               /\ sink'.ready <=> sink'.base < bench.room
               /\ sink'.base <= bench.room
               /\ Len(consumed') = source'.base
    <3>1. ~done
      BY <2>1, <2>6
    <3>2. sink'.enable
      BY <1>1, <1>2, <1>5, <2>4, <3>1, Zenon DEF Shown
    <3>3. /\ sink'.enable /\ sink'.base <= bench.room
          /\ sink'.ready <=> sink'.base < bench.room
      <4>1. CASE write /\ sink.base < bench.room
        BY <1>2, <2>4, <3>2, <4>1 DEF Typed
      <4>2. CASE ~(write /\ sink.base < bench.room)
        BY <1>1, <1>2, <1>5, <2>4, <3>2, <4>2 DEF Shown
      <4> QED BY <4>1, <4>2
    <3>4. CASE read
      BY <1>1, <1>2, <1>5, <2>2, <2>3, <2>6, <3>1, <3>3, <3>4,
         PopFields DEF Shown, Typed
    <3>5. CASE ~read
      BY <1>1, <1>2, <1>5, <2>3, <3>1, <3>3, <3>5 DEF Shown, Typed
    <3> QED BY <3>4, <3>5
  <2> QED
    BY <1>1, <2>1, <2>5, <2>6 DEF Shown, ReadInOrder, Element, Garbage
<1> QED
  BY <1>3, <1>4, <1>5

-----------------------------------------------------------------------------
LEMMA InvHolds == Spec => []Inv
<1>1. Inv /\ [Next]_vars => Inv'
  <2> SUFFICES ASSUME Inv, [Next]_vars PROVE Inv'
    OBVIOUS
  <2>1. CASE Ask
    BY <2>1, AskKeeps
  <2>2. CASE \E read, write, done \in BOOLEAN,
                mem \in {{}} \cup {{a} : a \in Writable} : Edge(read, write, done, mem)
    BY <2>2, EdgeTyped, EdgeClean, EdgeShown DEF Inv
  <2>3. CASE UNCHANGED vars
    BY <2>3 DEF vars, Inv, Typed, Clean, Shown, Idle, ReadInOrder, Element
  <2> QED
    BY <2>1, <2>2, <2>3 DEF Next, Finished
<1> QED
  BY <1>1, InitKeeps, PTL DEF Spec

(* The design starts once in a call, after the reset it was promised and one *)
(* cycle of set-up, whatever the bench: in every state in which it runs the  *)
(* histories of the three signals are complete.                              *)
THEOREM StartsClean == Spec => []CleanStart
<1>1. Inv => CleanStart
  BY DEF Inv, Typed, Clean, Idle, CleanStart, Active
<1> QED
  BY <1>1, InvHolds, PTL

(* What the FIFO modules show a running design is true of the interfaces in  *)
(* the other process, although it is refreshed only now and then.            *)
THEOREM ShowsTheTruth == Spec => []ShownIsTrue
<1>1. Inv => ShownIsTrue
  BY DEF Inv, Typed, Clean, Idle, Shown, ShownIsTrue, Active
<1> QED
  BY <1>1, InvHolds, PTL

(* The elements arrive in order, each once, at any design: one that does not *)
(* wait for the FIFO stops the simulation before it can use what it read.    *)
THEOREM ReadsInOrder == Spec => []ReadInOrder
<1>1. Inv => ReadInOrder
  BY DEF Inv, Shown
<1> QED
  BY <1>1, InvHolds, PTL

(* To the C testbench the clocked modules are the simulator of SimPhases,    *)
(* the one Mdpi implements from the other side.                              *)
THEOREM TestbenchImplementsPhases == Spec => RunsInPhases
<1>1. Init => Phases!PhasesInit
  BY DEF Init, Phases!PhasesInit
<1>2. Inv /\ [Next]_vars
        => [Phases!Answered \/ Phases!RunOver]_(Phases!phasevars)
  <2> SUFFICES ASSUME Inv, [Next]_vars
               PROVE  [Phases!Answered \/ Phases!RunOver]_(Phases!phasevars)
    OBVIOUS
  <2> USE DEF Inv, Typed
  <2>1. CASE Ask
    <3>1. fsm'.state = "ready" /\ fsm.state \in {"ready", "done"}
      <4>1. Clocked(FALSE) = [fsm EXCEPT !.state = "ready"]
        BY <2>1, AskedFrom
      <4>2. fsm'.state = "ready"
        BY <2>1, <4>1 DEF Ask, NextCall, NoCall
      <4> QED BY <2>1, <4>2, AskedFrom
    <3>2. runs' = runs + (IF fsm.state = "done" THEN 1 ELSE 0)
      BY <2>1 DEF Ask
    <3> QED
      BY <3>1, <3>2 DEF Phases!RunOver, Phases!phasevars
  <2>2. CASE \E read, write, done \in BOOLEAN,
                mem \in {{}} \cup {{a} : a \in Writable} : Edge(read, write, done, mem)
    <3>1. PICK done \in BOOLEAN :
            fsm' = Clocked(done) /\ Clocked(done).state # "ready" /\ runs' = runs
            /\ stop = "no"
      BY <2>2 DEF Edge
    <3>2. CASE fsm.state = "ready"
      <4>1. fsm'.state \in {"setup", "end", "abort"}
        BY <3>1, <3>2 DEF Clocked, FromReady
      <4> QED BY <3>1, <3>2, <4>1 DEF Phases!Answered, Phases!phasevars
    <3>3. CASE fsm.state # "ready"
      <4>1. /\ fsm.state \in {"setup", "running"}
            /\ fsm'.state \in {"setup", "running", "done"}
        BY <3>1, <3>3 DEF Clocked, FromSetup, FromRunning, Clean
      <4> QED BY <3>1, <4>1 DEF Phases!phasevars
    <3> QED BY <3>2, <3>3
  <2>3. CASE UNCHANGED vars
    BY <2>3 DEF vars, Phases!phasevars
  <2> QED
    BY <2>1, <2>2, <2>3 DEF Next, Finished
<1> QED
  BY <1>1, <1>2, InvHolds, PTL DEF Spec, RunsInPhases, Phases!PhasesSpec

-----------------------------------------------------------------------------
(* The device map.                                                           *)

\* The offset that holds at an address: that of the entry at or before it.
Entry(m, a)  == Max({c \in DOMAIN m : c <= a})
Offset(m, a) == m[Entry(m, a)]

\* No two entries follow each other that say unmapped, so that mapaddr finds a
\* segment behind each; a segment has an end, and nothing is mapped at 0.
WellFormed(m) ==
  /\ DOMAIN m \in SUBSET Nat /\ IsFiniteSet(DOMAIN m)
  /\ \A b \in DOMAIN m : m[b] \in Int
  /\ 0 \in DOMAIN m /\ m[0] = Unmapped
  /\ \A b, c \in DOMAIN m : b < c /\ m[b] = Unmapped /\ m[c] = Unmapped =>
       \E d \in DOMAIN m : b < d /\ d < c
  /\ \A b \in DOMAIN m : m[b] # Unmapped => \E c \in DOMAIN m : b < c

\* b is the last entry at or before a.
Holds(m, a, b) == b \in DOMAIN m /\ b <= a /\ \A c \in DOMAIN m : c <= a => c <= b

LEMMA EntryHolds ==
  ASSUME NEW m, WellFormed(m), NEW a \in Nat
  PROVE  /\ Holds(m, a, Entry(m, a))
         /\ \A b : Holds(m, a, b) => Entry(m, a) = b
<1> DEFINE S == {c \in DOMAIN m : c <= a}
<1>1. S \in SUBSET Int /\ S # {} /\ IsFiniteSet(S)
  <2>1. S \subseteq DOMAIN m /\ DOMAIN m \in SUBSET Nat /\ 0 \in S
    BY DEF WellFormed
  <2> HIDE DEF S
  <2>2. IsFiniteSet(S)
    BY <2>1, FS_Subset DEF WellFormed
  <2> QED BY <2>1, <2>2
<1>2. Max(S) \in S /\ \A y \in S : Max(S) >= y
  <2> HIDE DEF S
  <2> QED BY <1>1, MaxIsGreatest
<1>3. Entry(m, a) \in DOMAIN m /\ Entry(m, a) <= a
      /\ \A c \in DOMAIN m : c <= a => Entry(m, a) >= c
  BY <1>2 DEF Entry
<1>4. DOMAIN m \in SUBSET Nat
  BY DEF WellFormed
<1> QED BY <1>3, <1>4 DEF Holds

\* What addrmap finds.
LEMMA AddrMapIs ==
  ASSUME NEW m, WellFormed(m), NEW a \in Nat
  PROVE  /\ Offset(m, a) \in Int
         /\ AddrMap(m, a) = IF Offset(m, a) # Unmapped THEN Offset(m, a) + a ELSE 0
<1>1. Holds(m, a, Entry(m, a)) /\ DOMAIN m \in SUBSET Nat /\ 0 \in DOMAIN m
  BY EntryHolds DEF WellFormed
<1>2. Min(DOMAIN m) = 0
  <2>1. Min(DOMAIN m) \in DOMAIN m /\ \A y \in DOMAIN m : Min(DOMAIN m) <= y
    BY <1>1, Least
  <2> QED BY <1>1, <2>1
<1>3. m[0] = Unmapped /\ \A b \in DOMAIN m : m[b] \in Int
  BY DEF WellFormed
<1> QED BY <1>1, <1>2, <1>3 DEF AddrMap, Entry, Offset, Holds

\* What mapaddr finds leads back.
LEMMA MapAddrIs ==
  ASSUME NEW m, WellFormed(m), NEW h \in Nat
  PROVE  /\ MapAddr(m, h) \in Nat
         /\ (\E a \in Nat : Offset(m, a) # Unmapped /\ Offset(m, a) + a = h) =>
              /\ Offset(m, MapAddr(m, h)) # Unmapped
              /\ Offset(m, MapAddr(m, h)) + MapAddr(m, h) = h
<1> DEFINE hits == {b \in DOMAIN m :
                     /\ m[b] # Unmapped
                     /\ b + m[b] <= h /\ h < Min(After(m, b)) + m[b]}
<1>0. DOMAIN m \in SUBSET Nat /\ 0 \in DOMAIN m /\ \A b \in DOMAIN m : m[b] \in Int
  BY DEF WellFormed
<1>1. ASSUME NEW b \in DOMAIN m, m[b] # Unmapped
      PROVE  /\ Min(After(m, b)) \in DOMAIN m /\ b < Min(After(m, b))
             /\ \A c \in DOMAIN m : b < c => Min(After(m, b)) <= c
  <2>1. After(m, b) \in SUBSET Nat /\ After(m, b) # {}
    BY <1>0, <1>1 DEF After, WellFormed
  <2>2. /\ Min(After(m, b)) \in After(m, b)
        /\ \A y \in After(m, b) : Min(After(m, b)) <= y
    BY <2>1, Least
  <2> QED BY <2>2 DEF After
<1>2. ASSUME NEW a \in Nat, Offset(m, a) # Unmapped, Offset(m, a) + a = h
      PROVE  hits # {}
  <2> DEFINE e == Entry(m, a)
  <2>1. Holds(m, a, e) /\ m[e] + a = h /\ m[e] # Unmapped
    BY <1>2, EntryHolds DEF Offset
  <2> HIDE DEF e
  <2>2. e \in DOMAIN m /\ e <= a /\ ~(Min(After(m, e)) <= a) /\ Min(After(m, e)) \in DOMAIN m
    BY <1>0, <1>1, <2>1 DEF Holds
  <2>3. e + m[e] <= h /\ h < Min(After(m, e)) + m[e]
    BY <1>0, <2>1, <2>2
  <2> QED BY <2>1, <2>2, <2>3
<1>3. CASE hits = {}
  <2>1. MapAddr(m, h) = 0
    BY <1>3 DEF MapAddr
  <2> QED BY <1>2, <1>3, <2>1
<1>4. CASE hits # {}
  <2> DEFINE b == Min(hits)
             p == h - m[b]
  <2>1. b \in hits
    <3>1. hits \in SUBSET Nat
      BY <1>0
    <3> HIDE DEF hits
    <3> QED BY <1>4, <3>1, Least
  <2>2. MapAddr(m, h) = p
    BY <1>4 DEF MapAddr
  <2>3. b \in DOMAIN m /\ m[b] # Unmapped /\ b + m[b] <= h /\ h < Min(After(m, b)) + m[b]
    BY <2>1
  <2> HIDE DEF b, hits
  <2>4. Min(After(m, b)) \in DOMAIN m /\ \A c \in DOMAIN m : b < c => Min(After(m, b)) <= c
    BY <1>1, <2>3
  <2>5. p \in Nat /\ b <= p /\ p < Min(After(m, b)) /\ m[b] + p = h
    BY <1>0, <2>3, <2>4
  <2>6. Holds(m, p, b)
    <3> HIDE DEF p
    <3> QED BY <1>0, <2>3, <2>4, <2>5 DEF Holds
  <2>7. Offset(m, p) = m[b]
    <3> HIDE DEF p
    <3> QED BY <2>5, <2>6, EntryHolds DEF Offset
  <2> HIDE DEF p
  <2> QED BY <2>2, <2>3, <2>5, <2>7
<1> QED BY <1>3, <1>4

\* new is m with [dst, top) mapped with this offset.
Replaces(new, m, dst, top, offset) ==
  /\ (DOMAIN m \cup {top}) \ {dst} \subseteq DOMAIN new
  /\ DOMAIN new \subseteq DOMAIN m \cup {dst, top}
  /\ \A b \in DOMAIN m \ {dst} : new[b] = m[b]
  /\ top \notin DOMAIN m => new[top] = Unmapped
  /\ dst \in DOMAIN new => new[dst] = offset
  /\ dst \notin DOMAIN new => \E prev \in DOMAIN m :
       prev < dst /\ m[prev] = offset /\ \A c \in DOMAIN m : c < dst => c <= prev

\* [dst, top) is free: no entry lies within.
Free(m, dst, top) ==
  /\ dst \in Nat \ {0} /\ top \in Nat /\ dst < top
  /\ \A a \in Nat : dst <= a /\ a < top => Offset(m, a) = Unmapped

LEMMA FreeInside ==
  ASSUME NEW m, WellFormed(m), NEW dst, NEW top, Free(m, dst, top)
  PROVE  /\ \A c \in DOMAIN m : ~(dst < c /\ c < top)
         /\ Holds(m, dst, Entry(m, dst)) /\ m[Entry(m, dst)] = Unmapped
<1>0. /\ DOMAIN m \in SUBSET Nat /\ dst \in Nat /\ top \in Nat /\ dst < top
      /\ Offset(m, dst) = Unmapped
  BY DEF WellFormed, Free
<1>1. Holds(m, dst, Entry(m, dst)) /\ m[Entry(m, dst)] = Unmapped
  BY <1>0, EntryHolds DEF Offset
<1>2. ASSUME NEW c \in DOMAIN m, dst < c, c < top PROVE FALSE
  <2> DEFINE e == Entry(m, c - 1)
  <2>1. c \in Nat /\ c - 1 \in Nat /\ dst <= c - 1 /\ c - 1 < top
    BY <1>0, <1>2
  <2>2. Holds(m, c - 1, e) /\ m[e] = Unmapped
    BY <2>1, EntryHolds DEF Offset, Free
  <2>3. Holds(m, c, c)
    BY <1>0, <1>2, <2>1 DEF Holds
  <2>4. m[c] = Unmapped
    <3>1. Offset(m, c) = Unmapped
      BY <1>0, <1>2, <2>1 DEF Free
    <3>2. Entry(m, c) = c
      BY <2>1, <2>3, EntryHolds
    <3> QED BY <3>1, <3>2 DEF Offset
  <2> HIDE DEF e
  <2>5. e \in DOMAIN m /\ e < c
    BY <1>0, <2>1, <2>2 DEF Holds
  <2>6. PICK d \in DOMAIN m : e < d /\ d < c
    BY <1>2, <2>2, <2>4, <2>5 DEF WellFormed
  <2>7. d <= c - 1
    BY <1>0, <2>1, <2>6
  <2> QED BY <1>0, <2>2, <2>5, <2>6, <2>7 DEF Holds
<1> QED BY <1>1, <1>2

LEMMA ReplacedOffsets ==
  ASSUME NEW m, WellFormed(m), NEW new, NEW dst, NEW top, NEW offset \in Int,
         Free(m, dst, top), Replaces(new, m, dst, top, offset), WellFormed(new)
  PROVE  \A a \in Nat : Offset(new, a) =
           IF dst <= a /\ a < top THEN offset ELSE Offset(m, a)
<1> TAKE a \in Nat
<1>0. /\ DOMAIN m \in SUBSET Nat /\ DOMAIN new \in SUBSET Nat
      /\ dst \in Nat /\ top \in Nat /\ dst < top
      /\ \A c \in DOMAIN m : ~(dst < c /\ c < top)
  BY FreeInside DEF WellFormed, Free
<1> DEFINE e == Entry(m, a)
<1>1. Holds(m, a, e) /\ Offset(m, a) = m[e]
  BY EntryHolds DEF Offset
<1> HIDE DEF e
<1>2. CASE a < dst
  <2>1. Holds(new, a, e) /\ new[e] = m[e]
    BY <1>0, <1>1, <1>2 DEF Holds, Replaces
  <2> QED BY <1>0, <1>1, <1>2, <2>1, EntryHolds DEF Offset
<1>3. CASE dst <= a /\ a < top
  <2>1. CASE dst \in DOMAIN new
    <3>1. Holds(new, a, dst) /\ new[dst] = offset
      BY <1>0, <1>3, <2>1 DEF Holds, Replaces
    <3> QED BY <1>3, <3>1, EntryHolds DEF Offset
  <2>2. CASE dst \notin DOMAIN new
    <3>1. PICK prev \in DOMAIN m :
            prev < dst /\ m[prev] = offset /\ \A c \in DOMAIN m : c < dst => c <= prev
      BY <2>2 DEF Replaces
    <3>2. Holds(new, a, prev) /\ new[prev] = offset
      BY <1>0, <1>3, <2>2, <3>1 DEF Holds, Replaces
    <3> QED BY <1>3, <3>2, EntryHolds DEF Offset
  <2> QED BY <2>1, <2>2
<1>4. CASE top <= a
  <2>1. CASE top <= e
    <3>1. Holds(new, a, e) /\ new[e] = m[e]
      BY <1>0, <1>1, <1>4, <2>1 DEF Holds, Replaces
    <3> QED BY <1>0, <1>1, <1>4, <3>1, EntryHolds DEF Offset
  <2>2. CASE e < top
    <3>1. Holds(new, a, top) /\ new[top] = Unmapped
      BY <1>0, <1>1, <1>4, <2>2 DEF Holds, Replaces
    <3>2. Holds(m, dst, e)
      BY <1>0, <1>1, <1>4, <2>2 DEF Holds
    <3>3. m[e] = Unmapped
      BY <1>0, <3>2, FreeInside, EntryHolds
    <3> QED BY <1>0, <1>1, <1>4, <3>1, <3>3, EntryHolds DEF Offset
  <2> QED BY <1>0, <1>1, <2>1, <2>2 DEF Holds
<1> QED BY <1>0, <1>2, <1>3, <1>4

LEMMA ReplacedWellFormed ==
  ASSUME NEW m, WellFormed(m), NEW new, NEW dst, NEW top, NEW offset \in Int \ {0},
         Free(m, dst, top), Replaces(new, m, dst, top, offset)
  PROVE  WellFormed(new)
<1>0. /\ DOMAIN m \in SUBSET Nat /\ IsFiniteSet(DOMAIN m)
      /\ dst \in Nat \ {0} /\ top \in Nat /\ dst < top
      /\ \A c \in DOMAIN m : ~(dst < c /\ c < top)
      /\ \A b \in DOMAIN m : m[b] \in Int
      /\ 0 \in DOMAIN m /\ m[0] = Unmapped
  BY FreeInside DEF WellFormed, Free
<1>1. DOMAIN new \in SUBSET Nat
  BY <1>0 DEF Replaces
<1>2. IsFiniteSet(DOMAIN new)
  <2>1. IsFiniteSet(DOMAIN m \cup {dst})
    BY <1>0, FS_AddElement
  <2>2. IsFiniteSet((DOMAIN m \cup {dst}) \cup {top})
    BY <2>1, FS_AddElement
  <2>3. DOMAIN new \subseteq (DOMAIN m \cup {dst}) \cup {top}
    BY DEF Replaces
  <2> QED BY <2>2, <2>3, FS_Subset
<1>3. \A b \in DOMAIN new : \/ b = dst /\ new[b] = offset
                            \/ b \in DOMAIN m /\ b # dst /\ new[b] = m[b]
                            \/ b = top /\ top \notin DOMAIN m /\ new[b] = Unmapped
  BY <1>0 DEF Replaces
<1>4. \A b \in DOMAIN new : new[b] \in Int
  BY <1>0, <1>3 DEF Unmapped
<1>5. 0 \in DOMAIN new /\ new[0] = Unmapped
  BY <1>0 DEF Replaces
\* What is in the way of two entries below and above dst.
<1>6. \A b \in DOMAIN m : b < dst /\ m[b] = Unmapped =>
        \E d \in DOMAIN new : b < d /\ d <= dst
  <2> TAKE b \in DOMAIN m
  <2> HAVE b < dst /\ m[b] = Unmapped
  <2>1. CASE dst \in DOMAIN new
    BY <2>1, <1>0
  <2>2. CASE dst \notin DOMAIN new
    <3>1. PICK prev \in DOMAIN m :
            prev < dst /\ m[prev] = offset /\ \A c \in DOMAIN m : c < dst => c <= prev
      BY <2>2 DEF Replaces
    <3>2. b <= prev /\ b # prev /\ prev \in DOMAIN new
      BY <1>0, <3>1 DEF Unmapped, Replaces
    <3> QED BY <1>0, <3>1, <3>2
  <2> QED BY <2>1, <2>2
<1>7. ASSUME NEW b \in DOMAIN new, NEW c \in DOMAIN new, b < c,
             new[b] = Unmapped, new[c] = Unmapped
      PROVE  \E d \in DOMAIN new : b < d /\ d < c
  <2>0. b # dst /\ c # dst /\ b \in Nat /\ c \in Nat
    BY <1>0, <1>1, <1>3, <1>7 DEF Unmapped
  <2>1. CASE b \in DOMAIN m /\ c \in DOMAIN m
    <3>1. m[b] = Unmapped /\ m[c] = Unmapped
      BY <1>3, <1>7, <2>0, <2>1
    <3>2. PICK d \in DOMAIN m : b < d /\ d < c
      BY <1>7, <2>1, <3>1 DEF WellFormed
    <3>3. CASE d # dst
      BY <3>2, <3>3 DEF Replaces
    <3>4. CASE d = dst
      <4>1. PICK f \in DOMAIN new : b < f /\ f <= dst
        BY <1>6, <2>1, <3>1, <3>2, <3>4
      <4>2. f < c
        BY <1>0, <1>1, <2>0, <3>2, <3>4, <4>1
      <4> QED BY <4>1, <4>2
    <3> QED BY <3>3, <3>4
  <2>2. CASE c \notin DOMAIN m
    <3>1. c = top /\ b \in DOMAIN m /\ b < dst /\ m[b] = Unmapped
      BY <1>0, <1>3, <1>7, <2>0, <2>2
    <3>2. PICK f \in DOMAIN new : b < f /\ f <= dst
      BY <1>6, <3>1
    <3>3. f < c
      BY <1>0, <1>1, <3>1, <3>2
    <3> QED BY <3>2, <3>3
  <2>3. CASE b \notin DOMAIN m
    <3>1. b = top /\ c \in DOMAIN m /\ m[c] = Unmapped /\ top \notin DOMAIN m
      BY <1>0, <1>3, <1>7, <2>0, <2>3
    <3> DEFINE e == Entry(m, dst)
    <3>2. Holds(m, dst, e) /\ m[e] = Unmapped
      BY FreeInside
    <3> HIDE DEF e
    <3>3. e \in DOMAIN m /\ e <= dst /\ e < c /\ \A d \in DOMAIN m : d <= dst => d <= e
      BY <1>0, <1>7, <3>1, <3>2 DEF Holds
    <3>4. PICK d \in DOMAIN m : e < d /\ d < c
      BY <3>1, <3>2, <3>3 DEF WellFormed
    <3>5. d # dst /\ b < d
      BY <1>0, <3>1, <3>3, <3>4
    <3> QED BY <3>4, <3>5 DEF Replaces
  <2> QED BY <2>1, <2>2, <2>3
<1>8. ASSUME NEW b \in DOMAIN new, new[b] # Unmapped
      PROVE  \E c \in DOMAIN new : b < c
  <2>1. top \in DOMAIN new
    BY <1>0 DEF Replaces
  <2>2. CASE b = dst
    BY <1>0, <2>1, <2>2
  <2>3. CASE b # dst
    <3>1. b \in DOMAIN m /\ m[b] # Unmapped
      BY <1>3, <1>8, <2>3
    <3>2. PICK c \in DOMAIN m : b < c
      BY <3>1 DEF WellFormed
    <3>3. CASE c # dst
      BY <3>2, <3>3 DEF Replaces
    <3>4. CASE c = dst
      BY <1>0, <2>1, <3>1, <3>2, <3>4
    <3> QED BY <3>3, <3>4
  <2> QED BY <2>2, <2>3
<1> QED BY <1>1, <1>2, <1>4, <1>5, <1>7, <1>8 DEF WellFormed

\* What map does to a free range of a map: it never fails.
LEMMA MappingReplaces ==
  ASSUME NEW m, WellFormed(m), NEW dst, NEW src \in Nat, NEW bytes \in Nat,
         Free(m, dst, dst + bytes), src # dst
  PROVE  LET r == Mapping(m, dst, src, bytes) IN
         ~r.failed /\ Replaces(r.map, m, dst, dst + bytes, src - dst)
<1> DEFINE offset == src - dst
           top == dst + bytes
           D == DOMAIN m
           both == Inserted(Inserted(m, dst, offset), top, Unmapped)
           fresh == dst \notin D
           prev == Before(both, dst)
           j == Joined(both, dst, offset, fresh)
           next == After(j.map, top)
           back == IF top \notin D /\ next # {} /\ j.map[Min(next)] = Unmapped
                   THEN Min(next) ELSE top
           inner == {b \in DOMAIN j.map : j.front < b /\ b < back}
           failed == j.failed \/ \E b \in inner : j.map[b] \notin {Unmapped, offset}
<1>1. Mapping(m, dst, src, bytes)
        = [map |-> IF failed THEN j.map ELSE Erased(j.map, inner), failed |-> failed]
  BY Zenon DEF Mapping
<1>2. /\ D \in SUBSET Nat /\ dst \in Nat \ {0} /\ top \in Nat /\ dst < top
      /\ \A c \in D : ~(dst < c /\ c < top)
      /\ \A b \in D : m[b] \in Int
      /\ 0 \in D /\ m[0] = Unmapped /\ IsFiniteSet(D)
      /\ offset \in Int /\ offset # Unmapped
  <2>1. dst \in Nat \ {0} /\ top \in Nat /\ dst < top
    BY DEF Free
  <2>2. \A c \in D : ~(dst < c /\ c < top)
    BY FreeInside
  <2>3. offset \in Int /\ offset # Unmapped
    BY <2>1 DEF Unmapped
  <2> HIDE DEF top, offset
  <2> QED BY <2>1, <2>2, <2>3 DEF WellFormed
<1>3. /\ DOMAIN both = D \cup {dst, top}
      /\ \A b \in D : both[b] = m[b]
      /\ fresh => both[dst] = offset
      /\ top \notin D => both[top] = Unmapped
  BY <1>2 DEF Inserted
<1> HIDE DEF both, top, offset
<1>4. /\ prev \in D /\ prev < dst /\ \A c \in D : c < dst => c <= prev
  <2> DEFINE S == {c \in DOMAIN both : c < dst}
  <2>1. S \in SUBSET Int /\ S # {} /\ S \subseteq D /\ \A c \in D : c < dst => c \in S
    BY <1>2, <1>3
  <2> HIDE DEF S
  <2>2. IsFiniteSet(S)
    BY <1>2, <2>1, FS_Subset
  <2>3. Max(S) \in S /\ \A y \in S : Max(S) >= y
    BY <2>1, <2>2, MaxIsGreatest
  <2>4. prev = Max(S)
    BY DEF Before, S
  <2> HIDE DEF prev
  <2>5. prev \in D /\ \A c \in D : c < dst => prev >= c
    BY <2>1, <2>3, <2>4
  <2>6. prev < dst
    BY <2>3, <2>4 DEF S
  <2> QED BY <1>2, <2>5, <2>6
\* The entry before dst is a segment's when dst is one's end.
<1>5. /\ fresh => m[prev] = Unmapped
      /\ ~fresh => m[dst] = Unmapped /\ m[prev] # Unmapped
  <2> HIDE DEF prev
  <2>1. Holds(m, dst, Entry(m, dst)) /\ m[Entry(m, dst)] = Unmapped
    BY FreeInside, <1>2 DEF top
  <2>2. CASE fresh
    <3>1. Holds(m, dst, prev)
      BY <1>2, <1>4, <2>2 DEF Holds
    <3> QED BY <1>2, <2>1, <2>2, <3>1, EntryHolds
  <2>3. CASE ~fresh
    <3>1. Holds(m, dst, dst)
      BY <1>2, <2>3 DEF Holds
    <3>2. m[dst] = Unmapped
      BY <1>2, <2>1, <3>1, EntryHolds
    <3>3. m[prev] # Unmapped
      <4>1. ~ \E d \in D : prev < d /\ d < dst
        BY <1>2, <1>4
      <4> QED BY <1>4, <2>3, <3>2, <4>1 DEF WellFormed
    <3> QED BY <2>3, <3>2, <3>3
  <2> QED BY <2>2, <2>3
<1> DEFINE joins == m[prev] = offset
           kept == D \cup {dst, top}
<1>6. both[prev] = m[prev]
  BY <1>3, <1>4
<1>7. /\ ~j.failed
      /\ j.front = IF ~fresh /\ joins THEN prev ELSE dst
      /\ j.map = IF fresh THEN both
                 ELSE IF joins THEN Erased(both, {dst}) ELSE [both EXCEPT ![dst] = offset]
  <2>1. CASE fresh
    <3>1. j = [map |-> both, front |-> IF both[prev] # Unmapped THEN prev ELSE dst,
               failed |-> both[prev] \notin {Unmapped, offset}]
      BY <2>1, Zenon DEF Joined
    <3> HIDE DEF j, prev
    <3> QED BY <1>5, <1>6, <2>1, <3>1
  <2>2. CASE ~fresh
    <3>1. j = [map |-> IF both[dst] # Unmapped THEN both
                       ELSE IF both[prev] = offset THEN Erased(both, {dst})
                            ELSE [both EXCEPT ![dst] = offset],
               front |-> IF both[dst] = Unmapped /\ both[prev] = offset THEN prev ELSE dst,
               failed |-> both[dst] \notin {Unmapped, offset}]
      BY <2>2, Zenon DEF Joined
    <3>2. both[dst] = Unmapped
      BY <1>3, <1>5, <2>2
    <3> HIDE DEF j, prev
    <3> QED BY <1>6, <2>2, <3>1, <3>2
  <2> QED BY <2>1, <2>2
<1> HIDE DEF prev
<1>8. Replaces(j.map, m, dst, top, offset)
  <2> HIDE DEF j
  <2>1. CASE fresh
    BY <1>2, <1>3, <1>7, <2>1 DEF Replaces
  <2>2. CASE ~fresh /\ ~joins
    <3>1. j.map = [both EXCEPT ![dst] = offset]
      BY <1>7, <2>2
    <3>2. DOMAIN j.map = D \cup {dst, top} /\ j.map[dst] = offset
          /\ \A b \in D \cup {top} : b # dst => j.map[b] = both[b]
      BY <1>2, <1>3, <3>1 DEF Inserted, both
    <3> QED BY <1>2, <1>3, <3>2 DEF Replaces
  <2>3. CASE ~fresh /\ joins
    <3>1. j.map = [b \in DOMAIN both \ {dst} |-> both[b]]
      BY <1>7, <2>3 DEF Erased
    <3>2. DOMAIN j.map = (D \cup {top}) \ {dst}
          /\ \A b \in (D \cup {top}) \ {dst} : j.map[b] = both[b]
      BY <1>2, <1>3, <3>1
    <3> QED BY <1>2, <1>3, <1>4, <2>3, <3>2 DEF Replaces
  <2> QED BY <2>1, <2>2, <2>3
\* What follows a new end is a segment.
<1>9. back = top
  <2> DEFINE f == Min(next)
  <2> SUFFICES ASSUME top \notin D, next # {}, j.map[f] = Unmapped PROVE FALSE
    BY Zenon DEF back
  <2>1. next \in SUBSET Nat
    BY <1>2, <1>8 DEF After, Replaces
  <2>2. f \in next /\ \A y \in next : f <= y
    <3> HIDE DEF next
    <3> QED BY <2>1, Least
  <2>3. f \in DOMAIN j.map /\ top < f /\ \A c \in DOMAIN j.map : top < c => f <= c
    BY <2>2 DEF After
  <2> HIDE DEF f, j
  <2>4. f \in D /\ f # dst /\ m[f] = Unmapped
    <3>1. f \in D \cup {dst, top} /\ f # dst /\ f # top
      BY <1>2, <1>8, <2>3 DEF Replaces
    <3>2. j.map[f] = m[f]
      BY <1>8, <3>1 DEF Replaces
    <3> QED BY <3>1, <3>2
  <2> DEFINE e == Entry(m, dst)
  <2>5. Holds(m, dst, e) /\ m[e] = Unmapped
    BY FreeInside, <1>2 DEF top
  <2> HIDE DEF e
  <2>6. e \in D /\ e <= dst /\ e < f /\ \A d \in D : d <= dst => d <= e
    BY <1>2, <2>3, <2>4, <2>5 DEF Holds
  <2>7. PICK d \in D : e < d /\ d < f
    BY <2>4, <2>5, <2>6 DEF WellFormed
  <2>8. ~(d <= dst) /\ d # top /\ ~(dst < d /\ d < top)
    BY <1>2, <2>6, <2>7
  <2>9. d \in DOMAIN j.map /\ top < d
    BY <1>2, <1>8, <2>8 DEF Replaces
  <2> QED BY <1>2, <2>3, <2>4, <2>7, <2>9
<1>10. inner = {}
  <2> SUFFICES ASSUME NEW b \in DOMAIN j.map, j.front < b, b < top PROVE FALSE
    BY <1>9
  <2>1. b \in D \cup {dst, top}
    BY <1>8 DEF Replaces
  <2>2. CASE ~fresh /\ joins
    <3>1. j.front = prev /\ dst \notin DOMAIN j.map
      BY <1>7, <2>2 DEF Erased
    <3> HIDE DEF j
    <3>2. b # dst /\ b # top /\ b \in D /\ prev < b
      BY <1>2, <2>1, <3>1
    <3> QED BY <1>2, <1>4, <3>2
  <2>3. CASE ~(~fresh /\ joins)
    <3>1. j.front = dst
      BY <1>7, <2>3
    <3> HIDE DEF j
    <3> QED BY <1>2, <2>1, <3>1
  <2> QED BY <2>2, <2>3
<1>11. ~failed /\ Erased(j.map, inner) = j.map
  <2>1. DOMAIN j.map \ {} = DOMAIN j.map /\ j.map = [b \in DOMAIN j.map |-> j.map[b]]
    BY <1>7 DEF Erased, Inserted, both
  <2> HIDE DEF j
  <2> QED BY <1>7, <1>10, <2>1 DEF Erased
<1> HIDE DEF failed, inner, j
<1> QED BY <1>1, <1>8, <1>11 DEF top, offset

LEMMA MappingIs ==
  ASSUME NEW m, WellFormed(m), NEW dst \in Nat, NEW src \in Nat, NEW bytes \in Nat,
         Free(m, dst, dst + bytes), src # dst
  PROVE  /\ ~Mapping(m, dst, src, bytes).failed
         /\ WellFormed(Mapping(m, dst, src, bytes).map)
         /\ \A a \in Nat : Offset(Mapping(m, dst, src, bytes).map, a) =
              IF dst <= a /\ a < dst + bytes THEN src - dst ELSE Offset(m, a)
<1> DEFINE r == Mapping(m, dst, src, bytes)
           top == dst + bytes
           offset == src - dst
<1>1. ~r.failed /\ Replaces(r.map, m, dst, top, offset)
  BY MappingReplaces
<1>2. offset \in Int \ {0} /\ Free(m, dst, top)
  BY DEF Free
<1> HIDE DEF r
<1>3. WellFormed(r.map)
  <2> HIDE DEF top, offset
  <2> QED BY <1>1, <1>2, ReplacedWellFormed
<1>4. \A a \in Nat : Offset(r.map, a) =
        IF dst <= a /\ a < top THEN offset ELSE Offset(m, a)
  <2> HIDE DEF top, offset
  <2> QED BY <1>1, <1>2, <1>3, ReplacedOffsets
<1> QED BY <1>1, <1>3, <1>4 DEF r

-----------------------------------------------------------------------------
(* The set-up of a call.                                                     *)

\* Segments of the design's memory, one behind another or not, mapped
\* somewhere else.
Segment == [dst : Positive, src : Positive, bytes : Positive]
Within(w, a) == w.dst <= a /\ a < w.dst + w.bytes
Laid(ws) ==
  /\ ws \in Seq(Segment)
  /\ \A i \in 1 .. Len(ws) : ws[i].src # ws[i].dst
  /\ \A i, j \in 1 .. Len(ws) : i # j =>
       \/ ws[i].dst + ws[i].bytes <= ws[j].dst
       \/ ws[j].dst + ws[j].bytes <= ws[i].dst

\* m maps the first n segments, and nothing else.
MapsTo(m, ws, n) ==
  /\ WellFormed(m)
  /\ \A a \in Nat : \A i \in 1 .. n : Within(ws[i], a) => Offset(m, a) = ws[i].src - ws[i].dst
  /\ \A a \in Nat : (\A i \in 1 .. n : ~Within(ws[i], a)) => Offset(m, a) = Unmapped

LEMMA MapsNothing ==
  ASSUME NEW ws
  PROVE  MapsTo(EmptyMap, ws, 0)
<1> DEFINE m == EmptyMap
<1>1. DOMAIN m = {0} /\ m[0] = Unmapped /\ Unmapped \in Int
  BY DEF EmptyMap, Unmapped
<1> HIDE DEF m
<1>2. WellFormed(m)
  <2>1. IsFiniteSet({0})
    BY FS_Singleton
  <2> QED BY <1>1, <2>1 DEF WellFormed
<1>3. \A a \in Nat : Offset(m, a) = Unmapped
  <2> TAKE a \in Nat
  <2>1. Holds(m, a, 0)
    BY <1>1 DEF Holds
  <2> QED BY <1>1, <1>2, <2>1, EntryHolds DEF Offset
<1> QED BY <1>2, <1>3 DEF MapsTo, m

MappedUpTo(ws, g, n) ==
  g = [i \in 0 .. n |->
        IF i = 0 THEN [map |-> EmptyMap, failed |-> FALSE]
        ELSE LET r == Mapping(g[i - 1].map, ws[i].dst, ws[i].src, ws[i].bytes)
             IN  [map |-> r.map, failed |-> g[i - 1].failed \/ r.failed]]

\* Mapped is defined by recursion: it exists.
LEMMA MappedSteps ==
  ASSUME NEW ws, Len(ws) \in Nat
  PROVE  MappedUpTo(ws, Mapped(ws), Len(ws))
<1> DEFINE Next1(x, i) ==
             LET r == Mapping(x.map, ws[i].dst, ws[i].src, ws[i].bytes)
             IN  [map |-> r.map, failed |-> x.failed \/ r.failed]
           S == {n \in Nat : \E g : MappedUpTo(ws, g, n)}
           a == [map |-> EmptyMap, failed |-> FALSE]
<1> HIDE DEF a, Next1
<1>0. \A g, n : MappedUpTo(ws, g, n) <=>
        g = [i \in 0 .. n |-> IF i = 0 THEN a ELSE Next1(g[i - 1], i)]
  BY DEF MappedUpTo, a, Next1
<1>1. 0 \in S
  <2> DEFINE g == [k \in 0 .. 0 |-> a]
  <2>1. g = [i \in 0 .. 0 |-> IF i = 0 THEN a ELSE Next1(g[i - 1], i)]
    OBVIOUS
  <2> HIDE DEF g
  <2> QED BY <1>0, <2>1
<1>2. ASSUME NEW n \in Nat, n \in S PROVE n + 1 \in S
  <2>1. PICK g : g = [i \in 0 .. n |-> IF i = 0 THEN a ELSE Next1(g[i - 1], i)]
    BY <1>0, <1>2
  <2> DEFINE G == [k \in 0 .. (n + 1) |-> IF k = n + 1 THEN Next1(g[n], n + 1) ELSE g[k]]
  <2>2. \A k \in 0 .. (n + 1) : G[k] = IF k = 0 THEN a ELSE Next1(G[k - 1], k)
    BY <2>1
  <2>3. G = [k \in 0 .. (n + 1) |-> IF k = 0 THEN a ELSE Next1(G[k - 1], k)]
    BY <2>2, Zenon
  <2> HIDE DEF G
  <2>4. MappedUpTo(ws, G, n + 1)
    BY <1>0, <2>3, Zenon
  <2> QED BY <2>4
<1> HIDE DEF S
<1>3. Len(ws) \in S
  BY <1>1, <1>2, Induct
<1>4. \E g : MappedUpTo(ws, g, Len(ws))
  BY <1>3 DEF S
<1> QED BY <1>4, Zenon DEF Mapped, MappedUpTo

LEMMA MapsAll ==
  ASSUME NEW ws, Laid(ws)
  PROVE  ~MapAll(ws).failed /\ MapsTo(MapAll(ws).map, ws, Len(ws))
<1> DEFINE g == Mapped(ws)
           P(n) == ~g[n].failed /\ MapsTo(g[n].map, ws, n)
           S == {n \in Nat : n <= Len(ws) => P(n)}
<1>0. /\ Len(ws) \in Nat /\ \A i \in 1 .. Len(ws) : ws[i] \in Segment
      /\ MappedUpTo(ws, g, Len(ws))
  BY MappedSteps DEF Laid
<1> HIDE DEF g
<1>a. /\ g[0] = [map |-> EmptyMap, failed |-> FALSE]
      /\ \A i \in 1 .. Len(ws) :
           LET r == Mapping(g[i - 1].map, ws[i].dst, ws[i].src, ws[i].bytes)
           IN  g[i] = [map |-> r.map, failed |-> g[i - 1].failed \/ r.failed]
  <2>1. g = [i \in 0 .. Len(ws) |->
              IF i = 0 THEN [map |-> EmptyMap, failed |-> FALSE]
              ELSE LET r == Mapping(g[i - 1].map, ws[i].dst, ws[i].src, ws[i].bytes)
                   IN  [map |-> r.map, failed |-> g[i - 1].failed \/ r.failed]]
    BY <1>0, Zenon DEF MappedUpTo
  <2>2. 0 \in 0 .. Len(ws) /\ \A i \in 1 .. Len(ws) : i \in 0 .. Len(ws) /\ i # 0
    BY <1>0
  <2> QED BY <2>1, <2>2
<1>1. 0 \in S
  <2>1. g[0] = [map |-> EmptyMap, failed |-> FALSE]
    BY <1>a
  <2> QED BY <2>1, MapsNothing
<1>2. ASSUME NEW n \in Nat, n \in S PROVE n + 1 \in S
  <2> SUFFICES ASSUME n + 1 <= Len(ws) PROVE P(n + 1)
    OBVIOUS
  <2> DEFINE m == g[n].map
             w == ws[n + 1]
             r == Mapping(m, w.dst, w.src, w.bytes)
  <2>1. P(n) /\ n + 1 \in 1 .. Len(ws) /\ n <= Len(ws) /\ n + 1 # 0 /\ (n + 1) - 1 = n
    BY <1>0, <1>2
  <2>2. g[n + 1] = [map |-> r.map, failed |-> g[n].failed \/ r.failed]
    BY <1>a, <2>1
  <2>3. /\ w \in Segment /\ w.dst \in Positive /\ w.src \in Positive /\ w.bytes \in Positive
        /\ w.src # w.dst
    BY <1>0, <2>1 DEF Laid, Segment
  <2>4. \A i \in 1 .. n : ws[i] \in Segment /\ \A a \in Nat : ~(Within(ws[i], a) /\ Within(w, a))
    <3> TAKE i \in 1 .. n
    <3>1. i \in 1 .. Len(ws) /\ i # n + 1
      BY <1>0, <2>1
    <3>2. ws[i] \in Segment /\ ws[i].dst \in Nat /\ ws[i].bytes \in Nat
      BY <1>0, <3>1 DEF Segment, Positive
    <3>3. ws[i].dst + ws[i].bytes <= w.dst \/ w.dst + w.bytes <= ws[i].dst
      BY <2>1, <3>1 DEF Laid
    <3> HIDE DEF w
    <3> QED BY <2>3, <3>2, <3>3 DEF Within, Positive
  <2>5. WellFormed(m) /\ Free(m, w.dst, w.dst + w.bytes)
    <3>1. \A a \in Nat : w.dst <= a /\ a < w.dst + w.bytes => Offset(m, a) = Unmapped
      BY <2>1, <2>4 DEF MapsTo, Within
    <3> HIDE DEF w, m
    <3>2. WellFormed(m)
      BY <2>1 DEF MapsTo, m
    <3> QED BY <2>3, <3>1, <3>2 DEF Free, Positive
  <2>6. /\ ~r.failed /\ WellFormed(r.map)
        /\ \A a \in Nat : Offset(r.map, a) =
             IF Within(w, a) THEN w.src - w.dst ELSE Offset(m, a)
    <3> HIDE DEF w, m
    <3>1. w.src \in Nat /\ w.bytes \in Nat
      BY <2>3 DEF Positive
    <3>2. /\ ~r.failed /\ WellFormed(r.map)
          /\ \A a \in Nat : Offset(r.map, a) =
               IF w.dst <= a /\ a < w.dst + w.bytes THEN w.src - w.dst ELSE Offset(m, a)
      <4> DEFINE dst == w.dst
                 src == w.src
                 bytes == w.bytes
      <4>1. /\ WellFormed(m) /\ dst \in Nat /\ src \in Nat /\ bytes \in Nat
            /\ Free(m, dst, dst + bytes) /\ src # dst
        BY <2>3, <2>5, <3>1 DEF Positive
      <4> HIDE DEF dst, src, bytes
      <4>2. /\ ~Mapping(m, dst, src, bytes).failed
            /\ WellFormed(Mapping(m, dst, src, bytes).map)
            /\ \A a \in Nat : Offset(Mapping(m, dst, src, bytes).map, a) =
                 IF dst <= a /\ a < dst + bytes THEN src - dst ELSE Offset(m, a)
        BY <4>1, MappingIs
      <4> QED BY <4>2 DEF dst, src, bytes
    <3> HIDE DEF r
    <3> QED BY <3>2 DEF Within
  <2> HIDE DEF r, m
  <2>7. \A a \in Nat : \A i \in 1 .. n + 1 :
          Within(ws[i], a) => Offset(r.map, a) = ws[i].src - ws[i].dst
    <3> TAKE a \in Nat
    <3> TAKE i \in 1 .. n + 1
    <3>1. CASE i = n + 1
      BY <2>6, <3>1
    <3>2. CASE i \in 1 .. n
      BY <2>1, <2>4, <2>6, <3>2 DEF MapsTo, m
    <3> QED BY <3>1, <3>2
  <2>8. \A a \in Nat : (\A i \in 1 .. n + 1 : ~Within(ws[i], a)) => Offset(r.map, a) = Unmapped
    <3> TAKE a \in Nat
    <3> HAVE \A i \in 1 .. n + 1 : ~Within(ws[i], a)
    <3>1. ~Within(w, a) /\ \A i \in 1 .. n : ~Within(ws[i], a)
      OBVIOUS
    <3> QED BY <2>1, <2>6, <3>1 DEF MapsTo, m
  <2>9. MapsTo(r.map, ws, n + 1)
    BY <2>6, <2>7, <2>8 DEF MapsTo
  <2>10. g[n + 1].map = r.map /\ g[n + 1].failed = (g[n].failed \/ r.failed)
    BY <2>2
  <2>11. ~g[n + 1].failed
    BY <2>1, <2>6, <2>10, Zenon
  <2> QED BY <2>9, <2>10, <2>11
<1> HIDE DEF S
<1>3. Len(ws) \in S
  BY <1>0, <1>1, <1>2, Induct
<1> QED BY <1>0, <1>3 DEF S, MapAll, g

-----------------------------------------------------------------------------
LEMMA RoundUpIs ==
  ASSUME NEW n \in Positive, NEW align \in Positive
  PROVE  RoundUp(n, align) \in Positive /\ n <= RoundUp(n, align)
<1>1. (n - 1) % align \in 0 .. align - 1
  BY Divide DEF Positive
<1>2. /\ n \in Nat /\ n >= 1 /\ align \in Nat
  BY DEF Positive
<1> DEFINE r == (n - 1) % align
<1> HIDE DEF r
<1>3. r \in Int /\ r >= 0 /\ r <= align - 1
  BY <1>1, <1>2 DEF r
<1>4. RoundUp(n, align) = n + (align - 1) - r
  BY DEF RoundUp, r
<1> QED BY <1>2, <1>3, <1>4 DEF Positive

LaidUpTo(b, g, n) ==
  g = [i \in 0 .. n |->
        IF i = 0
        THEN [base |-> b.base, windows |-> << >>]
        ELSE LET a == b.args[i]
                 dst == RoundUp(g[i - 1].base, b.align)
                 bytes == RoundUp(a.size, a.align)
             IN  [base |-> dst + bytes, windows |-> Append(g[i - 1].windows,
                    [dst |-> dst, src |-> IF bytes = a.size THEN a.addr ELSE a.copy,
                     bytes |-> bytes])]]

\* Layout is defined by recursion: it exists.
LEMMA LayoutSteps ==
  ASSUME NEW b, Len(b.args) \in Nat
  PROVE  LaidUpTo(b, Layout(b), Len(b.args))
<1> DEFINE Step(x, i) ==
             LET a == b.args[i]
                 dst == RoundUp(x.base, b.align)
                 bytes == RoundUp(a.size, a.align)
             IN  [base |-> dst + bytes, windows |-> Append(x.windows,
                    [dst |-> dst, src |-> IF bytes = a.size THEN a.addr ELSE a.copy,
                     bytes |-> bytes])]
           S == {n \in Nat : \E g : LaidUpTo(b, g, n)}
           first == [base |-> b.base, windows |-> << >>]
<1> HIDE DEF first, Step
<1>0. \A g, n : LaidUpTo(b, g, n) <=>
        g = [i \in 0 .. n |-> IF i = 0 THEN first ELSE Step(g[i - 1], i)]
  BY DEF LaidUpTo, first, Step
<1>1. 0 \in S
  <2> DEFINE g == [k \in 0 .. 0 |-> first]
  <2>1. g = [i \in 0 .. 0 |-> IF i = 0 THEN first ELSE Step(g[i - 1], i)]
    OBVIOUS
  <2> HIDE DEF g
  <2> QED BY <1>0, <2>1
<1>2. ASSUME NEW n \in Nat, n \in S PROVE n + 1 \in S
  <2>1. PICK g : g = [i \in 0 .. n |-> IF i = 0 THEN first ELSE Step(g[i - 1], i)]
    BY <1>0, <1>2
  <2> DEFINE G == [k \in 0 .. (n + 1) |-> IF k = n + 1 THEN Step(g[n], n + 1) ELSE g[k]]
  <2>2. \A k \in 0 .. (n + 1) : G[k] = IF k = 0 THEN first ELSE Step(G[k - 1], k)
    BY <2>1
  <2>3. G = [k \in 0 .. (n + 1) |-> IF k = 0 THEN first ELSE Step(G[k - 1], k)]
    BY <2>2, Zenon
  <2> HIDE DEF G
  <2>4. LaidUpTo(b, G, n + 1)
    BY <1>0, <2>3, Zenon
  <2> QED BY <2>4
<1> HIDE DEF S
<1>3. Len(b.args) \in S
  BY <1>1, <1>2, Induct
<1>4. \E g : LaidUpTo(b, g, Len(b.args))
  BY <1>3 DEF S
<1> QED BY <1>4, Zenon DEF Layout, LaidUpTo

\* The first n arguments of a bench are behind each other, and behind its
\* memory; what comes next begins at end.
Placed(b, ws, n, end) ==
  /\ ws \in Seq(Segment) /\ Len(ws) = n
  /\ end \in Positive /\ b.base <= end
  /\ \A i \in 1 .. n :
       /\ b.base <= ws[i].dst /\ ws[i].dst + ws[i].bytes <= end
       /\ ws[i].bytes = RoundUp(b.args[i].size, b.args[i].align)
       /\ ws[i].src = IF ws[i].bytes = b.args[i].size THEN b.args[i].addr
                      ELSE b.args[i].copy
  /\ \A i, j \in 1 .. n : i < j => ws[i].dst + ws[i].bytes <= ws[j].dst

LEMMA BenchIs ==
  ASSUME NEW b \in Benches
  PROVE  /\ b.vars \in Seq(Segment) /\ Len(b.vars) \in Nat /\ Len(b.args) \in Nat
         /\ b.base \in Positive /\ b.align \in Positive
         /\ \A i \in 1 .. Len(b.args) :
              /\ b.args[i].addr \in Positive /\ b.args[i].size \in Positive
              /\ b.args[i].align \in Positive /\ b.args[i].copy \in Positive
         /\ DOMAIN b.vars = 1 .. Len(b.vars) /\ DOMAIN b.args = 1 .. Len(b.args)
         /\ \A i \in 1 .. Len(b.vars) : b.vars[i] \in Segment
<1> DEFINE Arg == [addr : Positive, size : Positive, align : Positive, copy : Positive]
<1>1. /\ b.vars \in Seq(Segment) /\ b.args \in Seq(Arg)
      /\ b.base \in Positive /\ b.align \in Positive
  BY BenchesAssumption DEF Segment
<1>2. \A x \in Arg : /\ x.addr \in Positive /\ x.size \in Positive
                     /\ x.align \in Positive /\ x.copy \in Positive
  OBVIOUS
<1> HIDE DEF Arg
<1>3. \A i \in 1 .. Len(b.args) : b.args[i] \in Arg
  BY <1>1
<1> QED BY <1>1, <1>2, <1>3

LEMMA LayoutIs ==
  ASSUME NEW b \in Benches
  PROVE  \E end : Placed(b, WindowsOf[b], Len(b.args), end)
<1> DEFINE g == Layout(b)
           P(n) == Placed(b, g[n].windows, n, g[n].base)
           S == {n \in Nat : n <= Len(b.args) => P(n)}
<1>0. Len(b.args) \in Nat /\ LaidUpTo(b, g, Len(b.args))
  BY BenchIs, LayoutSteps
<1> HIDE DEF g
<1>1. /\ g[0] = [base |-> b.base, windows |-> << >>]
      /\ \A i \in 1 .. Len(b.args) :
           LET a == b.args[i]
               dst == RoundUp(g[i - 1].base, b.align)
               bytes == RoundUp(a.size, a.align)
           IN  g[i] = [base |-> dst + bytes, windows |-> Append(g[i - 1].windows,
                    [dst |-> dst, src |-> IF bytes = a.size THEN a.addr ELSE a.copy,
                     bytes |-> bytes])]
  <2>1. g = [i \in 0 .. Len(b.args) |->
              IF i = 0
              THEN [base |-> b.base, windows |-> << >>]
              ELSE LET a == b.args[i]
                       dst == RoundUp(g[i - 1].base, b.align)
                       bytes == RoundUp(a.size, a.align)
                   IN  [base |-> dst + bytes, windows |-> Append(g[i - 1].windows,
                          [dst |-> dst, src |-> IF bytes = a.size THEN a.addr ELSE a.copy,
                           bytes |-> bytes])]]
    BY <1>0, Zenon DEF LaidUpTo
  <2>2. 0 \in 0 .. Len(b.args)
        /\ \A i \in 1 .. Len(b.args) : i \in 0 .. Len(b.args) /\ i # 0
    BY <1>0
  <2> QED BY <2>1, <2>2
<1>2. 0 \in S
  <2>1. g[0].windows = << >> /\ g[0].base = b.base
    BY <1>1
  <2>2. b.base \in Positive /\ b.base <= b.base
    BY BenchIs DEF Positive
  <2>3. << >> \in Seq(Segment) /\ Len(<< >>) = 0 /\ 1 .. 0 = {}
    OBVIOUS
  <2>4. P(0)
    BY <2>1, <2>2, <2>3, Zenon DEF Placed
  <2> QED BY <2>4
<1>3. ASSUME NEW n \in Nat, n \in S PROVE n + 1 \in S
  <2> SUFFICES ASSUME n + 1 <= Len(b.args) PROVE P(n + 1)
    OBVIOUS
  <2> DEFINE a == b.args[n + 1]
             ws == g[n].windows
             end == g[n].base
             dst == RoundUp(end, b.align)
             bytes == RoundUp(a.size, a.align)
             w == [dst |-> dst, src |-> IF bytes = a.size THEN a.addr ELSE a.copy,
                   bytes |-> bytes]
             new == Append(ws, w)
  <2>1. P(n) /\ n + 1 \in 1 .. Len(b.args) /\ (n + 1) - 1 = n
    BY <1>0, <1>3
  <2>2. g[n + 1] = [base |-> dst + bytes, windows |-> new]
    BY <1>1, <2>1
  <2>3. /\ a.addr \in Positive /\ a.size \in Positive /\ a.align \in Positive
        /\ a.copy \in Positive /\ b.align \in Positive /\ b.base \in Positive
    BY <2>1, BenchIs
  <2>4. ws \in Seq(Segment) /\ Len(ws) = n /\ end \in Positive /\ b.base <= end
    BY <2>1 DEF Placed
  <2>5. /\ dst \in Positive /\ end <= dst /\ bytes \in Positive /\ w.src \in Positive
        /\ dst + bytes \in Positive
    <3>1. dst \in Positive /\ end <= dst /\ bytes \in Positive
      BY <2>3, <2>4, RoundUpIs
    <3> HIDE DEF dst, bytes, end, a
    <3> QED BY <2>3, <3>1 DEF Positive
  <2>6. w \in Segment /\ w.dst = dst /\ w.bytes = bytes
        /\ w.src = IF bytes = a.size THEN a.addr ELSE a.copy
    <3> HIDE DEF dst, bytes, end, a
    <3> QED BY <2>5 DEF Segment
  <2> HIDE DEF w
  <2>7. /\ new \in Seq(Segment) /\ Len(new) = n + 1 /\ new[n + 1] = w
        /\ \A i \in 1 .. n : new[i] = ws[i] /\ ws[i] \in Segment
    <3> HIDE DEF ws
    <3> QED BY <2>4, <2>6
  <2> HIDE DEF new
  <2>8. ASSUME NEW i \in 1 .. n
        PROVE  /\ b.base <= ws[i].dst /\ ws[i].dst + ws[i].bytes <= end
               /\ ws[i].bytes = RoundUp(b.args[i].size, b.args[i].align)
               /\ ws[i].src = IF ws[i].bytes = b.args[i].size THEN b.args[i].addr
                              ELSE b.args[i].copy
               /\ \A j \in 1 .. n : i < j => ws[i].dst + ws[i].bytes <= ws[j].dst
               /\ ws[i].dst \in Positive /\ ws[i].bytes \in Positive
    <3>1. ws[i] \in Segment
      BY <2>7
    <3> QED BY <2>1, <3>1 DEF Placed, Segment
  <2> HIDE DEF ws, dst, bytes, end
  <2>9. /\ b.base <= dst + bytes /\ b.base <= dst
        /\ \A i \in 1 .. n : ws[i].dst + ws[i].bytes <= dst
                             /\ ws[i].dst + ws[i].bytes <= dst + bytes
    <3>1. /\ b.base \in Int /\ end \in Int /\ dst \in Int /\ bytes \in Int /\ bytes > 0
          /\ b.base <= end /\ end <= dst
      <4> HIDE DEF a
      <4> QED BY <2>3, <2>4, <2>5 DEF Positive
    <3>2. \A i \in 1 .. n : /\ ws[i].dst + ws[i].bytes <= end
                            /\ ws[i].dst \in Int /\ ws[i].bytes \in Int
      BY <2>8 DEF Positive
    <3> HIDE DEF a
    <3>3. b.base <= dst + bytes /\ b.base <= dst /\ dst <= dst + bytes
      BY <3>1
    <3>4. ASSUME NEW i \in 1 .. n
          PROVE  ws[i].dst + ws[i].bytes <= dst /\ ws[i].dst + ws[i].bytes <= dst + bytes
      <4> DEFINE e == ws[i].dst + ws[i].bytes
      <4>1. e \in Int /\ e <= end
        BY <3>2
      <4> HIDE DEF e
      <4>2. e <= dst /\ e <= dst + bytes
        BY <3>1, <4>1
      <4> QED BY <4>2 DEF e
    <3> QED BY <3>3, <3>4
  <2>10. \A i \in 1 .. n + 1 :
           /\ b.base <= new[i].dst /\ new[i].dst + new[i].bytes <= dst + bytes
           /\ new[i].bytes = RoundUp(b.args[i].size, b.args[i].align)
           /\ new[i].src = IF new[i].bytes = b.args[i].size THEN b.args[i].addr
                          ELSE b.args[i].copy
    <3> TAKE i \in 1 .. n + 1
    <3>1. CASE i = n + 1
      BY <2>5, <2>6, <2>7, <2>9, <3>1 DEF bytes, Positive
    <3>2. CASE i \in 1 .. n
      BY <2>7, <2>8, <2>9, <3>2
    <3> QED BY <3>1, <3>2
  <2>11. \A i, j \in 1 .. n + 1 : i < j => new[i].dst + new[i].bytes <= new[j].dst
    <3> TAKE i, j \in 1 .. n + 1
    <3> HAVE i < j
    <3>1. i \in 1 .. n
      OBVIOUS
    <3>2. CASE j = n + 1
      BY <2>6, <2>7, <2>9, <3>1, <3>2
    <3>3. CASE j \in 1 .. n
      BY <2>7, <2>8, <3>1, <3>3
    <3> QED BY <3>2, <3>3
  <2> QED BY <2>2, <2>5, <2>7, <2>9, <2>10, <2>11 DEF Placed
<1> HIDE DEF S
<1>4. Len(b.args) \in S
  BY <1>0, <1>2, <1>3, Induct
<1>5. WindowsOf[b] = g[Len(b.args)].windows
  BY DEF WindowsOf, ArgWindows, g
<1> QED BY <1>0, <1>4, <1>5 DEF S

\* Everything a bench maps.
AllOf(b) == b.vars \o WindowsOf[b]

LEMMA BenchLaid ==
  ASSUME NEW b \in Benches
  PROVE  /\ Laid(AllOf(b))
         /\ WindowsOf[b] \in Seq(Segment) /\ Len(WindowsOf[b]) = Len(b.args)
<1>1. PICK end : Placed(b, WindowsOf[b], Len(b.args), end)
  BY LayoutIs
<1> DEFINE vs == b.vars
           ws == WindowsOf[b]
           all == vs \o ws
           Apart(v, w) == v.dst + v.bytes <= w.dst \/ w.dst + w.bytes <= v.dst
<1>2. /\ vs \in Seq(Segment) /\ Len(vs) \in Nat /\ DOMAIN vs = 1 .. Len(vs)
      /\ b.base \in Positive /\ Len(b.args) \in Nat
      /\ \A i \in 1 .. Len(vs) : vs[i] \in Segment
  BY BenchIs
<1>3. /\ \A i, j \in 1 .. Len(vs) : i # j => Apart(vs[i], vs[j])
      /\ \A i \in 1 .. Len(vs) : vs[i].dst + vs[i].bytes <= b.base
  BY <1>2, BenchesAssumption
<1>4. /\ ws \in Seq(Segment) /\ Len(ws) = Len(b.args)
      /\ \A i \in 1 .. Len(ws) : b.base <= ws[i].dst
      /\ \A i, j \in 1 .. Len(ws) : i < j => ws[i].dst + ws[i].bytes <= ws[j].dst
  BY <1>1 DEF Placed
<1>5. \A i \in DOMAIN all : all[i].src # all[i].dst
  BY OffsetsAssumption
<1> HIDE DEF vs, ws
<1>6. /\ all \in Seq(Segment) /\ Len(all) = Len(vs) + Len(ws) /\ DOMAIN all = 1 .. Len(all)
      /\ \A i \in 1 .. Len(all) : /\ i <= Len(vs) => i \in 1 .. Len(vs) /\ all[i] = vs[i]
                                  /\ i > Len(vs) => i - Len(vs) \in 1 .. Len(ws)
                                                    /\ all[i] = ws[i - Len(vs)]
  <2>1. Len(ws) \in Nat
    BY <1>2, <1>4
  <2> QED BY <1>2, <1>4, <2>1
<1> HIDE DEF all
<1>7. ASSUME NEW i \in 1 .. Len(all), NEW j \in 1 .. Len(all), i < j
      PROVE  Apart(all[i], all[j])
  <2>1. i \in Nat /\ j \in Nat
    BY <1>6
  <2>2. CASE j <= Len(vs)
    <3>1. i \in 1 .. Len(vs) /\ j \in 1 .. Len(vs) /\ all[i] = vs[i] /\ all[j] = vs[j] /\ i # j
      BY <1>2, <1>6, <1>7, <2>1, <2>2
    <3> HIDE DEF Apart
    <3> QED BY <1>3, <3>1
  <2>3. CASE j > Len(vs) /\ i <= Len(vs)
    <3> DEFINE k == j - Len(vs)
    <3>1. i \in 1 .. Len(vs) /\ k \in 1 .. Len(ws) /\ all[i] = vs[i] /\ all[j] = ws[k]
      BY <1>6, <2>3
    <3> HIDE DEF k
    <3>2. vs[i].dst + vs[i].bytes <= b.base /\ b.base <= ws[k].dst
      BY <1>3, <1>4, <3>1
    <3>3. /\ vs[i].dst \in Int /\ vs[i].bytes \in Int /\ b.base \in Int /\ ws[k].dst \in Int
      <4>1. vs[i] \in Segment /\ ws[k] \in Segment
        BY <1>2, <1>4, <3>1
      <4>2. \A s \in Segment : s.dst \in Int /\ s.bytes \in Int
        BY DEF Segment, Positive
      <4>3. b.base \in Int
        BY <1>2 DEF Positive
      <4> QED BY <4>1, <4>2, <4>3
    <3>4. vs[i].dst + vs[i].bytes <= ws[k].dst
      BY <3>2, <3>3
    <3> QED BY <3>1, <3>4
  <2>4. CASE i > Len(vs)
    <3> DEFINE k == i - Len(vs)
               l == j - Len(vs)
    <3>1. /\ k \in 1 .. Len(ws) /\ all[i] = ws[k] /\ l \in 1 .. Len(ws) /\ all[j] = ws[l]
          /\ k < l
      BY <1>2, <1>6, <1>7, <2>1, <2>4
    <3> HIDE DEF k, l
    <3> QED BY <1>4, <3>1
  <2> QED BY <1>2, <2>1, <2>2, <2>3, <2>4
<1>8. \A i, j \in 1 .. Len(all) : i # j => Apart(all[i], all[j])
  <2> TAKE i, j \in 1 .. Len(all)
  <2> HAVE i # j
  <2>1. i < j \/ j < i
    BY <1>6
  <2> QED BY <1>7, <2>1
<1>9. Laid(all)
  BY <1>5, <1>6, <1>8 DEF Laid
<1> QED BY <1>4, <1>9 DEF AllOf, all, vs, ws

\* What a call set up is what the bench maps.
SetUp ==
  /\ bench \in Benches
  /\ \/ mmu = EmptyMap /\ windows = << >>
     \/ mmu = MappingOf[bench].map /\ windows = WindowsOf[bench]

LEMMA SetUpHolds == Spec => []SetUp
<1>1. Init => SetUp
  BY DEF Init, SetUp
<1>2. SetUp /\ [Next]_vars => SetUp'
  <2> SUFFICES ASSUME SetUp, [Next]_vars PROVE SetUp'
    OBVIOUS
  <2>1. CASE Ask
    <3>1. bench' = bench
      BY <2>1 DEF Ask
    <3>2. CASE NextCall
      BY <3>1, <3>2 DEF SetUp, NextCall
    <3>3. CASE NoCall
      BY <3>1, <3>3 DEF SetUp, NoCall, memory
    <3> QED BY <2>1, <3>2, <3>3 DEF Ask
  <2>2. CASE \E read, write, done \in BOOLEAN,
                mem \in {{}} \cup {{a} : a \in Writable} : Edge(read, write, done, mem)
    BY <2>2 DEF SetUp, Edge, memory
  <2>3. CASE UNCHANGED vars
    BY <2>3 DEF SetUp, vars, memory
  <2> QED BY <2>1, <2>2, <2>3 DEF Next, Finished
<1> QED BY <1>1, <1>2, PTL DEF Spec

LEMMA BenchMaps ==
  ASSUME NEW b \in Benches
  PROVE  /\ ~MappingOf[b].failed
         /\ MapsTo(MappingOf[b].map, AllOf(b), Len(AllOf(b)))
<1>1. MappingOf[b] = MapAll(AllOf(b))
  BY DEF MappingOf, AllOf
<1> QED BY <1>1, BenchLaid, MapsAll

\* Where the map leads, of the segments themselves.
LEMMA LeadsTo ==
  ASSUME NEW ws, Laid(ws), NEW m, MapsTo(m, ws, Len(ws)), NEW a \in Nat
  PROVE  /\ \A i \in 1 .. Len(ws) :
              Within(ws[i], a) => AddrMap(m, a) = ws[i].src + (a - ws[i].dst)
         /\ (\A i \in 1 .. Len(ws) : ~Within(ws[i], a)) => AddrMap(m, a) = 0
<1>1. /\ WellFormed(m)
      /\ \A i \in 1 .. Len(ws) : Within(ws[i], a) => Offset(m, a) = ws[i].src - ws[i].dst
      /\ (\A i \in 1 .. Len(ws) : ~Within(ws[i], a)) => Offset(m, a) = Unmapped
  BY DEF MapsTo
<1>2. AddrMap(m, a) = IF Offset(m, a) # Unmapped THEN Offset(m, a) + a ELSE 0
  BY <1>1, AddrMapIs
<1>3. ASSUME NEW i \in 1 .. Len(ws), Within(ws[i], a)
      PROVE  AddrMap(m, a) = ws[i].src + (a - ws[i].dst)
  <2> DEFINE src == ws[i].src
             dst == ws[i].dst
  <2>1. src \in Int /\ dst \in Int /\ src # dst
    <3>1. ws[i] \in Segment /\ ws[i].src # ws[i].dst
      BY DEF Laid
    <3> QED BY <3>1 DEF Segment, Positive
  <2>2. Offset(m, a) = src - dst
    BY <1>1, <1>3
  <2> HIDE DEF src, dst
  <2>3. AddrMap(m, a) = src + (a - dst)
    BY <1>2, <2>1, <2>2 DEF Unmapped
  <2> QED BY <2>3 DEF src, dst
<1> QED BY <1>1, <1>2, <1>3

(* The device map is exact, whatever the variables of the design and the     *)
(* arguments of the call: an address that is mapped leads to the one byte    *)
(* that was mapped there, although segments of the same offset were joined,  *)
(* and any other address to none.                                            *)
THEOREM MapIsExact == Spec => []MapsExactly
<1>1. SetUp => MapsExactly
  <2> SUFFICES ASSUME SetUp, windows # << >> PROVE MapsExactly
    BY DEF MapsExactly
  <2> DEFINE all == bench.vars \o windows
             top == Max({0} \cup {all[i].dst + all[i].bytes : i \in DOMAIN all})
             at(a) == {i \in DOMAIN all : all[i].dst <= a /\ a < all[i].dst + all[i].bytes}
  <2>1. /\ bench \in Benches /\ all = AllOf(bench) /\ mmu = MappingOf[bench].map
    BY DEF SetUp, AllOf
  <2>2. Laid(all) /\ MapsTo(mmu, all, Len(all))
    BY <2>1, BenchLaid, BenchMaps
  <2> HIDE DEF all
  <2>3. DOMAIN all = 1 .. Len(all) /\ Len(all) \in Nat
        /\ \A i \in DOMAIN all : all[i].dst \in Nat /\ all[i].bytes \in Nat
    <3>1. all \in Seq(Segment)
      BY <2>2 DEF Laid
    <3>2. \A w \in Segment : w.dst \in Nat /\ w.bytes \in Nat
      BY DEF Segment, Positive
    <3>3. /\ DOMAIN all = 1 .. Len(all) /\ Len(all) \in Nat
          /\ \A i \in DOMAIN all : all[i] \in Segment
      BY <3>1
    <3> QED BY <3>2, <3>3
  <2>4. top \in Int
    <3> DEFINE f == [i \in DOMAIN all |-> all[i].dst + all[i].bytes]
               T == {all[i].dst + all[i].bytes : i \in DOMAIN all}
    <3>1. T \in SUBSET Int /\ f \in Surjection(DOMAIN all, T)
      BY <2>3 DEF Surjection
    <3>2. IsFiniteSet(DOMAIN all)
      BY <2>3, FS_Interval
    <3> HIDE DEF T, f
    <3>3. IsFiniteSet({0} \cup T)
      <4>1. IsFiniteSet(T)
        BY <3>1, <3>2, FS_Surjection
      <4> QED BY <4>1, FS_AddElement
    <3>4. Max({0} \cup T) \in {0} \cup T
      BY <3>1, <3>3, MaxIsGreatest
    <3> QED BY <3>1, <3>4 DEF T
  <2> HIDE DEF top
  <2>5. ASSUME NEW a \in 0 .. top + 1
        PROVE  AddrMap(mmu, a) =
                 IF at(a) = {} THEN 0
                 ELSE LET w == all[CHOOSE i \in at(a) : TRUE] IN w.src + (a - w.dst)
    <3>1. a \in Nat
      BY <2>4
    <3>2. \A i \in DOMAIN all : i \in at(a) <=> Within(all[i], a)
      BY DEF Within
    <3> HIDE DEF at
    <3>3. /\ \A i \in DOMAIN all :
              Within(all[i], a) => AddrMap(mmu, a) = all[i].src + (a - all[i].dst)
          /\ (\A i \in DOMAIN all : ~Within(all[i], a)) => AddrMap(mmu, a) = 0
      BY <2>2, <2>3, <3>1, LeadsTo
    <3>4. at(a) \subseteq DOMAIN all
      BY DEF at
    <3>5. CASE at(a) = {}
      BY <3>2, <3>3, <3>5
    <3>6. CASE at(a) # {}
      <4>1. (CHOOSE i \in at(a) : TRUE) \in at(a)
        BY <3>6
      <4> QED BY <3>2, <3>3, <3>4, <3>6, <4>1
    <3> QED BY <3>5, <3>6
  <2> QED BY <2>5, Zenon DEF MapsExactly, all, top, at
<1> QED BY <1>1, SetUpHolds, PTL

-----------------------------------------------------------------------------
(* Types.                                                                    *)

\* A call is being made.
InCall ==
  \/ fsm.state \in {"setup", "running", "done"}
  \/ fsm.state = "ready" /\ fsm.succ = "setup"

Written ==
  /\ host \subseteq Nat /\ device \subseteq Nat
  /\ IsFiniteSet(device) /\ Cardinality(device) <= Writes

Counted ==
  /\ calls \in 0 .. Calls
  /\ runs + calls + (IF InCall THEN 1 ELSE 0) <= Calls

Limited ==
  /\ fsm.count <= bench.resetCycles
  /\ left \in 0 .. MaxCycles + 1
  /\ source.base <= bench.stream /\ source.val <= bench.stream
  /\ sink.base <= bench.room
  /\ stop \in {"no", "end", "abort", "timeout", "too many reads", "too many writes"}

Bounded == Written /\ Counted /\ Limited

\* What the design is mapped to, before the first call, too.
LEMMA MapOfCall ==
  ASSUME SetUp
  PROVE  /\ WellFormed(mmu)
         /\ \A a \in Nat : AddrMap(mmu, a) \in Nat
         /\ windows \in Seq(Segment)
<1>1. PICK ws : Laid(ws) /\ MapsTo(mmu, ws, Len(ws))
  <2>1. CASE mmu = EmptyMap
    <3>1. Laid(<< >>) /\ Len(<< >>) = 0
      BY DEF Laid
    <3> QED BY <2>1, <3>1, MapsNothing
  <2>2. CASE mmu = MappingOf[bench].map
    BY <2>2, BenchLaid, BenchMaps DEF SetUp
  <2> QED BY <2>1, <2>2 DEF SetUp
<1>2. ASSUME NEW a \in Nat PROVE AddrMap(mmu, a) \in Nat
  <2>1. CASE \E i \in 1 .. Len(ws) : Within(ws[i], a)
    <3>1. PICK i \in 1 .. Len(ws) : Within(ws[i], a)
      BY <2>1
    <3>2. ws[i] \in Segment
      BY <1>1 DEF Laid
    <3>3. AddrMap(mmu, a) = ws[i].src + (a - ws[i].dst)
      BY <1>1, <3>1, LeadsTo
    <3>4. /\ ws[i].src \in Nat /\ ws[i].dst \in Nat /\ ws[i].dst <= a
      BY <3>1, <3>2 DEF Within, Segment, Positive
    <3> QED BY <3>3, <3>4
  <2>2. CASE ~ \E i \in 1 .. Len(ws) : Within(ws[i], a)
    <3>1. AddrMap(mmu, a) = 0
      BY <1>1, <2>2, LeadsTo
    <3> QED BY <3>1
  <2> QED BY <2>1, <2>2
<1>3. windows \in Seq(Segment)
  <2>1. << >> \in Seq(Segment)
    OBVIOUS
  <2>2. WindowsOf[bench] \in Seq(Segment)
    BY BenchLaid DEF SetUp
  <2> QED BY <2>1, <2>2, Zenon DEF SetUp
<1> QED BY <1>1, <1>2, <1>3 DEF MapsTo

LEMMA BoundsBegin == Init => Bounded
<1> SUFFICES ASSUME Init PROVE Bounded
  OBVIOUS
<1>1. bench \in Benches /\ bench.stream \in Nat /\ bench.room \in Nat /\ bench.resetCycles \in Nat
  BY BenchesAssumption DEF Init, Positive
<1>2. Written
  <2>1. IsFiniteSet({}) /\ Cardinality({}) = 0
    BY FS_EmptySet
  <2> QED BY <2>1, CallsAssumption DEF Init, Written
<1>3. Counted
  BY CallsAssumption DEF Init, Counted, InCall
<1>4. Limited
  BY <1>1, CallsAssumption DEF Init, Limited, NoFifo, NoSink, Garbage
<1> QED BY <1>2, <1>3, <1>4 DEF Bounded

LEMMA AskBounds ==
  ASSUME Inv, Bounded, Ask
  PROVE  Bounded'
<1>1. /\ \/ fsm.state = "ready" /\ fsm.succ = "ready"
         \/ fsm.state = "done"
      /\ Clocked(FALSE) = [fsm EXCEPT !.state = "ready"]
      /\ Idle
  BY AskedFrom
<1>2. /\ bench' = bench /\ left' = left /\ stop' = stop
      /\ runs' = runs + (IF fsm.state = "done" THEN 1 ELSE 0)
      /\ runs \in Nat /\ calls \in Nat /\ Calls \in Nat
  BY CallsAssumption DEF Ask, Inv, Typed, Bounded, Counted
<1>3. bench.stream \in Nat /\ bench.room \in Nat
  BY BenchTyped DEF Inv
<1>4. CASE NextCall
  <2>1. PICK next \in {"setup", "abort"} :
          fsm' = [fsm EXCEPT !.state = "ready", !.succ = next]
    BY <1>1, <1>4 DEF NextCall, Inv, Typed
  <2>2. /\ source' = [source EXCEPT !.base = 0, !.enable = source.enable]
        /\ sink' = [sink EXCEPT !.base = 0]
    BY <1>1, <1>4 DEF NextCall, Idle, SourceNext, SinkNext, Inv, Typed
  <2>3. calls > 0 /\ calls' = calls - 1 /\ host' = {} /\ device' = {}
    BY <1>4 DEF NextCall
  <2>4. fsm'.state = "ready" /\ fsm'.succ \in {"setup", "abort"} /\ fsm'.count = fsm.count
    BY <2>1 DEF Inv, Typed
  <2>5. Written'
    <3>1. IsFiniteSet({}) /\ Cardinality({}) = 0
      BY FS_EmptySet
    <3> QED BY <2>3, <3>1, CallsAssumption DEF Written
  <2>6. Counted'
    BY <1>1, <1>2, <2>3, <2>4 DEF Bounded, Counted, InCall
  <2>7. Limited'
    <3>1. source'.base = 0 /\ source'.val = source.val /\ sink'.base = 0
      BY <2>2 DEF Inv, Typed
    <3>2. Limited
      BY DEF Bounded
    <3>3. 0 <= bench.stream /\ 0 <= bench.room
      BY <1>3
    <3> QED BY <1>2, <2>4, <3>1, <3>2, <3>3, Zenon DEF Limited
  <2> QED BY <2>5, <2>6, <2>7 DEF Bounded
<1>5. CASE NoCall
  <2>1. fsm' = [fsm EXCEPT !.state = "ready", !.succ = "end"]
    BY <1>1, <1>5 DEF NoCall, Inv, Typed
  <2>2. UNCHANGED <<source, sink, calls, host, device>>
    BY <1>5 DEF NoCall
  <2>3. fsm'.state = "ready" /\ fsm'.succ = "end" /\ fsm'.count = fsm.count
    BY <2>1 DEF Inv, Typed
  <2>4. Written'
    BY <2>2 DEF Bounded, Written
  <2>5. Counted'
    BY <1>1, <1>2, <2>2, <2>3 DEF Bounded, Counted, InCall
  <2>6. Limited'
    BY <1>2, <2>2, <2>3 DEF Bounded, Limited
  <2> QED BY <2>4, <2>5, <2>6 DEF Bounded
<1> QED BY <1>4, <1>5 DEF Ask

LEMMA EdgeWrites ==
  ASSUME SetUp, Bounded, NEW read \in BOOLEAN, NEW write \in BOOLEAN, NEW done \in BOOLEAN,
         NEW mem \in {{}} \cup {{a} : a \in Writable}, Edge(read, write, done, mem)
  PROVE  Written'
<1>1. /\ device' = device \cup mem
      /\ host' = host \cup {AddrMap(mmu, a) : a \in mem}
  BY DEF Edge
<1>2. Written
  BY DEF Bounded
<1>3. CASE mem = {}
  BY <1>1, <1>2, <1>3 DEF Written
<1>4. CASE mem # {}
  <2>1. PICK a \in Writable : mem = {a}
    BY <1>4
  <2>2. /\ Cardinality(device) # Writes
        /\ \E i \in DOMAIN windows :
             \E k \in 0 .. RoundUp(bench.args[i].size, bench.args[i].align) - 1 :
               a = MapAddr(mmu, windows[i].src) + k
    BY <2>1 DEF Writable
  <2>3. PICK i \in DOMAIN windows :
             \E k \in 0 .. RoundUp(bench.args[i].size, bench.args[i].align) - 1 :
               a = MapAddr(mmu, windows[i].src) + k
    BY <2>2
  <2>4. a \in Nat
    <3>1. windows[i] \in Segment
      BY MapOfCall
    <3>5. windows[i].src \in Nat
      BY <3>1 DEF Segment, Positive
    <3>2. MapAddr(mmu, windows[i].src) \in Nat
      BY <3>5, MapOfCall, MapAddrIs
    <3>3. i \in DOMAIN bench.args
      <4>1. windows = WindowsOf[bench] \/ windows = << >>
        BY DEF SetUp
      <4>2. Len(windows) = Len(bench.args) /\ Len(bench.args) \in Nat
            /\ DOMAIN bench.args = 1 .. Len(bench.args)
        BY <2>3, <4>1, BenchLaid, BenchIs DEF SetUp
      <4>3. DOMAIN windows = 1 .. Len(windows)
        BY MapOfCall
      <4> QED BY <2>3, <4>2, <4>3
    <3>4. RoundUp(bench.args[i].size, bench.args[i].align) \in Nat
      BY <3>3, BenchIs, RoundUpIs DEF SetUp, Positive
    <3> QED BY <2>3, <3>2, <3>4
  <2>5. AddrMap(mmu, a) \in Nat
    BY <2>4, MapOfCall
  <2>6. IsFiniteSet(device \cup {a}) /\ Cardinality(device \cup {a}) <= Writes
    <3>1. Cardinality(device) \in Nat /\ Writes \in Nat /\ Cardinality(device) < Writes
      BY <1>2, <2>2, FS_CardinalityType, CallsAssumption DEF Written
    <3>2. /\ IsFiniteSet(device \cup {a})
          /\ Cardinality(device \cup {a}) =
               IF a \in device THEN Cardinality(device) ELSE Cardinality(device) + 1
      BY <1>2, FS_AddElement DEF Written
    <3> QED BY <3>1, <3>2
  <2> QED BY <1>1, <1>2, <2>1, <2>4, <2>5, <2>6 DEF Written
<1> QED BY <1>3, <1>4

LEMMA EdgeBounds ==
  ASSUME Inv, SetUp, Bounded, NEW read \in BOOLEAN, NEW write \in BOOLEAN, NEW done \in BOOLEAN,
         NEW mem \in {{}} \cup {{a} : a \in Writable}, Edge(read, write, done, mem)
  PROVE  Bounded'
<1>1. /\ fsm' = Clocked(done) /\ bench' = bench /\ stop = "no"
      /\ source' = SourceNext(read, done) /\ sink' = SinkNext(write, done)
      /\ calls' = calls /\ runs' = runs
      /\ read => Active
      /\ done => Active
      /\ Clocked(done).state # "ready"
  BY DEF Edge
<1>2. Typed /\ Clean /\ Shown /\ Counted /\ Limited
  BY DEF Inv, Bounded
<1>3. /\ bench.stream \in Nat /\ bench.room \in Nat /\ bench.resetCycles \in Nat \ {0}
      /\ bench.resetAlways \in BOOLEAN
  BY <1>2, BenchTyped
<1>4. fsm.state \in {"ready", "setup", "running"}
  BY <1>1, <1>2 DEF Typed, Clean, Clocked
<1>5. Written'
  BY EdgeWrites
<1>6. Counted'
  <2>1. InCall' => InCall
    <3>1. CASE fsm.state = "ready"
      <4>1. fsm' = FromReady
        BY <1>1, <3>1 DEF Clocked
      <4>2. fsm'.state = fsm.succ
        BY <1>2, <4>1 DEF FromReady, Typed
      <4> QED BY <1>1, <1>2, <3>1, <4>2 DEF InCall, Typed
    <3>2. CASE fsm.state # "ready"
      BY <1>4, <3>2 DEF InCall
    <3> QED BY <3>1, <3>2
  <2> QED BY <1>1, <1>2, <2>1, CallsAssumption DEF Counted, Typed
<1>7. fsm'.count \in Nat /\ fsm'.count <= bench.resetCycles
  <2>4. fsm.count \in Nat /\ fsm.count <= bench.resetCycles
    BY <1>2 DEF Typed, Limited
  <2>1. CASE fsm.state = "ready"
    <3>1. fsm' = FromReady
      BY <1>1, <2>1 DEF Clocked
    <3>2. fsm'.count \in {fsm.count, bench.resetCycles, 1}
      BY <1>2, <1>3, <3>1 DEF FromReady, Typed
    <3> QED BY <1>3, <2>4, <3>2
  <2>2. CASE fsm.state = "setup"
    <3>1. fsm' = FromSetup
      BY <1>1, <2>2 DEF Clocked
    <3>2. fsm'.count = IF fsm.count > 1 THEN fsm.count - 1
                       ELSE IF fsm.count = 1 THEN 0 ELSE fsm.count
      BY <1>2, <3>1 DEF FromSetup, Typed
    <3> QED BY <1>3, <2>4, <3>2
  <2>3. CASE fsm.state = "running"
    <3>1. fsm' = FromRunning(done)
      BY <1>1, <2>3 DEF Clocked
    <3>2. fsm'.count = fsm.count
      BY <1>2, <3>1 DEF FromRunning, Typed
    <3> QED BY <2>4, <3>2
  <2> QED BY <1>4, <2>1, <2>2, <2>3
<1>8. left' \in 0 .. MaxCycles + 1
  <2>1. left' = IF Clocked(done).state = "setup" THEN MaxCycles + 1
                ELSE (left - 1) % (MaxCycles + 2)
    BY DEF Edge
  <2>2. left - 1 \in Int /\ MaxCycles \in Nat /\ MaxCycles + 2 \in Nat \ {0}
    <3>1. left \in 0 .. MaxCycles + 1 /\ MaxCycles \in Nat
      BY <1>2, CallsAssumption DEF Limited
    <3> QED BY <3>1
  <2>3. ASSUME NEW x \in Int, NEW k \in Nat \ {0} PROVE x % k \in 0 .. k - 1
    BY SMT
  <2>4. (left - 1) % (MaxCycles + 2) \in 0 .. (MaxCycles + 2) - 1
    BY <2>2, <2>3
  <2> QED BY <2>1, <2>2, <2>4
<1>9. source'.base <= bench.stream /\ source'.val <= bench.stream
  <2>1. \A i \in Nat : Element(i) <= bench.stream
    BY <1>3 DEF Element, Garbage
  <2>2. source.base \in Nat /\ source.val \in Nat /\ source.base <= bench.stream
        /\ source.val <= bench.stream
    BY <1>2 DEF Typed, Limited
  <2>3. CASE fsm.setup
    <3>1. source' = Peek
      BY <1>1, <2>3 DEF SourceNext
    <3>2. Peek.base = source.base
      BY <1>2, PeekFields
    <3>3. Peek.val = IF source.base = bench.stream THEN Garbage ELSE Element(source.base)
      BY <1>2 DEF Peek, Typed
    <3> QED BY <1>3, <2>1, <2>2, <3>1, <3>2, <3>3 DEF Garbage
  <2>4. CASE ~fsm.setup /\ ~(read /\ source.ready)
    <3>1. source' = [source EXCEPT !.enable = source.enable /\ ~done]
      BY <1>1, <2>4 DEF SourceNext
    <3> QED BY <1>2, <2>2, <3>1 DEF Typed
  <2>5. CASE ~fsm.setup /\ read /\ source.ready
    <3>1. fsm.state = "running"
      BY <1>1, <1>2, <1>4, <2>5 DEF Active, Clean, Idle
    <3>2. source.enable /\ source.base < bench.stream
      BY <1>1, <1>2, <2>5, <3>1 DEF Shown
    <3>3. source' = [Pop EXCEPT !.enable = source.enable /\ ~done]
      BY <1>1, <2>5, <3>2 DEF SourceNext
    <3>4. source'.base = source.base + 1 /\ source'.val = Element(source.base + 1)
      BY <1>2, <3>3, PopFields
    <3> QED BY <1>3, <2>1, <2>2, <3>2, <3>4
  <2> QED BY <2>3, <2>4, <2>5
<1>10. sink'.base <= bench.room
  <2>1. sink'.base = IF (sink.enable \/ done) /\ write /\ sink.base < bench.room
                     THEN sink.base + 1 ELSE sink.base
    BY <1>1, <1>2, SinkFields
  <2>2. sink.base \in Nat /\ sink.base <= bench.room
    BY <1>2 DEF Typed, Limited
  <2> QED BY <1>3, <2>1, <2>2
<1>11. stop' \in {"no", "end", "abort", "timeout", "too many reads", "too many writes"}
  BY DEF Edge, Stops
<1> QED BY <1>1, <1>5, <1>6, <1>7, <1>8, <1>9, <1>10, <1>11 DEF Bounded, Limited

(* Every register and both memories keep their types: the FIFO interfaces    *)
(* are not read or written past their ends, an address of the design leads   *)
(* to memory or to none, and as many runs are made as there are calls.       *)
THEOREM TypesHold == Spec => []TypeOK
<1>1. Inv /\ SetUp /\ Bounded /\ [Next]_vars => Bounded'
  <2> SUFFICES ASSUME Inv, SetUp, Bounded, [Next]_vars PROVE Bounded'
    OBVIOUS
  <2>1. CASE Ask
    BY <2>1, AskBounds
  <2>2. CASE \E read, write, done \in BOOLEAN,
                mem \in {{}} \cup {{a} : a \in Writable} : Edge(read, write, done, mem)
    BY <2>2, EdgeBounds
  <2>3. CASE UNCHANGED vars
    BY <2>3 DEF vars, Bounded, Written, Counted, Limited, InCall
  <2> QED BY <2>1, <2>2, <2>3 DEF Next, Finished
<1>2. Inv /\ SetUp /\ Bounded => TypeOK
  <2> SUFFICES ASSUME Inv, SetUp, Bounded PROVE TypeOK
    OBVIOUS
  <2>1. Typed /\ Written /\ Counted /\ Limited
    BY DEF Inv, Bounded
  <2>2. /\ bench.stream \in Nat /\ bench.room \in Nat /\ bench.resetCycles \in Nat
        /\ Calls \in Nat
    BY <2>1, BenchTyped, CallsAssumption
  <2>3. \A b \in DOMAIN mmu : b \in Nat /\ mmu[b] \in Int
    BY MapOfCall DEF WellFormed
  <2>4. \A i \in DOMAIN windows : windows[i].dst \in Nat /\ windows[i].src \in Nat
    <3>1. \A w \in Segment : w.dst \in Nat /\ w.src \in Nat
      BY DEF Segment, Positive
    <3>2. \A i \in DOMAIN windows : windows[i] \in Segment
      BY MapOfCall
    <3> QED BY <3>1, <3>2
  <2>5. runs \in 0 .. Calls
    BY <2>1, <2>2 DEF Typed, Counted
  <2>6. /\ fsm.state \in {"ready", "setup", "running", "done", "end", "abort"}
        /\ fsm.succ \in {"ready", "setup", "end", "abort"} /\ fsm.count \in Nat
        /\ source.base \in Nat /\ source.val \in Nat /\ sink.base \in Nat
    BY <2>1 DEF Typed
  <2>7. /\ fsm.count \in 0 .. bench.resetCycles
        /\ source.base \in 0 .. bench.stream + 1 /\ sink.base \in 0 .. bench.room
        /\ source.val \in 0 .. bench.stream
    <3>1. /\ fsm.count <= bench.resetCycles /\ source.base <= bench.stream
          /\ source.val <= bench.stream /\ sink.base <= bench.room
      BY <2>1 DEF Limited
    <3> QED BY <2>2, <2>6, <3>1
  <2>8. /\ bench \in Benches /\ busy \in BOOLEAN
        /\ host \subseteq Nat /\ device \subseteq Nat /\ Cardinality(device) <= Writes
        /\ left \in 0 .. MaxCycles + 1 /\ calls \in 0 .. Calls
        /\ stop \in {"no", "end", "abort", "timeout", "too many reads", "too many writes"}
    BY <2>1 DEF Typed, Written, Limited, Counted
  <2> QED BY <2>3, <2>4, <2>5, <2>6, <2>7, <2>8, Zenon DEF TypeOK
<1> QED BY <1>1, <1>2, BoundsBegin, InvHolds, SetUpHolds, PTL DEF Spec

-----------------------------------------------------------------------------
(* The arguments.                                                            *)

\* Of what is mapped, two memories are the same or apart; and an argument that
\* is mapped to a copy shares its memory with no other and with nothing mapped.
Memory(addr, bytes) == {addr + k : k \in 0 .. bytes - 1}
SeparateMemories ==
  \A b \in Benches :
    LET all == b.vars \o WindowsOf[b]
        Own(i) == Memory(b.args[i].addr, b.args[i].size)
    IN  /\ \A i, j \in DOMAIN all :
             \/ all[i].src = all[j].src /\ all[i].bytes = all[j].bytes
             \/ Memory(all[i].src, all[i].bytes) \cap Memory(all[j].src, all[j].bytes) = {}
        /\ \A i \in DOMAIN b.args : WindowsOf[b][i].src # b.args[i].addr =>
             /\ \A j \in DOMAIN all : Own(i) \cap Memory(all[j].src, all[j].bytes) = {}
             /\ \A j \in DOMAIN b.args : i # j => Own(i) \cap Own(j) = {}

\* What the design has written it wrote through its pointers.
Pointer(i) == MapAddr(mmu, windows[i].src)
Through ==
  /\ host = {AddrMap(mmu, a) : a \in device}
  /\ \A a \in device : \E i \in DOMAIN windows :
       \E k \in 0 .. windows[i].bytes - 1 : a = Pointer(i) + k

LEMMA WindowIs ==
  ASSUME NEW b \in Benches, NEW i \in DOMAIN WindowsOf[b]
  PROVE  /\ i \in DOMAIN b.args /\ DOMAIN b.args = DOMAIN WindowsOf[b]
         /\ WindowsOf[b][i] \in Segment
         /\ b.args[i].size \in Positive /\ b.args[i].addr \in Positive
         /\ WindowsOf[b][i].bytes = RoundUp(b.args[i].size, b.args[i].align)
         /\ b.args[i].size <= WindowsOf[b][i].bytes
         /\ WindowsOf[b][i].bytes = b.args[i].size => WindowsOf[b][i].src = b.args[i].addr
<1>1. PICK end : Placed(b, WindowsOf[b], Len(b.args), end)
  BY LayoutIs
<1>2. /\ WindowsOf[b] \in Seq(Segment) /\ Len(WindowsOf[b]) = Len(b.args)
      /\ DOMAIN b.args = 1 .. Len(b.args)
  BY BenchLaid, BenchIs
<1>3. DOMAIN WindowsOf[b] = 1 .. Len(b.args) /\ WindowsOf[b][i] \in Segment
  BY <1>2
<1>4. /\ WindowsOf[b][i].bytes = RoundUp(b.args[i].size, b.args[i].align)
      /\ WindowsOf[b][i].src = IF WindowsOf[b][i].bytes = b.args[i].size
                               THEN b.args[i].addr ELSE b.args[i].copy
  BY <1>1, <1>3 DEF Placed
<1>5. /\ b.args[i].size \in Positive /\ b.args[i].align \in Positive
      /\ b.args[i].addr \in Positive
  BY <1>3, BenchIs
<1>6. b.args[i].size <= RoundUp(b.args[i].size, b.args[i].align)
  BY <1>5, RoundUpIs
<1> QED BY <1>2, <1>3, <1>4, <1>5, <1>6

LEMMA ThroughHolds == Spec => []Through
<1>1. Init => Through
  BY DEF Init, Through
<1>2. SetUp /\ Through /\ [Next]_vars => Through'
  <2> SUFFICES ASSUME SetUp, Through, [Next]_vars PROVE Through'
    OBVIOUS
  <2>1. CASE Ask
    <3>1. CASE NextCall
      BY <3>1 DEF NextCall, Through
    <3>2. CASE NoCall
      BY <3>2 DEF NoCall, memory, Through, Pointer
    <3> QED BY <2>1, <3>1, <3>2 DEF Ask
  <2>2. ASSUME NEW read \in BOOLEAN, NEW write \in BOOLEAN, NEW done \in BOOLEAN,
               NEW mem \in {{}} \cup {{a} : a \in Writable}, Edge(read, write, done, mem)
        PROVE  Through'
    <3>1. /\ device' = device \cup mem /\ mmu' = mmu /\ windows' = windows
          /\ host' = host \cup {AddrMap(mmu, a) : a \in mem}
      BY <2>2 DEF Edge, memory
    <3>2. ASSUME NEW a \in mem
          PROVE  \E i \in DOMAIN windows : \E k \in 0 .. windows[i].bytes - 1 : a = Pointer(i) + k
      <4>1. a \in Writable
        BY <3>2
      <4>2. PICK i \in DOMAIN windows :
               \E k \in 0 .. RoundUp(bench.args[i].size, bench.args[i].align) - 1 :
                 a = MapAddr(mmu, windows[i].src) + k
        BY <4>1 DEF Writable
      <4>3. windows = WindowsOf[bench] /\ bench \in Benches
        BY <4>2 DEF SetUp
      <4>4. windows[i].bytes = RoundUp(bench.args[i].size, bench.args[i].align)
        BY <4>2, <4>3, WindowIs
      <4> QED BY <4>2, <4>4 DEF Pointer
    <3>3. host' = {AddrMap(mmu', a) : a \in device'}
      <4>1. host = {AddrMap(mmu, a) : a \in device}
        BY DEF Through
      <4> QED BY <3>1, <4>1
    <3> QED BY <3>1, <3>2, <3>3 DEF Through, Pointer
  <2>3. CASE UNCHANGED vars
    BY <2>3 DEF Through, vars, memory, Pointer
  <2> QED BY <2>1, <2>2, <2>3 DEF Next, Finished
<1> QED BY <1>1, <1>2, SetUpHolds, PTL DEF Spec

\* A pointer is the first address of a segment that is mapped to the same
\* memory as the argument's, if not the argument's.
LEMMA PointerLeads ==
  ASSUME SetUp, SeparateMemories, NEW i \in DOMAIN windows
  PROVE  /\ Pointer(i) \in Nat
         /\ \A k \in 0 .. windows[i].bytes - 1 :
              AddrMap(mmu, Pointer(i) + k) = windows[i].src + k
<1> DEFINE all == AllOf(bench)
           w == windows[i]
           p == Pointer(i)
<1>1. /\ bench \in Benches /\ windows = WindowsOf[bench] /\ mmu = MappingOf[bench].map
  BY DEF SetUp
<1>2. Laid(all) /\ MapsTo(mmu, all, Len(all)) /\ WellFormed(mmu)
  BY <1>1, BenchLaid, BenchMaps DEF MapsTo
<1>3. PICK j \in 1 .. Len(all) : all[j] = w
  <2>1. bench.vars \in Seq(Segment) /\ windows \in Seq(Segment)
    BY <1>1, BenchLaid, BenchIs
  <2>2. all = bench.vars \o windows
    BY <1>1 DEF AllOf
  <2>3. Len(bench.vars) + i \in 1 .. Len(all) /\ all[Len(bench.vars) + i] = windows[i]
    <3> HIDE DEF all
    <3>1. Len(bench.vars) \in Nat /\ Len(windows) \in Nat /\ i \in 1 .. Len(windows)
      BY <2>1
    <3>2. Len(bench.vars \o windows) = Len(bench.vars) + Len(windows)
          /\ (bench.vars \o windows)[Len(bench.vars) + i] = windows[i]
      BY <2>1, <3>1
    <3> QED BY <2>2, <3>1, <3>2
  <2> QED BY <2>3
<1> HIDE DEF all, p
<1>4. \A l \in 1 .. Len(all) : /\ all[l].dst \in Nat /\ all[l].src \in Nat
                               /\ all[l].bytes \in Positive /\ all[l].src # all[l].dst
  <2>1. \A s \in Segment : s.dst \in Nat /\ s.src \in Nat /\ s.bytes \in Positive
    BY DEF Segment, Positive
  <2>2. \A l \in 1 .. Len(all) : all[l] \in Segment /\ all[l].src # all[l].dst
    BY <1>2 DEF Laid
  <2> QED BY <2>1, <2>2
<1>5. w.dst \in Nat /\ w.src \in Nat /\ w.bytes \in Positive /\ w.src # w.dst
  BY <1>3, <1>4
<1> HIDE DEF w
<1>6. Offset(mmu, w.dst) # Unmapped /\ Offset(mmu, w.dst) + w.dst = w.src
  <2>1. Within(w, w.dst)
    BY <1>5 DEF Within, Positive
  <2>2. Offset(mmu, w.dst) = w.src - w.dst
    BY <1>2, <1>3, <1>5, <2>1 DEF MapsTo
  <2> QED BY <1>5, <2>2 DEF Unmapped
<1>7. p \in Nat /\ Offset(mmu, p) # Unmapped /\ Offset(mmu, p) + p = w.src
  BY <1>2, <1>5, <1>6, MapAddrIs DEF p, Pointer, w
<1>8. PICK l \in 1 .. Len(all) : Within(all[l], p)
  BY <1>2, <1>7 DEF MapsTo
<1> DEFINE s == all[l]
<1>9. s.dst \in Nat /\ s.src \in Nat /\ s.bytes \in Nat /\ s.dst <= p /\ p < s.dst + s.bytes
      /\ w.src = s.src + (p - s.dst)
  <2>1. Offset(mmu, p) = s.src - s.dst
    BY <1>2, <1>7, <1>8 DEF MapsTo
  <2> QED BY <1>4, <1>7, <1>8, <2>1 DEF Within, Positive
<1>10. s.src = w.src /\ s.bytes = w.bytes
  <2>1. \/ s.src = w.src /\ s.bytes = w.bytes
        \/ Memory(s.src, s.bytes) \cap Memory(w.src, w.bytes) = {}
    <3>1. DOMAIN all = 1 .. Len(all)
      BY <1>2 DEF Laid
    <3> QED BY <1>1, <1>3, <3>1 DEF SeparateMemories, AllOf, all
  <2> HIDE DEF s
  <2>2. w.src \in Memory(s.src, s.bytes)
    <3>1. p - s.dst \in 0 .. s.bytes - 1
      BY <1>7, <1>9
    <3> QED BY <1>9, <3>1 DEF Memory
  <2>3. w.src \in Memory(w.src, w.bytes)
    BY <1>5 DEF Memory, Positive
  <2> QED BY <2>1, <2>2, <2>3
<1>11. ASSUME NEW k \in 0 .. w.bytes - 1
       PROVE  AddrMap(mmu, p + k) = w.src + k
  <2>1. p = s.dst /\ p + k \in Nat
    <3> HIDE DEF s
    <3> QED BY <1>5, <1>7, <1>9, <1>10 DEF Positive
  <2>2. Within(s, p + k)
    <3> HIDE DEF s
    <3> QED BY <1>5, <1>9, <1>10, <2>1 DEF Within, Positive
  <2>3. AddrMap(mmu, p + k) = s.src + ((p + k) - s.dst)
    BY <1>2, <2>1, <2>2, LeadsTo
  <2> HIDE DEF s
  <2> QED BY <1>5, <1>7, <1>9, <1>10, <2>1, <2>3
<1> QED BY <1>7, <1>11 DEF p, w

\* The windows themselves.
LEMMA WindowsApart ==
  ASSUME SetUp, SeparateMemories, NEW i \in DOMAIN windows, NEW j \in DOMAIN windows
  PROVE  \/ windows[i].src = windows[j].src /\ windows[i].bytes = windows[j].bytes
         \/ Memory(windows[i].src, windows[i].bytes)
              \cap Memory(windows[j].src, windows[j].bytes) = {}
<1>1. bench \in Benches /\ windows = WindowsOf[bench]
  BY DEF SetUp
<1>2. /\ bench.vars \in Seq(Segment) /\ windows \in Seq(Segment)
      /\ Len(bench.vars) \in Nat /\ Len(windows) \in Nat
  BY <1>1, BenchLaid, BenchIs
<1> DEFINE all == bench.vars \o windows
           n == Len(bench.vars)
<1>3. \A k \in DOMAIN windows : n + k \in DOMAIN all /\ all[n + k] = windows[k]
  BY <1>2
<1> HIDE DEF all
<1>4. \A k, l \in DOMAIN all :
             \/ all[k].src = all[l].src /\ all[k].bytes = all[l].bytes
             \/ Memory(all[k].src, all[k].bytes) \cap Memory(all[l].src, all[l].bytes) = {}
  BY <1>1 DEF SeparateMemories, all
<1> HIDE DEF n
<1> QED BY <1>3, <1>4

\* What the memory of the C testbench holds of an argument, or of its copy.
LEMMA HostIs ==
  ASSUME SetUp, Through, SeparateMemories
  PROVE  /\ host \subseteq UNION {Memory(windows[i].src, windows[i].bytes) : i \in DOMAIN windows}
         /\ \A i \in DOMAIN windows : \A k \in 0 .. windows[i].bytes - 1 :
              windows[i].src + k \in host <=> Pointer(i) + k \in device
<1>0. ASSUME NEW i \in DOMAIN windows
      PROVE  windows[i].src \in Nat /\ windows[i].bytes \in Nat
  <2>1. windows[i] \in Segment
    BY <1>0, MapOfCall
  <2> QED BY <2>1 DEF Segment, Positive
<1>1. ASSUME NEW h \in host
      PROVE  \E j \in DOMAIN windows : \E l \in 0 .. windows[j].bytes - 1 :
               h = windows[j].src + l /\ Pointer(j) + l \in device
  <2>1. PICK a \in device : h = AddrMap(mmu, a)
    BY <1>1 DEF Through
  <2>2. PICK j \in DOMAIN windows : \E l \in 0 .. windows[j].bytes - 1 : a = Pointer(j) + l
    BY <2>1 DEF Through
  <2>3. PICK l \in 0 .. windows[j].bytes - 1 : a = Pointer(j) + l
    BY <2>2
  <2>4. h = windows[j].src + l
    BY <2>1, <2>3, PointerLeads
  <2> QED BY <2>1, <2>3, <2>4
<1>2. host \subseteq UNION {Memory(windows[i].src, windows[i].bytes) : i \in DOMAIN windows}
  BY <1>1 DEF Memory
<1>3. ASSUME NEW i \in DOMAIN windows, NEW k \in 0 .. windows[i].bytes - 1,
             Pointer(i) + k \in device
      PROVE  windows[i].src + k \in host
  <2>1. AddrMap(mmu, Pointer(i) + k) = windows[i].src + k
    BY PointerLeads
  <2> QED BY <1>3, <2>1 DEF Through
<1>4. ASSUME NEW i \in DOMAIN windows, NEW k \in 0 .. windows[i].bytes - 1,
             windows[i].src + k \in host
      PROVE  Pointer(i) + k \in device
  <2>1. PICK j \in DOMAIN windows : \E l \in 0 .. windows[j].bytes - 1 :
               windows[i].src + k = windows[j].src + l /\ Pointer(j) + l \in device
    BY <1>1, <1>4
  <2>2. PICK l \in 0 .. windows[j].bytes - 1 :
               windows[i].src + k = windows[j].src + l /\ Pointer(j) + l \in device
    BY <2>1
  <2>3. windows[i].src = windows[j].src
    BY <2>2, WindowsApart DEF Memory
  <2>4. k = l
    BY <1>0, <2>2, <2>3
  <2> QED BY <2>2, <2>3, <2>4 DEF Pointer
<1> QED BY <1>2, <1>3, <1>4

CopiedUpTo(c, n) ==
  c = [i \in 0 .. n |->
        IF i = 0 THEN host
        ELSE LET a == bench.args[i]
                 bytes == 0 .. a.size - 1
             IN  IF windows[i].src = a.addr THEN c[i - 1]
                 ELSE (c[i - 1] \ {a.addr + k : k \in bytes})
                      \cup {a.addr + k : k \in {j \in bytes : windows[i].src + j \in host}}]

\* Copied is defined by recursion: it exists.
LEMMA CopiedSteps ==
  ASSUME Len(windows) \in Nat
  PROVE  CopiedUpTo(Copied, Len(windows))
<1> DEFINE Step(x, i) ==
             LET a == bench.args[i]
                 bytes == 0 .. a.size - 1
             IN  IF windows[i].src = a.addr THEN x
                 ELSE (x \ {a.addr + k : k \in bytes})
                      \cup {a.addr + k : k \in {j \in bytes : windows[i].src + j \in host}}
           S == {n \in Nat : \E c : CopiedUpTo(c, n)}
<1> HIDE DEF Step
<1>0. \A c, n : CopiedUpTo(c, n) <=>
        c = [i \in 0 .. n |-> IF i = 0 THEN host ELSE Step(c[i - 1], i)]
  BY DEF CopiedUpTo, Step
<1>1. 0 \in S
  <2> DEFINE c == [k \in 0 .. 0 |-> host]
  <2>1. c = [i \in 0 .. 0 |-> IF i = 0 THEN host ELSE Step(c[i - 1], i)]
    OBVIOUS
  <2> HIDE DEF c
  <2> QED BY <1>0, <2>1
<1>2. ASSUME NEW n \in Nat, n \in S PROVE n + 1 \in S
  <2>1. PICK c : c = [i \in 0 .. n |-> IF i = 0 THEN host ELSE Step(c[i - 1], i)]
    BY <1>0, <1>2
  <2> DEFINE C == [k \in 0 .. (n + 1) |-> IF k = n + 1 THEN Step(c[n], n + 1) ELSE c[k]]
  <2>2. \A k \in 0 .. (n + 1) : C[k] = IF k = 0 THEN host ELSE Step(C[k - 1], k)
    BY <2>1
  <2>3. C = [k \in 0 .. (n + 1) |-> IF k = 0 THEN host ELSE Step(C[k - 1], k)]
    BY <2>2, Zenon
  <2> HIDE DEF C
  <2>4. CopiedUpTo(C, n + 1)
    BY <1>0, <2>3, Zenon
  <2> QED BY <2>4
<1> HIDE DEF S
<1>3. Len(windows) \in S
  BY <1>1, <1>2, Induct
<1>4. \E c : CopiedUpTo(c, Len(windows))
  BY <1>3 DEF S
<1> QED BY <1>4, Zenon DEF Copied, CopiedUpTo

\* Byte k of argument i, after the copies of the first n have been copied back.
LEMMA CopiedIs ==
  ASSUME SetUp, SeparateMemories, NEW i \in DOMAIN windows,
         NEW k \in 0 .. bench.args[i].size - 1
  PROVE  bench.args[i].addr + k \in CopiedBack <=> windows[i].src + k \in host
<1> DEFINE c == Copied
           byte == bench.args[i].addr + k
           copied == windows[i].src # bench.args[i].addr
           P(n) == byte \in c[n] <=> IF copied /\ i <= n THEN windows[i].src + k \in host
                                     ELSE byte \in host
           S == {n \in Nat : n <= Len(windows) => P(n)}
<1>0. /\ bench \in Benches /\ windows = WindowsOf[bench]
      /\ windows \in Seq(Segment) /\ Len(windows) \in Nat /\ DOMAIN windows = 1 .. Len(windows)
  <2>1. bench \in Benches /\ windows = WindowsOf[bench]
    BY DEF SetUp
  <2>2. windows \in Seq(Segment)
    BY <2>1, BenchLaid
  <2> QED BY <2>1, <2>2
<1>1. CopiedUpTo(c, Len(windows))
  BY <1>0, CopiedSteps
<1> HIDE DEF c
<1>2. /\ c[0] = host
      /\ \A j \in 1 .. Len(windows) :
           LET a == bench.args[j]
               bytes == 0 .. a.size - 1
           IN  c[j] = IF windows[j].src = a.addr THEN c[j - 1]
                 ELSE (c[j - 1] \ {a.addr + l : l \in bytes})
                      \cup {a.addr + l : l \in {x \in bytes : windows[j].src + x \in host}}
  <2>1. c = [j \in 0 .. Len(windows) |->
        IF j = 0 THEN host
        ELSE LET a == bench.args[j]
                 bytes == 0 .. a.size - 1
             IN  IF windows[j].src = a.addr THEN c[j - 1]
                 ELSE (c[j - 1] \ {a.addr + l : l \in bytes})
                      \cup {a.addr + l : l \in {x \in bytes : windows[j].src + x \in host}}]
    BY <1>1, Zenon DEF CopiedUpTo
  <2>2. 0 \in 0 .. Len(windows)
        /\ \A j \in 1 .. Len(windows) : j \in 0 .. Len(windows) /\ j # 0
    BY <1>0
  <2> QED BY <2>1, <2>2
<1>3. 0 \in S
  <2>1. ~(i <= 0)
    BY <1>0
  <2> QED BY <1>2, <2>1
<1>4. ASSUME NEW n \in Nat, n \in S PROVE n + 1 \in S
  <2> SUFFICES ASSUME n + 1 <= Len(windows) PROVE P(n + 1)
    OBVIOUS
  <2> DEFINE j == n + 1
             a == bench.args[j]
             mine == Memory(a.addr, a.size)
             back == {a.addr + l : l \in {x \in 0 .. a.size - 1 : windows[j].src + x \in host}}
  <2>1. P(n) /\ j \in DOMAIN windows /\ j - 1 = n
    BY <1>0, <1>4
  <2>2. c[j] = IF windows[j].src = a.addr THEN c[n] ELSE (c[n] \ mine) \cup back
    BY <1>0, <1>2, <2>1 DEF Memory
  <2>3. back \subseteq mine
    BY DEF Memory
  <2>4. byte \in Memory(bench.args[i].addr, bench.args[i].size)
    BY DEF Memory
  <2>5. i \in DOMAIN bench.args /\ j \in DOMAIN bench.args /\ a.addr \in Nat
    BY <1>0, <2>1, WindowIs DEF Positive
  <2>6. CASE windows[j].src = a.addr
    <3>1. c[j] = c[n] /\ (copied => i # j)
      BY <2>2, <2>6
    <3>2. copied => (i <= j <=> i <= n)
      BY <1>0, <3>1
    <3> HIDE DEF byte, copied
    <3> QED BY <2>1, <3>1, <3>2
  <2>7. CASE windows[j].src # a.addr /\ i # j
    <3>1. byte \notin mine
      BY <1>0, <2>4, <2>5, <2>7 DEF SeparateMemories
    <3>2. i <= j <=> i <= n
      BY <1>0, <2>7
    <3> HIDE DEF byte, copied, mine, back
    <3> QED BY <2>1, <2>2, <2>3, <2>7, <3>1, <3>2
  <2>8. CASE windows[j].src # a.addr /\ i = j
    <3>1. byte \in mine
      BY <2>4, <2>8
    <3>2. byte \in back <=> windows[i].src + k \in host
      BY <2>5, <2>8
    <3>3. copied /\ i <= j
      BY <2>8
    <3> HIDE DEF byte, copied, mine, back
    <3> QED BY <2>2, <2>8, <3>1, <3>2, <3>3
  <2> QED BY <2>6, <2>7, <2>8
<1> HIDE DEF S
<1>5. Len(windows) \in S
  BY <1>0, <1>3, <1>4, Induct
<1>6. P(Len(windows)) /\ i <= Len(windows)
  BY <1>0, <1>5 DEF S
<1> HIDE DEF byte
<1>7. byte \in c[Len(windows)] <=> windows[i].src + k \in host
  BY <1>6 DEF byte
<1> QED BY <1>7 DEF CopiedBack, c, byte

(* When a run is over, every argument holds what the design wrote through    *)
(* any of the pointers to it, and nothing else has been written: mapaddr     *)
(* gave each pointer an address whose segment leads to its memory, and the   *)
(* copies are copied back whole, for any number of arguments and any sizes,  *)
(* where the memories are separate.                                          *)
THEOREM ArgumentsAreWritten ==
  ASSUME SeparateMemories
  PROVE  Spec => []ArgumentsHold
<1>1. SetUp /\ Through => ArgumentsHold
  <2> SUFFICES ASSUME SetUp, Through PROVE ArgumentsHold
    OBVIOUS
  <2> DEFINE bytes(i) == {k \in 0 .. bench.args[i].size - 1 : TRUE}
             written(i) == {k \in bytes(i) : MapAddr(mmu, windows[i].src) + k \in device}
             mapped == UNION {{windows[i].src + k : k \in 0 .. windows[i].bytes - 1} :
                              i \in DOMAIN windows}
             memoryOf(i) == {bench.args[i].addr + k : k \in bytes(i)}
             all == UNION {{bench.args[j].addr + k : k \in written(j)} : j \in DOMAIN windows}
  <2>1. host \subseteq mapped
    BY HostIs DEF Memory
  <2>2. ASSUME NEW i \in DOMAIN windows
        PROVE  /\ bench \in Benches /\ windows = WindowsOf[bench] /\ i \in DOMAIN bench.args
               /\ bench.args[i].addr \in Nat /\ bench.args[i].size \in Nat
               /\ windows[i].bytes \in Nat /\ bench.args[i].size <= windows[i].bytes
               /\ windows[i].src # bench.args[i].addr \/ windows[i].src = bench.args[i].addr
    <3>1. bench \in Benches /\ windows = WindowsOf[bench]
      BY DEF SetUp
    <3>2. windows[i].bytes \in Nat
      <4>1. windows[i] \in Segment
        BY <3>1, WindowIs
      <4> QED BY <4>1 DEF Segment, Positive
    <3> QED BY <3>1, <3>2, WindowIs DEF Positive
  <2>3. ASSUME NEW i \in DOMAIN windows, NEW k \in bytes(i)
        PROVE  bench.args[i].addr + k \in CopiedBack <=> k \in written(i)
    <3>1. bench.args[i].addr + k \in CopiedBack <=> windows[i].src + k \in host
      BY CopiedIs
    <3>2. k \in 0 .. windows[i].bytes - 1
      BY <2>2
    <3>3. windows[i].src + k \in host <=> Pointer(i) + k \in device
      BY <3>2, HostIs
    <3> QED BY <3>1, <3>3 DEF Pointer
  <2>4. ASSUME NEW i \in DOMAIN windows, NEW k \in bytes(i), bench.args[i].addr + k \in all
        PROVE  k \in written(i)
    <3>1. PICK j \in DOMAIN windows : \E l \in written(j) :
            bench.args[i].addr + k = bench.args[j].addr + l
      BY <2>4
    <3>2. PICK l \in written(j) : bench.args[i].addr + k = bench.args[j].addr + l
      BY <3>1
    <3>3. /\ bench.args[i].addr + k \in Memory(bench.args[i].addr, bench.args[i].size)
          /\ bench.args[j].addr + l \in Memory(bench.args[j].addr, bench.args[j].size)
      BY DEF Memory
    <3>4. CASE i = j
      <4>1. k = l
        BY <2>2, <3>2, <3>4
      <4> QED BY <3>4, <4>1
    <3>5. CASE i # j
      <4>1. windows[i].src = bench.args[i].addr /\ windows[j].src = bench.args[j].addr
        BY <2>2, <3>2, <3>3, <3>5 DEF SeparateMemories
      <4>2. k \in 0 .. windows[i].bytes - 1 /\ l \in 0 .. windows[j].bytes - 1
        BY <2>2
      <4>3. /\ windows[i].src + k \in Memory(windows[i].src, windows[i].bytes)
            /\ windows[i].src + k \in Memory(windows[j].src, windows[j].bytes)
        BY <3>2, <4>1, <4>2 DEF Memory
      <4>4. windows[i].src = windows[j].src
        BY <4>3, WindowsApart
      <4>5. k = l
        BY <2>2, <3>2, <4>1, <4>4
      <4> QED BY <4>4, <4>5
    <3> QED BY <3>4, <3>5
  <2>5. ASSUME NEW i \in DOMAIN windows
        PROVE  CopiedBack \cap memoryOf(i) = all \cap memoryOf(i)
    <3>1. ASSUME NEW k \in bytes(i)
          PROVE  bench.args[i].addr + k \in CopiedBack <=> bench.args[i].addr + k \in all
      <4>1. k \in written(i) => bench.args[i].addr + k \in all
        OBVIOUS
      <4> HIDE DEF all, written
      <4> QED BY <2>3, <2>4, <4>1
    <3> HIDE DEF all, bytes
    <3> QED BY <3>1
  <2>6. host \subseteq mapped
        /\ \A i \in DOMAIN windows : CopiedBack \cap memoryOf(i) = all \cap memoryOf(i)
    <3> HIDE DEF mapped, memoryOf, all
    <3> QED BY <2>1, <2>5
  <2> QED BY <2>6 DEF ArgumentsHold
<1> QED BY <1>1, SetUpHolds, ThroughHolds, PTL
=============================================================================
