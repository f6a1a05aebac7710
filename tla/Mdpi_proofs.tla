----------------------------- MODULE Mdpi_proofs -----------------------------
(* Two invariants of the co-simulation protocol.  Safe holds however the    *)
(* processes end: it ties what the simulator is told to what became of the  *)
(* testbench.  Whole holds as long as neither ends before its time: the     *)
(* state of the handle tells which thread may work on the operation.  Both  *)
(* hold for every number of calls and of accesses, and every set of         *)
(* interfaces.                                                              *)
EXTENDS Mdpi, TLAPS

\* The places of a thread in __ipc_exit and after it: it never comes back.
Leaving == {"load", "exchange", "write", "store", "noticed", "kill", "reap", "reaping"}

Exchanging == {"request", "requested", "wait", "read"}

Left == pc["main"] \in Leaving \/ pc["loop"] \in Leaving

\* There is an IPC thread only while main runs the golden function or waits for
\* it to be joined, or after main has left them for good.
Ordered ==
  /\ pc["main"] \in {"start", "setup", "respond", "responded", "golden", "join", "end"} =>
       calls > 0
  /\ pc["loop"] # "done" => pc["main"] \in {"golden", "join"} \cup Leaving

\* The operation stays of the type the simulator asked for, and a thread of the
\* testbench that has reported the end has left: nobody overwrites the report.
Told ==
  /\ (pc["sim"] \in {"reserve", "fill"} \cup Exchanging /\ req.type = "STATE") =>
       phase = "ready" /\ req.head = READY
  /\ (pc["sim"] \in Exchanging /\ req.type = "STATE") =>
       /\ op.type = "STATE" /\ op.head \in {READY, SETUP, END, ABORT}
       /\ op.head \in {END, ABORT} => Left
  /\ phase \in {"ended", "aborted"} =>
       /\ pc["sim"] \in {"release", "released", "idle"} /\ req.type = "STATE"
       /\ op.type = "STATE" /\ op.head \in {END, ABORT} /\ Left

Safe == TypeOK /\ Ordered /\ Told

-----------------------------------------------------------------------------
\* However a thread dies: __m_sig_handler, exit() and the destructor.
LEMMA DieKeeps ==
  ASSUME Safe, UNCHANGED scenario, NEW t \in Threads, Die(t), pc[t] # "done",
         UNCHANGED <<ipc, seen, design, calls>>
  PROVE  Safe'
<1> USE DEF Safe, TypeOK, Ordered, Told, Left, Labels, Operation, Exchanging, Leaving,
            Threads, ipc, ending, procs, design, Alive, RemoteAlive, At, Goto,
            Calls, Registered, Used, Faults, Stops, Debug
<1>1. CASE t = "sim"
  BY <1>1 DEF Die
<1>2. CASE t # "sim"
  <2>1. /\ code' = "failure" /\ UNCHANGED sim
        /\ \/ \E why \in {"report", "destroy"} :
                 plan' = [plan EXCEPT ![t] = why] /\ pc' = [pc EXCEPT ![t] = "load"]
                   /\ UNCHANGED driver
           \/ driver' = "ended" /\ UNCHANGED <<pc, plan>>
    BY <1>2 DEF Die, Close
  <2>2. child' \in BOOLEAN
    BY <1>2, Zenon DEF Die
  <2> QED
    BY <1>2, <2>1, <2>2
<1> QED
  BY <1>1, <1>2

\* __ipc_exit and what follows it, in whichever thread.
LEMMA ClosingKeeps ==
  ASSUME Safe, UNCHANGED scenario, NEW t \in Threads,
         Closing(t) \/ (Exiting(t) /\ t # "sim")
  PROVE  Safe'
<1> USE DEF Safe, TypeOK, Ordered, Told, Left, Labels, Operation, Exchanging, Leaving,
            Threads, ipc, ending, procs, design, Alive, RemoteAlive, At, Goto,
            Calls, Registered, Used, Faults, Stops, Debug
<1>1. CASE Load(t)
  BY <1>1 DEF Load
<1>2. CASE Exchange(t)
  BY <1>2 DEF Exchange
<1>3. CASE Write(t)
  BY <1>3 DEF Write, READY, SETUP, END, ABORT
<1>4. CASE Store(t)
  BY <1>4 DEF Store
<1>5. CASE NotifyFails(t, "noticed")
  BY <1>5, DieKeeps DEF NotifyFails
<1>6. CASE Leave(t)
  BY <1>6 DEF Leave, Close
<1>7. CASE Kill(t)
  BY <1>7 DEF Kill, Close
<1>8. CASE Forget(t) /\ t # "sim"
  <2>1. /\ t # "sim" /\ pc[t] = "reap"
        /\ \/ pc' = [pc EXCEPT ![t] = "reaping"] /\ UNCHANGED driver
           \/ driver' = "ended" /\ UNCHANGED pc
        /\ UNCHANGED <<ipc, ending, sim, code, design, calls>>
    BY <1>8 DEF Forget
  <2>2. child' \in BOOLEAN
    BY <1>8, Zenon DEF Forget
  <2> QED
    BY <2>1, <2>2
<1>9. CASE Reap(t)
  BY <1>9 DEF Reap
<1> QED
  BY <1>1, <1>2, <1>3, <1>4, <1>5, <1>6, <1>7, <1>8, <1>9 DEF Closing, Exiting

\* Every step of the simulator.
LEMMA SimSafe ==
  ASSUME Safe, UNCHANGED scenario, Sim
  PROVE  Safe'
<1> USE DEF Safe, TypeOK, Ordered, Told, Left, Labels, Operation, Exchanging, Leaving,
            Threads, ipc, ending, procs, design, Alive, RemoteAlive, At, Goto,
            Calls, Registered, Used, Faults, Stops, Debug
<1>1. CASE \E r \in Requests : Ask(r)
  <2>1. PICK r \in Requests : Ask(r)
    BY <1>1
  <2>2. CASE phase = "ready"
    BY <2>1, <2>2 DEF Requests, Ask, READY, SETUP, END, ABORT
  <2>3. CASE phase = "running"
    <3>1. /\ r.type \in {"IF", "EXIT"} /\ r.head \in 0 .. 255
          /\ r = [type |-> r.type, head |-> r.head]
      BY <2>1, <2>3, ScenariosAssumption DEF Requests, EMPTY
    <3>2. accesses' \in 0 .. Accesses
      BY <2>1, <2>3, BoundsAssumption DEF Requests, Ask
    <3> QED
      BY <2>1, <2>3, <3>1, <3>2 DEF Ask
  <2> QED
    BY <2>1, <2>2, <2>3 DEF Requests
<1>2. CASE Done
  BY <1>2 DEF Done
<1>3. CASE Timeout
  BY <1>3 DEF Timeout, Close
<1>4. CASE Fini
  BY <1>4, DieKeeps DEF Fini, Fail, Check
<1>5. CASE Reserve
  BY <1>5 DEF Reserve
<1>6. CASE Fill
  BY <1>6 DEF Fill, READY, SETUP, END, ABORT
<1>7. CASE Commit("sim", "request", "LOCKED", "REQUEST", "requested")
  BY <1>7, DieKeeps DEF Commit, Fail, Check
<1>8. CASE NotifyFails("sim", "requested")
  BY <1>8 DEF NotifyFails, Die
<1>9. CASE NotifyFails("sim", "released")
  BY <1>9 DEF NotifyFails, Die
<1>10. CASE Notify("sim", "requested", "wait")
  BY <1>10 DEF Notify
<1>11. CASE Wait("sim", "wait", "RESPONSE", "read")
  BY <1>11 DEF Wait
<1>12. CASE Read
  BY <1>12 DEF Read, Accepted, PhaseAfter, READY, SETUP, END, ABORT, EMPTY, Die
<1>13. CASE Release
  BY <1>13 DEF Release
<1>14. CASE Resume
  BY <1>14 DEF Resume, Close
<1>15. CASE Closing("sim")
  BY <1>15, ClosingKeeps
<1> QED
  BY <1>1, <1>2, <1>3, <1>4, <1>5, <1>6, <1>7, <1>8, <1>9, <1>10, <1>11, <1>12,
     <1>13, <1>14, <1>15 DEF Sim

\* Every step of the main thread of the testbench.
LEMMA MainSafe ==
  ASSUME Safe, UNCHANGED scenario, Main
  PROVE  Safe'
<1> USE DEF Safe, TypeOK, Ordered, Told, Left, Labels, Operation, Exchanging, Leaving,
            Threads, ipc, ending, procs, design, Alive, RemoteAlive, At, Goto,
            Calls, Registered, Used, Faults, Stops, Debug
<1>1. CASE Call
  BY <1>1 DEF Call, Close
<1>2. CASE Wait("main", "start", "REQUEST", "setup")
  BY <1>2 DEF Wait
<1>3. CASE Setup
  BY <1>3, DieKeeps DEF Setup, Fail, Check, READY, SETUP, END, ABORT
<1>4. CASE Commit("main", "respond", "REQUEST", "RESPONSE", "responded")
  BY <1>4, DieKeeps DEF Commit, Fail, Check
<1>5. CASE NotifyFails("main", "responded")
  BY <1>5, DieKeeps DEF NotifyFails
<1>6. CASE Launch
  BY <1>6 DEF Launch
<1>7. CASE Golden
  BY <1>7 DEF Golden, Close
<1>8. CASE Join
  BY <1>8 DEF Join
<1>9. CASE SimEnd
  <2>1. CASE Fail("main", op.type = "STATE")
    BY <1>9, <2>1, DieKeeps DEF SimEnd, Fail
  <2>2. ASSUME UNCHANGED <<ipc, seen, procs, design>>, Goto("main", "call"), calls' = calls - 1,
               UNCHANGED plan
        PROVE  Safe'
    <3>1. calls' \in 0 .. Calls /\ pc["main"] = "end"
      BY <1>9, <2>2, ScenariosAssumption DEF SimEnd
    <3> QED
      BY <2>2, <3>1
  <2>3. ASSUME UNCHANGED <<ipc, seen, procs, design>>, Close("main", "abort"), UNCHANGED calls
        PROVE  Safe'
    BY <2>3 DEF Close
  <2> QED
    BY <1>9, <2>1, <2>2, <2>3 DEF SimEnd
<1>10. CASE SigChild
  <2>1. /\ \/ UNCHANGED <<code, driver, pc, plan>>
           \/ code' = "failure" /\ driver' = "ended" /\ UNCHANGED <<pc, plan>>
           \/ /\ code' = "failure" /\ UNCHANGED driver
              /\ plan' = [plan EXCEPT !["main"] = "destroy"] /\ pc' = [pc EXCEPT !["main"] = "load"]
        /\ UNCHANGED <<ipc, seen, sim, design, calls>>
    BY <1>10 DEF SigChild, Close
  <2>2. child' \in BOOLEAN
    BY <1>10, Zenon DEF SigChild
  <2> QED
    BY <2>1, <2>2
<1>11. CASE Exiting("main")
  BY <1>11, ClosingKeeps
<1> QED
  BY <1>1, <1>2, <1>3, <1>4, <1>5, <1>6, <1>7, <1>8, <1>9, <1>10, <1>11 DEF Main

\* Every step of the IPC thread.
LEMMA LoopSafe ==
  ASSUME Safe, UNCHANGED scenario, Loop
  PROVE  Safe'
<1> USE DEF Safe, TypeOK, Ordered, Told, Left, Labels, Operation, Exchanging, Leaving,
            Threads, ipc, ending, procs, design, Alive, RemoteAlive, At, Goto,
            Calls, Registered, Used, Faults, Stops, Debug
<1>1. CASE Wait("loop", "serve", "REQUEST", "switch")
  BY <1>1 DEF Wait
<1>2. CASE Serve
  <2>1. CASE op.type = "STATE"
    BY <1>2, <2>1 DEF Serve
  <2>2. CASE op.type = "IF"
    <3>1. Answer(op.head) \in 0 .. 255
      BY ScenariosAssumption DEF Answer, EMPTY, OUT_OF_BOUNDS
    <3>2. /\ pc["loop"] = "switch" /\ pc' = [pc EXCEPT !["loop"] = "respond"]
          /\ op' = [op EXCEPT !.head = Answer(op.head), !.info = "served"]
          /\ UNCHANGED <<handle, ending, procs, design, calls>>
      BY <1>2, <2>2 DEF Serve
    <3>3. op' \in Operation /\ op'.type = "IF"
      BY <2>2, <3>1, <3>2
    <3>4. ~(pc["sim"] \in Exchanging /\ req.type = "STATE") /\ phase \notin {"ended", "aborted"}
      BY <2>2
    <3>5. TypeOK'
      BY <3>2, <3>3
    <3>6. Ordered'
      BY <3>2
    <3>7. Told'
      BY <3>2, <3>4
    <3> QED
      BY <3>5, <3>6, <3>7
  <2>3. CASE op.type = "EXIT"
    <3>1. /\ pc["loop"] = "switch" /\ pc' = [pc EXCEPT !["loop"] = "respond_last"]
          /\ op' = [op EXCEPT !.head = EMPTY, !.info = "served"]
          /\ UNCHANGED <<handle, ending, procs, design, calls>>
      BY <1>2, <2>3 DEF Serve
    <3>2. op' \in Operation /\ op'.type = "EXIT"
      <4>1. op \in Operation /\ EMPTY \in 0 .. 255
        BY DEF EMPTY
      <4> HIDE DEF Safe
      <4> QED
        BY <2>3, <3>1, <4>1
    <3>3. ~(pc["sim"] \in Exchanging /\ req.type = "STATE") /\ phase \notin {"ended", "aborted"}
      BY <2>3
    <3>4. TypeOK'
      BY <3>1, <3>2
    <3>5. Ordered'
      BY <3>1
    <3>6. Told'
      BY <3>1, <3>3
    <3> QED
      BY <3>4, <3>5, <3>6
  <2> QED
    BY <1>2, <2>1, <2>2, <2>3 DEF Serve
<1>3. CASE ServeFails
  BY <1>3, DieKeeps DEF ServeFails
<1>4. CASE Commit("loop", "respond", "REQUEST", "RESPONSE", "answered")
  BY <1>4, DieKeeps DEF Commit, Fail, Check
<1>5. CASE Commit("loop", "respond_last", "REQUEST", "RESPONSE", "answered_last")
  BY <1>5, DieKeeps DEF Commit, Fail, Check
<1>6. CASE NotifyFails("loop", "answered")
  BY <1>6, DieKeeps DEF NotifyFails
<1>7. CASE NotifyFails("loop", "answered_last")
  BY <1>7, DieKeeps DEF NotifyFails
<1>8. CASE Notify("loop", "answered", "serve")
  BY <1>8 DEF Notify
<1>9. CASE Notify("loop", "answered_last", "done")
  BY <1>9 DEF Notify
<1>10. CASE Exiting("loop")
  BY <1>10, ClosingKeeps
<1> QED
  BY <1>1, <1>2, <1>3, <1>4, <1>5, <1>6, <1>7, <1>8, <1>9, <1>10 DEF Loop

-----------------------------------------------------------------------------
(* The second invariant.  The state of the handle tells who may touch the   *)
(* operation: each part ties it to the places of the threads.               *)
Sent == {"requested", "wait"}

Between == {"idle", "reserve", "released"}

Serving == {"responded", "golden", "join"}

Calling == {"call", "start", "setup", "respond", "end"} \cup Serving

\* Without a fault nothing is aborted and no exit is requested.
Types ==
  /\ handle \in {"FREE", "LOCKED", "REQUEST", "RESPONSE"}
  /\ pc \in [Threads -> Labels] /\ plan \in [Threads -> {"none", "report", "destroy"}]
  /\ seen \in [Threads -> {"FREE", "LOCKED", "REQUEST", "RESPONSE"}]
  /\ op \in [type : {"NONE", "STATE", "IF"}, head : 0 .. 255,
             info : {"none", "asked", "served"}]
  /\ req \in [type : {"STATE", "IF"}, head : 0 .. 255]
  /\ phase \in {"ready", "running", "ended"}
  /\ sim \in {"running", "exited"} /\ driver \in {"running", "ended"}
  /\ runs \in Nat /\ calls \in Nat /\ calls <= Calls /\ accesses \in Nat
  /\ req.type = "IF" => req.head \in Used
  /\ req.type = "STATE" => req.head = READY

(* Only main ever leaves, after the last call; then the simulator waits for *)
(* an answer, or has got the report of the end.                            *)
Roles ==
  /\ pc["sim"] \in Between \cup Sent \cup {"fill", "request", "read", "release"}
  /\ plan["sim"] = "none" /\ plan["loop"] = "none"
  /\ pc["loop"] \in {"serve", "switch", "respond", "answered", "done"}
  /\ pc["loop"] # "done" => pc["main"] \in {"golden", "join"}
  /\ IF plan["main"] = "none"
     THEN pc["main"] \in Calling /\ sim = "running" /\ driver = "running"
     ELSE pc["main"] \in Leaving /\ pc["loop"] = "done" /\ calls = 0
  /\ pc["main"] \in Calling \ {"call"} => calls > 0
  /\ plan["main"] = "report" => sim = "exited"
  /\ pc["main"] = "kill" => plan["main"] = "report"
  /\ driver = "ended" => sim = "exited"
  /\ ~child => sim = "exited" \/ pc["main"] = "reaping"
  /\ sim = "exited" => phase = "ended"

(* Where the simulator is, the handle says.                                *)
SimHolds ==
  sim = "running" =>
    /\ pc["sim"] \in Between => handle = "FREE"
    /\ pc["sim"] \in {"fill", "request"} => handle = "LOCKED"
    /\ pc["sim"] \in {"read", "release"} => handle = "RESPONSE"
    /\ pc["sim"] \in Sent =>
         \/ handle \in {"REQUEST", "RESPONSE"}
         \/ handle = "LOCKED" /\ pc["main"] \in {"write", "store"}

(* The operation holds what was asked until somebody answers it.           *)
Asked ==
  sim = "running" =>
    /\ (pc["sim"] = "request" \/ (pc["sim"] \in Sent /\ handle = "REQUEST")) =>
         /\ op.type = req.type
         /\ (pc["loop"] # "respond" /\ pc["main"] # "respond") =>
              op.info = "asked" /\ op.head = req.head
    /\ (pc["sim"] \in Sent \cup {"read"} /\ handle = "RESPONSE") =>
         /\ op.type = req.type
         /\ req.type = "IF" => op.info = "served" /\ op.head = Answer(req.head)
         /\ req.type = "STATE" => op.head = (IF plan["main"] = "none" THEN SETUP ELSE END)

(* The IPC thread and main touch the operation of a pending request only.  *)
Served ==
  /\ pc["loop"] \in {"switch", "respond"} => handle = "REQUEST" /\ pc["sim"] \in Sent
  /\ pc["loop"] = "respond" =>
       req.type = "IF" /\ op.info = "served" /\ op.head = Answer(req.head)
  /\ (pc["main"] \in {"setup", "respond", "end"} \/ (pc["main"] = "call" /\ calls < Calls)) =>
       handle = "REQUEST" /\ pc["sim"] \in Sent /\ req.type = "STATE"
  /\ pc["main"] = "respond" => op.head = SETUP
  /\ pc["main"] \in {"golden", "join"} /\ pc["loop"] = "done" =>
       handle = "REQUEST" /\ pc["sim"] \in Sent /\ req.type = "STATE" /\ phase = "ready"
  /\ pc["main"] \in {"call", "start"} => handle # "RESPONSE" /\ req.type = "STATE"
  /\ plan["main"] # "none" /\ sim = "running" => req.type = "STATE"
  /\ pc["main"] \in {"load", "exchange"} /\ sim = "running" =>
       handle = "REQUEST" /\ pc["sim"] \in Sent
  /\ pc["main"] \in {"write", "store"} /\ sim = "running" =>
       handle = "LOCKED" /\ pc["sim"] \in Sent
  /\ pc["main"] = "store" => op.type = "STATE" /\ (sim = "running" => op.head = END)
  /\ pc["main"] \in {"noticed", "reap", "reaping"} /\ sim = "running" /\ phase # "ended" =>
       handle = "RESPONSE" /\ pc["sim"] \in Sent \cup {"read"}

(* The phases of the design, and how often it has run.                     *)
Unread == pc["sim"] \in Sent \cup {"read"} /\ handle = "RESPONSE" /\ req.type = "STATE"

Counted ==
  /\ phase = "running" => pc["main"] \in Serving /\ ~Unread
  /\ req.type = "IF" /\ pc["sim"] \notin {"idle", "released"} => phase = "running"
  /\ pc["sim"] \in Sent \cup {"fill", "request", "reserve", "read"} /\ req.type = "STATE" =>
       phase = "ready"
  /\ phase = "ended" =>
       /\ plan["main"] # "none" /\ op.type = "STATE"
       /\ sim = "running" => pc["main"] \in {"noticed", "reap", "reaping"}
                               /\ pc["sim"] \in {"release", "released", "idle"}
  /\ pc["main"] \in {"call", "start", "setup", "respond"} => runs + calls = Calls
  /\ pc["main"] \in Serving =>
       runs + calls = (IF phase = "running" \/ Unread THEN Calls ELSE Calls + 1)
  /\ pc["main"] = "end" => runs + calls = Calls + 1
  /\ plan["main"] # "none" => runs = Calls

Whole ==
  /\ scenario \in Scenarios
  /\ Types /\ Roles /\ SimHolds /\ Asked /\ Served /\ Counted

Inv == Faultless => Whole

-----------------------------------------------------------------------------
\* Every step of the simulator when nothing ends before its time.
LEMMA SimKeeps ==
  ASSUME Faultless, Whole, UNCHANGED scenario, Sim
  PROVE  Whole'
<1> USE DEF Whole, Types, Roles, SimHolds, Asked, Served, Counted, Unread, Labels,
            Sent, Between, Serving, Calling, Leaving, Answer,
            Faultless, Calls, Registered, Used, Faults, Stops, Debug, Threads,
            ipc, ending, procs, design, Alive, RemoteAlive, At, Goto
<1>1. CASE \E r \in Requests : Ask(r)
  BY <1>1, ScenariosAssumption DEF Requests, Ask, READY, SETUP, END, EMPTY
<1>2. CASE Done
  BY <1>2 DEF Done
<1>3. CASE Timeout
  BY <1>3 DEF Timeout
<1>4. CASE Fini
  BY <1>4 DEF Fini, Fail, Check
<1>5. CASE Reserve
  BY <1>5 DEF Reserve
<1>6. CASE Fill
  BY <1>6 DEF Fill
<1>7. CASE Commit("sim", "request", "LOCKED", "REQUEST", "requested")
  BY <1>7 DEF Commit, Fail, Check
<1>8. CASE NotifyFails("sim", "requested") \/ NotifyFails("sim", "released")
  BY <1>8 DEF NotifyFails
<1>9. CASE Notify("sim", "requested", "wait")
  BY <1>9 DEF Notify
<1>10. CASE Wait("sim", "wait", "RESPONSE", "read")
  BY <1>10 DEF Wait
<1>11. CASE Read
  BY <1>11 DEF Read, Accepted, PhaseAfter, READY, SETUP, END, ABORT, EMPTY
<1>12. CASE Release
  BY <1>12 DEF Release
<1>13. CASE Resume
  BY <1>13 DEF Resume
<1>14. CASE Closing("sim")
  BY <1>14 DEF Closing, Load, Exchange, Write, Store, NotifyFails, Leave
<1> QED
  BY <1>1, <1>2, <1>3, <1>4, <1>5, <1>6, <1>7, <1>8, <1>9, <1>10, <1>11, <1>12,
     <1>13, <1>14 DEF Sim

\* Every step of the main thread when nothing ends before its time.
LEMMA MainKeeps ==
  ASSUME Faultless, Whole, UNCHANGED scenario, Main
  PROVE  Whole'
<1> USE DEF Whole, Types, Roles, SimHolds, Asked, Served, Counted, Unread, Labels,
            Sent, Between, Serving, Calling, Leaving, Answer,
            Faultless, Calls, Registered, Used, Faults, Stops, Debug, Threads,
            ipc, ending, procs, design, Alive, RemoteAlive, At, Goto
<1>1. CASE Call
  BY <1>1 DEF Call, Close
<1>2. CASE Wait("main", "start", "REQUEST", "setup")
  BY <1>2 DEF Wait
<1>3. CASE Setup
  BY <1>3 DEF Setup, Fail, Check, READY, SETUP
<1>4. CASE Commit("main", "respond", "REQUEST", "RESPONSE", "responded")
  BY <1>4 DEF Commit, Fail, Check
<1>5. CASE NotifyFails("main", "responded")
  BY <1>5 DEF NotifyFails
<1>6. CASE Launch
  BY <1>6 DEF Launch
<1>7. CASE Golden
  BY <1>7 DEF Golden
<1>8. CASE Join
  BY <1>8 DEF Join
<1>9. CASE SimEnd
  <2>1. /\ driver = "running" /\ pc["main"] = "end"
        /\ UNCHANGED <<ipc, seen, plan, procs, design>>
        /\ Goto("main", "call") /\ calls' = calls - 1
    BY <1>9 DEF SimEnd, Fail, Check
  <2>8. /\ runs \in Nat /\ calls \in Nat /\ calls > 0 /\ calls <= Calls /\ Calls \in Nat
        /\ runs + calls = Calls + 1 /\ UNCHANGED <<Calls, runs>>
    BY <2>1, ScenariosAssumption
  <2>9. calls' \in Nat /\ calls' <= Calls /\ calls' < Calls /\ runs + calls' = Calls
    <3> HIDE DEF Whole
    <3> QED
      BY <2>1, <2>8
  <2>2. Types'
    BY <2>1, <2>8, <2>9
  <2>3. Roles'
    BY <2>1
  <2>4. SimHolds'
    BY <2>1
  <2>5. Asked'
    BY <2>1
  <2>6. Served'
    BY <2>1
  <2>7. Counted'
    BY <2>1, <2>8, <2>9
  <2> QED
    BY <2>2, <2>3, <2>4, <2>5, <2>6, <2>7
<1>10. CASE SigChild
  BY <1>10 DEF SigChild
<1>11. CASE Load("main")
  BY <1>11 DEF Load
<1>12. CASE Exchange("main")
  BY <1>12 DEF Exchange
<1>13. CASE Write("main")
  BY <1>13 DEF Write, ABORT, END
<1>14. CASE Store("main")
  BY <1>14 DEF Store
<1>15. CASE NotifyFails("main", "noticed")
  BY <1>15 DEF NotifyFails, Die, Close
<1>16. CASE Leave("main")
  BY <1>16 DEF Leave, Close
<1>17. CASE Kill("main")
  BY <1>17 DEF Kill, Close
<1>18. CASE Forget("main")
  BY <1>18 DEF Forget
<1>19. CASE Reap("main")
  BY <1>19 DEF Reap
<1> QED
  BY <1>1, <1>2, <1>3, <1>4, <1>5, <1>6, <1>7, <1>8, <1>9, <1>10, <1>11, <1>12,
     <1>13, <1>14, <1>15, <1>16, <1>17, <1>18, <1>19 DEF Main, Exiting, Closing

\* Every step of the IPC thread when nothing ends before its time.
LEMMA LoopKeeps ==
  ASSUME Faultless, Whole, UNCHANGED scenario, Loop
  PROVE  Whole'
<1> USE DEF Whole, Types, Roles, SimHolds, Asked, Served, Counted, Unread, Labels,
            Sent, Between, Serving, Calling, Leaving, Answer,
            Faultless, Calls, Registered, Used, Faults, Stops, Debug, Threads,
            ipc, ending, procs, design, Alive, RemoteAlive, At, Goto
<1>1. CASE Wait("loop", "serve", "REQUEST", "switch")
  BY <1>1 DEF Wait
<1>2. CASE Serve
  <2>1. op.type = "STATE" \/ op.type = "IF"
    BY <1>2 DEF Serve
  <2>2. CASE op.type = "STATE"
    BY <1>2, <2>2 DEF Serve
  <2>3. CASE op.type = "IF"
    <3>1. /\ driver = "running" /\ pc["loop"] = "switch"
          /\ op' = [op EXCEPT !.head = Answer(op.head), !.info = "served"]
          /\ Goto("loop", "respond")
          /\ UNCHANGED <<handle, ending, procs, design, calls>>
      BY <1>2, <2>3 DEF Serve
    <3>2. handle = "REQUEST" /\ pc["sim"] \in Sent /\ pc["main"] # "respond"
      BY <3>1
    <3>3. req.type = "IF" /\ op.head = req.head
      BY <2>3, <3>1, <3>2
    <3>4. Answer(op.head) \in 0 .. 255
      BY ScenariosAssumption DEF EMPTY, OUT_OF_BOUNDS
    <3>5. /\ op' = [type |-> "IF", head |-> Answer(req.head), info |-> "served"]
          /\ Answer(req.head)' = Answer(req.head)
      BY <2>3, <3>1, <3>3
    <3>6. Types'
      <4>1. op' \in [type : {"NONE", "STATE", "IF"}, head : 0 .. 255,
                     info : {"none", "asked", "served"}]
        BY <3>3, <3>4, <3>5
      <4>2. pc' \in [Threads -> Labels]
        BY <3>1
      <4> QED
        BY <3>1, <3>3, <4>1, <4>2
    <3>7. Roles'
      BY <3>1, <3>2, <3>3, <3>4, <3>5
    <3>8. SimHolds'
      BY <3>1, <3>2, <3>3, <3>4, <3>5
    <3>9. Asked'
      BY <3>1, <3>2, <3>3, <3>4, <3>5
    <3>10. Served'
      BY <3>1, <3>2, <3>3, <3>4, <3>5
    <3>11. Counted'
      BY <3>1, <3>2, <3>3, <3>4, <3>5
    <3> QED
      BY <3>6, <3>7, <3>8, <3>9, <3>10, <3>11
  <2> QED
    BY <2>1, <2>2, <2>3
<1>3. CASE ServeFails
  BY <1>3 DEF ServeFails
<1>4. CASE Commit("loop", "respond", "REQUEST", "RESPONSE", "answered")
  BY <1>4 DEF Commit, Fail, Check
<1>5. CASE Commit("loop", "respond_last", "REQUEST", "RESPONSE", "answered_last")
  BY <1>5 DEF Commit, Fail, Check
<1>6. CASE NotifyFails("loop", "answered") \/ NotifyFails("loop", "answered_last")
  BY <1>6 DEF NotifyFails
<1>7. CASE Notify("loop", "answered", "serve") \/ Notify("loop", "answered_last", "done")
  BY <1>7 DEF Notify
<1>8. CASE Exiting("loop")
  BY <1>8 DEF Exiting, Kill, Forget, Reap, Closing, Load, Exchange, Write,
     Store, NotifyFails, Leave
<1> QED
  BY <1>1, <1>2, <1>3, <1>4, <1>5, <1>6, <1>7, <1>8 DEF Loop

-----------------------------------------------------------------------------
\* The first invariant holds initially and every step keeps it.
LEMMA SafeHolds == Spec => []Safe
<1>1. Init => Safe
  <2> SUFFICES ASSUME Init PROVE Safe
    OBVIOUS
  <2>1. Calls \in Nat
    BY ScenariosAssumption DEF Init, Calls
  <2>2. TypeOK
    BY <2>1, BoundsAssumption DEF Init, TypeOK, Operation, Labels, Threads,
       READY
  <2>3. Ordered /\ Told
    BY DEF Init, Ordered, Told, Left, Exchanging, Leaving, Threads
  <2> QED
    BY <2>2, <2>3 DEF Safe
<1>2. Safe /\ [Next /\ UNCHANGED scenario]_<<vars, scenario>> => Safe'
  <2>1. Safe /\ UNCHANGED <<vars, scenario>> => Safe'
    BY DEF Safe, TypeOK, Ordered, Told, Left, vars, ipc, ending, procs, design,
       Calls
  <2> QED
    BY <2>1, SimSafe, MainSafe, LoopSafe DEF Next
<1> QED
  BY <1>1, <1>2, PTL DEF Spec

\* The second invariant: the scenario never changes, so a faultless one stays so.
LEMMA WholeHolds == Spec => []Inv
<1>1. Init => Inv
  <2> SUFFICES ASSUME Init, Faultless PROVE Whole
    BY DEF Inv
  <2>1. Calls \in Nat /\ Calls # 0
    BY ScenariosAssumption DEF Init, Calls, Faultless
  <2>2. Types
    BY <2>1, BoundsAssumption DEF Init, Types, Labels, Threads, READY
  <2>3. Roles /\ SimHolds /\ Asked /\ Served
    BY <2>1 DEF Init, Roles, SimHolds, Asked, Served, Sent, Between, Serving,
       Calling,
       Leaving, Threads
  <2>4. Counted
    BY <2>1 DEF Init, Counted, Sent, Serving, Unread, Threads
  <2> QED
    BY <2>2, <2>3, <2>4 DEF Whole, Init
<1>2. Inv /\ [Next /\ UNCHANGED scenario]_<<vars, scenario>> => Inv'
  <2> SUFFICES ASSUME Inv, [Next /\ UNCHANGED scenario]_<<vars, scenario>>, Faultless'
               PROVE  Whole'
    BY DEF Inv
  <2>1. UNCHANGED scenario
    OBVIOUS
  <2>2. Faultless /\ Whole
    BY <2>1 DEF Inv, Faultless, Faults, Stops, Calls, Registered, Used
  <2>3. CASE UNCHANGED <<vars, scenario>>
    BY <2>2, <2>3 DEF Whole, Types, Roles, SimHolds, Asked, Served, Counted,
       Unread,
       vars, ipc, ending, procs, design, Calls, Registered, Used, Answer
  <2> QED
    BY <2>1, <2>2, <2>3, SimKeeps, MainKeeps, LoopKeeps DEF Next
<1> QED
  BY <1>1, <1>2, PTL DEF Spec

-----------------------------------------------------------------------------
(* Every variable has its type, whatever ends a process early: in particular *)
(* the simulator never looks up the phase after an answer to another request. *)
THEOREM Typing == Spec => []TypeOK
<1>1. Safe => TypeOK
  BY DEF Safe
<1> QED
  BY <1>1, SafeHolds, PTL

(* "Unexpected cosim end state.": once the simulator has been told of the    *)
(* end, the operation it has released holds that report until m_fini reads   *)
(* it, however the threads of the testbench ended.                           *)
THEOREM ReportStays == Spec => []EndStateKept
<1>1. Safe => EndStateKept
  BY DEF Safe, Told, EndStateKept, At
<1> QED
  BY <1>1, SafeHolds, PTL

(* The simulator goes through the phases of SimPhases: no answer to an access *)
(* and no report changes the phase but an answer to the request for one.     *)
THEOREM PhasesImplemented == Spec => RunsInPhases
<1>1. Init => Phases!PhasesInit
  BY DEF Init, Phases!PhasesInit
<1>2. Safe /\ [Next /\ UNCHANGED scenario]_<<vars, scenario>>
        => [Phases!Answered \/ Phases!RunOver]_(Phases!phasevars)
  <2> SUFFICES ASSUME Safe, [Next /\ UNCHANGED scenario]_<<vars, scenario>>
               PROVE  [Phases!Answered \/ Phases!RunOver]_(Phases!phasevars)
    OBVIOUS
  <2>1. CASE Done
    BY <2>1 DEF Done, Phases!RunOver
  <2>2. CASE Read
    <3>1. CASE Accepted /\ req.type = "STATE"
      <4>1. /\ phase = "ready" /\ op.head \in {READY, SETUP, END, ABORT}
            /\ phase' = PhaseAfter[op.head] /\ UNCHANGED runs
        BY <2>2, <3>1 DEF Read, Safe, Told, Exchanging, At
      <4>2. PhaseAfter[op.head] \in {"ready", "running", "ended", "aborted"}
        BY <4>1 DEF PhaseAfter, READY, SETUP, END, ABORT
      <4> QED
        BY <4>1, <4>2 DEF Phases!Answered, Phases!phasevars
    <3>2. CASE ~(Accepted /\ req.type = "STATE")
      BY <2>2, <3>2 DEF Read, Phases!phasevars
    <3> QED
      BY <3>1, <3>2
  <2>3. CASE ~Done /\ ~Read
    <3>1. UNCHANGED <<phase, runs>>
      <4>1. CASE Sim
        BY <2>3, <4>1 DEF Sim, Ask, Timeout, Fini, Reserve, Fill, Commit, Fail,
           NotifyFails, Notify, Wait, Release, Resume, Closing, Load, Exchange, Write,
           Store, Leave, design
      <4>2. CASE Main
        BY <4>2 DEF Main, Call, Wait, Setup, Commit, Fail, NotifyFails, Launch,
           Golden,
           Join, SimEnd, SigChild, Exiting, Closing, Load, Exchange, Write, Store, Leave,
           Kill, Forget, Reap, design
      <4>3. CASE Loop
        BY <4>3 DEF Loop, Wait, Serve, ServeFails, Commit, Fail, NotifyFails,
           Notify,
           Exiting, Closing, Load, Exchange, Write, Store, Leave, Kill, Forget, Reap,
           design
      <4>4. CASE UNCHANGED <<vars, scenario>>
        BY <4>4 DEF vars, design
      <4> QED
        BY <4>1, <4>2, <4>3, <4>4 DEF Next
    <3> QED
      BY <3>1 DEF Phases!phasevars
  <2> QED
    BY <2>1, <2>2, <2>3
<1> QED
  BY <1>1, <1>2, SafeHolds, PTL DEF Spec, RunsInPhases, Phases!PhasesSpec

(* The handle excludes: no two of the three threads work on the shared       *)
(* operation at the same time, as long as no process ends before its time.   *)
THEOREM HandleExcludes == Spec => []OneAtATime
<1>1. Inv => OneAtATime
  <2> SUFFICES ASSUME Faultless, Whole, NEW t \in Threads, NEW u \in Threads,
                      Alive(t), Alive(u), pc[t] \in Touching, pc[u] \in Touching
               PROVE  t = u
    BY DEF Inv, OneAtATime
  <2> QED
    BY DEF Whole, Types, Roles, SimHolds, Served, Sent, Between, Serving,
       Calling,
       Leaving, Touching, Threads, Alive
<1> QED
  BY <1>1, WholeHolds, PTL

(* The data an access of the design accepts was put there by the testbench   *)
(* for that access.                                                          *)
THEOREM AnswersAreOwn == Spec => []OwnAnswer
<1>1. Inv => OwnAnswer
  BY DEF Inv, Whole, Types, SimHolds, Asked, Sent, OwnAnswer, At, Alive
<1> QED
  BY <1>1, WholeHolds, PTL

(* Results are compared after one run per call, the simulator does not abort, *)
(* and when it exits the design has run once for every call.                 *)
THEOREM EndsCleanly == Spec => []CleanEnd
<1>1. Inv => CleanEnd
  <2> SUFFICES ASSUME Faultless, Whole
               PROVE  /\ At("main", "end") => runs = Calls - calls + 1
                      /\ sim # "aborted"
                      /\ sim = "exited" => phase = "ended" /\ runs = Calls
    BY DEF Inv, CleanEnd
  <2>1. Calls \in Nat /\ calls \in Nat /\ runs \in Nat
    BY ScenariosAssumption DEF Whole, Types, Calls
  <2>2. sim # "aborted" /\ (sim = "exited" => phase = "ended")
    BY DEF Whole, Types, Roles
  <2>3. phase = "ended" => runs = Calls
    BY DEF Whole, Counted
  <2>4. pc["main"] = "end" => runs + calls = Calls + 1
    BY DEF Whole, Counted
  <2> QED
    BY <2>1, <2>2, <2>3, <2>4 DEF At
<1> QED
  BY <1>1, WholeHolds, PTL
=============================================================================
