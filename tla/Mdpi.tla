-------------------------------- MODULE Mdpi --------------------------------
(***************************************************************************)
(* Co-simulation: the HDL simulator (libmdpi/mdpi.c, driven by the state   *)
(* machine of the testbench) and the C testbench (libmdpi/mdpi_driver.cpp) *)
(* share one memory-mapped file, a handle and one operation, and wake each *)
(* other with a signal (mdpi_ipc_sig.h).                                   *)
(*                                                                         *)
(* The simulator has one thread; the testbench has its main thread, which  *)
(* runs the golden function, and one IPC thread per call, which serves the *)
(* simulator meanwhile.  A step is one access to the atomic handle, one    *)
(* kill(), or the plain accesses to the operation between two of those.    *)
(* A wait polls with a timeout, so a missed signal only delays it and the  *)
(* signal itself is not modelled, except that sending it may fail.         *)
(***************************************************************************)
EXTENDS Naturals, FiniteSets

CONSTANTS
  Accesses,    \* bound: interface accesses of the design, all calls together
  Scenarios    \* what each pair of processes is built from and may meet

\* mdpi_state_t and the reserved interface ids, which share the first byte of
\* the payload union.
READY == 1
SETUP == 2
END   == 8
ABORT == 32
EMPTY == 254
OUT_OF_BOUNDS == 255

\* A scenario tells how often the testbench calls the top function, which
\* interface ids the wrapper registers before each call and which the design
\* uses, how the testbench and the simulator may end early, and whether
\* assertions are compiled in (__M_OUT_LVL > 4).
ASSUME BoundsAssumption == Accesses \in Nat
ASSUME ScenariosAssumption ==
  \A s \in Scenarios :
    /\ s.calls \in Nat
    /\ s.registered \subseteq 0..253 /\ s.used \subseteq 0..253
    /\ \A i \in s.registered : 0..i \subseteq s.registered
    /\ s.faults \subseteq {"exit", "abort", "mismatch"}
    /\ s.stops \subseteq {"timeout", "builtin"} /\ s.debug \in BOOLEAN

Threads == {"sim", "main", "loop"}

VARIABLES
  scenario,  \* never changes
  handle,    \* the atomic state of the shared file
  op,        \* the shared operation; info tells who filled its value
  pc,        \* where each thread is
  seen,      \* the handle a thread loaded in __ipc_exit
  plan,      \* why a thread reports the end of its process
  sim,       \* the simulator process
  driver,    \* the testbench process
  child,     \* __m_sim_pid is not zero
  code,      \* the exit code the testbench will have
  phase,     \* the state machine of the testbench module
  req,       \* the request the simulator is making
  runs,      \* history: completed runs of the design
  calls,     \* calls still to be made
  accesses   \* accesses still to be made

ipc    == <<handle, op>>
ending == <<seen, plan>>
procs  == <<sim, driver, child, code>>
design == <<phase, req, runs, accesses>>
vars   == <<ipc, pc, ending, procs, design, calls>>

Calls      == scenario.calls
Registered == scenario.registered
Used       == scenario.used
Faults     == scenario.faults
Stops      == scenario.stops
Debug      == scenario.debug

Alive(t) == IF t = "sim" THEN sim = "running" ELSE driver = "running"
RemoteAlive(t) == IF t = "sim" THEN driver = "running" ELSE sim = "running"
At(t, label) == Alive(t) /\ pc[t] = label
Goto(t, label) == pc' = [pc EXCEPT ![t] = label]

\* __ipc_exit is entered with the reason why.
Close(t, why) == plan' = [plan EXCEPT ![t] = why] /\ Goto(t, "load")

\* abort(): the simulator dies; the testbench runs __m_sig_handler, which
\* reports to a simulator it still has and calls exit(), whose destructor
\* reports the end; a second failure there ends the process.
Die(t) ==
  IF t = "sim"
  THEN sim' = "aborted" /\ UNCHANGED <<driver, child, code, pc, plan>>
  ELSE /\ code' = "failure" /\ child' = FALSE /\ UNCHANGED sim
       /\ IF child THEN Close(t, "report") /\ UNCHANGED driver
          ELSE IF plan[t] # "destroy" THEN Close(t, "destroy") /\ UNCHANGED driver
          ELSE driver' = "ended" /\ UNCHANGED <<pc, plan>>

\* assert(condition) && then: the assertion is there only when Debug.
Check(t, condition) == ~Debug \/ condition
Fail(t, condition) ==
  /\ ~Check(t, condition)
  /\ Die(t)
  /\ UNCHANGED <<ipc, seen, design, calls>>

-----------------------------------------------------------------------------
(* The operations on the shared file. *)

\* Mutant: any change of the handle ends the wait.
WaitAny(t, at, state, then) ==
  /\ At(t, at) /\ handle # "FREE"
  /\ Goto(t, then)
  /\ UNCHANGED <<ipc, ending, procs, design, calls>>

Wait(t, at, state, then) ==
  /\ At(t, at) /\ handle = state
  /\ Goto(t, then)
  /\ UNCHANGED <<ipc, ending, procs, design, calls>>

\* The wait for FREE and the exchange that takes it, repeated together.
Reserve ==
  /\ At("sim", "reserve") /\ handle = "FREE"
  /\ handle' = "LOCKED"
  /\ Goto("sim", "fill")
  /\ UNCHANGED <<op, ending, procs, design, calls>>

\* __ipc_request, __ipc_response: the exchange is checked when Debug, and a
\* plain store otherwise.
Commit(t, at, from, to, then) ==
  /\ At(t, at)
  /\ \/ Fail(t, handle = from)
     \/ /\ Check(t, handle = from)
        /\ handle' = to
        /\ Goto(t, then)
        /\ UNCHANGED <<op, ending, procs, design, calls>>

\* kill() fails, and the caller aborts, once the remote process is gone; until
\* it is reaped kill() still succeeds.
NotifyFails(t, at) ==
  /\ At(t, at) /\ ~RemoteAlive(t)
  /\ Die(t)
  /\ UNCHANGED <<ipc, seen, design, calls>>

Notify(t, at, then) ==
  /\ At(t, at) /\ Goto(t, then)
  /\ UNCHANGED <<ipc, ending, procs, design, calls>>

\* __ipc_exit.  "continue" inside do-while jumps to the condition: whatever
\* the handle was when loaded, LOCKED included, it is exchanged for LOCKED.
Load(t) ==
  /\ At(t, "load")
  /\ seen' = [seen EXCEPT ![t] = handle]
  /\ Goto(t, "exchange")
  /\ UNCHANGED <<ipc, plan, procs, design, calls>>

Exchange(t) ==
  /\ At(t, "exchange")
  /\ IF handle = seen[t] THEN handle' = "LOCKED" /\ Goto(t, "write")
     ELSE handle' = handle /\ Goto(t, "load")
  /\ UNCHANGED <<op, ending, procs, design, calls>>

\* Mutant: the destructor reports an abort.
WriteAbort(t) ==
  /\ At(t, "write")
  /\ op' = [type |-> "STATE", info |-> "none",
            head |-> IF plan[t] \in {"abort", "report", "destroy"} THEN ABORT ELSE END]
  /\ Goto(t, "store")
  /\ UNCHANGED <<handle, ending, procs, design, calls>>

Write(t) ==
  /\ At(t, "write")
  /\ op' = [type |-> "STATE", info |-> "none",
            head |-> IF plan[t] \in {"abort", "report"} THEN ABORT ELSE END]
  /\ Goto(t, "store")
  /\ UNCHANGED <<handle, ending, procs, design, calls>>

\* Mutant: the simulator closes with a response.
StoreResponse(t) ==
  /\ At(t, "store")
  /\ handle' = "RESPONSE"
  /\ Goto(t, "noticed")
  /\ UNCHANGED <<op, ending, procs, design, calls>>

Store(t) ==
  /\ At(t, "store")
  /\ handle' = IF t = "sim" THEN "REQUEST" ELSE "RESPONSE"
  /\ Goto(t, "noticed")
  /\ UNCHANGED <<op, ending, procs, design, calls>>

\* What follows __ipc_exit: _exit in __m_exit, exit() in __ipc_abort, SIGTERM
\* in the signal handler, the wait for the simulator in the destructor.
Leave(t) ==
  /\ At(t, "noticed")
  /\ CASE t = "sim" -> sim' = "exited" /\ UNCHANGED <<driver, code, pc, plan>>
       [] plan[t] = "exit" -> driver' = "ended" /\ UNCHANGED <<sim, code, pc, plan>>
       [] plan[t] = "abort" -> /\ code' = "failure" /\ Close(t, "destroy")
                               /\ UNCHANGED <<sim, driver>>
       [] plan[t] = "report" -> Goto(t, "kill") /\ UNCHANGED <<sim, driver, code, plan>>
       [] OTHER -> Goto(t, "reap") /\ UNCHANGED <<sim, driver, code, plan>>
  /\ UNCHANGED <<ipc, seen, child, design, calls>>

Closing(t) ==
  \/ Load(t) \/ Exchange(t) \/ Write(t) \/ Store(t)
  \/ NotifyFails(t, "noticed") \/ Leave(t)

-----------------------------------------------------------------------------
(* The simulator: m_next when ready, the accesses of the design when running. *)

Requests ==
  CASE phase = "ready" -> {[type |-> "STATE", head |-> READY]}
    [] phase = "running" ->
         {[type |-> "IF", head |-> i] : i \in IF accesses = 0 THEN {} ELSE Used}
           \cup {[type |-> "EXIT", head |-> EMPTY] : s \in Stops \cap {"builtin"}}
    [] OTHER -> {}

Ask(r) ==
  /\ At("sim", "idle")
  /\ req' = r
  /\ accesses' = IF r.type = "IF" THEN accesses - 1 ELSE accesses
  /\ Goto("sim", "reserve")
  /\ UNCHANGED <<ipc, ending, procs, phase, runs, calls>>

\* done_port: the state machine goes back to READY.
Done ==
  /\ At("sim", "idle") /\ phase = "running"
  /\ phase' = "ready"
  /\ runs' = runs + 1
  /\ UNCHANGED <<ipc, pc, ending, procs, req, accesses, calls>>

\* MAX_SIM_CYCLES exceeded: $finish, and the destructor reports the end.
Timeout ==
  /\ "timeout" \in Stops
  /\ At("sim", "idle") /\ phase = "running"
  /\ Close("sim", "destroy")
  /\ UNCHANGED <<ipc, seen, procs, design, calls>>

\* m_fini and $finish.
Fini ==
  /\ At("sim", "idle") /\ phase \in {"ended", "aborted"}
  /\ \/ Fail("sim", op.type = "STATE")
     \/ /\ Check("sim", op.type = "STATE")
        /\ sim' = "exited"
        /\ UNCHANGED <<ipc, pc, ending, driver, child, code, design, calls>>

Fill ==
  /\ At("sim", "fill")
  /\ op' = [type |-> req.type, head |-> req.head, info |-> "asked"]
  /\ Goto("sim", "request")
  /\ UNCHANGED <<handle, ending, procs, design, calls>>

\* An answer is accepted when it carries the id asked for, or EMPTY.
Accepted == req.type = "STATE" \/ op.head \in {req.head, EMPTY}

\* Mutant: any other state counts as the end.
PhaseOtherwise == [h \in {READY, SETUP, END, ABORT} |->
  CASE h = SETUP -> "running" [] h = ABORT -> "aborted" [] OTHER -> "ended"]

\* state_next; m_next asks again while it is READY.
PhaseAfter == [h \in {READY, SETUP, END, ABORT} |->
  CASE h = SETUP -> "running" [] h = END -> "ended" [] h = ABORT -> "aborted"
    [] h = READY -> "ready"]

\* Mutant: any report of a state is taken for the answer.
ReadState ==
  /\ At("sim", "read")
  /\ phase' = IF op.type = "STATE" THEN PhaseAfter[op.head] ELSE phase
  /\ Goto("sim", "release")
  /\ UNCHANGED <<ipc, ending, procs, req, runs, accesses, calls>>

Read ==
  /\ At("sim", "read")
  /\ IF Accepted
     THEN /\ phase' = IF req.type = "STATE" THEN PhaseAfter[op.head] ELSE phase
          /\ Goto("sim", "release")
          /\ UNCHANGED <<plan, procs>>
     ELSE Die("sim") /\ UNCHANGED phase
  /\ UNCHANGED <<ipc, seen, req, runs, accesses, calls>>

\* Mutant: __ipc_release leaves the handle as it is.
ReleaseKept ==
  /\ At("sim", "release")
  /\ Goto("sim", "released")
  /\ UNCHANGED <<ipc, ending, procs, design, calls>>

Release ==
  /\ At("sim", "release")
  /\ handle' = "FREE"
  /\ Goto("sim", "released")
  /\ UNCHANGED <<op, ending, procs, design, calls>>

\* After m_builtin_exit comes $finish, whose destructor reports the end.
Resume ==
  /\ At("sim", "released")
  /\ IF req.type = "EXIT" THEN Close("sim", "destroy")
     ELSE Goto("sim", "idle") /\ UNCHANGED plan
  /\ UNCHANGED <<ipc, seen, procs, design, calls>>

Sim ==
  \/ \E r \in Requests : Ask(r)
  \/ Done \/ Timeout \/ Fini
  \/ Reserve \/ Fill
  \/ Commit("sim", "request", "LOCKED", "REQUEST", "requested")
  \/ NotifyFails("sim", "requested") \/ Notify("sim", "requested", "wait")
  \/ Wait("sim", "wait", "RESPONSE", "read")
  \/ Read \/ Release \/ NotifyFails("sim", "released") \/ Resume
  \/ Closing("sim")

-----------------------------------------------------------------------------
(* The testbench: the wrapper of the top function, once per call. *)

\* Mutant: the end of the calls is not noticed.
CallAgain ==
  /\ At("main", "call")
  /\ Goto("main", "start")
  /\ UNCHANGED <<ipc, ending, procs, design, calls>>

Call ==
  /\ At("main", "call")
  /\ IF calls = 0 THEN Close("main", "destroy")
     ELSE Goto("main", "start") /\ UNCHANGED plan
  /\ UNCHANGED <<ipc, seen, procs, design, calls>>

Setup ==
  /\ At("main", "setup")
  /\ LET expected == op.type = "STATE" /\ op.head = READY IN
     \/ Fail("main", expected)
     \/ /\ Check("main", expected)
        /\ op' = [op EXCEPT !.head = SETUP]
        /\ Goto("main", "respond")
        /\ UNCHANGED <<handle, ending, procs, design, calls>>

\* pthread_create: the IPC thread serves while the golden function runs.
Launch ==
  /\ At("main", "responded")
  /\ pc' = [pc EXCEPT !["main"] = "golden", !["loop"] = "serve"]
  /\ UNCHANGED <<ipc, ending, procs, design, calls>>

\* The golden function returns, or calls exit or abort (redefined as __m_exit
\* and __m_abort in the objects of the testbench).
Golden ==
  /\ At("main", "golden")
  /\ \/ Goto("main", "join") /\ UNCHANGED plan
     \/ \E f \in Faults \cap {"exit", "abort"} : Close("main", f)
  /\ UNCHANGED <<ipc, seen, procs, design, calls>>

\* Mutant: the IPC thread is not joined.
JoinEarly ==
  /\ At("main", "join")
  /\ Goto("main", "end")
  /\ UNCHANGED <<ipc, ending, procs, design, calls>>

Join ==
  /\ At("main", "join") /\ pc["loop"] = "done"
  /\ Goto("main", "end")
  /\ UNCHANGED <<ipc, ending, procs, design, calls>>

\* The rest of __m_sim_end; the comparison may find a mismatch.
SimEnd ==
  /\ At("main", "end")
  /\ \/ Fail("main", op.type = "STATE")
     \/ /\ Check("main", op.type = "STATE")
        /\ \/ /\ Goto("main", "call") /\ calls' = calls - 1 /\ UNCHANGED plan
           \/ /\ "mismatch" \in Faults
              /\ Close("main", "abort") /\ UNCHANGED calls
        /\ UNCHANGED <<ipc, seen, procs, design>>

\* SIGCHLD, delivered to the main thread: after a failure of the simulator the
\* testbench exits too (again, when it was exiting already: then it is over).
SigChild ==
  /\ driver = "running" /\ child /\ sim # "running"
  /\ child' = FALSE
  /\ IF sim = "exited" THEN UNCHANGED <<code, driver, pc, plan>>
     ELSE /\ code' = "failure"
          /\ IF plan["main"] = "destroy" THEN driver' = "ended" /\ UNCHANGED <<pc, plan>>
             ELSE Close("main", "destroy") /\ UNCHANGED driver
  /\ UNCHANGED <<ipc, seen, sim, design, calls>>

\* The handler kills the simulator and calls exit().
Kill(t) ==
  /\ At(t, "kill")
  /\ sim' = IF sim = "running" THEN "aborted" ELSE sim
  /\ Close(t, "destroy")
  /\ UNCHANGED <<ipc, seen, driver, child, code, design, calls>>

\* The destructor forgets the simulator and waits for it.
Forget(t) ==
  /\ At(t, "reap")
  /\ child' = FALSE
  /\ IF child THEN Goto(t, "reaping") /\ UNCHANGED driver
     ELSE driver' = "ended" /\ UNCHANGED pc
  /\ UNCHANGED <<ipc, ending, sim, code, design, calls>>

Reap(t) ==
  /\ At(t, "reaping") /\ sim # "running"
  /\ driver' = "ended"
  /\ UNCHANGED <<ipc, pc, ending, sim, child, code, design, calls>>

Exiting(t) == Closing(t) \/ Kill(t) \/ Forget(t) \/ Reap(t)

Main ==
  \/ Call
  \/ Wait("main", "start", "REQUEST", "setup")
  \/ Setup
  \/ Commit("main", "respond", "REQUEST", "RESPONSE", "responded")
  \/ NotifyFails("main", "responded") \/ Launch
  \/ Golden \/ Join \/ SimEnd \/ SigChild
  \/ Exiting("main")

-----------------------------------------------------------------------------
(* The IPC thread: __m_driver_loop. *)

\* The id in the answer to an access of interface i.
Answer(i) ==
  IF Registered = {} THEN EMPTY ELSE IF i \in Registered THEN i ELSE OUT_OF_BOUNDS

\* IF_EXIT writes to interface 0, which should be the only one.
Exitable == 0 \in Registered /\ Check("loop", Registered = {0})

\* The assertion, or the exception of at(0).
ServeFails ==
  /\ At("loop", "switch") /\ op.type = "EXIT" /\ ~Exitable
  /\ Die("loop")
  /\ UNCHANGED <<ipc, seen, design, calls>>

Serve ==
  /\ At("loop", "switch")
  /\ \/ /\ op.type = "STATE"
        /\ Goto("loop", "done") /\ UNCHANGED op
     \/ /\ op.type = "IF"
        /\ op' = [op EXCEPT !.head = Answer(op.head), !.info = "served"]
        /\ Goto("loop", "respond")
     \/ /\ op.type = "EXIT" /\ Exitable
        /\ op' = [op EXCEPT !.head = EMPTY, !.info = "served"]
        /\ Goto("loop", "respond_last")
  /\ UNCHANGED <<handle, ending, procs, design, calls>>

Loop ==
  \/ Wait("loop", "serve", "REQUEST", "switch")
  \/ Serve \/ ServeFails
  \/ Commit("loop", "respond", "REQUEST", "RESPONSE", "answered")
  \/ Commit("loop", "respond_last", "REQUEST", "RESPONSE", "answered_last")
  \/ NotifyFails("loop", "answered") \/ Notify("loop", "answered", "serve")
  \/ NotifyFails("loop", "answered_last") \/ Notify("loop", "answered_last", "done")
  \/ Exiting("loop")

-----------------------------------------------------------------------------
\* Both processes have passed __ipc_init and __ipc_init1.
Init ==
  /\ scenario \in Scenarios
  /\ handle = "FREE"
  /\ op = [type |-> "NONE", head |-> 0, info |-> "none"]
  /\ pc = [t \in Threads |-> CASE t = "sim" -> "idle" [] t = "main" -> "call"
                               [] t = "loop" -> "done"]
  /\ seen = [t \in Threads |-> "FREE"] /\ plan = [t \in Threads |-> "none"]
  /\ sim = "running" /\ driver = "running"
  /\ child = TRUE /\ code = "success"
  /\ phase = "ready" /\ req = [type |-> "STATE", head |-> READY]
  /\ runs = 0 /\ calls = Calls /\ accesses = Accesses

Next == Sim \/ Main \/ Loop

Fairness == WF_vars(Sim) /\ WF_vars(Main) /\ WF_vars(Loop)

Spec == Init /\ [][Next /\ UNCHANGED scenario]_<<vars, scenario>> /\ Fairness

-----------------------------------------------------------------------------
(* Properties. *)

Labels ==
  {"idle", "reserve", "fill", "request", "requested", "wait", "read", "release",
   "released", "call", "start", "setup", "respond", "responded", "golden", "join",
   "end", "serve", "switch", "respond_last", "answered", "answered_last", "done",
   "load", "exchange", "write", "store", "noticed", "kill", "reap", "reaping"}

Operation ==
  [type : {"NONE", "STATE", "IF", "EXIT"}, head : 0..255,
   info : {"none", "asked", "served"}]

\* Every variable has its type.
TypeOK ==
  /\ scenario \in Scenarios
  /\ handle \in {"FREE", "LOCKED", "REQUEST", "RESPONSE"}
  /\ op \in Operation
  /\ pc \in [Threads -> Labels]
  /\ seen \in [Threads -> {"FREE", "LOCKED", "REQUEST", "RESPONSE"}]
  /\ plan \in [Threads -> {"none", "exit", "abort", "report", "destroy"}]
  /\ sim \in {"running", "exited", "aborted"} /\ driver \in {"running", "ended"}
  /\ child \in BOOLEAN /\ code \in {"success", "failure"}
  /\ phase \in {"ready", "running", "ended", "aborted"}
  /\ req \in [type : {"STATE", "IF", "EXIT"}, head : 0..255]
  /\ runs \in Nat /\ calls \in 0..Calls /\ accesses \in 0..Accesses

\* Neither process ends before its time, the top function is called, and the
\* design uses no interface that the wrapper has not registered.
Faultless ==
  /\ Faults = {} /\ Stops = {} /\ Calls # 0
  /\ Registered = {} \/ Used \subseteq Registered

\* The steps that read or write the operation.
Touching == {"fill", "read", "setup", "end", "switch", "write"}

\* The operation is plain memory shared by three threads of two processes: the
\* handle never lets two of them work on it at the same time.
OneAtATime ==
  Faultless => \A t, u \in Threads :
    (Alive(t) /\ Alive(u) /\ pc[t] \in Touching /\ pc[u] \in Touching) => t = u

\* The data an access of the design takes was put there by the testbench, for
\* that access: m_read and m_write only compare the id.
OwnAnswer ==
  (Faultless /\ At("sim", "read") /\ req.type = "IF" /\ Accepted) =>
     op.type = "IF" /\ op.info = "served"

\* The testbench compares results only after the design has run once per call.
\* Without a fault the simulator does not abort, and when it exits it has run
\* the design for every call and reports the normal end of the testbench, even
\* if the signal that goes with the last report fails.
CleanEnd ==
  Faultless =>
    /\ At("main", "end") => runs = Calls - calls + 1
    /\ sim # "aborted"
    /\ sim = "exited" => phase = "ended" /\ runs = Calls

\* "Unexpected cosim end state.": m_fini reads the operation after it has
\* released the handle; it still is a report of the end then, whatever the
\* threads of the testbench were doing and however they ended.
EndStateKept ==
  (At("sim", "idle") /\ phase \in {"ended", "aborted"}) =>
     op.type = "STATE" /\ op.head \in {END, ABORT}

\* Both processes end, unless the testbench ends before its time; the simulator
\* may stop in its last call.
BothEnd == Faults # {} \/ <>(sim # "running" /\ driver = "ended")

\* To the testbench, the simulator goes through the phases of SimPhases, however
\* the two processes end: an answer to an access never changes the phase.
Phases == INSTANCE SimPhases

RunsInPhases == Phases!PhasesSpec

\* "Illegal IPC commit operation."
LegalCommit == At("sim", "request") => handle = "LOCKED"

\* "Unexpected simulator request." in __m_sim_end.
ExpectedRequest == At("main", "end") => op.type = "STATE"

\* "Co-simulation main aborted": a simulator does not report a normal end of a
\* testbench that aborted.
AbortIsReported == (sim = "exited" /\ code = "failure") => phase # "ended"
=============================================================================
