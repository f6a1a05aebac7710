---------------------------- MODULE MCScheduling ----------------------------
(* Basic blocks and functional units for the model checking of             *)
(* ListScheduling.  A step lasts 4 time units, 1 of them setup and hold.   *)
EXTENDS ListScheduling, Sequences, TLC

FuKinds ==
  [alu |-> "none", mul |-> "none", fun |-> "none", gun |-> "none", hun |-> "none",
   ram |-> "direct", own |-> "private", dram |-> "async", bus |-> "indirect",
   ctl |-> "none"]

(* Units that reach memory through the bus first, then the faster ones.    *)
Ranks == [bus |-> 0, ctl |-> 1, dram |-> 2, alu |-> 3, own |-> 4, ram |-> 5,
          fun |-> 6, gun |-> 7, hun |-> 8, mul |-> 9]

Numbers == [f \in DOMAIN FuKinds |-> IF f \in {"bus", "ram"} THEN 2 ELSE 1]

Plain == [type |-> "plain", fus |-> {"alu"}, delay |-> 2, cycles |-> 0, ii |-> 0,
          stage |-> 0, bounded |-> TRUE, registered |-> FALSE, rw |-> FALSE,
          interface |-> FALSE, root |-> FALSE, proxies |-> {}]

Load(f) == [Plain EXCEPT !.type = "load", !.fus = {f}, !.delay = 5, !.cycles = 2]
Store(f) == [Plain EXCEPT !.type = "store", !.fus = {f}, !.delay = 2, !.cycles = 1]
Call(f, b) == [Plain EXCEPT !.type = "call", !.fus = {f}, !.delay = IF b THEN 6 ELSE 2,
                            !.cycles = IF b THEN 2 ELSE 0, !.bounded = b]

Classes ==
  [phi |-> [Plain EXCEPT !.type = "phi", !.fus = {"ctl"}, !.delay = 0],
   plain |-> [Plain EXCEPT !.fus = {"alu", "mul"}],
   div |-> [Plain EXCEPT !.fus = {"mul"}, !.delay = 7, !.cycles = 2],
   slow |-> [Plain EXCEPT !.fus = {"mul"}, !.delay = 6],
   mul |-> [Plain EXCEPT !.fus = {"mul"}, !.delay = 6, !.cycles = 3, !.ii = 2,
                         !.stage = 2],
   pipe |-> [Plain EXCEPT !.fus = {"mul"}, !.delay = 6, !.cycles = 2, !.ii = 1,
                          !.stage = 2],
   busload |-> Load("bus"), ownload |-> Load("own"),
   ramload |-> [Load("ram") EXCEPT !.delay = 2, !.cycles = 1],
   asyncload |-> [Load("dram") EXCEPT !.delay = 1, !.cycles = 0],
   busstore |-> Store("bus"), ramstore |-> Store("ram"),
   call |-> Call("fun", FALSE),
   quick |-> [Call("gun", TRUE) EXCEPT !.delay = 2, !.cycles = 0],
   rwcall |-> [Call("gun", TRUE) EXCEPT !.rw = TRUE],
   rwwait |-> [Call("hun", FALSE) EXCEPT !.rw = TRUE],
   rootcall |-> [Call("fun", TRUE) EXCEPT !.rw = TRUE, !.root = TRUE],
   read |-> [Call("gun", FALSE) EXCEPT !.rw = TRUE, !.interface = TRUE],
   fproxy |-> [Call("fun", TRUE) EXCEPT !.proxies = {"p"}],
   gproxy |-> [Call("gun", TRUE) EXCEPT !.proxies = {"p"}],
   branch |-> [Plain EXCEPT !.type = "branch", !.fus = {"ctl"}, !.delay = 1],
   return |-> [Plain EXCEPT !.type = "ret", !.fus = {"ctl"}, !.delay = 0]]

ClassNames == DOMAIN Classes

(* Three operations in a chain, a fork, a join or side by side, then what  *)
(* closes the block after every store.                                     *)
Body == <<"phi", "plain", "div", "mul", "busload", "ramload", "ownload",
          "asyncload", "busstore", "ramstore", "call", "rwcall", "rwwait", "read", "quick",
          "slow">>

Body2 == {<<Body[i], Body[j]>> : i \in 1 .. 16, j \in 2 .. 16}

SortedPairs == {<<Body[p[1]], Body[p[2]]>> :
                  p \in {q \in (1 .. 16) \X (1 .. 16) : q[1] <= q[2]}}

Sources == {"phi", "mul", "busload", "rwwait"}

Sinks == {"mul", "busload", "ramstore", "read"}

FourOps == 1 .. 4

Block3(abc, p2, p3, z, r) ==
  [class |-> Append(abc, z), registerOut |-> r, options |-> {}, pred |-> <<{}, p2, p3,
   {i \in 1 .. 3 : i = 3 \/ Classes[abc[i]].type = "store"}>>]

(* Calls of a root function before, after and beside what touches memory.  *)
Touching == {"rootcall", "rwcall", "rwwait", "busload", "ramstore"}

RootBlocks ==
  {Block3(<<a, b, c>>, p, q, "return", FALSE) :
     a \in {"rootcall", "busload"}, b \in Touching, c \in Touching,
     p \in {{}, {1}}, q \in {{}, {2}}}

(* Blocks of pipelined functions, and with the parameters.                 *)
OptionBlocks ==
  {[Block3(<<a, b, c>>, {1}, p, "return", FALSE) EXCEPT !.options = {o}] :
     a \in {"plain", "busload"}, b \in {"pipe", "mul", "plain"},
     c \in {"plain", "pipe", "ramload", "busload"}, p \in {{1}, {2}},
     o \in Options}

SmallBlocks ==
  {Block3(<<p[1], p[2], c>>, {1}, {2}, "return", FALSE) : p \in Body2, c \in Sinks}
  \cup {Block3(<<p[1], p[2], c>>, {}, {1, 2}, "return", TRUE) : p \in SortedPairs, c \in Sinks}
  \cup {Block3(<<a, p[1], p[2]>>, {1}, {1}, "return", FALSE) : p \in SortedPairs, a \in Sources}
  \cup {Block3(<<p[1], p[2], c>>, {}, {}, "branch", FALSE) : p \in SortedPairs, c \in Sinks}
  \cup RootBlocks \cup OptionBlocks

(* Two calls that reach the same proxied function, among other operations. *)
ProxyBlocks ==
  {Block3(<<"fproxy", "gproxy", c>>, {}, p, "return", FALSE) :
     c \in {"plain", "div", "busload"}, p \in SUBSET {1, 2}}
=============================================================================
