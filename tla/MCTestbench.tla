---------------------------- MODULE MCTestbench ----------------------------
(* Benches for TLC.  Memory of the testbench begins at 100.                *)
EXTENDS Testbench

Arg(addr, size, align, copy) == [addr |-> addr, size |-> size, align |-> align, copy |-> copy]

Var(dst, src, bytes) == [dst |-> dst, src |-> src, bytes |-> bytes]

\* The first argument is mapped to a copy.
Copies ==
  [vars |-> << >>, args |-> <<Arg(100, 3, 2, 120), Arg(110, 2, 1, 130)>>,
   base |-> 5, align |-> 2, stream |-> 3, room |-> 2, readable |-> TRUE,
   resetCycles |-> 1, resetAlways |-> FALSE, obeys |-> TRUE]

\* Two variables and two arguments, each behind the other; the arguments are
\* one memory in the testbench, too.
Contiguous ==
  [Copies EXCEPT !.vars = <<Var(4, 140, 2), Var(6, 150, 2)>>, !.base = 8,
                 !.args = <<Arg(100, 2, 1, 120), Arg(102, 2, 2, 130)>>,
                 !.stream = 1, !.room = 2, !.resetCycles = 2]

\* The arguments are the same memory; the reset is given before each call.
Aliased ==
  [Contiguous EXCEPT !.args = <<Arg(100, 2, 2, 120), Arg(100, 2, 2, 130)>>,
                     !.base = 9, !.stream = 0, !.room = 0, !.resetAlways = TRUE]

Hasty == [Copies EXCEPT !.args = << >>, !.obeys = FALSE, !.stream = 1]

Unreadable == [Copies EXCEPT !.readable = FALSE]

MCBenches == {Copies, Contiguous, Aliased, Hasty, Unreadable}
=============================================================================
