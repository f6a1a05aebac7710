------------------------------- MODULE MCMdpi -------------------------------
(* Scenarios for the co-simulation protocol.                               *)
EXTENDS Mdpi

Plain ==
  [calls |-> 2, registered |-> {0, 1}, used |-> {0, 1}, faults |-> {}, stops |-> {},
   debug |-> TRUE]

Faulty ==
  [Plain EXCEPT !.used = {0, 2}, !.faults = {"exit", "abort", "mismatch"},
                !.stops = {"timeout", "builtin"}]

Stopped ==
  [Plain EXCEPT !.calls = 1, !.registered = {0}, !.used = {0}, !.stops = {"timeout", "builtin"},
                !.debug = FALSE]

(* A stop in the first of two calls, with the assertions that notice it.    *)
StoppedEarly == [Stopped EXCEPT !.calls = 2, !.debug = TRUE]

Everything == {Plain, Faulty, Stopped, StoppedEarly}

Exits      == {[Plain EXCEPT !.faults = {"exit"}]}
Mismatches == {[Plain EXCEPT !.faults = {"mismatch"}, !.debug = FALSE]}
Builtins   == {[Stopped EXCEPT !.stops = {"builtin"}, !.debug = TRUE]}
=============================================================================
