------------------------------ MODULE SimPhases ------------------------------
(* What the testbench of the design shows of itself to the C testbench: it *)
(* is ready and asks what to do, runs the design, is ready again, and in   *)
(* the end reports how it ended.                                           *)
EXTENDS Naturals

VARIABLES phase, runs

phasevars == <<phase, runs>>

PhasesInit == phase = "ready" /\ runs = 0

Answered ==
  /\ phase = "ready"
  /\ phase' \in {"running", "ended", "aborted"}
  /\ UNCHANGED runs

RunOver == phase = "running" /\ phase' = "ready" /\ runs' = runs + 1

PhasesSpec == PhasesInit /\ [][Answered \/ RunOver]_phasevars
=============================================================================
