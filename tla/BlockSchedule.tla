---------------------------- MODULE BlockSchedule ----------------------------
(* What a scheduler promises for one basic block, whatever its algorithm:  *)
(* the operations get their place one after the other and for good, each   *)
(* after its predecessors and not before they end.                         *)
EXTENDS Naturals

CONSTANTS Op, Unit
VARIABLES
  pred,    \* the predecessors of the operations
  placed   \* the places given so far: unit, first and last step

absvars == <<pred, placed>>

Places == [unit : Unit, from : Nat, to : Nat]

AbsInit == pred \in [Op -> SUBSET Op] /\ placed = << >>

AbsPlace(v) ==
  /\ DOMAIN placed' = DOMAIN placed \cup {v}
  /\ \A w \in DOMAIN placed : placed'[w] = placed[w]
  /\ placed'[v] \in Places
  /\ placed'[v].from <= placed'[v].to
  /\ \A u \in pred[v] : u \in DOMAIN placed /\ placed[u].to <= placed'[v].from
  /\ pred' = pred

AbsNext == \E v \in Op : v \notin DOMAIN placed /\ AbsPlace(v)

AbsSpec == AbsInit /\ [][AbsNext]_absvars
=============================================================================
