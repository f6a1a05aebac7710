---------------------------- MODULE MCDesignFlow ----------------------------
(***************************************************************************)
(* Small flows for DesignFlow: every acyclic graph of N steps in which     *)
(* lower numbers come first, each pair of steps related by a dependence, a *)
(* precedence or nothing, with the ways relationships change and steps     *)
(* invalidate others that a run asks for.                                  *)
(***************************************************************************)
EXTENDS DesignFlow

CONSTANTS
  N,             \* number of steps
  Composed,      \* composed steps (frontend and synthesis flows)
  Appearing,     \* sets of dependences that appear: <<trigger, from, to>>
  Disappearing,  \* sets of dependences that disappear
  Invalidating   \* sets of invalidations: <<from, to>>

MCSteps == 1..N
MCExit  == N + 1
Pairs   == {p \in MCSteps \X MCSteps : p[1] < p[2]}
Graphs  == [Pairs -> {"dep", "prec", "none"}]

Related(g, kinds) == {p \in Pairs : g[p] \in kinds}

\* The last step is always asked for; the one before it may be too.
Flow(g, late, gone, inval) ==
  [dep |-> Related(g, {"dep"}), prec |-> Related(g, {"prec"}), late |-> late,
   gone |-> gone, inval |-> inval, roots |-> {{N - 1}, {N}}, composed |-> Composed]

\* A step invalidates only steps it knows to be before it.
KnowsOrder(f) ==
  \A p \in f.inval : p[1] \in ReachFrom({p[2]}, f.dep \cup f.prec, MCSteps)

MCAllFlows ==
  {Flow(g, late, gone, inval) :
     g \in Graphs, late \in Appearing, gone \in Disappearing, inval \in Invalidating}

MCFlows == {f \in MCAllFlows : KnowsOrder(f)}

\* Relationships that never change, that appear while steps are invalidated,
\* or that disappear.
MCMixedFlows ==
  {f \in MCFlows : (f.late = {}) = (f.inval = {}) /\ (f.gone # {} => f.inval = {})}

\* Values for the constants above.
Nothing   == {{}}
MayAppear == {{}, {<<2, 1, 4>>}}
Appears   == {{<<3, 1, 2>>}}
Vanishes  == {{}, {<<3, 1, 2>>}}
OneAgain  == {{}, {<<3, 1>>}}
TwoAgain  == {{<<3, 1>>, <<3, 2>>}}
=============================================================================
