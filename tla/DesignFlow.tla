----------------------------- MODULE DesignFlow -----------------------------
(***************************************************************************)
(* The design flow manager (src/src/design_flows/design_flow_manager.cpp): *)
(* the engine that orders and runs every step of the tool, from parsing to *)
(* HDL generation.                                                         *)
(*                                                                         *)
(* Steps are registered together with the steps they need (dependences,    *)
(* which make the source necessary) and the steps they have to follow      *)
(* (precedences, which do not).  Relationships are recomputed whenever a   *)
(* step is considered, because what a step needs changes with the          *)
(* intermediate representation; and a step that has run may invalidate     *)
(* steps before it, which are then run again together with everything      *)
(* after them.                                                             *)
(*                                                                         *)
(* The entry vertex is always EMPTY and can only satisfy an in-edge, so it *)
(* is left out with its AUXILIARY edges (the only ones the removal at      *)
(* lines 509-524 can reach); the exit vertex is Exit.                      *)
(***************************************************************************)
EXTENDS Naturals, FiniteSets

CONSTANTS
  Steps,            \* the steps the factories can create, by signature
  Exit,             \* the exit vertex of the design flow graph
  Flows,            \* the relationships to consider, one record per flow
  Outcomes,         \* what Exec() of a step may return
  MaxInvalidations, \* bound: how often the steps of one flow invalidate
  Shuffle,          \* --test-single-non-deterministic-flow: extract at random
  Asserts           \* HAVE_ASSERTS: THROW_ASSERT is compiled in

Vertices == Steps \cup {Exit}

\* A flow: dep and prec hold <<source, target>> pairs; late holds
\* <<trigger, source, target>>, a dependence that appears once the trigger
\* has changed the representation; gone, likewise, one that disappears;
\* inval holds <<invalidating, invalidated>>.
FlowType ==
  [dep : SUBSET (Steps \X Steps), prec : SUBSET (Steps \X Steps),
   late : SUBSET (Steps \X Steps \X Steps),
   gone : SUBSET (Steps \X Steps \X Steps),
   inval : SUBSET (Steps \X Steps),
   roots : SUBSET (SUBSET Steps), composed : SUBSET Steps]

Completed == {"ABORTED", "EMPTY", "SKIPPED", "SUCCESS", "UNCHANGED"}
Waiting   == {"UNNECESSARY", "UNEXECUTED"}
Status    == Completed \cup Waiting \cup {"NONEXISTENT"}

ASSUME ExitAssumption == Exit \notin Steps
ASSUME FlowsAssumption == Flows \subseteq FlowType
ASSUME OutcomesAssumption ==
  Outcomes \subseteq {"ABORTED", "EMPTY", "SUCCESS", "UNCHANGED"}
ASSUME BoundAssumption == MaxInvalidations \in Nat
ASSUME SwitchAssumption == Shuffle \in BOOLEAN /\ Asserts \in BOOLEAN

VARIABLES
  flow,     \* the flow being executed
  changed,  \* steps that have changed the representation (they drive late)
  status,   \* DesignFlowStepInfo::status of each vertex
  edges,    \* design_flow_graph: pairs of vertices
  needs,    \* the edges that carry the DEPENDENCE type
  ready,    \* possibly_ready: the key each vertex it holds was filed under
  forced,   \* history: invalidated steps not executed since
  left,     \* remaining invalidations
  pc        \* where the program is, or which check stopped it

vars == <<flow, changed, status, edges, needs, ready, forced, left, pc>>

-----------------------------------------------------------------------------
(* Relationships and graph queries. *)

\* The elements of U that S reaches along R: no set without x that contains S
\* is closed under R.
ReachFrom(S, R, U) ==
  {x \in U : \A T \in SUBSET (U \ (S \cup {x})) :
                x \in S \/ \E e \in R : e[1] \in S \cup T /\ e[2] \in U \ (S \cup T)}

\* ComputeRelationships(DEPENDENCE_RELATIONSHIP) of s at present.
Dependences(s) ==
  {a \in Steps :
     \/ /\ <<a, s>> \in flow.dep
        /\ \A x \in changed : <<x, a, s>> \notin flow.gone
     \/ \E x \in changed : <<x, a, s>> \in flow.late}

\* ComputeRelationships(PRECEDENCE_RELATIONSHIP) of s.
Precedences(s) == {a \in Steps : <<a, s>> \in flow.prec}

Predecessors(s) == Dependences(s) \cup Precedences(s)

\* The completed vertices.  RecursivelyAddSteps leaves this set alone: it only
\* turns NONEXISTENT into waiting, and UNNECESSARY into UNEXECUTED.
Done == {v \in Vertices : status[v] \in Completed}

\* Every in-edge of v in graph E comes from D.
AllBefore(v, E, D) == \A a \in Vertices : <<a, v>> \in E => a \in D

\* DesignFlowStepPrioritySet::compute_key: its two leading bits.  The rest is
\* the vertex address or the signature, that is, an arbitrary tie-break.
Class(v, st) ==
  (IF v \in flow.composed THEN 0 ELSE 2)
    + (IF st[v] \in {"SKIPPED", "UNNECESSARY"} THEN 1 ELSE 0)

Held == DOMAIN ready

\* Extract: the least key, or any position under Shuffle.
Extractable == {v \in Held : Shuffle \/ \A w \in Held : ready[v] <= ready[w]}

\* The set after insert(v) for v in V, which leaves a vertex already present
\* under its old key, and Update(v) for v in U, which refiles one present.
Refiled(V, U, st) ==
  [v \in V |-> IF v \in Held \ U THEN ready[v] ELSE Class(v, st)]

-----------------------------------------------------------------------------
(* RecursivelyAddSteps.  A step asked for as necessary is worked on when it *)
(* is new, or unnecessary so far; one asked for as unnecessary when it is   *)
(* new.  Working on a step asks for its relationships: the dependences with *)
(* the necessity of the step, the precedences as unnecessary.  N and O are  *)
(* the steps worked on as necessary and as unnecessary.                     *)

Absent == {s \in Steps : status[s] = "NONEXISTENT"}
Promotable == {s \in Steps : status[s] \in {"NONEXISTENT", "UNNECESSARY"}}

\* Mutant: a step that becomes necessary does not ask again for what it needs.
NeededByNew(S) ==
  ReachFrom(S \cap Promotable,
            {e \in Absent \X Promotable : e[2] \in Dependences(e[1])}, Promotable)

NeededBy(S) ==
  ReachFrom(S \cap Promotable,
            {e \in Promotable \X Promotable : e[2] \in Dependences(e[1])}, Promotable)

OptionalFor(S, N) ==
  ReachFrom((S \cup UNION {Precedences(n) : n \in N}) \cap Absent,
            {e \in Absent \X Absent : e[2] \in Predecessors(e[1])}, Absent)

\* THROW_ASSERT(dfs_info->status != SKIPPED): a skipped step is needed now.
AlreadySkipped(S, N) ==
  \E a \in S \cup UNION {Dependences(n) : n \in N} : status[a] = "SKIPPED"

AddedStatus(N, O) ==
  [v \in Vertices |->
     IF v \in N THEN "UNEXECUTED" ELSE IF v \in O THEN "UNNECESSARY" ELSE status[v]]

AddedEdges(W) ==
  edges \cup {e \in Steps \X W : e[1] \in Predecessors(e[2])}
        \cup {e \in W \X {Exit} : \A t \in Vertices : <<e[1], t>> \notin edges}

AddedNeeds(W) == needs \cup {e \in Steps \X W : e[1] \in Dependences(e[2])}

AddedReady(W) == {s \in W : AllBefore(s, AddedEdges(W), Done)}

\* AddStep and AddSteps, called before Exec; a step that becomes necessary is
\* refiled by Update.
AddSteps(S) ==
  /\ pc = "adding"
  /\ \E N \in {NeededBy(S)} : \E O \in {OptionalFor({}, N)} :
       IF Asserts /\ AlreadySkipped(S, N)
       THEN /\ pc' = "already_skipped"
            /\ UNCHANGED <<status, edges, needs, ready>>
       ELSE /\ status' = AddedStatus(N, O)
            /\ edges' = AddedEdges(N \cup O)
            /\ needs' = AddedNeeds(N \cup O)
            /\ ready' = Refiled(Held \cup AddedReady(N \cup O), N, status')
            /\ pc' = pc
  /\ UNCHANGED <<flow, changed, forced, left>>

StartExec ==
  /\ pc = "adding"
  /\ \E s \in Steps : status[s] # "NONEXISTENT"
  /\ pc' = "loop"
  /\ UNCHANGED <<flow, changed, status, edges, needs, ready, forced, left>>

-----------------------------------------------------------------------------
(* Exec: one action per way an iteration of the loop can end.               *)

Unnecessary(v) == status[v] = "UNNECESSARY"

\* The relationships of v are recomputed: what is asked for as necessary, and
\* what is asked for as unnecessary.
AskedNeeded(v)   == IF v = Exit \/ Unnecessary(v) THEN {} ELSE Dependences(v)
AskedOptional(v) ==
  IF v = Exit THEN {} ELSE IF Unnecessary(v) THEN Predecessors(v) ELSE Precedences(v)

Linked(v, before, E) == E \cup {e \in Steps \X {v} : v # Exit /\ e[1] \in before}
LinkedEdges(v, W) == Linked(v, Predecessors(v), AddedEdges(W))

\* Mutant: current_ready forgets the precedences.
ReadyByDependences(v) == v = Exit \/ Dependences(v) \subseteq Done

\* current_ready: only the recomputed relationships are looked at.
CurrentReady(v) == v = Exit \/ Predecessors(v) \subseteq Done

\* THROW_ASSERT in RecursivelyAddSteps.
StopAlreadySkipped(v, N) ==
  /\ Asserts /\ AlreadySkipped(AskedNeeded(v), N)
  /\ pc' = "already_skipped"
  /\ UNCHANGED <<flow, changed, status, edges, needs, ready, forced, left>>

\* if(!current_ready) continue: v is dropped, a predecessor will insert it.
PutAside(v, N, O) ==
  /\ ~(Asserts /\ AlreadySkipped(AskedNeeded(v), N))
  /\ ~CurrentReady(v)
  /\ status' = AddedStatus(N, O)
  /\ edges' = LinkedEdges(v, N \cup O)
  /\ needs' = Linked(v, Dependences(v), AddedNeeds(N \cup O))
  /\ ready' = Refiled((Held \ {v}) \cup AddedReady(N \cup O), N, status')
  /\ UNCHANGED <<flow, changed, forced, left, pc>>

\* The status v gets: SKIPPED, what Exec() returns, or UNCHANGED when
\* HasToBeExecuted() says no.  The exit step returns EMPTY.
Results(v) ==
  IF Unnecessary(v) THEN {"SKIPPED"}
  ELSE IF v = Exit THEN {"EMPTY"} ELSE Outcomes \cup {"UNCHANGED"}

\* ComputeRelationships(INVALIDATION_RELATIONSHIP).  Most steps ask for another
\* run of earlier ones after SUCCESS only, multi_way_if when it did not run.
Invalidations(v) ==
  IF left = 0 THEN {{}} ELSE SUBSET {r \in Steps : <<v, r>> \in flow.inval}

\* Mutants: DeExecute stops at the successors; it also goes back.
ConeOfSuccessors(S, E, D) == S \cup {t \in D \cap Vertices : \E s \in S : <<s, t>> \in E}
ConeBothWays(S, E, D) ==
  ReachFrom(S, {e \in E \cup {<<d[2], d[1]>> : d \in E} : e[2] \in D}, Vertices)

\* DeExecute visits a vertex and, from there on, its completed successors.
Cone(S, E, D) == ReachFrom(S, {e \in E : e[2] \in D}, Vertices)

\* What DeExecute has visited before it is called on r.
VisitedBefore(r, I, rank, E, D) == Cone({q \in I : rank[q] < rank[r]}, E, D)

\* The invalidated steps whose DeExecute call does not return at once.
Forces(I, rank, E, D) == {r \in I : r \notin VisitedBefore(r, I, rank, E, D)}

DeExecuted(st, cone, forces) ==
  [w \in Vertices |->
     IF w \notin cone \/ st[w] \notin Completed THEN st[w]
     ELSE IF st[w] = "SKIPPED" /\ w \notin forces THEN "UNNECESSARY" ELSE "UNEXECUTED"]

\* Mutant: DeExecute does not insert.
NoneReady(I, rank, E, D) == {}

\* Only a vertex DeExecute is called on can find its predecessors completed.
DeExecutedReady(I, rank, E, D) ==
  {r \in Forces(I, rank, E, D) : AllBefore(r, E, D \ VisitedBefore(r, I, rank, E, D))}

\* Mutant: the successors are checked before the status of v is set.
SuccessorsTooEarly(v, E, D) ==
  {t \in Vertices \ D : <<v, t>> \in E /\ AllBefore(t, E, D \ {v})}

\* "Starting checking of new ready steps".
ReadySuccessors(v, E, D) == {t \in Vertices \ D : <<v, t>> \in E /\ AllBefore(t, E, D)}

\* Mutant: any edge counts as one to the exit.
PrunedAnywhere(E) == {e \in E : \A t \in Steps \ {e[2]} : <<e[1], t>> \notin E}

\* A vertex with another successor need not be linked to the exit.
Pruned(E) == {e \in E : e[2] = Exit => \A t \in Steps : <<e[1], t>> \notin E}

\* THROW_UNREACHABLE("Invalidating ... which is not before the current one").
NotBefore(v, I, E) ==
  \E r \in I : v \notin ReachFrom({t \in Vertices : <<r, t>> \in E}, E, Vertices)

StopNotBefore(v, I, E) ==
  /\ NotBefore(v, I, E)
  /\ pc' = "not_before"
  /\ UNCHANGED <<flow, changed, status, edges, needs, ready, forced, left>>

\* The rest of the iteration; rank is the order in which the (unordered) set
\* of invalidated steps is walked.
Conclude(v, result, I, rank, N, O, E) ==
  /\ ~NotBefore(v, I, E)
  /\ \E D \in {Done \cup {v}} : \E cone \in {Cone(I, E, D)} :
     \E forces \in {Forces(I, rank, E, D)} :
       /\ status' = DeExecuted([AddedStatus(N, O) EXCEPT ![v] = result], cone, forces)
       /\ ready' = Refiled((Held \ {v}) \cup AddedReady(N \cup O)
                             \cup DeExecutedReady(I, rank, E, D)
                             \cup ReadySuccessors(v, E, D \ cone),
                           N \cup forces, status')
  /\ edges' = Pruned(E)
  /\ needs' = Linked(v, Dependences(v), AddedNeeds(N \cup O))
  /\ changed' = IF result = "SUCCESS" THEN changed \cup {v} ELSE changed
  /\ forced' = (IF result = "SKIPPED" THEN forced ELSE forced \ {v}) \cup I
  /\ left' = IF I = {} THEN left ELSE left - 1
  /\ UNCHANGED <<flow, pc>>

Orders(I) ==
  {rank \in [I -> 1..Cardinality(I)] : \A q, r \in I : rank[q] = rank[r] => q = r}

Perform(v, N, O) ==
  /\ ~(Asserts /\ AlreadySkipped(AskedNeeded(v), N))
  /\ CurrentReady(v)
  /\ \E E \in {LinkedEdges(v, N \cup O)}, result \in Results(v) :
     \E I \in Invalidations(v) :
       \/ StopNotBefore(v, I, E)
       \/ \E rank \in Orders(I) : Conclude(v, result, I, rank, N, O, E)

Iterate ==
  /\ pc = "loop"
  /\ \E v \in Extractable :
     \E N \in {NeededBy(AskedNeeded(v))} : \E O \in {OptionalFor(AskedOptional(v), N)} :
       StopAlreadySkipped(v, N) \/ PutAside(v, N, O) \/ Perform(v, N, O)

\* The loop is over when nothing is ready; then the exit must be EMPTY.
FinishExec ==
  /\ pc = "loop"
  /\ Held = {}
  /\ pc' = IF status[Exit] = "EMPTY" THEN "ended" ELSE "not_ended"
  /\ UNCHANGED <<flow, changed, status, edges, needs, ready, forced, left>>

-----------------------------------------------------------------------------
Init ==
  /\ flow \in Flows
  /\ changed = {}
  /\ status = [v \in Vertices |-> IF v = Exit THEN "UNEXECUTED" ELSE "NONEXISTENT"]
  /\ edges = {} /\ needs = {}
  /\ ready = [v \in {} |-> 0]
  /\ forced = {}
  /\ left = MaxInvalidations
  /\ pc = "adding"

Next ==
  \/ \E S \in flow.roots : AddSteps(S)
  \/ StartExec
  \/ Iterate
  \/ FinishExec

\* One thread runs the program from AddSteps to the end of Exec.
Spec == Init /\ [][Next]_vars /\ WF_vars(Next)

-----------------------------------------------------------------------------
(* Properties. *)

\* Every variable has its type; every key is one compute_key can return.
TypeOK ==
  /\ flow \in FlowType
  /\ changed \subseteq Steps
  /\ status \in [Vertices -> Status]
  /\ edges \subseteq Vertices \X Vertices
  /\ needs \subseteq edges
  /\ Held \subseteq Vertices
  /\ \A v \in Held : ready[v] \in 0..3
  /\ forced \subseteq Steps
  /\ left \in 0..MaxInvalidations
  /\ pc \in {"adding", "loop", "ended", "not_ended", "not_before", "already_skipped"}

IsWaiting(v) == status[v] \in Waiting
HeldBack(v) == \E a \in Vertices : <<a, v>> \in edges /\ IsWaiting(a)

\* Exec drops a step that is not ready and never looks for it again: whatever
\* is still to be run must be in possibly_ready or have a predecessor still to
\* be run, whose own iteration will insert it.
NoLostStep == \A v \in Steps : IsWaiting(v) => v \in Held \/ HeldBack(v)

\* A completed step is up to date: DeExecute reached it whenever a step it was
\* ordered after had to be run again.
UpToDate == \A e \in edges : e[2] \in Done \cap Steps => e[1] \in Done

\* When the loop is over every registered step has been run or skipped.
CompleteAtEnd == pc \in {"ended", "not_ended"} => \A s \in Steps : ~IsWaiting(s)

Steady == flow.late = {} /\ flow.gone = {} /\ flow.inval = {}

Necessary(v) == status[v] \notin {"NONEXISTENT", "UNNECESSARY", "SKIPPED"}

\* "Source must be executed to satisfy target": no dependence of a necessary
\* step is skipped or about to be, as long as the relationships do not change.
NeedsAreNecessary ==
  Steady => \A e \in needs : Necessary(e[2]) => Necessary(e[1])

\* "Target must be reexecuted": an invalidated step is not skipped instead.
InvalidatedIsReexecuted == \A s \in forced : Necessary(s)

\* A step is run again only downstream of an invalidation of this iteration.
RerunsAreCaused ==
  [][\A v \in Steps : (v \in Done /\ status'[v] \in Waiting) =>
       \E r \in forced' : v \in ReachFrom({r}, edges', Vertices)]_vars

\* Exec returns, however often the steps were invalidated in between; a check
\* may stop it earlier only when the relationships change.
Ends ==
  <>(pc = "ended" \/ (~Steady /\ pc \in {"not_before", "already_skipped"}))

-----------------------------------------------------------------------------
\* What the manager promises whatever the steps do: FlowOrder.
Order == INSTANCE FlowOrder WITH
           Tasks <- Steps,
           order <- {e \in edges : e[2] \in Steps},
           complete <- Done \cap Steps
KeepsOrder == Order!Spec
=============================================================================
