-------------------------- MODULE DesignFlow_proofs -------------------------
(***************************************************************************)
(* Theorems about DesignFlow for every set of steps, every flow and every  *)
(* bound: the manager never loses a step, leaves none behind when its loop *)
(* is over, keeps the promise FlowOrder states, skips nothing that is      *)
(* needed, and runs a step again only because of an invalidation.          *)
(***************************************************************************)
EXTENDS DesignFlow, TLAPS

-----------------------------------------------------------------------------
(* Reachability. *)

\* What is reached is in U, and what is in U and in S is reached.
LEMMA ReachBase ==
  ASSUME NEW S, NEW R, NEW U
  PROVE  /\ ReachFrom(S, R, U) \subseteq U
         /\ S \cap U \subseteq ReachFrom(S, R, U)
  BY DEF ReachFrom

\* An element of U one edge away from what is reached is reached.
LEMMA ReachStep ==
  ASSUME NEW S, NEW R, NEW U, NEW e \in R,
         e[1] \in S \cup ReachFrom(S, R, U), e[2] \in U
  PROVE  e[2] \in ReachFrom(S, R, U)
<1> SUFFICES ASSUME NEW T \in SUBSET (U \ (S \cup {e[2]})), e[2] \notin S
             PROVE  \E d \in R : d[1] \in S \cup T /\ d[2] \in U \ (S \cup T)
  BY DEF ReachFrom
<1>1. CASE e[1] \in S \cup T
  BY <1>1
<1>2. CASE e[1] \notin S \cup T
  <2>1. e[1] \in ReachFrom(S, R, U) /\ T \in SUBSET (U \ (S \cup {e[1]}))
    BY <1>2
  <2> QED BY <1>2, <2>1 DEF ReachFrom
<1> QED BY <1>1, <1>2

\* What is reached and not in S is one edge away from something reached.
LEMMA ReachLast ==
  ASSUME NEW S, NEW R, NEW U, NEW x \in ReachFrom(S, R, U), x \notin S
  PROVE  \E e \in R : e[2] = x /\ e[1] \in S \cup ReachFrom(S, R, U)
<1> DEFINE T == ReachFrom(S, R, U) \ (S \cup {x})
<1>1. T \in SUBSET (U \ (S \cup {x}))
  BY ReachBase
<1>2. PICK e \in R : e[1] \in S \cup T /\ e[2] \in U \ (S \cup T)
  BY <1>1 DEF ReachFrom
<1>3. e[2] \in ReachFrom(S, R, U)
  BY <1>2, ReachStep
<1> QED BY <1>2, <1>3

\* Nothing is reached from nothing.
LEMMA NothingReached ==
  ASSUME NEW R, NEW U
  PROVE  ReachFrom({}, R, U) = {}
<1> SUFFICES ASSUME NEW x \in ReachFrom({}, R, U) PROVE FALSE
  OBVIOUS
<1>1. {} \in SUBSET (U \ ({} \cup {x}))
  OBVIOUS
<1>2. \E e \in R : e[1] \in {} \cup {} /\ e[2] \in U \ ({} \cup {})
  BY <1>1 DEF ReachFrom
<1> QED BY <1>2

\* More starting points reach more.
LEMMA ReachMonotone ==
  ASSUME NEW S, NEW R, NEW U, NEW V, S \subseteq V
  PROVE  ReachFrom(S, R, U) \subseteq V \cup ReachFrom(V, R, U)
<1> SUFFICES ASSUME NEW x \in ReachFrom(S, R, U), x \notin V,
                    x \notin ReachFrom(V, R, U)
             PROVE  FALSE
  OBVIOUS
<1>1. PICK T \in SUBSET (U \ (V \cup {x})) :
         ~ \E e \in R : e[1] \in V \cup T /\ e[2] \in U \ (V \cup T)
  BY ReachBase DEF ReachFrom
<1> DEFINE T0 == ((T \cup V) \cap U) \ S
<1>2. T0 \in SUBSET (U \ (S \cup {x}))
  OBVIOUS
<1>3. PICK e \in R : e[1] \in S \cup T0 /\ e[2] \in U \ (S \cup T0)
  BY <1>2 DEF ReachFrom
<1> QED BY <1>1, <1>3

-----------------------------------------------------------------------------
(* Adding steps. *)

\* What holds of the steps worked on, and of the status they get, whoever asked
\* for S as necessary and for P as unnecessary.
LEMMA Adding ==
  ASSUME TypeOK, NEW S \in SUBSET Steps, NEW P \in SUBSET Steps,
         NEW N, N = NeededBy(S), NEW O, O = OptionalFor(P, N)
  PROVE  /\ N \subseteq Promotable /\ O \subseteq Absent
         /\ N \cup O \subseteq Steps \ Done
         /\ AddedStatus(N, O) \in [Vertices -> Status]
         /\ \A v \in Vertices : AddedStatus(N, O)[v] \in Completed <=> v \in Done
         /\ \A v \in Vertices :
              AddedStatus(N, O)[v] # "NONEXISTENT" <=>
                v \in N \cup O \/ status[v] # "NONEXISTENT"
         /\ \A v \in Vertices \ (N \cup O) : AddedStatus(N, O)[v] = status[v]
         /\ \A w \in N \cup O : \A a \in Predecessors(w) :
              a \in N \cup O \/ status[a] # "NONEXISTENT"
         /\ \A a \in S \cup P : a \in N \cup O \/ status[a] # "NONEXISTENT"
<1> DEFINE RN == {e \in Promotable \X Promotable : e[2] \in Dependences(e[1])}
           RO == {e \in Absent \X Absent : e[2] \in Predecessors(e[1])}
           SO == (P \cup UNION {Precedences(n) : n \in N}) \cap Absent
<1>1. N = ReachFrom(S \cap Promotable, RN, Promotable) /\ O = ReachFrom(SO, RO, Absent)
  BY DEF NeededBy, OptionalFor
<1>2. N \subseteq Promotable /\ O \subseteq Absent
  <2> HIDE DEF RN, RO, SO
  <2> QED BY <1>1, ReachBase
<1>3. N \cup O \subseteq Steps \ Done
  BY <1>2 DEF Promotable, Absent, Done, Completed
<1>4. /\ AddedStatus(N, O) \in [Vertices -> Status]
      /\ \A v \in Vertices : AddedStatus(N, O)[v] \in Completed <=> v \in Done
      /\ \A v \in Vertices :
           AddedStatus(N, O)[v] # "NONEXISTENT" <=>
             v \in N \cup O \/ status[v] # "NONEXISTENT"
      /\ \A v \in Vertices \ (N \cup O) : AddedStatus(N, O)[v] = status[v]
  BY <1>3 DEF AddedStatus, TypeOK, Status, Waiting, Completed, Done, Vertices
<1>5. ASSUME NEW w \in N \cup O, NEW a \in Predecessors(w)
      PROVE  a \in N \cup O \/ status[a] # "NONEXISTENT"
  <2> SUFFICES ASSUME status[a] = "NONEXISTENT" PROVE a \in N \cup O
    OBVIOUS
  <2>1. a \in Absent /\ a \in Promotable
    BY DEF Absent, Promotable, Predecessors, Dependences, Precedences
  <2>2. CASE w \in N /\ a \in Dependences(w)
    <3>1. <<w, a>> \in RN
      BY <1>2, <2>1, <2>2
    <3>2. \A e \in RN : e[1] \in N /\ e[2] \in Promotable => e[2] \in N
      <4> HIDE DEF RN
      <4> QED BY <1>1, ReachStep
    <3> QED BY <2>1, <2>2, <3>1, <3>2
  <2>3. CASE w \in N /\ a \in Precedences(w)
    <3>1. a \in SO
      BY <2>1, <2>3
    <3> HIDE DEF SO, RO
    <3> QED BY <1>1, <2>1, <3>1, ReachBase
  <2>4. CASE w \in O
    <3>1. <<w, a>> \in RO
      BY <1>2, <2>1, <2>4
    <3>2. \A e \in RO : e[1] \in O /\ e[2] \in Absent => e[2] \in O
      <4> HIDE DEF RO, SO
      <4> QED BY <1>1, ReachStep
    <3> QED BY <2>1, <2>4, <3>1, <3>2
  <2> QED BY <2>2, <2>3, <2>4 DEF Predecessors
<1>6. ASSUME NEW a \in S \cup P
      PROVE  a \in N \cup O \/ status[a] # "NONEXISTENT"
  <2> SUFFICES ASSUME status[a] = "NONEXISTENT" PROVE a \in N \cup O
    OBVIOUS
  <2>1. a \in Absent /\ a \in Promotable
    BY DEF Absent, Promotable
  <2>2. (a \in S => a \in N) /\ (a \in P => a \in O)
    <3>1. a \in P => a \in SO
      BY <2>1
    <3> HIDE DEF RN, RO, SO
    <3> QED BY <1>1, <2>1, <3>1, ReachBase
  <2> QED BY <2>2
<1> QED BY <1>2, <1>3, <1>4, <1>5, <1>6

-----------------------------------------------------------------------------
(* The inductive invariant. *)

\* Edges start at steps; dependences end at steps too.
EdgesShaped == edges \subseteq Steps \X Vertices /\ needs \subseteq Steps \X Steps

\* A step is registered with everything before it; the exit always is.
EdgesRegistered ==
  /\ status[Exit] # "NONEXISTENT"
  /\ \A e \in edges : status[e[1]] # "NONEXISTENT" /\ status[e[2]] # "NONEXISTENT"

\* What is held to be run waits to be run.
HeldIsWaiting == \A v \in Held : IsWaiting(v)

IInv == TypeOK /\ EdgesShaped /\ EdgesRegistered /\ HeldIsWaiting /\ NoLostStep

LEMMA InitIInv == Init => IInv
  BY FlowsAssumption, ExitAssumption, BoundAssumption
  DEF Init, IInv, TypeOK, Status, Waiting, Completed, Vertices, Held, Done,
      EdgesShaped, EdgesRegistered, HeldIsWaiting, NoLostStep, IsWaiting

\* compute_key stays in range, and the set holds what it is asked to.
LEMMA Refiling ==
  ASSUME TypeOK, NEW V \in SUBSET Vertices, NEW U, NEW st
  PROVE  /\ DOMAIN Refiled(V, U, st) = V
         /\ \A v \in V : Refiled(V, U, st)[v] \in 0..3
<1>1. \A v : Class(v, st) \in 0..3
  BY DEF Class
<1> QED BY <1>1 DEF Refiled, TypeOK, Held

\* The edges added with W start at steps, end in W or come from W; the others
\* are those there were.
LEMMA AddingEdges ==
  ASSUME TypeOK, EdgesShaped, NEW W \in SUBSET Steps
  PROVE  /\ AddedEdges(W) \subseteq Steps \X Vertices
         /\ AddedNeeds(W) \subseteq Steps \X Steps
         /\ AddedNeeds(W) \subseteq AddedEdges(W)
         /\ edges \subseteq AddedEdges(W)
         /\ \A e \in AddedEdges(W) :
              \/ e \in edges
              \/ e[2] \in W /\ e[1] \in Predecessors(e[2])
              \/ e[1] \in W /\ e[2] = Exit
  BY DEF AddedEdges, AddedNeeds, TypeOK, EdgesShaped, Vertices, Predecessors

\* Linking v adds the edges from what is to come before it, and no other.
LEMMA Linking ==
  ASSUME TypeOK, EdgesShaped, NEW W \in SUBSET Steps, NEW v \in Vertices
  PROVE  /\ LinkedEdges(v, W) \subseteq Steps \X Vertices
         /\ AddedEdges(W) \subseteq LinkedEdges(v, W)
         /\ Linked(v, Dependences(v), AddedNeeds(W))
              \subseteq LinkedEdges(v, W) \cap (Steps \X Steps)
         /\ \A e \in LinkedEdges(v, W) :
              \/ e \in AddedEdges(W)
              \/ e[2] = v /\ v # Exit /\ e[1] \in Predecessors(v)
         /\ v # Exit => \A a \in Predecessors(v) : <<a, v>> \in LinkedEdges(v, W)
<1>1. v # Exit => v \in Steps
  BY DEF Vertices
<1> QED BY <1>1, AddingEdges
        DEF LinkedEdges, Linked, Predecessors, Dependences, Precedences

LEMMA AddStepsIInv ==
  ASSUME IInv, NEW S \in flow.roots, AddSteps(S)
  PROVE  IInv'
<1> USE DEF IInv
<1>1. S \in SUBSET Steps
  BY DEF TypeOK, FlowType
<1> DEFINE Effect(N, O) ==
      IF Asserts /\ AlreadySkipped(S, N)
      THEN /\ pc' = "already_skipped"
           /\ UNCHANGED <<status, edges, needs, ready>>
      ELSE /\ status' = AddedStatus(N, O)
           /\ edges' = AddedEdges(N \cup O)
           /\ needs' = AddedNeeds(N \cup O)
           /\ ready' = Refiled(Held \cup AddedReady(N \cup O), N, status')
           /\ pc' = pc
<1>2. PICK N \in {NeededBy(S)} : \E O \in {OptionalFor({}, N)} : Effect(N, O)
  BY DEF AddSteps
<1>3. PICK O \in {OptionalFor({}, N)} : Effect(N, O)
  BY <1>2
<1>4. UNCHANGED <<flow, changed, forced, left>> /\ pc = "adding"
  BY DEF AddSteps
<1>5. CASE Asserts /\ AlreadySkipped(S, N)
  BY <1>3, <1>4, <1>5
  DEF TypeOK, EdgesShaped, EdgesRegistered, HeldIsWaiting, NoLostStep, Held, Done,
      IsWaiting, HeldBack
<1>6. CASE ~(Asserts /\ AlreadySkipped(S, N))
  <2> DEFINE W == N \cup O
             H == Held \cup AddedReady(W)
  <2>1. /\ status' = AddedStatus(N, O) /\ edges' = AddedEdges(W)
        /\ needs' = AddedNeeds(W) /\ ready' = Refiled(H, N, status') /\ pc' = pc
    BY <1>3, <1>6
  <2>2. /\ W \subseteq Steps \ Done
        /\ status' \in [Vertices -> Status]
        /\ \A v \in Vertices : status'[v] \in Completed <=> v \in Done
        /\ \A v \in Vertices :
             status'[v] # "NONEXISTENT" <=> v \in W \/ status[v] # "NONEXISTENT"
        /\ \A v \in Vertices \ W : status'[v] = status[v]
        /\ \A w \in W : \A a \in Predecessors(w) : a \in W \/ status[a] # "NONEXISTENT"
    BY <1>1, <1>2, <1>3, <2>1, Adding
  <2>3. /\ edges' \subseteq Steps \X Vertices
        /\ needs' \subseteq Steps \X Steps
        /\ needs' \subseteq edges'
        /\ edges \subseteq edges'
        /\ \A e \in edges' :
             \/ e \in edges
             \/ e[2] \in W /\ e[1] \in Predecessors(e[2])
             \/ e[1] \in W /\ e[2] = Exit
    BY <2>1, <2>2, AddingEdges
  <2>4. H \subseteq Vertices /\ \A v \in H : IsWaiting(v)'
    <3>1. \A v \in W : v \in Vertices /\ IsWaiting(v)'
      BY <2>2 DEF IsWaiting, Status, Vertices, Done
    <3>2. \A v \in Held \ W : v \in Vertices /\ IsWaiting(v)'
      BY <2>2 DEF IsWaiting, TypeOK, HeldIsWaiting
    <3> QED BY <3>1, <3>2 DEF AddedReady
  <2>5. Held' = H /\ \A v \in H : ready'[v] \in 0..3
    BY <2>1, <2>4, Refiling DEF Held
  <2>6. Done' = Done
    BY <2>2 DEF Done
  <2>7. TypeOK'
    BY <1>4, <2>1, <2>2, <2>3, <2>4, <2>5 DEF TypeOK, Vertices
  <2>8. EdgesShaped' /\ HeldIsWaiting'
    BY <2>3, <2>4, <2>5 DEF EdgesShaped, HeldIsWaiting
  <2>9. EdgesRegistered'
    BY <2>2, <2>3, ExitAssumption DEF EdgesRegistered, EdgesShaped, Vertices, Predecessors, Dependences,
       Precedences
  <2>10. NoLostStep'
    <3> SUFFICES ASSUME NEW w \in Steps, IsWaiting(w)'
                 PROVE  w \in Held' \/ HeldBack(w)'
      BY DEF NoLostStep
    <3>1. \A a \in Vertices : <<a, w>> \in edges' /\ a \notin Done => IsWaiting(a)'
      BY <2>2, <2>9 DEF EdgesRegistered, IsWaiting, Status
    <3>2. CASE w \in W
      BY <2>1, <2>5, <3>1, <3>2 DEF AddedReady, AllBefore, HeldBack
    <3>3. CASE w \notin W
      <4>1. IsWaiting(w)
        BY <2>2, <3>3 DEF IsWaiting, Vertices
      <4>2. w \in Held \/ HeldBack(w)
        BY <4>1 DEF NoLostStep
      <4>3. HeldBack(w) => HeldBack(w)'
        BY <2>3, <3>1 DEF HeldBack, IsWaiting, Done, Waiting, Completed
      <4> QED BY <2>5, <4>2, <4>3
    <3> QED BY <3>2, <3>3
  <2> QED BY <2>7, <2>8, <2>9, <2>10
<1> QED BY <1>5, <1>6
\* What Iterate binds: a vertex held, and the steps worked on for it.
Considered(v, N, O) ==
  v \in Held /\ N = NeededBy(AskedNeeded(v)) /\ O = OptionalFor(AskedOptional(v), N)

\* The facts every iteration starts from: W are the steps worked on, st is the
\* status they leave, E the edges once v is linked.
Prepared(v, W, st, E) ==
  /\ v \in Vertices \ (Done \cup W)
  /\ status[v] \in Waiting
  /\ W \subseteq Steps \ Done
  /\ st \in [Vertices -> Status]
  /\ \A w \in Vertices : st[w] \in Completed <=> w \in Done
  /\ \A w \in Vertices \ W : st[w] = status[w]
  /\ \A w \in Vertices :
       st[w] = "NONEXISTENT" <=> w \notin W /\ status[w] = "NONEXISTENT"
  /\ \A e \in E : st[e[1]] # "NONEXISTENT" /\ st[e[2]] # "NONEXISTENT"
  /\ E \subseteq Steps \X Vertices
  /\ edges \cup AddedEdges(W) \subseteq E
  /\ Linked(v, Dependences(v), AddedNeeds(W)) \subseteq E \cap (Steps \X Steps)
  /\ \A e \in E :
       \/ e \in edges
       \/ e[2] = Exit
       \/ e[2] \in W \cup {v} /\ e[1] \in Predecessors(e[2])
  /\ \A a \in Predecessors(v) : v # Exit => <<a, v>> \in E

LEMMA Considering ==
  ASSUME IInv, NEW v, NEW N, NEW O, Considered(v, N, O)
  PROVE  Prepared(v, N \cup O, AddedStatus(N, O), LinkedEdges(v, N \cup O))
<1> USE DEF IInv, Considered
<1> DEFINE W == N \cup O
           E == LinkedEdges(v, W)
<1>1. v \in Vertices \ Done /\ status[v] \in Waiting
  BY DEF HeldIsWaiting, TypeOK, IsWaiting, Done, Waiting, Completed
<1>2. AskedNeeded(v) \in SUBSET Steps /\ AskedOptional(v) \in SUBSET Steps
  BY DEF AskedNeeded, AskedOptional, Predecessors, Dependences, Precedences
<1>3. /\ N \subseteq Promotable /\ O \subseteq Absent
      /\ W \subseteq Steps \ Done
      /\ AddedStatus(N, O) \in [Vertices -> Status]
      /\ \A w \in Vertices : AddedStatus(N, O)[w] \in Completed <=> w \in Done
      /\ \A w \in Vertices :
           AddedStatus(N, O)[w] # "NONEXISTENT" <=> w \in W \/ status[w] # "NONEXISTENT"
      /\ \A w \in Vertices \ W : AddedStatus(N, O)[w] = status[w]
      /\ \A w \in W : \A a \in Predecessors(w) : a \in W \/ status[a] # "NONEXISTENT"
      /\ \A a \in AskedNeeded(v) \cup AskedOptional(v) :
           a \in W \/ status[a] # "NONEXISTENT"
  BY <1>2, Adding
<1>4. v # Exit => Predecessors(v) = AskedNeeded(v) \cup AskedOptional(v)
  BY DEF AskedNeeded, AskedOptional, Predecessors
<1>5. /\ AddedEdges(W) \subseteq Steps \X Vertices
      /\ AddedNeeds(W) \subseteq Steps \X Steps
      /\ AddedNeeds(W) \subseteq AddedEdges(W)
      /\ edges \subseteq AddedEdges(W)
      /\ \A e \in AddedEdges(W) :
           \/ e \in edges
           \/ e[2] \in W /\ e[1] \in Predecessors(e[2])
           \/ e[1] \in W /\ e[2] = Exit
  BY <1>3, AddingEdges
<1>6. /\ E \subseteq Steps \X Vertices
      /\ AddedEdges(W) \subseteq E
      /\ Linked(v, Dependences(v), AddedNeeds(W)) \subseteq E \cap (Steps \X Steps)
      /\ \A e \in E :
           \/ e \in AddedEdges(W)
           \/ e[2] = v /\ v # Exit /\ e[1] \in Predecessors(v)
      /\ v # Exit => \A a \in Predecessors(v) : <<a, v>> \in E
  <2>1. TypeOK /\ EdgesShaped /\ W \in SUBSET Steps /\ v \in Vertices
    BY <1>1, <1>3
  <2> HIDE DEF W
  <2> QED BY <2>1, Linking
<1> HIDE DEF E
<1>7. \A e \in E : /\ e[1] \in W \/ status[e[1]] # "NONEXISTENT"
                   /\ e[2] \in W \/ status[e[2]] # "NONEXISTENT"
  <2> SUFFICES ASSUME NEW e \in E
               PROVE  /\ e[1] \in W \/ status[e[1]] # "NONEXISTENT"
                      /\ e[2] \in W \/ status[e[2]] # "NONEXISTENT"
    OBVIOUS
  <2>1. CASE e \in edges
    BY <2>1 DEF EdgesRegistered
  <2>2. CASE e[2] \in W /\ e[1] \in Predecessors(e[2])
    BY <1>3, <2>2
  <2>3. CASE e[1] \in W /\ e[2] = Exit
    BY <2>3 DEF EdgesRegistered
  <2>4. CASE e[2] = v /\ v # Exit /\ e[1] \in Predecessors(v)
    <3>1. e[1] \in AskedNeeded(v) \cup AskedOptional(v)
      BY <1>4, <2>4
    <3>2. e[1] \in W \/ status[e[1]] # "NONEXISTENT"
      BY <1>3, <3>1
    <3>3. status[e[2]] # "NONEXISTENT"
      BY <1>1, <2>4 DEF Waiting
    <3> QED BY <3>2, <3>3
  <2> QED BY <1>5, <1>6, <2>1, <2>2, <2>3, <2>4
<1>8. /\ \A w \in Vertices : AddedStatus(N, O)[w] = "NONEXISTENT" <=>
                              w \notin W /\ status[w] = "NONEXISTENT"
      /\ \A e \in E : /\ AddedStatus(N, O)[e[1]] # "NONEXISTENT"
                      /\ AddedStatus(N, O)[e[2]] # "NONEXISTENT"
  <2> HIDE DEF W
  <2>1. \A w \in Vertices : AddedStatus(N, O)[w] = "NONEXISTENT" <=>
                            w \notin W /\ status[w] = "NONEXISTENT"
    BY <1>3
  <2>2. \A e \in E : e[1] \in Vertices /\ e[2] \in Vertices
    BY <1>6 DEF Vertices
  <2>3. \A e \in E : /\ AddedStatus(N, O)[e[1]] # "NONEXISTENT"
                     /\ AddedStatus(N, O)[e[2]] # "NONEXISTENT"
    BY <1>7, <2>1, <2>2
  <2> QED BY <2>1, <2>3
<1>9. \A e \in E :
        \/ e \in edges
        \/ e[2] = Exit
        \/ e[2] \in W \cup {v} /\ e[1] \in Predecessors(e[2])
  BY <1>5, <1>6
<1>10. edges \cup AddedEdges(W) \subseteq E
  BY <1>5, <1>6
<1>11. v \notin W
  <2>1. CASE Unnecessary(v)
    <3>1. N = {}
      BY <2>1 DEF AskedNeeded, NeededBy, ReachFrom
    <3> QED BY <1>3, <2>1, <3>1 DEF Unnecessary, Absent
  <2>2. CASE ~Unnecessary(v)
    BY <1>1, <1>3, <2>2 DEF Unnecessary, Absent, Promotable, Waiting
  <2> QED BY <2>1, <2>2
<1> QED
  <2> HIDE DEF W
  <2>1. Prepared(v, W, AddedStatus(N, O), E)
    BY <1>1, <1>3, <1>6, <1>8, <1>9, <1>10, <1>11 DEF Prepared
  <2> QED BY <2>1 DEF W, E

LEMMA PutAsideIInv ==
  ASSUME IInv, NEW v, NEW N, NEW O, Considered(v, N, O), PutAside(v, N, O)
  PROVE  IInv'
<1> DEFINE W == N \cup O
           E == LinkedEdges(v, W)
           H == (Held \ {v}) \cup AddedReady(W)
<1>1. /\ status' = AddedStatus(N, O) /\ edges' = E
      /\ needs' = Linked(v, Dependences(v), AddedNeeds(W))
      /\ ready' = Refiled(H, N, status')
      /\ UNCHANGED <<flow, changed, forced, left, pc>>
      /\ ~CurrentReady(v)
  BY DEF PutAside
<1>p. Prepared(v, W, status', E)
  BY <1>1, Considering
<1> HIDE DEF E
<1>2. /\ v \in Vertices \ Done
      /\ W \subseteq Steps \ Done
      /\ status' \in [Vertices -> Status]
      /\ \A w \in Vertices : status'[w] \in Completed <=> w \in Done
      /\ \A w \in Vertices \ W : status'[w] = status[w]
      /\ \A w \in Vertices :
           status'[w] = "NONEXISTENT" <=> w \notin W /\ status[w] = "NONEXISTENT"
      /\ \A e \in E : status'[e[1]] # "NONEXISTENT" /\ status'[e[2]] # "NONEXISTENT"
      /\ E \subseteq Steps \X Vertices
      /\ edges \cup AddedEdges(W) \subseteq E
      /\ needs' \subseteq E \cap (Steps \X Steps)
      /\ \A a \in Predecessors(v) : v # Exit => <<a, v>> \in E
  BY <1>1, <1>p DEF Prepared
<1> USE DEF IInv
<1>3. H \subseteq Vertices /\ \A w \in H : IsWaiting(w)'
  <2>1. \A w \in W : w \in Vertices /\ IsWaiting(w)'
    BY <1>2 DEF IsWaiting, Status, Vertices, Done
  <2>2. \A w \in Held \ W : w \in Vertices /\ IsWaiting(w)'
    BY <1>2 DEF IsWaiting, TypeOK, HeldIsWaiting
  <2> QED BY <2>1, <2>2 DEF AddedReady
<1>4. Held' = H /\ \A w \in H : ready'[w] \in 0..3
  BY <1>1, <1>3, Refiling DEF Held
<1>5. Done' = Done
  BY <1>2 DEF Done
<1>6. TypeOK' /\ EdgesShaped' /\ EdgesRegistered' /\ HeldIsWaiting'
  <2>1. status'[Exit] # "NONEXISTENT"
    BY <1>2 DEF EdgesRegistered, Vertices
  <2> HIDE DEF H
  <2> QED BY <1>1, <1>2, <1>3, <1>4, <1>5, <2>1
          DEF TypeOK, Vertices, EdgesShaped, EdgesRegistered, HeldIsWaiting
<1>7. NoLostStep'
  <2> SUFFICES ASSUME NEW w \in Steps, IsWaiting(w)'
               PROVE  w \in Held' \/ HeldBack(w)'
    BY DEF NoLostStep
  <2>1. \A a \in Vertices : <<a, w>> \in edges' /\ a \notin Done => IsWaiting(a)'
    BY <1>1, <1>2 DEF IsWaiting, Status
  <2>2. CASE w = v
    <3>1. PICK a \in Predecessors(v) : a \notin Done
      BY <1>1 DEF CurrentReady
    <3>2. a \in Vertices /\ <<a, w>> \in edges'
      BY <1>1, <1>2, <2>2, <3>1, ExitAssumption
      DEF Predecessors, Dependences, Precedences, Vertices
    <3> QED BY <2>1, <3>1, <3>2 DEF HeldBack
  <2>3. CASE w # v /\ w \in W
    BY <1>1, <1>2, <1>4, <2>1, <2>3 DEF AddedReady, AllBefore, HeldBack
  <2>4. CASE w # v /\ w \notin W
    <3>1. IsWaiting(w)
      BY <1>2, <2>4 DEF IsWaiting, Vertices
    <3>2. w \in Held \/ HeldBack(w)
      BY <3>1 DEF NoLostStep
    <3>3. HeldBack(w) => HeldBack(w)'
      BY <1>1, <1>2, <2>1 DEF HeldBack, IsWaiting, Done, Waiting, Completed
    <3> QED BY <1>4, <2>4, <3>2, <3>3
  <2> QED BY <2>2, <2>3, <2>4
<1> QED BY <1>6, <1>7
-----------------------------------------------------------------------------
(* De-execution. *)

\* DeExecute visits what it is called on and, from what it visits, whatever is
\* completed; it gets to the rest one edge at a time.
LEMMA Cones ==
  ASSUME NEW I \in SUBSET Vertices, NEW E, NEW D
  PROVE  /\ I \subseteq Cone(I, E, D)
         /\ Cone(I, E, D) \subseteq Vertices
         /\ \A e \in E : e[1] \in Cone(I, E, D) /\ e[2] \in D \cap Vertices
                         => e[2] \in Cone(I, E, D)
         /\ \A w \in Cone(I, E, D) \ I : \E e \in E : e[2] = w /\ e[1] \in Cone(I, E, D)
<1> DEFINE R == {e \in E : e[2] \in D}
<1>1. Cone(I, E, D) = ReachFrom(I, R, Vertices)
  BY DEF Cone
<1>2. /\ ReachFrom(I, R, Vertices) \subseteq Vertices
      /\ I \cap Vertices \subseteq ReachFrom(I, R, Vertices)
  BY ReachBase
<1>3. \A e \in R : e[1] \in ReachFrom(I, R, Vertices) /\ e[2] \in Vertices
                  => e[2] \in ReachFrom(I, R, Vertices)
  <2> HIDE DEF R
  <2> QED BY ReachStep
<1>4. \A w \in ReachFrom(I, R, Vertices) \ I :
        \E e \in R : e[2] = w /\ e[1] \in I \cup ReachFrom(I, R, Vertices)
  <2> HIDE DEF R
  <2> QED BY ReachLast
<1> QED BY <1>1, <1>2, <1>3, <1>4

\* What was visited before r is visited, and is not r unless an edge from a
\* visited vertex leads to r.
LEMMA Visits ==
  ASSUME NEW I \in SUBSET Vertices, NEW E, NEW D,
         NEW rank \in Orders(I), NEW r \in I
  PROVE  /\ VisitedBefore(r, I, rank, E, D) \subseteq Cone(I, E, D)
         /\ r \in VisitedBefore(r, I, rank, E, D) =>
              \E e \in E : e[2] = r /\ e[1] \in Cone(I, E, D)
<1> DEFINE Q == {q \in I : rank[q] < rank[r]}
<1>1. VisitedBefore(r, I, rank, E, D) = Cone(Q, E, D)
  BY DEF VisitedBefore
<1>2. Q \in SUBSET Vertices /\ Q \subseteq I
  OBVIOUS
<1>3. r \notin Q
  BY DEF Orders
<1>4. Cone(Q, E, D) \subseteq Cone(I, E, D)
  <2> HIDE DEF Q
  <2>1. Cone(Q, E, D) \subseteq I \cup Cone(I, E, D)
    BY <1>2, ReachMonotone DEF Cone
  <2> QED BY <2>1, Cones
<1>5. r \in Cone(Q, E, D) => \E e \in E : e[2] = r /\ e[1] \in Cone(Q, E, D)
  <2> HIDE DEF Q
  <2> QED BY <1>2, <1>3, Cones
<1> QED BY <1>1, <1>4, <1>5

\* The status after an iteration: what was visited and completed waits again,
\* nothing else changes.
LEMMA DeExecuting ==
  ASSUME NEW st \in [Vertices -> Status], NEW cone, NEW forces
  PROVE  /\ DeExecuted(st, cone, forces) \in [Vertices -> Status]
         /\ \A w \in Vertices :
              /\ DeExecuted(st, cone, forces)[w] \in Completed
                   <=> st[w] \in Completed /\ w \notin cone
              /\ DeExecuted(st, cone, forces)[w] = "NONEXISTENT"
                   <=> st[w] = "NONEXISTENT"
              /\ w \notin cone => DeExecuted(st, cone, forces)[w] = st[w]
  BY DEF DeExecuted, Status, Completed, Waiting
-----------------------------------------------------------------------------
(* An iteration that runs or skips v. *)

Concluded(v, result, I, rank, N, O) ==
  /\ Considered(v, N, O)
  /\ CurrentReady(v)
  /\ result \in Results(v) /\ I \in Invalidations(v) /\ rank \in Orders(I)
  /\ Conclude(v, result, I, rank, N, O, LinkedEdges(v, N \cup O))

\* What it leaves behind: W worked on, E the edges before pruning, cone visited.
Left(v, result, W, E, cone) ==
  /\ result \in Completed /\ (result = "SUCCESS" => v \in Steps)
  /\ cone \subseteq Vertices
  /\ status' \in [Vertices -> Status]
  /\ Done' = (Done \cup {v}) \ cone
  /\ \A w \in Vertices \ (W \cup cone \cup {v}) : status'[w] = status[w]
  /\ \A w \in Vertices :
       status'[w] = "NONEXISTENT" <=> w \notin W /\ status[w] = "NONEXISTENT"
  /\ edges' \subseteq E /\ \A e \in E : e[2] \in Steps => e \in edges'
  /\ needs' \subseteq E \cap (Steps \X Steps)
  /\ changed' = IF result = "SUCCESS" THEN changed \cup {v} ELSE changed

LEMMA Concluding ==
  ASSUME IInv, NEW v, NEW result, NEW I, NEW rank, NEW N, NEW O,
         Concluded(v, result, I, rank, N, O),
         NEW E, E = LinkedEdges(v, N \cup O), NEW cone, cone = Cone(I, E, Done \cup {v})
  PROVE  /\ Prepared(v, N \cup O, AddedStatus(N, O), E)
         /\ Left(v, result, N \cup O, E, cone)
         /\ I \subseteq Steps
<1> DEFINE W == N \cup O
           st == [AddedStatus(N, O) EXCEPT ![v] = result]
           forces == Forces(I, rank, E, Done \cup {v})
<1> USE DEF Concluded
<1>1. Prepared(v, W, AddedStatus(N, O), E)
  BY Considering
<1>2. /\ status' = DeExecuted(st, cone, forces)
      /\ edges' = Pruned(E)
      /\ needs' = Linked(v, Dependences(v), AddedNeeds(W))
      /\ changed' = IF result = "SUCCESS" THEN changed \cup {v} ELSE changed
  BY DEF Conclude
<1>3. I \subseteq Steps
  BY DEF Invalidations
<1>4. result \in Completed /\ (result = "SUCCESS" => v \in Steps)
  BY <1>1, OutcomesAssumption DEF Results, Completed, Prepared, Vertices
<1>5. cone \subseteq Vertices
  <2>1. I \in SUBSET Vertices
    BY <1>3 DEF Vertices
  <2> HIDE DEF Concluded
  <2> QED BY <2>1, Cones
<1>6. /\ st \in [Vertices -> Status]
      /\ \A w \in Vertices : st[w] \in Completed <=> w \in Done \cup {v}
      /\ \A w \in Vertices \ (W \cup {v}) : st[w] = status[w]
      /\ \A w \in Vertices :
           st[w] = "NONEXISTENT" <=> w \notin W /\ status[w] = "NONEXISTENT"
  <2>1. /\ v \in Vertices \ Done /\ status[v] \in Waiting
        /\ AddedStatus(N, O) \in [Vertices -> Status]
        /\ \A w \in Vertices : AddedStatus(N, O)[w] \in Completed <=> w \in Done
        /\ \A w \in Vertices \ W : AddedStatus(N, O)[w] = status[w]
        /\ \A w \in Vertices : AddedStatus(N, O)[w] = "NONEXISTENT" <=>
                                w \notin W /\ status[w] = "NONEXISTENT"
    BY <1>1 DEF Prepared
  <2>2. result \in Status /\ result # "NONEXISTENT"
    BY <1>4 DEF Status, Completed
  <2>3. st \in [Vertices -> Status] /\ st[v] = result
    BY <2>1, <2>2
  <2>4. \A w \in Vertices \ {v} : st[w] = AddedStatus(N, O)[w]
    BY <2>1
  <2> HIDE DEF W, st
  <2>5. \A w \in Vertices : st[w] \in Completed <=> w \in Done \cup {v}
    BY <1>4, <2>1, <2>3, <2>4
  <2>6. \A w \in Vertices \ (W \cup {v}) : st[w] = status[w]
    BY <2>1, <2>4
  <2>7. \A w \in Vertices :
          st[w] = "NONEXISTENT" <=> w \notin W /\ status[w] = "NONEXISTENT"
    BY <2>1, <2>2, <2>3, <2>4 DEF Waiting
  <2> QED BY <2>3, <2>5, <2>6, <2>7
<1> HIDE DEF st
<1>7. /\ status' \in [Vertices -> Status]
      /\ \A w \in Vertices :
           /\ status'[w] \in Completed <=> st[w] \in Completed /\ w \notin cone
           /\ status'[w] = "NONEXISTENT" <=> st[w] = "NONEXISTENT"
           /\ w \notin cone => status'[w] = st[w]
  <2> HIDE DEF forces
  <2> QED BY <1>2, <1>6, DeExecuting
<1>8. Done' = (Done \cup {v}) \ cone
  <2>1. v \in Vertices /\ Done \subseteq Vertices
    BY <1>1 DEF Prepared, Done
  <2>2. \A w \in Vertices : status'[w] \in Completed <=> w \in (Done \cup {v}) \ cone
    BY <1>6, <1>7
  <2>3. Done' = {w \in Vertices : status'[w] \in Completed}
    BY DEF Done
  <2> QED BY <2>1, <2>2, <2>3
<1>9. \A w \in Vertices \ (W \cup cone \cup {v}) : status'[w] = status[w]
  BY <1>6, <1>7
<1>10. \A w \in Vertices :
         status'[w] = "NONEXISTENT" <=> w \notin W /\ status[w] = "NONEXISTENT"
  BY <1>6, <1>7
<1>11. /\ edges' \subseteq E /\ (\A e \in E : e[2] \in Steps => e \in edges')
       /\ needs' \subseteq E \cap (Steps \X Steps)
  BY <1>1, <1>2, ExitAssumption DEF Pruned, Prepared
<1> QED BY <1>1, <1>2, <1>3, <1>4, <1>5, <1>7, <1>8, <1>9, <1>10, <1>11 DEF Left
LEMMA ConcludeIInv ==
  ASSUME IInv, NEW v, NEW result, NEW I, NEW rank, NEW N, NEW O,
         Concluded(v, result, I, rank, N, O)
  PROVE  IInv'
<1> DEFINE W == N \cup O
           E == LinkedEdges(v, W)
           D == Done \cup {v}
           cone == Cone(I, E, D)
           H == (Held \ {v}) \cup AddedReady(W) \cup DeExecutedReady(I, rank, E, D)
                  \cup ReadySuccessors(v, E, D \ cone)
<1>1. Prepared(v, W, AddedStatus(N, O), E) /\ Left(v, result, W, E, cone) /\ I \subseteq Steps
  BY Concluding
<1>2. \E U : ready' = Refiled(H, U, status')
  BY DEF Concluded, Conclude
<1>3. /\ UNCHANGED <<flow, pc>>
      /\ forced' = (IF result = "SKIPPED" THEN forced ELSE forced \ {v}) \cup I
      /\ left' = IF I = {} THEN left ELSE left - 1
      /\ left = 0 => I = {}
  BY DEF Concluded, Conclude, Invalidations
<1>e. ~NotBefore(v, I, E)
  BY DEF Concluded, Conclude
<1>4. I \in SUBSET Vertices /\ rank \in Orders(I)
  BY <1>1 DEF Concluded, Vertices
<1> HIDE DEF E, D
<1>5. /\ I \subseteq cone /\ cone \subseteq Vertices
      /\ \A w \in cone \ I : \E e \in E : e[2] = w /\ e[1] \in cone
  BY <1>4, Cones
<1>6. \A r \in I :
        /\ VisitedBefore(r, I, rank, E, D) \subseteq cone
        /\ r \in VisitedBefore(r, I, rank, E, D) => \E e \in E : e[2] = r /\ e[1] \in cone
  BY <1>4, Visits
<1> HIDE DEF cone
<1>7. /\ v \in Vertices \ Done
      /\ v \notin W /\ W \subseteq Steps \ Done
      /\ E \subseteq Steps \X Vertices
      /\ edges \cup AddedEdges(W) \subseteq E
  BY <1>1 DEF Prepared
<1>8. /\ status' \in [Vertices -> Status]
      /\ Done' = D \ cone
      /\ \A w \in Vertices \ (W \cup cone \cup {v}) : status'[w] = status[w]
      /\ \A w \in Vertices :
           status'[w] = "NONEXISTENT" <=> w \notin W /\ status[w] = "NONEXISTENT"
      /\ \A e \in E : status'[e[1]] # "NONEXISTENT" /\ status'[e[2]] # "NONEXISTENT"
      /\ edges' \subseteq E /\ \A e \in E : e[2] \in Steps => e \in edges'
      /\ needs' \subseteq E \cap (Steps \X Steps)
      /\ changed' \subseteq changed \cup (Steps \cap {v})
  <2> HIDE DEF W, H
  <2>1. \A e \in E : /\ e[1] \in W \/ status[e[1]] # "NONEXISTENT"
                     /\ e[2] \in W \/ status[e[2]] # "NONEXISTENT"
    BY <1>1 DEF Prepared, Vertices
  <2>2. \A e \in E : e[1] \in Vertices /\ e[2] \in Vertices
    BY <1>7 DEF Vertices
  <2>3. \A w \in Vertices :
           status'[w] = "NONEXISTENT" <=> w \notin W /\ status[w] = "NONEXISTENT"
    BY <1>1 DEF Left
  <2>4. \A e \in E : status'[e[1]] # "NONEXISTENT" /\ status'[e[2]] # "NONEXISTENT"
    BY <2>1, <2>2, <2>3
  <2> QED BY <1>1, <2>3, <2>4 DEF Left, D
<1> USE DEF IInv
<1>w. \A w \in Vertices : IsWaiting(w)' <=> status'[w] # "NONEXISTENT" /\ w \notin D \ cone
  BY <1>8 DEF IsWaiting, Done, Status, Waiting, Completed
<1>9. H \subseteq Vertices /\ \A w \in H : IsWaiting(w)'
  <2>1. \A w \in Held \ {v} : w \in Vertices /\ IsWaiting(w)'
    BY <1>8, <1>w DEF HeldIsWaiting, TypeOK, D, IsWaiting, Done, Waiting, Completed
  <2>2. \A w \in AddedReady(W) : w \in Vertices /\ IsWaiting(w)'
    BY <1>7, <1>8, <1>w DEF AddedReady, Vertices, D
  <2>3. \A r \in DeExecutedReady(I, rank, E, D) : r \in Vertices /\ IsWaiting(r)'
    <3> SUFFICES ASSUME NEW r \in I PROVE r \in Vertices /\ IsWaiting(r)'
      BY DEF DeExecutedReady, Forces
    <3>1. v \in ReachFrom({t \in Vertices : <<r, t>> \in E}, E, Vertices)
      BY <1>e DEF NotBefore
    <3>2. \E e \in E : e[1] = r
      <4>1. CASE {t \in Vertices : <<r, t>> \in E} # {}
        BY <4>1
      <4>2. CASE {t \in Vertices : <<r, t>> \in E} = {}
        BY <3>1, <4>2, NothingReached
      <4> QED BY <4>1, <4>2
    <3>3. status'[r] # "NONEXISTENT"
      BY <1>4, <1>8, <3>2
    <3> QED BY <1>4, <1>5, <1>w, <3>3
  <2>4. \A t \in ReadySuccessors(v, E, D \ cone) : t \in Vertices /\ IsWaiting(t)'
    BY <1>8, <1>w DEF ReadySuccessors
  <2> QED BY <2>1, <2>2, <2>3, <2>4
<1>10. Held' = H /\ \A w \in H : ready'[w] \in 0..3
  <2> HIDE DEF H
  <2> QED BY <1>2, <1>9, Refiling DEF Held
<1>11. TypeOK'
  <2>1. forced' \subseteq Steps /\ left' \in 0..MaxInvalidations
    BY <1>1, <1>3, BoundAssumption DEF TypeOK
  <2>2. edges' \subseteq Vertices \X Vertices /\ needs' \subseteq edges'
    BY <1>7, <1>8 DEF Vertices
  <2> HIDE DEF H
  <2> QED BY <1>3, <1>8, <1>9, <1>10, <2>1, <2>2 DEF TypeOK
<1>12. EdgesShaped' /\ EdgesRegistered' /\ HeldIsWaiting'
  <2> HIDE DEF H
  <2>1. status'[Exit] # "NONEXISTENT"
    BY <1>8 DEF EdgesRegistered, Vertices
  <2> QED BY <1>7, <1>8, <1>9, <1>10, <2>1
          DEF EdgesShaped, EdgesRegistered, HeldIsWaiting
<1>13. NoLostStep'
  <2> SUFFICES ASSUME NEW w \in Steps, IsWaiting(w)', ~HeldBack(w)'
               PROVE  w \in H
    BY <1>10 DEF NoLostStep
  <2>1. w \in Vertices /\ w \notin D \ cone
    BY <1>8 DEF IsWaiting, Waiting, Completed, Done, Vertices
  <2>2. AllBefore(w, E, D \ cone)
    BY <1>8 DEF IsWaiting, HeldBack, AllBefore, Status, Done
  <2>3. \A e \in E : e[2] = w => e[1] \in D \ cone
    BY <1>7, <2>2 DEF AllBefore, Vertices
  <2>4. CASE w \in cone
    <3>1. w \in I /\ w \notin VisitedBefore(w, I, rank, E, D)
      BY <1>5, <1>6, <2>3, <2>4
    <3>2. AllBefore(w, E, D \ VisitedBefore(w, I, rank, E, D))
      BY <1>6, <2>2, <3>1 DEF AllBefore
    <3> QED BY <3>1, <3>2 DEF DeExecutedReady, Forces
  <2>5. CASE <<v, w>> \in E
    BY <2>1, <2>2, <2>5 DEF ReadySuccessors
  <2>6. CASE w \notin cone /\ <<v, w>> \notin E
    <3>1. \A a \in Vertices : <<a, w>> \in E => a \in Done
      BY <2>2, <2>6 DEF AllBefore, D
    <3>2. CASE w \in W
      BY <1>7, <3>1, <3>2 DEF AddedReady, AllBefore
    <3>3. CASE w \notin W
      <4>1. w # v
        BY <2>1, <2>6 DEF D
      <4>2. IsWaiting(w)
        BY <1>8, <2>1, <2>6, <3>3, <4>1 DEF IsWaiting
      <4>3. ~HeldBack(w)
        BY <1>7, <3>1 DEF HeldBack, IsWaiting, Done, Waiting, Completed
      <4> QED BY <4>1, <4>2, <4>3 DEF NoLostStep
    <3> QED BY <3>2, <3>3
  <2> QED BY <2>4, <2>5, <2>6
<1> QED BY <1>11, <1>12, <1>13

-----------------------------------------------------------------------------
(* The invariant is inductive. *)

\* The steps that only move the program counter.
Halts ==
  /\ pc' \in {"loop", "ended", "not_ended", "not_before", "already_skipped"}
  /\ UNCHANGED <<flow, changed, status, edges, needs, ready, forced, left>>

\* What an iteration does: it halts, puts v aside or runs it.
LEMMA Iterating ==
  ASSUME Iterate
  PROVE  \E v : \E N : \E O :
           /\ Considered(v, N, O) /\ pc' \in {"loop", "not_before", "already_skipped"}
           /\ \/ Halts
              \/ PutAside(v, N, O)
              \/ \E result, I, rank : Concluded(v, result, I, rank, N, O)
<1>1. PICK v \in Extractable :
         \E N \in {NeededBy(AskedNeeded(v))} : \E O \in {OptionalFor(AskedOptional(v), N)} :
           StopAlreadySkipped(v, N) \/ PutAside(v, N, O) \/ Perform(v, N, O)
  BY DEF Iterate
<1>2. PICK N \in {NeededBy(AskedNeeded(v))} : \E O \in {OptionalFor(AskedOptional(v), N)} :
         StopAlreadySkipped(v, N) \/ PutAside(v, N, O) \/ Perform(v, N, O)
  BY <1>1
<1>3. PICK O \in {OptionalFor(AskedOptional(v), N)} :
         StopAlreadySkipped(v, N) \/ PutAside(v, N, O) \/ Perform(v, N, O)
  BY <1>2
<1>4. Considered(v, N, O)
  BY DEF Considered, Extractable
<1>5. /\ StopAlreadySkipped(v, N) => Halts /\ pc' = "already_skipped"
      /\ PutAside(v, N, O) => pc' = "loop"
  BY DEF StopAlreadySkipped, Halts, PutAside, Iterate
<1>6. CASE Perform(v, N, O)
  <2>1. PICK E \in {LinkedEdges(v, N \cup O)}, result \in Results(v) :
           \E I \in Invalidations(v) :
             \/ StopNotBefore(v, I, E)
             \/ \E rank \in Orders(I) : Conclude(v, result, I, rank, N, O, E)
    BY <1>6 DEF Perform
  <2>2. PICK I \in Invalidations(v) :
             \/ StopNotBefore(v, I, E)
             \/ \E rank \in Orders(I) : Conclude(v, result, I, rank, N, O, E)
    BY <2>1
  <2>3. StopNotBefore(v, I, E) => Halts /\ pc' = "not_before"
    BY DEF StopNotBefore, Halts
  <2>4. ASSUME NEW rank \in Orders(I), Conclude(v, result, I, rank, N, O, E)
        PROVE  Concluded(v, result, I, rank, N, O) /\ pc' = "loop"
    <3>1. pc' = "loop"
      BY <2>4 DEF Conclude, Iterate
    <3> QED BY <1>4, <1>6, <2>4, <3>1 DEF Concluded, Perform
  <2> QED BY <1>4, <2>2, <2>3, <2>4
<1> QED BY <1>3, <1>4, <1>5, <1>6

LEMMA NextIInv == IInv /\ [Next]_vars => IInv'
<1> SUFFICES ASSUME IInv, [Next]_vars PROVE IInv'
  OBVIOUS
<1>1. CASE \E S \in flow.roots : AddSteps(S)
  BY <1>1, AddStepsIInv
<1>2. ASSUME Halts \/ UNCHANGED vars PROVE IInv'
  BY <1>2
  DEF Halts, vars, IInv, TypeOK, EdgesShaped, EdgesRegistered, HeldIsWaiting, NoLostStep,
      Held, Done, IsWaiting, HeldBack
<1>3. CASE StartExec \/ FinishExec
  <2>1. Halts
    BY <1>3 DEF StartExec, FinishExec, Halts
  <2> QED BY <1>2, <2>1
<1>4. CASE Iterate
  <2>1. PICK v, N, O :
           /\ Considered(v, N, O)
           /\ \/ Halts
              \/ PutAside(v, N, O)
              \/ \E result, I, rank : Concluded(v, result, I, rank, N, O)
    BY <1>4, Iterating
  <2> QED BY <1>2, <2>1, PutAsideIInv, ConcludeIInv
<1> QED BY <1>1, <1>2, <1>3, <1>4 DEF Next

LEMMA SpecIInv == Spec => []IInv
  BY InitIInv, NextIInv, PTL DEF Spec

\* The state of the manager keeps its shape, whatever the steps do.
THEOREM Typing == Spec => []TypeOK
<1>1. IInv => TypeOK
  BY DEF IInv
<1> QED BY <1>1, SpecIInv, PTL

\* The loop never drops the last trace of a step that is still to be run,
\* whatever the flow, the invalidations and the order of extraction.
THEOREM NoStepIsLost == Spec => []NoLostStep
<1>1. IInv => NoLostStep
  BY DEF IInv
<1> QED BY <1>1, SpecIInv, PTL

-----------------------------------------------------------------------------
(* Completed steps stay up to date, as long as what a step comes after does *)
(* not shrink while the flow runs.                                          *)

NothingGone == \A f \in Flows : f.gone = {}

\* Nothing a step was ordered after has ceased to come before it.
EdgesCurrent == \A e \in edges : e[2] \in Steps => e[1] \in Predecessors(e[2])

OInv == IInv /\ flow \in Flows /\ EdgesCurrent /\ UpToDate

\* The relationships considered at a later point of the flow are no fewer.
LEMMA Growing ==
  ASSUME NothingGone, flow \in Flows, flow' = flow, changed \subseteq changed', NEW s
  PROVE  Predecessors(s) \subseteq Predecessors(s)'
<1>1. flow.gone = {}
  BY DEF NothingGone
<1> QED BY <1>1 DEF Predecessors, Dependences, Precedences

\* What the edges of an iteration that runs or skips v look like: those into v
\* come from completed steps, those into another completed step are old, and
\* what is visited takes the completed vertices after it along.
Ordered(v, E, cone) ==
  /\ \A e \in E : e[2] \in Steps => e[1] \in Predecessors(e[2])
  /\ \A e \in E : e[2] \in Done \cap Steps => e \in edges /\ e[1] \in Done
  /\ v \in Steps => \A e \in E : e[2] = v => e[1] \in Done
  /\ \A e \in E : e[1] \in cone /\ e[2] \in Done \cup {v} => e[2] \in cone

LEMMA Ordering ==
  ASSUME NothingGone, OInv, NEW v, NEW result, NEW I, NEW rank, NEW N, NEW O,
         Concluded(v, result, I, rank, N, O),
         NEW E, E = LinkedEdges(v, N \cup O), NEW cone, cone = Cone(I, E, Done \cup {v})
  PROVE  Ordered(v, E, cone)
<1> USE DEF OInv
<1>1. Prepared(v, N \cup O, AddedStatus(N, O), E) /\ I \subseteq Steps
  BY Concluding
<1>2. /\ v \in Vertices \ Done
      /\ N \cup O \subseteq Steps \ Done
      /\ E \subseteq Steps \X Vertices
      /\ \A e \in E :
           \/ e \in edges
           \/ e[2] = Exit
           \/ e[2] \in (N \cup O) \cup {v} /\ e[1] \in Predecessors(e[2])
  BY <1>1 DEF Prepared
<1>3. \A e \in E : e[2] \in Steps => e[1] \in Predecessors(e[2])
  BY <1>2, ExitAssumption DEF EdgesCurrent
<1>4. \A e \in E : e[2] \in Done \cap Steps => e \in edges /\ e[1] \in Done
  BY <1>2, ExitAssumption DEF UpToDate
<1>5. v \in Steps => \A e \in E : e[2] = v => e[1] \in Done
  BY <1>3, ExitAssumption DEF Concluded, CurrentReady
<1>6. \A e \in E : e[1] \in cone /\ e[2] \in Done \cup {v} => e[2] \in cone
  <2>1. I \in SUBSET Vertices
    BY <1>1 DEF Vertices
  <2>2. \A e \in E : e[1] \in cone /\ e[2] \in (Done \cup {v}) \cap Vertices
                     => e[2] \in cone
    BY <2>1, Cones
  <2> QED BY <1>2, <2>2 DEF Done
<1> QED BY <1>3, <1>4, <1>5, <1>6 DEF Ordered

LEMMA InitOInv == Init => OInv
  BY InitIInv DEF Init, OInv, EdgesCurrent, UpToDate

\* Adding steps, or putting v aside, completes nothing and only brings in edges
\* to steps that are not completed.
Extending ==
  /\ flow' = flow /\ changed' = changed /\ Done' = Done
  /\ edges \subseteq edges'
  /\ \A e \in edges' :
       \/ e \in edges
       \/ e[2] = Exit
       \/ e[2] \in Steps \ Done /\ e[1] \in Predecessors(e[2])

LEMMA AddStepsExtends ==
  ASSUME IInv, NEW S \in flow.roots, AddSteps(S)
  PROVE  Extending
<1> DEFINE Effect(N, O) ==
      IF Asserts /\ AlreadySkipped(S, N)
      THEN /\ pc' = "already_skipped"
           /\ UNCHANGED <<status, edges, needs, ready>>
      ELSE /\ status' = AddedStatus(N, O)
           /\ edges' = AddedEdges(N \cup O)
           /\ needs' = AddedNeeds(N \cup O)
           /\ ready' = Refiled(Held \cup AddedReady(N \cup O), N, status')
           /\ pc' = pc
<1>1. PICK N \in {NeededBy(S)} : \E O \in {OptionalFor({}, N)} : Effect(N, O)
  BY DEF AddSteps
<1>2. PICK O \in {OptionalFor({}, N)} : Effect(N, O)
  BY <1>1
<1>3. S \in SUBSET Steps /\ TypeOK /\ EdgesShaped
  BY DEF IInv, TypeOK, FlowType
<1>4. UNCHANGED <<flow, changed>>
  BY DEF AddSteps
<1>5. CASE UNCHANGED <<status, edges>>
  BY <1>4, <1>5 DEF Extending, Done
<1>6. CASE status' = AddedStatus(N, O) /\ edges' = AddedEdges(N \cup O)
  <2>1. /\ N \cup O \subseteq Steps \ Done
        /\ \A v \in Vertices : status'[v] \in Completed <=> v \in Done
    BY <1>1, <1>2, <1>3, <1>6, Adding
  <2>2. /\ edges \subseteq edges'
        /\ \A e \in edges' :
             \/ e \in edges
             \/ e[2] \in N \cup O /\ e[1] \in Predecessors(e[2])
             \/ e[1] \in N \cup O /\ e[2] = Exit
    BY <1>3, <1>6, <2>1, AddingEdges
  <2>3. Done' = Done
    BY <2>1 DEF Done
  <2> QED BY <1>4, <2>1, <2>2, <2>3 DEF Extending
<1> QED BY <1>2, <1>5, <1>6

LEMMA PutAsideExtends ==
  ASSUME IInv, NEW v, NEW N, NEW O, Considered(v, N, O), PutAside(v, N, O)
  PROVE  Extending
<1>1. /\ status' = AddedStatus(N, O) /\ edges' = LinkedEdges(v, N \cup O)
      /\ flow' = flow /\ changed' = changed
  BY DEF PutAside
<1>2. Prepared(v, N \cup O, status', edges')
  BY <1>1, Considering
<1>3. Done' = Done
  BY <1>2 DEF Prepared, Done
<1> QED BY <1>1, <1>2, <1>3 DEF Prepared, Extending, Vertices

\* What a step of the flow is, as far as order and completion go.
LEMMA Stepping ==
  ASSUME IInv, [Next]_vars
  PROVE  \/ UNCHANGED <<flow, changed, status, edges>>
         \/ Extending
         \/ \E v, N, O, result, I, rank : Concluded(v, result, I, rank, N, O)
<1>1. CASE \E S \in flow.roots : AddSteps(S)
  BY <1>1, AddStepsExtends
<1>2. CASE StartExec \/ FinishExec \/ UNCHANGED vars
  BY <1>2 DEF StartExec, FinishExec, vars
<1>3. CASE Iterate
  <2>1. PICK v, N, O :
           /\ Considered(v, N, O)
           /\ \/ Halts
              \/ PutAside(v, N, O)
              \/ \E result, I, rank : Concluded(v, result, I, rank, N, O)
    BY <1>3, Iterating
  <2> QED BY <2>1, PutAsideExtends DEF Halts
<1> QED BY <1>1, <1>2, <1>3 DEF Next

LEMMA NextOInv == NothingGone /\ OInv /\ [Next]_vars => OInv'
<1> SUFFICES ASSUME NothingGone, OInv, [Next]_vars PROVE OInv'
  OBVIOUS
<1>1. IInv /\ IInv'
  BY NextIInv DEF OInv
<1>2. CASE UNCHANGED <<flow, changed, status, edges>>
  BY <1>1, <1>2
  DEF OInv, EdgesCurrent, UpToDate, Done, Predecessors, Dependences, Precedences
<1>3. CASE Extending
  <2>1. flow' \in Flows /\ UpToDate'
    BY <1>3, ExitAssumption DEF Extending, OInv, UpToDate
  <2>2. EdgesCurrent'
    BY <1>3, Growing, ExitAssumption DEF Extending, OInv, EdgesCurrent
  <2> QED BY <1>1, <2>1, <2>2 DEF OInv
<1>4. ASSUME NEW v, NEW N, NEW O, NEW result, NEW I, NEW rank,
             Concluded(v, result, I, rank, N, O)
      PROVE  OInv'
  <2> DEFINE E == LinkedEdges(v, N \cup O)
             cone == Cone(I, E, Done \cup {v})
  <2>1. Prepared(v, N \cup O, AddedStatus(N, O), E) /\ Left(v, result, N \cup O, E, cone)
    BY <1>1, <1>4, Concluding
  <2>2. Ordered(v, E, cone)
    BY <1>4, Ordering
  <2> HIDE DEF E, cone
  <2>3. /\ Done' = (Done \cup {v}) \ cone /\ edges' \subseteq E
        /\ changed \subseteq changed'
    BY <2>1 DEF Left
  <2>4. flow' = flow
    BY <1>4 DEF Concluded, Conclude
  <2>5. UpToDate'
    BY <2>2, <2>3 DEF UpToDate, Ordered
  <2>6. EdgesCurrent'
    BY <2>2, <2>3, <2>4, Growing DEF EdgesCurrent, OInv, Ordered
  <2> QED BY <1>1, <2>4, <2>5, <2>6 DEF OInv
<1> QED BY <1>1, <1>2, <1>3, <1>4, Stepping

\* While relationships only appear, no step is completed after which an earlier
\* one waits: DeExecute reaches everything an invalidation makes stale.
THEOREM StaysUpToDate ==
  ASSUME NothingGone
  PROVE  Spec => []UpToDate
<1>1. OInv /\ [Next]_vars => OInv'
  BY NextOInv
<1>2. OInv => UpToDate
  BY DEF OInv
<1> QED BY <1>1, <1>2, InitOInv, PTL DEF Spec

-----------------------------------------------------------------------------
(* The manager implements FlowOrder. *)

AbstractOrder == {e \in edges : e[2] \in Steps}
AbstractDone  == Done \cap Steps

LEMMA ExtendingRegisters ==
  ASSUME OInv, OInv', Extending
  PROVE  Order!Register
<1>1. AbstractOrder' \subseteq Steps \X Steps
  BY DEF AbstractOrder, OInv, IInv, EdgesShaped
<1>2. AbstractOrder \subseteq AbstractOrder' /\ AbstractDone' = AbstractDone
  BY DEF Extending, AbstractOrder, AbstractDone
<1>3. \A e \in AbstractOrder' \ AbstractOrder : e[2] \notin AbstractDone
  BY ExitAssumption DEF Extending, AbstractOrder, AbstractDone
<1> QED BY <1>1, <1>2, <1>3
        DEF Order!Register, Order!Extended, AbstractOrder, AbstractDone

LEMMA ConcludedCompletes ==
  ASSUME NothingGone, OInv, OInv', NEW v, NEW N, NEW O, NEW result, NEW I, NEW rank,
         Concluded(v, result, I, rank, N, O)
  PROVE  IF v \in Steps THEN Order!Complete(v) ELSE Order!Register
<1> DEFINE E == LinkedEdges(v, N \cup O)
           cone == Cone(I, E, Done \cup {v})
<1>1. /\ Prepared(v, N \cup O, AddedStatus(N, O), E)
      /\ Left(v, result, N \cup O, E, cone)
  BY Concluding DEF OInv
<1>2. Ordered(v, E, cone)
  BY Ordering
<1>3. I = {} => cone = {}
  BY DEF Cone, ReachFrom
<1>4. v \notin Steps => I = {}
  <2>1. flow.inval \in SUBSET (Steps \X Steps)
    BY DEF OInv, IInv, TypeOK, FlowType
  <2>2. I \in Invalidations(v)
    BY DEF Concluded
  <2> QED BY <2>1, <2>2 DEF Invalidations
<1> HIDE DEF E, cone
<1>5. /\ v \in Vertices \ Done /\ E \subseteq Steps \X Vertices
      /\ edges \subseteq E /\ edges' \subseteq E
      /\ \A e \in E : e[2] \in Steps => e \in edges'
      /\ Done' = (Done \cup {v}) \ cone
  BY <1>1 DEF Prepared, Left
<1>6. AbstractOrder \subseteq AbstractOrder'
  BY <1>5 DEF AbstractOrder
<1>7. AbstractOrder' \subseteq Steps \X Steps
  BY <1>5 DEF AbstractOrder
<1>8. \A e \in AbstractOrder' \ AbstractOrder : e[2] \notin AbstractDone
  BY <1>2, <1>5 DEF AbstractOrder, AbstractDone, Ordered
<1>9. Order!Extended
  BY <1>6, <1>7, <1>8 DEF Order!Extended, AbstractOrder, AbstractDone
<1>10. CASE v \notin Steps
  <2>1. AbstractDone' = AbstractDone
    BY <1>3, <1>4, <1>5, <1>10 DEF AbstractDone
  <2> QED BY <1>9, <1>10, <2>1 DEF Order!Register, AbstractDone
<1>11. CASE v \in Steps
  <2> DEFINE W == cone \cap (AbstractDone \cup {v})
  <2>1. v \notin AbstractDone
    BY <1>5 DEF AbstractDone
  <2>2. \A a \in Steps : <<a, v>> \in AbstractOrder' => a \in AbstractDone
    BY <1>2, <1>5, <1>11 DEF AbstractOrder, AbstractDone, Ordered
  <2>3. \A e \in AbstractOrder' :
           (e[1] \in W /\ e[2] \in AbstractDone \cup {v}) => e[2] \in W
    BY <1>2, <1>5 DEF AbstractOrder, AbstractDone, Ordered
  <2>4. AbstractDone' = (AbstractDone \cup {v}) \ W
    BY <1>5, <1>11 DEF AbstractDone
  <2>5. W \in SUBSET (AbstractDone \cup {v})
    OBVIOUS
  <2> HIDE DEF W
  <2> QED BY <1>9, <1>11, <2>1, <2>2, <2>3, <2>4, <2>5
          DEF Order!Complete, Order!Closed, AbstractOrder, AbstractDone
<1> QED BY <1>10, <1>11

\* Seen as an order to respect and a set of completed steps, a flow whose
\* relationships only appear is a behaviour of FlowOrder.
THEOREM FlowOrderIsKept ==
  ASSUME NothingGone
  PROVE  Spec => KeepsOrder
<1>1. Init => Order!Init
  BY ExitAssumption
  DEF Init, Order!Init, Done, Completed, Vertices
<1>2. OInv /\ OInv' /\ [Next]_vars
      => [Order!Next]_<<{e \in edges : e[2] \in Steps}, Done \cap Steps>>
  <2> SUFFICES ASSUME OInv, OInv', [Next]_vars
               PROVE  \/ Order!Next
                      \/ UNCHANGED <<AbstractOrder, AbstractDone>>
    BY DEF AbstractOrder, AbstractDone
  <2>1. CASE UNCHANGED <<flow, changed, status, edges>>
    BY <2>1 DEF AbstractOrder, AbstractDone, Done
  <2>2. CASE Extending
    BY <2>2, ExtendingRegisters DEF Order!Next
  <2>3. ASSUME NEW v, NEW N, NEW O, NEW result, NEW I, NEW rank,
               Concluded(v, result, I, rank, N, O)
        PROVE  Order!Next
    BY <2>3, ConcludedCompletes DEF Order!Next
  <2> QED BY <2>1, <2>2, <2>3, Stepping DEF OInv
<1>3. OInv /\ [Next]_vars => OInv'
  BY NextOInv
<1> QED BY <1>1, <1>2, <1>3, InitOInv, PTL DEF Spec, KeepsOrder, Order!Spec

-----------------------------------------------------------------------------
(* When the loop is over, nothing is left waiting. *)

\* The relationships of a flow, those that appear included.
Possible(f) == f.dep \cup f.prec \cup {<<l[2], l[3]>> : l \in f.late}

\* No flow makes steps wait for each other.
Acyclic ==
  \A f \in Flows : \A X \in SUBSET Steps :
     X # {} => \E x \in X : \A a \in X : <<a, x>> \notin Possible(f)

\* A step was ordered after another only by a relationship of the flow.
EdgesPossible == \A e \in edges : e[2] \in Steps => <<e[1], e[2]>> \in Possible(flow)

CInv == IInv /\ flow \in Flows /\ EdgesPossible /\ CompleteAtEnd

LEMMA InitCInv == Init => CInv
  BY InitIInv DEF Init, CInv, EdgesPossible, CompleteAtEnd

\* Only the end of the loop, with nothing held, counts as the end.
LEMMA Ending ==
  ASSUME [Next]_vars, pc' \in {"ended", "not_ended"}
  PROVE  /\ status' = status
         /\ pc \in {"ended", "not_ended"} \/ Held = {}
<1>1. CASE \E S \in flow.roots : AddSteps(S)
  <2>1. PICK S \in flow.roots : AddSteps(S)
    BY <1>1
  <2>2. pc = "adding" /\ pc' \in {"adding", "already_skipped"}
    BY <2>1 DEF AddSteps
  <2> QED BY <2>2
<1>2. CASE StartExec
  BY <1>2 DEF StartExec
<1>3. CASE Iterate
  <2>1. pc' \in {"loop", "not_before", "already_skipped"}
    BY <1>3, Iterating
  <2> QED BY <2>1
<1>4. CASE FinishExec \/ UNCHANGED vars
  BY <1>4 DEF FinishExec, vars
<1> QED BY <1>1, <1>2, <1>3, <1>4 DEF Next

\* A waiting step that comes after no other waiting one is held.
LEMMA NothingLeft ==
  ASSUME Acyclic, IInv, flow \in Flows, EdgesPossible, Held = {}
  PROVE  \A s \in Steps : ~IsWaiting(s)
<1> DEFINE X == {s \in Steps : IsWaiting(s)}
<1> SUFFICES ASSUME X # {} PROVE FALSE
  OBVIOUS
<1>1. PICK x \in X : \A a \in X : <<a, x>> \notin Possible(flow)
  <2>1. X \in SUBSET Steps
    OBVIOUS
  <2> HIDE DEF X
  <2> QED BY <2>1 DEF Acyclic
<1>2. PICK a \in Vertices : <<a, x>> \in edges /\ IsWaiting(a)
  BY DEF IInv, NoLostStep, HeldBack
<1>3. a \in Steps
  BY <1>2 DEF IInv, EdgesShaped
<1>4. <<a, x>> \in Possible(flow)
  BY <1>2 DEF EdgesPossible
<1> QED BY <1>1, <1>2, <1>3, <1>4

LEMMA PossiblePredecessors ==
  ASSUME TypeOK, NEW s \in Steps, NEW a \in Predecessors(s)
  PROVE  <<a, s>> \in Possible(flow)
<1>1. CASE \E x \in changed : <<x, a, s>> \in flow.late
  BY <1>1 DEF Possible
<1>2. CASE <<a, s>> \in flow.dep \cup flow.prec
  BY <1>2 DEF Possible
<1> QED BY <1>1, <1>2 DEF Predecessors, Dependences, Precedences

LEMMA NextCInv == Acyclic /\ CInv /\ [Next]_vars => CInv'
<1> SUFFICES ASSUME Acyclic, CInv, [Next]_vars PROVE CInv'
  OBVIOUS
<1>1. IInv /\ IInv' /\ TypeOK
  BY NextIInv DEF CInv, IInv
<1>2. CompleteAtEnd'
  BY Ending, NothingLeft DEF CInv, CompleteAtEnd, IsWaiting
<1>3. flow' = flow /\ EdgesPossible'
  <2>1. CASE UNCHANGED <<flow, changed, status, edges>>
    BY <2>1 DEF CInv, EdgesPossible
  <2>2. CASE Extending
    BY <1>1, <2>2, PossiblePredecessors, ExitAssumption DEF Extending, CInv, EdgesPossible
  <2>3. ASSUME NEW v, NEW N, NEW O, NEW result, NEW I, NEW rank,
               Concluded(v, result, I, rank, N, O)
        PROVE  flow' = flow /\ EdgesPossible'
    <3> DEFINE E == LinkedEdges(v, N \cup O)
               cone == Cone(I, E, Done \cup {v})
    <3>1. /\ Prepared(v, N \cup O, AddedStatus(N, O), E)
          /\ Left(v, result, N \cup O, E, cone)
      BY <1>1, <2>3, Concluding
    <3> HIDE DEF E, cone
    <3>2. /\ edges' \subseteq E
          /\ \A e \in E :
               \/ e \in edges
               \/ e[2] = Exit
               \/ e[2] \in Vertices /\ e[1] \in Predecessors(e[2])
      BY <3>1 DEF Prepared, Left, Vertices
    <3>3. flow' = flow
      BY <2>3 DEF Concluded, Conclude
    <3> QED BY <1>1, <3>2, <3>3, PossiblePredecessors, ExitAssumption
            DEF CInv, EdgesPossible
  <2> QED BY <1>1, <2>1, <2>2, <2>3, Stepping
<1> QED BY <1>1, <1>2, <1>3 DEF CInv

\* In a flow whose relationships have no cycle, the loop ends only when every
\* registered step has been run or skipped, invalidations or not.
THEOREM EndsComplete ==
  ASSUME Acyclic
  PROVE  Spec => []CompleteAtEnd
<1>1. CInv /\ [Next]_vars => CInv'
  BY NextCInv
<1>2. CInv => CompleteAtEnd
  BY DEF CInv
<1> QED BY <1>1, <1>2, InitCInv, PTL DEF Spec

-----------------------------------------------------------------------------
(* What a necessary step needs stays necessary, as long as the              *)
(* relationships do not change.                                             *)

\* Nothing has been skipped before Exec; whatever a necessary step needs is
\* necessary, and the dependences in the graph are those computed.
NInv ==
  /\ IInv
  /\ Steady =>
       /\ pc = "adding" => \A s \in Steps : status[s] # "SKIPPED"
       /\ \A s \in Steps : Necessary(s) => \A a \in Dependences(s) : Necessary(a)
       /\ \A e \in needs : e[1] \in Dependences(e[2])

LEMMA InitNInv == Init => NInv
<1> SUFFICES ASSUME Init PROVE NInv
  OBVIOUS
<1>1. IInv /\ needs = {}
  BY InitIInv DEF Init
<1>2. \A s \in Steps : status[s] = "NONEXISTENT"
  BY ExitAssumption DEF Init, Vertices
<1>3. \A s \in Steps : ~Necessary(s) /\ status[s] # "SKIPPED"
  BY <1>2 DEF Necessary
<1> QED BY <1>1, <1>3 DEF NInv

\* What is worked on as necessary asks for what it needs.
LEMMA NeedsAsked ==
  ASSUME NEW S \in SUBSET Steps, NEW n \in NeededBy(S), NEW a \in Dependences(n)
  PROVE  n \in Promotable /\ (a \in Promotable => a \in NeededBy(S))
<1> DEFINE R == {e \in Promotable \X Promotable : e[2] \in Dependences(e[1])}
<1>1. NeededBy(S) = ReachFrom(S \cap Promotable, R, Promotable)
  BY DEF NeededBy
<1>2. n \in Promotable
  BY <1>1, ReachBase
<1>3. a \in Promotable => <<n, a>> \in R
  BY <1>2
<1>4. ASSUME a \in Promotable PROVE a \in NeededBy(S)
  <2>1. \A e \in R : e[1] \in NeededBy(S) /\ e[2] \in Promotable => e[2] \in NeededBy(S)
    <3> HIDE DEF R
    <3> QED BY <1>1, ReachStep
  <2> QED BY <1>3, <1>4, <2>1
<1> QED BY <1>2, <1>4

LEMMA AddStepsNInv ==
  ASSUME NInv, NEW S \in flow.roots, AddSteps(S)
  PROVE  NInv'
<1> DEFINE Effect(N, O) ==
      IF Asserts /\ AlreadySkipped(S, N)
      THEN /\ pc' = "already_skipped"
           /\ UNCHANGED <<status, edges, needs, ready>>
      ELSE /\ status' = AddedStatus(N, O)
           /\ edges' = AddedEdges(N \cup O)
           /\ needs' = AddedNeeds(N \cup O)
           /\ ready' = Refiled(Held \cup AddedReady(N \cup O), N, status')
           /\ pc' = pc
<1>1. PICK N \in {NeededBy(S)} : \E O \in {OptionalFor({}, N)} : Effect(N, O)
  BY DEF AddSteps
<1>2. PICK O \in {OptionalFor({}, N)} : Effect(N, O)
  BY <1>1
<1>3. UNCHANGED <<flow, changed>> /\ pc = "adding" /\ S \in SUBSET Steps /\ IInv /\ IInv'
  BY AddStepsIInv DEF AddSteps, NInv, IInv, TypeOK, FlowType
<1> SUFFICES ASSUME Steady
             PROVE  /\ pc' = "adding" => \A s \in Steps : status'[s] # "SKIPPED"
                    /\ \A s \in Steps : Necessary(s)' =>
                         \A a \in Dependences(s)' : Necessary(a)'
                    /\ \A e \in needs' : e[1] \in Dependences(e[2])'
  BY <1>3 DEF NInv, Steady
<1>4. \A s : Dependences(s)' = Dependences(s)
  BY <1>3 DEF Dependences
<1>5. CASE UNCHANGED <<status, needs>> /\ pc' = "already_skipped"
  BY <1>4, <1>5 DEF NInv, Necessary
<1>6. CASE status' = AddedStatus(N, O) /\ needs' = AddedNeeds(N \cup O)
  <2>1. /\ N \subseteq Promotable /\ O \subseteq Absent
        /\ \A n \in N : \A a \in Dependences(n) : a \in Promotable => a \in N
    <3>1. N \subseteq Promotable /\ O \subseteq Absent
      BY <1>1, <1>2, <1>3, Adding DEF IInv
    <3> QED BY <1>1, <1>3, <3>1, NeedsAsked
  <2>2. \A s : Dependences(s) \subseteq Steps
    BY DEF Dependences
  <2>3. \A s \in Steps :
          status'[s] = IF s \in N THEN "UNEXECUTED"
                       ELSE IF s \in O THEN "UNNECESSARY" ELSE status[s]
    BY <1>6 DEF AddedStatus, Vertices
  <2>4. \A s \in Steps : status[s] # "SKIPPED"
    BY <1>3 DEF NInv
  <2>5. \A s \in Steps : status'[s] # "SKIPPED"
    BY <2>3, <2>4
  <2>6. ASSUME NEW s \in Steps, Necessary(s)', NEW a \in Dependences(s)
        PROVE  Necessary(a)'
    <3>1. CASE s \in N
      BY <2>1, <2>2, <2>3, <2>4, <3>1 DEF Promotable, Absent, Necessary
    <3>2. CASE s \notin N
      <4>1. Necessary(s)
        BY <2>3, <2>6, <3>2 DEF Necessary
      <4>2. Necessary(a) /\ a \in Steps
        BY <2>2, <4>1 DEF NInv
      <4> QED BY <2>1, <2>3, <4>2 DEF Necessary, Absent
    <3> QED BY <3>1, <3>2
  <2>7. \A e \in needs' : e[1] \in Dependences(e[2])
    BY <1>6 DEF AddedNeeds, NInv
  <2> QED BY <1>4, <2>5, <2>6, <2>7
<1> QED BY <1>2, <1>5, <1>6

\* An iteration of a steady flow makes nothing necessary: what v needs is
\* necessary already.
LEMMA NothingPromoted ==
  ASSUME NInv, Steady, NEW v, NEW N, NEW O, Considered(v, N, O)
  PROVE  N = {} /\ O \subseteq Absent /\ v \in Vertices
<1>1. AskedNeeded(v) \cap Promotable = {}
  <2>1. CASE v = Exit \/ Unnecessary(v)
    BY <2>1 DEF AskedNeeded
  <2>2. CASE v # Exit /\ ~Unnecessary(v)
    <3>1. v \in Steps /\ IsWaiting(v)
      BY <2>2 DEF Considered, NInv, IInv, TypeOK, Vertices, HeldIsWaiting
    <3>2. Necessary(v)
      BY <2>2, <3>1 DEF Unnecessary, IsWaiting, Waiting, Necessary
    <3>3. \A a \in Dependences(v) : Necessary(a)
      BY <3>1, <3>2 DEF NInv
    <3> QED BY <2>2, <3>3 DEF AskedNeeded, Necessary, Promotable
  <2> QED BY <2>1, <2>2
<1>2. N = {}
  BY <1>1, NothingReached DEF Considered, NeededBy
<1>3. O \subseteq Absent
  BY ReachBase DEF Considered, OptionalFor
<1>4. v \in Vertices
  BY DEF Considered, NInv, IInv, TypeOK
<1> QED BY <1>2, <1>3, <1>4

\* An iteration after which the same steps are necessary.
LEMMA NecessityKept ==
  ASSUME NInv, flow' = flow, pc' # "adding",
         Steady => \A s \in Steps : Necessary(s)' <=> Necessary(s),
         Steady => \A e \in needs' : e[1] \in Dependences(e[2]), IInv'
  PROVE  NInv'
<1> SUFFICES ASSUME Steady'
             PROVE  /\ \A s \in Steps : Necessary(s)' =>
                         \A a \in Dependences(s)' : Necessary(a)'
                    /\ \A e \in needs' : e[1] \in Dependences(e[2])'
  BY DEF NInv
<1>1. Steady /\ flow' = flow
  BY DEF Steady
<1>2. \A s : Dependences(s)' = Dependences(s) /\ Dependences(s) \subseteq Steps
  BY <1>1 DEF Steady, Dependences
<1>3. \A s \in Steps : Necessary(s) => \A a \in Dependences(s) : Necessary(a)
  BY <1>1 DEF NInv
<1> QED BY <1>1, <1>2, <1>3

LEMMA PutAsideNInv ==
  ASSUME NInv, NEW v, NEW N, NEW O, Considered(v, N, O), PutAside(v, N, O), pc # "adding"
  PROVE  NInv'
<1>1. /\ IInv' /\ UNCHANGED <<flow, changed, pc>>
      /\ status' = AddedStatus(N, O)
      /\ needs' = Linked(v, Dependences(v), AddedNeeds(N \cup O))
  BY PutAsideIInv DEF NInv, PutAside
<1>2. ASSUME Steady
      PROVE  /\ \A s \in Steps : Necessary(s)' <=> Necessary(s)
             /\ \A e \in needs' : e[1] \in Dependences(e[2])
  <2>1. N = {} /\ O \subseteq Absent
    BY <1>2, NothingPromoted
  <2>2. \A s \in Steps : status'[s] = IF s \in O THEN "UNNECESSARY" ELSE status[s]
    BY <1>1, <2>1 DEF AddedStatus, Vertices
  <2>3. \A e \in needs' : e[1] \in Dependences(e[2])
    BY <1>1, <1>2 DEF Linked, AddedNeeds, NInv
  <2> QED BY <2>1, <2>2, <2>3 DEF Necessary, Absent
<1> QED BY <1>1, <1>2, NecessityKept

LEMMA ConcludeNInv ==
  ASSUME NInv, NEW v, NEW result, NEW I, NEW rank, NEW N, NEW O,
         Concluded(v, result, I, rank, N, O), pc # "adding"
  PROVE  NInv'
<1> DEFINE E == LinkedEdges(v, N \cup O)
           D == Done \cup {v}
           st == [AddedStatus(N, O) EXCEPT ![v] = result]
<1>1. /\ IInv' /\ flow' = flow /\ pc' = pc
      /\ status' = DeExecuted(st, Cone(I, E, D), Forces(I, rank, E, D))
      /\ needs' = Linked(v, Dependences(v), AddedNeeds(N \cup O))
  BY ConcludeIInv DEF NInv, Concluded, Conclude
<1>2. ASSUME Steady
      PROVE  /\ \A s \in Steps : Necessary(s)' <=> Necessary(s)
             /\ \A e \in needs' : e[1] \in Dependences(e[2])
  <2>1. N = {} /\ O \subseteq Absent /\ v \in Vertices
    BY <1>2, NothingPromoted DEF Concluded
  <2>2. I = {}
    BY <1>2 DEF Concluded, Invalidations, Steady
  <2>3. Cone(I, E, D) = {}
    BY <2>2, NothingReached DEF Cone
  <2>4. \A s \in Vertices : status'[s] = st[s]
    BY <1>1, <2>3 DEF DeExecuted
  <2>5. \A s \in Vertices :
          st[s] = IF s = v THEN result
                  ELSE IF s \in O THEN "UNNECESSARY" ELSE status[s]
    BY <2>1 DEF AddedStatus
  <2> HIDE DEF st
  <2>6. v \in Steps => (result = "SKIPPED" <=> Unnecessary(v))
    <3>1. result \in Results(v) /\ "SKIPPED" \notin Outcomes
      BY OutcomesAssumption DEF Concluded
    <3>2. Unnecessary(v) => result = "SKIPPED"
      BY <3>1 DEF Results
    <3>3. ~Unnecessary(v) => result # "SKIPPED"
      BY <3>1 DEF Results
    <3> QED BY <3>2, <3>3
  <2>7. result \in Completed /\ status[v] \in Waiting
    <3>1. status[v] \in Waiting
      BY DEF Concluded, Considered, NInv, IInv, HeldIsWaiting, IsWaiting
    <3> QED BY <3>1, OutcomesAssumption DEF Concluded, Results, Completed
  <2>8. \A s \in Steps : Necessary(s)' <=> Necessary(s)
    <3>1. v \in Steps => (Necessary(v)' <=> Necessary(v))
      BY <2>1, <2>4, <2>5, <2>6, <2>7 DEF Necessary, Unnecessary, Completed, Waiting
    <3>2. \A s \in Steps \ {v} : Necessary(s)' <=> Necessary(s)
      BY <2>1, <2>4, <2>5 DEF Necessary, Absent, Vertices
    <3> QED BY <3>1, <3>2
  <2>9. \A e \in needs' : e[1] \in Dependences(e[2])
    BY <1>1, <1>2 DEF Linked, AddedNeeds, NInv
  <2> QED BY <2>8, <2>9
<1>3. CASE Steady
  BY <1>1, <1>2, <1>3, NecessityKept
<1>4. CASE ~Steady
  BY <1>1, <1>4 DEF NInv, Steady
<1> QED BY <1>3, <1>4

LEMMA NextNInv == NInv /\ [Next]_vars => NInv'
<1> SUFFICES ASSUME NInv, [Next]_vars PROVE NInv'
  OBVIOUS
<1>1. IInv /\ IInv'
  BY NextIInv DEF NInv
<1>2. CASE \E S \in flow.roots : AddSteps(S)
  BY <1>2, AddStepsNInv
<1>3. CASE Halts
  BY <1>1, <1>3 DEF Halts, NInv, Steady, Necessary, Dependences
<1>4. CASE StartExec \/ FinishExec
  <2>1. Halts
    BY <1>4 DEF StartExec, FinishExec, Halts
  <2> QED BY <1>3, <2>1
<1>5. CASE UNCHANGED vars
  BY <1>1, <1>5 DEF vars, NInv, Steady, Necessary, Dependences
<1>6. CASE Iterate
  <2>1. PICK v, N, O :
           /\ Considered(v, N, O)
           /\ \/ Halts
              \/ PutAside(v, N, O)
              \/ \E result, I, rank : Concluded(v, result, I, rank, N, O)
    BY <1>6, Iterating
  <2>2. pc # "adding"
    BY <1>6 DEF Iterate
  <2> QED BY <1>3, <2>1, <2>2, PutAsideNInv, ConcludeNInv
<1> QED BY <1>2, <1>4, <1>5, <1>6 DEF Next

\* While the relationships do not change and nothing is invalidated, no step
\* that a necessary step depends on is skipped.
THEOREM NeedsStayNecessary == Spec => []NeedsAreNecessary
<1>1. NInv => NeedsAreNecessary
  <2> SUFFICES ASSUME NInv, Steady, NEW e \in needs, Necessary(e[2])
               PROVE  Necessary(e[1])
    BY DEF NeedsAreNecessary
  <2>1. e[1] \in Dependences(e[2]) /\ e[2] \in Steps
    BY DEF NInv, IInv, EdgesShaped
  <2> QED BY <2>1 DEF NInv
<1> QED BY <1>1, InitNInv, NextNInv, PTL DEF Spec

-----------------------------------------------------------------------------
(* A completed step waits again only downstream of an invalidation.         *)

\* What a set reaches, one of its elements reaches, and steps are reached
\* through steps only: edges into others can be left out.
LEMMA ReachFromOne ==
  ASSUME NEW U, NEW V, NEW S \in SUBSET U, NEW R, NEW Q,
         NEW x \in ReachFrom(S, R, U), x \in V,
         \A e \in R : e[1] \in V /\ (e[2] \in V => e \in Q)
  PROVE  \E r \in S : x \in ReachFrom({r}, Q, U)
<1> DEFINE X == {y \in U : \E r \in S : y \in ReachFrom({r}, Q, U)}
           T == (X \cup (U \ V)) \ S
<1> SUFFICES ASSUME x \notin X PROVE FALSE
  BY ReachBase
<1>1. S \subseteq X
  <2> SUFFICES ASSUME NEW r \in S PROVE r \in ReachFrom({r}, Q, U)
    OBVIOUS
  <2>1. {r} \cap U \subseteq ReachFrom({r}, Q, U)
    BY ReachBase
  <2> QED BY <2>1
<1>2. T \in SUBSET (U \ (S \cup {x}))
  BY <1>1
<1>3. PICK e \in R : e[1] \in S \cup T /\ e[2] \in U \ (S \cup T)
  <2> HIDE DEF T
  <2> QED BY <1>2 DEF ReachFrom
<1>4. e[1] \in X /\ e[2] \in V /\ e \in Q /\ e[2] \notin X /\ e[2] \in U
  BY <1>1, <1>3
<1>5. PICK r \in S : e[1] \in ReachFrom({r}, Q, U)
  BY <1>4
<1>6. e[2] \in ReachFrom({r}, Q, U)
  BY <1>4, <1>5, ReachStep
<1> QED BY <1>4, <1>6

\* DeExecute goes back to a completed step only along edges from a step that
\* this iteration invalidates.
THEOREM RerunsHaveCauses == Spec => RerunsAreCaused
<1> DEFINE Caused ==
      \A v \in Steps : (v \in Done /\ status'[v] \in Waiting) =>
        \E r \in forced' : v \in ReachFrom({r}, edges', Vertices)
<1>1. IInv /\ [Next]_vars => [Caused]_vars
  <2> SUFFICES ASSUME IInv, [Next]_vars, NEW w \in Steps, w \in Done,
                      status'[w] \in Waiting
               PROVE  \E r \in forced' : w \in ReachFrom({r}, edges', Vertices)
    OBVIOUS
  <2>1. w \notin Done' /\ w \in Vertices
    BY DEF Done, Waiting, Completed, Vertices
  <2>2. PICK v, N, O, result, I, rank : Concluded(v, result, I, rank, N, O)
    <3>1. Done' = Done => FALSE
      BY <2>1
    <3>2. ~Extending /\ ~UNCHANGED <<flow, changed, status, edges>>
      BY <3>1 DEF Extending, Done
    <3> QED BY <3>2, Stepping
  <2> DEFINE E == LinkedEdges(v, N \cup O)
             D == Done \cup {v}
             cone == Cone(I, E, D)
             R == {e \in E : e[2] \in D}
  <2>3. /\ Prepared(v, N \cup O, AddedStatus(N, O), E)
        /\ Left(v, result, N \cup O, E, cone) /\ I \subseteq Steps
    BY <2>2, Concluding
  <2> HIDE DEF E
  <2>4. w \in ReachFrom(I, R, Vertices)
    <3>1. w \in cone
      BY <2>1, <2>3 DEF Left
    <3> QED BY <3>1 DEF Cone
  <2>5. \A e \in R : e[1] \in Steps /\ (e[2] \in Steps => e \in edges')
    BY <2>3 DEF Prepared, Left
  <2>6. I \in SUBSET Vertices
    BY <2>3 DEF Vertices
  <2> HIDE DEF R
  <2>7. \E r \in I : w \in ReachFrom({r}, edges', Vertices)
    BY <2>4, <2>5, <2>6, ReachFromOne
  <2>8. I \subseteq forced'
    BY <2>2 DEF Concluded, Conclude
  <2> QED BY <2>7, <2>8
<1> QED BY <1>1, SpecIInv, PTL DEF Spec, RerunsAreCaused
=============================================================================
