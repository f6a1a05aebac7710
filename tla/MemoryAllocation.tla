-------------------------- MODULE MemoryAllocation --------------------------
(* Where shared functions and variables are put in the hierarchy of the    *)
(* circuit, and the addresses variables get: fun_dominator_allocation and  *)
(* mem_dominator_allocation for one top function, without functions whose  *)
(* address is taken.                                                       *)
EXTENDS AddressSpace, Dominators, Dominance, SequencesExt

CONSTANTS
  Fun,       \* functions, numbered so that callers come before callees
  Var,       \* variables, numbered
  Programs

Top == 1

Pairs == {e \in Fun \X Fun : e[1] < e[2]}

Variables ==
  [users : (SUBSET Fun) \ {{}}, state : BOOLEAN, written : BOOLEAN, dynamic : BOOLEAN,
   internal : BOOLEAN, size : Sizes, alignment : Alignments]

ASSUME NumbersAssumption ==
  /\ IsFiniteSet(Fun) /\ Fun = 1 .. Cardinality(Fun) /\ Top \in Fun
  /\ IsFiniteSet(Var) /\ Var = 1 .. Cardinality(Var)

(* calls: how often a function calls another; every function is called.    *)
(* limited: the functions whose number is constrained, limit: to how many  *)
(* units for each caller, or 0 for any number; mapped: the top function    *)
(* has its parameters, params, in memory.                                  *)
ASSUME ProgramsAssumption ==
  /\ Programs \subseteq
       [calls : [Pairs -> Nat], vars : [Var -> Variables], limited : SUBSET Fun,
        limit : [Fun -> Nat], noProxy : BOOLEAN, noPrivate : BOOLEAN, noLocal : BOOLEAN, sparse : BOOLEAN,
        mapped : BOOLEAN, params : Seq(Sizes)]
  /\ \A p \in Programs, f \in Fun \ {Top} : \E g \in 1 .. f - 1 : p.calls[<<g, f>>] > 0

CeilPow2(n) == CHOOSE p \in {2 ^ k : k \in 0 .. n} : n <= p /\ p < 2 * n

(* The variables and parameters are symbols, the parameters numbered after *)
(* the variables; any block of sparse memory is an alignment.              *)
ASSUME SymbolsAssumption ==
  /\ Scope = Fun /\ Var \subseteq Symbol
  /\ \A p \in Programs : \A i \in 1 .. Len(p.params) : Cardinality(Var) + i \in Symbol
  /\ \A n \in Sizes \cup {s.bus : s \in Settings} : n > 0 => CeilPow2(n) \in Alignments

VARIABLES
  prog,      \* the program and the options
  pc,
  shared,    \* proxied_functions: functions shared by their callers -> where the unit is
  place,     \* memory_allocation_map: variable -> the function it is allocated in
  proxies,   \* internal_variable_proxy
  todo       \* the calls to the memory still to be made

vars == <<prog, pc, shared, place, proxies, todo, memvars>>

Calls == {e \in Pairs : prog.calls[e] > 0}

Callers(f) == {g \in Fun : <<g, f>> \in Calls}

Dom == DominatorMap(Fun, Calls, Top)

(* The number of ways a function is reached, by its calls and the number   *)
(* of ways its callers are, unless its number is fixed.                    *)
Counted(fixed, points) ==
  LET n[f \in Fun] ==
        IF f = Top \/ f \in fixed THEN 1
        ELSE SumFunction([g \in Callers(f) |-> n[g] * points[<<g, f>>]])
  IN  n

(* The dominators of f, from the top function down to f.                   *)
Chain(up) ==
  LET c[f \in Fun] == IF f = Top THEN <<Top>> ELSE Append(c[up[f]], f) IN c

SameUpTo(up, uses, i) ==
  \A f, g \in uses : i <= Len(Chain(up)[f]) /\ i <= Len(Chain(up)[g])
                       /\ Chain(up)[f][i] = Chain(up)[g][i]

(* Mutant: the lowest common dominator, however often it is there.         *)
CommonOfAll(up, uses, single) ==
  LET first == Chain(up)[CHOOSE f \in uses : TRUE]
  IN  first[Max({1} \cup {i \in DOMAIN first : \A k \in 1 .. i : SameUpTo(up, uses, k)})]

(* The lowest common dominator that has a single instance, and so have the *)
(* common dominators above it.                                             *)
Common(up, uses, single) ==
  LET first == Chain(up)[CHOOSE f \in uses : TRUE]
  IN  first[Max({1} \cup {i \in DOMAIN first :
                          \A k \in 1 .. i : SameUpTo(up, uses, k) /\ first[k] \in single})]

(* The nearest dominator that has a single instance.                       *)
Climb(up, single) ==
  LET c[f \in Fun] == IF f \in single THEN f ELSE c[up[f]] IN c

-----------------------------------------------------------------------------
(***************************************************************************)
(* fun_dominator_allocation.                                               *)
(***************************************************************************)
(* A function called from one place is its own, else that of its dominator.*)
OwnOrDominator(f) == IF Cardinality(Callers(f)) = 1 THEN f ELSE Dom[f]

Paths == Counted({}, prog.calls)

SinglePaths == {f \in Fun : Paths[f] = 1}

(* Mutant: the unit is left in a caller.                                   *)
UnitInCaller(f) == CHOOSE g \in Callers(f) : TRUE

(* Where the unit of a function may be put, above all its callers.         *)
UnitOf(f) ==
  LET uses == {OwnOrDominator(g) : g \in Callers(f)}
  IN  IF Cardinality(uses) = 1 THEN Climb(Dom, SinglePaths)[CHOOSE g \in uses : TRUE]
      ELSE Common(Dom, uses, SinglePaths)

(* Functions whose number is constrained are not shared, nor put into one. *)
Shareable ==
  {f \in Fun : /\ Cardinality(Callers(f)) > 1
               /\ f \notin prog.limited /\ UnitOf(f) \notin prog.limited
               /\ ~prog.noProxy}

ShareFunctions ==
  /\ pc = "share"
  /\ shared' = [f \in Shareable |-> UnitOf(f)]
  /\ pc' = "place"
  /\ UNCHANGED <<prog, place, proxies, todo, memvars>>

-----------------------------------------------------------------------------
(***************************************************************************)
(* mem_dominator_allocation.                                               *)
(***************************************************************************)
Remapped(f) == IF f \in DOMAIN shared THEN shared[f] ELSE f

Up == [f \in Fun |-> Remapped(Dom[f])]

Of(v) == prog.vars[v]

(* The vertex a use of v in f is filed under.                              *)
FiledUnder(v, f) ==
  LET r == Remapped(f)
  IN  IF Of(v).state /\ Cardinality(Callers(r)) # 1 THEN Remapped(Dom[r]) ELSE r

OneUnit == {f \in prog.limited : prog.limit[f] = 1}

(* num_instances: a function limited to one unit counts once, however      *)
(* often its callers are there; so do the calls of a memory-mapped top.    *)
Instances ==
  Counted(DOMAIN shared \cup OneUnit,
          [e \in Calls |-> IF prog.mapped /\ e[1] = Top THEN 1 ELSE prog.calls[e]])

Single == {f \in Fun : Instances[f] = 1}

IsWritten(v) == Of(v).written \/ prog.noPrivate

IsLocalPolicy == ~prog.noPrivate /\ ~prog.noLocal

(* The function a variable is allocated in.  The function it is filed      *)
(* under is asked whether the variable is a state variable, which one that *)
(* does not use it denies.                                                 *)
Placed(v) ==
  LET uses == {FiledUnder(v, f) : f \in Of(v).users}
      only == CHOOSE f \in uses : TRUE
  IN  IF prog.noLocal THEN Top
      ELSE IF Cardinality(uses) = 1
      THEN IF IsWritten(v) /\ Of(v).state /\ only \in Of(v).users
           THEN Climb(Up, Single)[only] ELSE only
      ELSE Common(Up, uses, IF IsWritten(v) THEN Single ELSE Fun)

(* classify_variables.                                                     *)
BecomesPrivate(v) == Of(v).internal /\ ~Of(v).dynamic /\ IsLocalPolicy

(* Read-only variables are copied into every function that reads them.     *)
IsCopied(v) == Of(v).internal /\ ~Of(v).dynamic /\ ~Of(v).written /\ IsLocalPolicy

Call(op, f, s, size, alignment) ==
  [op |-> op, fun |-> f, symbol |-> s, size |-> size, alignment |-> alignment]

VarCall(op, f, v) == Call(op, f, v, Of(v).size, Of(v).alignment)

VarCalls(v, f) ==
  IF ~Of(v).internal THEN <<VarCall("external", f, v)>>
  ELSE IF IsCopied(v)
  THEN FlattenSeq([g \in Fun |-> IF g \in Of(v).users THEN <<VarCall("internal", g, v)>> ELSE << >>])
  ELSE <<VarCall("internal", f, v)>>

(* allocate_parameters: the start register, the parameters and the result. *)
ParameterCalls(f) ==
  IF prog.mapped /\ f = Top
  THEN [i \in DOMAIN prog.params |->
          Call(IF i = Len(prog.params) THEN "last parameter" ELSE "parameter",
               f, Cardinality(Var) + i, prog.params[i], 1)]
  ELSE << >>

ClassifyCalls ==
  FlattenSeq([v \in Var |-> IF BecomesPrivate(v) THEN <<VarCall("private", Top, v)>> ELSE << >>])

(* sparse-memory: every variable gets a block of the size of the largest.  *)
SparseCalls ==
  LET onBus == {v \in Var : Of(v).internal /\ (~BecomesPrivate(v) \/ setting.nullCheck)}
  IN  IF prog.sparse
      THEN <<Call("align", Top, 0, 0, CeilPow2(Max({unit} \cup {Of(v).size : v \in onBus})))>>
      ELSE << >>

CallsIn(p, f) ==
  FlattenSeq([v \in Var |-> IF p[v] = f THEN VarCalls(v, f) ELSE << >>]) \o ParameterCalls(f)

AllocateCalls(p) == FlattenSeq([f \in Fun |-> CallsIn(p, f)])

(* Mutant: the alignment is changed when everything has an address.        *)
AlignedLast(p) == ClassifyCalls \o AllocateCalls(p) \o SparseCalls

AllCalls(p) == ClassifyCalls \o SparseCalls \o AllocateCalls(p)

ThroughProxies == {v \in Var : Of(v).internal /\ ~IsCopied(v) /\ IsLocalPolicy}

PlaceVariables ==
  /\ pc = "place"
  /\ place' = [v \in Var |-> Placed(v)]
  /\ todo' = AllCalls(place')
  /\ proxies' = UNION {(Of(v).users \ {place'[v]}) \X {v} : v \in ThroughProxies}
  /\ pc' = "call"
  /\ UNCHANGED <<prog, shared, memvars>>

Made(c) ==
  \/ c.op = "private" /\ MakePrivate(c.symbol)
  \/ c.op = "align" /\ SetAlignment(c.alignment)
  \/ c.op = "internal" /\ AddPrivate(c.fun, c.symbol, c.size, c.alignment)
  \/ c.op = "internal" /\ AddPrivateAgain(c.fun, c.symbol)
  \/ c.op = "internal" /\ AddInternal(c.fun, c.symbol, c.size, c.alignment)
  \/ c.op = "external" /\ AddExternal(c.symbol, c.size, c.alignment)
  \/ c.op \in {"parameter", "last parameter"}
       /\ AddParameter(c.symbol, c.size, c.op = "last parameter")

CallMemory ==
  /\ pc = "call" /\ todo # << >>
  /\ Made(Head(todo))
  /\ todo' = Tail(todo)
  /\ UNCHANGED <<prog, pc, shared, place, proxies>>

Finish ==
  /\ pc = "call" /\ todo = << >>
  /\ pc' = "done"
  /\ UNCHANGED <<prog, shared, place, proxies, todo, memvars>>

-----------------------------------------------------------------------------
Init ==
  /\ MemInit
  /\ prog \in Programs
  /\ pc = "share" /\ todo = << >> /\ proxies = {}
  /\ shared = [f \in {} |-> 0] /\ place = [v \in {} |-> 0]

(* A call the assertions of the memory refuse leaves the step stuck.       *)
Stopped == pc = "done" /\ UNCHANGED vars

Next == ShareFunctions \/ PlaceVariables \/ CallMemory \/ Finish \/ Stopped

Spec == Init /\ [][Next]_vars

-----------------------------------------------------------------------------
(* dom_info's balanced forests find what a dominator is by definition: the *)
(* last function on every path from the top function.                      *)
DominatorsRight == pc = "share" => Dom = ImmediateDominators(Fun, Calls, Top)

(* The most units of f that n calls of it in one function get.             *)
UnitsFor(f, n) ==
  IF f \in prog.limited /\ prog.limit[f] \in 1 .. n THEN prog.limit[f] ELSE n

(* What the circuit contains: a unit of every function in every unit of    *)
(* its callers, or in the unit it is shared from.                          *)
Hierarchy ==
  {e \in Calls : e[2] \notin DOMAIN shared} \cup {<<shared[f], f>> : f \in DOMAIN shared}

Encloses(p, f) == Dominates(Fun, Hierarchy, Top, p, f)

Units ==
  LET n[f \in Fun] ==
        IF f = Top THEN 1
        ELSE IF f \in DOMAIN shared THEN n[shared[f]]
        ELSE SumFunction([g \in Callers(f) |->
                            n[g] * UnitsFor(f, prog.calls[<<g, f>>])])
  IN  n

(* A proxy is connected to a unit or a variable that is above it in the    *)
(* circuit, on every path to it, and that is there once: a function shared *)
(* by its callers, and a private variable used through proxies.            *)
ServedFromAbove ==
  pc = "done" =>
    /\ \A f \in DOMAIN shared :
         Units[f] = 1 /\ \A g \in Callers(f) : Encloses(shared[f], g)
    /\ \A v \in Var : \A f \in Of(v).users :
         Of(v).internal => \/ <<f, v>> \in scopes
                           \/ ~IsLocalPolicy
                           \/ <<f, v>> \in proxies /\ Encloses(place[v], f)

(* A written variable that keeps its value between calls is in memory      *)
(* once: what holds it is not instantiated twice.                          *)
OneCopy ==
  pc = "done" =>
    \A v \in Var : Of(v).internal /\ Of(v).state /\ Of(v).written => Units[place[v]] = 1

(* The calls of all steps together use the memory as it is meant to be:    *)
(* nothing has an address when sparse memory changes the alignment, which  *)
(* starts anew, and no variable gets two.                                  *)
MemoryObeyed == MemSpec
=============================================================================
