------------------------------ MODULE MCMemory ------------------------------
(* Small programs for MemoryAllocation: every call graph of four functions *)
(* that are all reached, with a variable used anywhere in it, and a few    *)
(* graphs with the options.                                                *)
EXTENDS MemoryAllocation

MCFun == 1 .. 4
MCVar == 1 .. 2
MCSymbol == 1 .. 4

(* How often each function calls another.                                  *)
Graphs(most) ==
  {c \in [Pairs -> 0 .. most] : \A f \in MCFun \ {Top} : \E g \in 1 .. f - 1 : c[<<g, f>>] > 0}

CallsOf(pairs) ==
  [e \in Pairs |-> IF \E p \in pairs : <<p[1], p[2]>> = e
                   THEN (CHOOSE p \in pairs : <<p[1], p[2]>> = e)[3] ELSE 0]

(* A function called twice by the top function, its two callees, and what  *)
(* both of them call.                                                      *)
Diamond == CallsOf({<<1, 2, 2>>, <<2, 3, 1>>, <<2, 4, 1>>, <<3, 4, 1>>})

Once == CallsOf({<<1, 2, 1>>, <<1, 3, 1>>, <<2, 4, 1>>, <<3, 4, 1>>})

Variable(users, state, written, size) ==
  [users |-> users, state |-> state, written |-> written, dynamic |-> FALSE,
   internal |-> TRUE, size |-> size, alignment |-> 2]

On(v) == [v EXCEPT !.dynamic = TRUE, !.alignment = 8]

Off(v) == [v EXCEPT !.internal = FALSE]

Program(calls, vs) ==
  [calls |-> calls, vars |-> vs, limited |-> {},
   limit |-> [f \in MCFun |-> 0], noProxy |-> FALSE, noPrivate |-> FALSE,
   noLocal |-> FALSE, sparse |-> FALSE, mapped |-> FALSE, params |-> <<5, 3>>]

Users == (SUBSET MCFun) \ {{}}

Kind == {<<TRUE, TRUE>>, <<TRUE, FALSE>>, <<FALSE, TRUE>>}

OnChip == On(Variable({Top}, TRUE, TRUE, 5))

GraphPrograms ==
  {Program(c, <<Variable(u, k[1], k[2], 3), OnChip>>) : c \in Graphs(2), u \in Users, k \in Kind}

OptionVars ==
  {<<Variable(u, TRUE, w, 3), v>> :
     u \in {{3, 4}, {4}}, w \in BOOLEAN, v \in {OnChip, Off(OnChip), Variable({2, 3}, TRUE, TRUE, 5)}}

OptionPrograms ==
  LET plain == {Program(c, v) : c \in {Diamond, Once}, v \in OptionVars}
      once  == {Program(Once, v) : v \in OptionVars}
  IN  UNION {{[p EXCEPT !.sparse = s, !.noLocal = TRUE] : p \in plain, s \in BOOLEAN},
             {[p EXCEPT !.sparse = s, !.noPrivate = TRUE] : p \in plain, s \in BOOLEAN},
             {[p EXCEPT !.sparse = TRUE] : p \in plain},
             {[p EXCEPT !.mapped = TRUE, !.sparse = s] : p \in once, s \in BOOLEAN},
             {[p EXCEPT !.limited = {2}, !.limit[2] = n] : p \in plain, n \in {0, 2}},
             {[p EXCEPT !.limited = {2}, !.limit[2] = 1] : p \in once},
             {[p EXCEPT !.noProxy = TRUE] : p \in once}}

MCPrograms == GraphPrograms \cup OptionPrograms

MCSettings ==
  {[bus |-> 4, nullCheck |-> TRUE, given |-> FALSE, initial |-> 0, offBase |-> 100],
   [bus |-> 4, nullCheck |-> FALSE, given |-> TRUE, initial |-> 5, offBase |-> 0]}
=============================================================================
