----------------------------- MODULE FlowOrder ------------------------------
(***************************************************************************)
(* What a design flow manager promises, whatever the steps do: tasks are   *)
(* completed in the order known when they complete, and a task that has to *)
(* be done again takes every completed task after it along.                *)
(***************************************************************************)
CONSTANT Tasks

VARIABLES
  order,    \* <<a, b>>: a has to be completed before b
  complete  \* the tasks that are completed and up to date

Init == order = {} /\ complete = {}

\* New constraints may only concern tasks still to be completed.
Extended ==
  /\ order \subseteq order' /\ order' \subseteq Tasks \X Tasks
  /\ \A e \in order' \ order : e[2] \notin complete

\* Giving W up leaves no completed task behind one that is given up.
Closed(W, done) == \A e \in order' : (e[1] \in W /\ e[2] \in done) => e[2] \in W

Register == Extended /\ complete' = complete

\* t is completed; the tasks it invalidates, if any, are given up.
Complete(t) ==
  /\ Extended
  /\ t \notin complete
  /\ \A a \in Tasks : <<a, t>> \in order' => a \in complete
  /\ \E W \in SUBSET (complete \cup {t}) :
       Closed(W, complete \cup {t}) /\ complete' = (complete \cup {t}) \ W

Next == Register \/ \E t \in Tasks : Complete(t)

Spec == Init /\ [][Next]_<<order, complete>>
=============================================================================
