----------------------------- MODULE Dominators -----------------------------
(* What a dominator is: V are the vertices of a graph, E its edges, and d  *)
(* dominates v when every path from the entry to v goes through d.         *)

(* R holds the entry and, with a vertex, those its edges lead to, but not  *)
(* what is left out.                                                       *)
Closed(R, E, entry, without) ==
  /\ entry \in R \cup without
  /\ \A e \in E : e[1] \in R => e[2] \in R \cup without

Reached(V, E, entry, without) ==
  {v \in V : \A R \in SUBSET V : Closed(R, E, entry, without) => v \in R}

Dominates(V, E, entry, d, v) == d = v \/ v \notin Reached(V, E, entry, {d})

(* The last of the others on every path; the entry has itself.             *)
ImmediateDominators(V, E, entry) ==
  [v \in V |->
     IF v = entry THEN entry
     ELSE CHOOSE d \in V \ {v} :
            /\ Dominates(V, E, entry, d, v)
            /\ \A c \in V \ {v} : Dominates(V, E, entry, c, v) => Dominates(V, E, entry, c, d)]
=============================================================================
