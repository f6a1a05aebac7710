----------------------------- MODULE Dominance -----------------------------
(* Immediate dominators of a graph with one entry, by the algorithm of     *)
(* Lengauer and Tarjan with balanced linking, as dom_info computes them.   *)
(* All vertices are reached from the entry and no edge leads to it.        *)
EXTENDS Integers, Sequences, SequencesExt, FiniteSetsExt

(***************************************************************************)
(* Depth-first search: at lists the vertices in the order of their visits, *)
(* parent has the numbers of their parents, and open the numbers of the    *)
(* vertices whose call has not returned.                                   *)
(***************************************************************************)
Unvisited(d, E, i) == {e[2] : e \in {x \in E : x[1] = d.at[i] /\ x[2] \notin Range(d.at)}}

(* The calls that are not finished with their edges.                       *)
Calling(d, E) == {i \in d.open : Unvisited(d, E, i) # {}}

(* The innermost of them visits one more vertex, the calls it has made     *)
(* have returned.  The order of the edges of a vertex is left open.        *)
Visit(d, E) ==
  LET i == Max(Calling(d, E))
  IN  IF Calling(d, E) = {} THEN d
      ELSE [at |-> Append(d.at, CHOOSE w \in Unvisited(d, E, i) : TRUE),
            parent |-> Append(d.parent, i),
            open |-> {j \in d.open : j <= i} \cup {Len(d.at) + 1}]

Search(V, E, entry) ==
  LET s[k \in 0 .. Cardinality(V)] ==
        IF k = 0 THEN [at |-> <<entry>>, parent |-> <<0>>, open |-> {1}]
        ELSE Visit(s[k - 1], E)
  IN  s[Cardinality(V)]

(***************************************************************************)
(* The forest of the vertices done so far, by their numbers; 0 is none.    *)
(* A tree is kept as a few trees of the links in chain: that of its root r *)
(* and those of the vertices in over[r] (set_child), in this order.        *)
(***************************************************************************)
Forest(n) ==
  [key |-> [x \in 0 .. n |-> x], pathMin |-> [x \in 0 .. n |-> x],
   chain |-> [x \in 0 .. n |-> 0], size |-> [x \in 0 .. n |-> 1],
   over |-> [x \in 0 .. n |-> << >>]]

Shortened(f, v) ==
  LET p == f.chain[v]
  IN  [f EXCEPT !.pathMin[v] = IF f.key[f.pathMin[p]] < f.key[@] THEN f.pathMin[p] ELSE @,
                !.chain[v] = f.chain[p]]

(* v, what it is chained to, and so on.                                    *)
Walk(f, v) ==
  LET w[i \in 0 .. Cardinality(DOMAIN f.chain)] == IF i = 0 THEN v ELSE f.chain[w[i - 1]] IN w

Depth(f, v) == Min({i \in DOMAIN Walk(f, v) : f.chain[Walk(f, v)[i]] = 0})

(* The calls return from the last vertex of the walk w that is not chained *)
(* to the root down to the first.                                          *)
Returned(f, w, m) ==
  LET c[i \in 0 .. m - 1] == IF i = 0 THEN f ELSE Shortened(c[i - 1], w[m - 1 - i])
  IN  c[m - 1]

Compress(f, v) == Returned(f, Walk(f, v), Depth(f, v))

(* The set of v, compressed if it has a new root: what eval leaves behind. *)
Evaluated(f, v) ==
  IF f.chain[v] # 0 /\ f.chain[f.chain[v]] # 0 THEN Compress(f, v) ELSE f

(* What eval returns on a compressed set: the vertex of the least key.     *)
Eval(f, v) ==
  LET r == f.chain[v]
  IN  IF r # 0 /\ f.key[f.pathMin[r]] < f.key[f.pathMin[v]] THEN f.pathMin[r]
      ELSE f.pathMin[v]

(* How many trees of w are under a key that is greater than that of w.     *)
Heavier(f, w) ==
  Max({i \in 0 .. Len(f.over[w]) :
         \A k \in 1 .. i : f.key[f.pathMin[w]] < f.key[f.pathMin[f.over[w][k]]]})

(* The tree of c and that of the tail become one, under the greater of the *)
(* two; what follows c decides which that is.                              *)
Joined(b, c, following) ==
  IF b.forest.size[b.tail] + following >= 2 * b.forest.size[c]
  THEN [b EXCEPT !.forest.chain[c] = b.tail]
  ELSE [forest |-> [b.forest EXCEPT !.size[c] = b.forest.size[b.tail], !.chain[b.tail] = c],
        tail |-> c]

Rebalanced(f, w) ==
  LET over == f.over[w]
      b[i \in 0 .. Heavier(f, w)] ==
        IF i = 0 THEN [forest |-> f, tail |-> w]
        ELSE Joined(b[i - 1], over[i], IF i = Len(over) THEN 1 ELSE f.size[over[i + 1]])
  IN  b[Heavier(f, w)]

(* The tree of w, with b rebalanced, gets the root v: the smaller of both  *)
(* is merged, the other one's trees are those of v.                        *)
Merged(f, v, w, b) ==
  LET trees == <<b.tail>> \o SubSeq(f.over[w], Heavier(f, w) + 1, Len(f.over[w]))
      size == f.size[v] + b.forest.size[w]
      small == size < 2 * b.forest.size[w]
      merged == Range(IF small THEN f.over[v] ELSE trees)
  IN  [b.forest EXCEPT !.pathMin[b.tail] = f.pathMin[w],
                       !.size[v] = size,
                       !.over[v] = IF small THEN trees ELSE @,
                       !.chain = [x \in DOMAIN @ |-> IF x \in merged THEN v ELSE @[x]]]

LinkRoots(f, v, w) == Merged(f, v, w, Rebalanced(f, w))

(***************************************************************************)
(* calc_idoms.                                                             *)
(***************************************************************************)
Lowered(g, key, v, p) ==
  [forest |-> g, key |-> Min({key, IF p > v THEN g.key[Eval(g, p)] ELSE p})]

(* a has the forest and the least number found so far.                     *)
LookedAt(a, v, p) ==
  Lowered(IF p > v THEN Evaluated(a.forest, p) ELSE a.forest, a.key, v, p)

(* The semidominator of v, over its predecessors.                          *)
Semidominator(f, v, preds) ==
  LET a[i \in 0 .. Len(preds)] ==
        IF i = 0 THEN [forest |-> f, key |-> v] ELSE LookedAt(a[i - 1], v, preds[i])
  IN  a[Len(preds)]

(* w gets its dominator, or a vertex with the same one.                    *)
Decided(s, f, w, par) ==
  LET k == Eval(f, w)
  IN  [s EXCEPT !.forest = f, !.dom[w] = IF f.key[k] < f.key[w] THEN k ELSE par]

Dominated(s, w, par) == Decided(s, Evaluated(s.forest, w), w, par)

(* So does every vertex of the bucket of par.                              *)
Emptied(s, par) ==
  LET e[i \in 0 .. Len(s.bucket[par])] ==
        IF i = 0 THEN s ELSE Dominated(e[i - 1], s.bucket[par][i], par)
  IN  [e[Len(s.bucket[par])] EXCEPT !.bucket[par] = << >>]

(* v, with the forest and the semidominator in a, is linked to its parent. *)
LinkedToParent(s, v, par, a) ==
  [s EXCEPT !.forest = LinkRoots([a.forest EXCEPT !.key[v] = a.key], par, v),
            !.bucket[a.key] = <<v>> \o @]

Stepped(s, v, par, preds) ==
  Emptied(LinkedToParent(s, v, par, Semidominator(s.forest, v, preds)), par)

(* From the last vertex back to the second.                                *)
Steps(n, parent, preds) ==
  LET s[i \in 0 .. n - 1] ==
        IF i = 0 THEN [forest |-> Forest(n), bucket |-> [x \in 0 .. n |-> << >>],
                       dom |-> [x \in 0 .. n |-> 0]]
        ELSE Stepped(s[i - 1], n + 1 - i, parent[n + 1 - i], preds[n + 1 - i])
  IN  s[n - 1]

(* Mutant: a vertex with the same dominator is taken for the dominator.    *)
NotExplicit(dom, key, n) == dom

(* "Explicitly define the dominators", from the first vertex on.           *)
Explicit(dom, key, n) ==
  LET d[v \in 0 .. n] ==
        IF v = 0 THEN dom
        ELSE IF d[v - 1][v] = key[v] THEN d[v - 1]
        ELSE [d[v - 1] EXCEPT ![v] = d[v - 1][d[v - 1][v]]]
  IN  d[n]

(* The dominators of the vertices, numbered as in the search d.            *)
DominatorsBy(d, V, E, entry) ==
  LET n == Len(d.at)
      Number(v) == CHOOSE i \in 1 .. n : d.at[i] = v
      preds == [i \in 1 .. n |-> SetToSeq({Number(e[1]) : e \in {x \in E : x[2] = d.at[i]}})]
      s == Steps(n, d.parent, preds)
      dom == Explicit(s.dom, s.forest.key, n)
  IN  [v \in V |-> IF v = entry THEN entry ELSE d.at[dom[Number(v)]]]

(* get_dominator_map: each vertex and its immediate dominator, the entry   *)
(* and itself.                                                             *)
DominatorMap(V, E, entry) == DominatorsBy(Search(V, E, entry), V, E, entry)
=============================================================================
