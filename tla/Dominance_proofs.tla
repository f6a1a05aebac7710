--------------------------- MODULE Dominance_proofs ---------------------------
(* The algorithm of Lengauer and Tarjan finds the immediate dominators of  *)
(* every graph: what the keys say of dominators, what the forest knows of  *)
(* the tree, the loop of calc_idoms, the search, and the names of the      *)
(* vertices.                                                               *)
EXTENDS Dominance, Dominators, Numbers, SequenceTheorems

\* A property of a number that the smaller, or the greater, ones pass on.
LEMMA Upwards ==
  ASSUME NEW n \in Nat, NEW S,
         \A x \in 1 .. n : (\A y \in 1 .. x - 1 : y \in S) => x \in S
  PROVE  \A x \in 1 .. n : x \in S
<1> DEFINE T == {x \in 1 .. n : x \notin S}
<1> SUFFICES ASSUME T # {} PROVE FALSE
  OBVIOUS
<1>1. PICK x \in T : \A y \in T : x <= y
  BY Least, T \in SUBSET Nat
<1>2. \A y \in 1 .. x - 1 : y \in S
  BY <1>1
<1> QED BY <1>1, <1>2

LEMMA Downwards ==
  ASSUME NEW n \in Nat, NEW S,
         \A x \in 1 .. n : (\A y \in x + 1 .. n : y \in S) => x \in S
  PROVE  \A x \in 1 .. n : x \in S
<1> DEFINE T == {x \in 1 .. n : n + 1 - x \in S}
<1>1. ASSUME NEW x \in 1 .. n, \A y \in 1 .. x - 1 : y \in T PROVE x \in T
  <2>1. n + 1 - x \in 1 .. n
    OBVIOUS
  <2>2. ASSUME NEW y \in (n + 1 - x) + 1 .. n PROVE y \in S
    <3>1. n + 1 - y \in 1 .. x - 1 /\ n + 1 - (n + 1 - y) = y
      OBVIOUS
    <3> QED BY <1>1, <3>1
  <2> QED BY <2>1, <2>2
<1> HIDE DEF T
<1>2. \A x \in 1 .. n : x \in T
  BY <1>1, Upwards
<1>3. ASSUME NEW x \in 1 .. n PROVE x \in S
  <2>1. n + 1 - x \in 1 .. n /\ n + 1 - (n + 1 - x) = x
    OBVIOUS
  <2> QED BY <1>2, <2>1 DEF T
<1> QED BY <1>3

-----------------------------------------------------------------------------
(***************************************************************************)
(* The tree of a depth-first search, and what the keys are in it.          *)
(***************************************************************************)
\* x, its parent, the parent of that and so on.
Line(n, parent, x) ==
  {a \in 1 .. n : \A S \in SUBSET (1 .. n) :
                    x \in S /\ (\A y \in S : y # 1 => parent[y] \in S) => a \in S}

Rooted(n, parent) ==
  /\ n \in Nat \ {0} /\ parent \in [1 .. n -> 0 .. n]
  /\ \A x \in 2 .. n : parent[x] \in 1 .. x - 1

LEMMA LineStep ==
  ASSUME NEW n, NEW parent, Rooted(n, parent), NEW x \in 1 .. n
  PROVE  /\ x \in Line(n, parent, x)
         /\ Line(n, parent, x) \subseteq 1 .. n
         /\ x = 1 => Line(n, parent, x) = {1}
         /\ x # 1 => /\ parent[x] \in 1 .. n /\ parent[x] < x
                     /\ Line(n, parent, x) = {x} \cup Line(n, parent, parent[x])
<1> USE DEF Rooted
<1> DEFINE Up(S) == \A y \in S : y # 1 => parent[y] \in S
<1>1. x \in Line(n, parent, x) /\ Line(n, parent, x) \subseteq 1 .. n
  BY DEF Line
<1>2. ASSUME x = 1 PROVE Line(n, parent, x) = {1}
  <2>1. {1} \in SUBSET (1 .. n) /\ Up({1})
    OBVIOUS
  <2>2. \A a \in Line(n, parent, 1) : a \in {1}
    BY <2>1 DEF Line
  <2> QED BY <1>1, <1>2, <2>2
<1>3. ASSUME x # 1 PROVE parent[x] \in 1 .. n /\ parent[x] < x
  BY <1>3
<1>4. ASSUME x # 1 PROVE Line(n, parent, x) = {x} \cup Line(n, parent, parent[x])
  <2> DEFINE p == parent[x]
  <2>1. p \in 1 .. n
    BY <1>3, <1>4
  <2>2. ASSUME NEW a \in Line(n, parent, p) PROVE a \in Line(n, parent, x)
    BY <1>4, <2>2 DEF Line
  <2>3. ASSUME NEW a \in Line(n, parent, x), a # x, a \notin Line(n, parent, p) PROVE FALSE
    <3>1. PICK S \in SUBSET (1 .. n) : p \in S /\ Up(S) /\ a \notin S
      BY <2>3 DEF Line
    <3>2. S \cup {x} \in SUBSET (1 .. n) /\ x \in S \cup {x} /\ Up(S \cup {x}) /\ a \notin S \cup {x}
      BY <2>3, <3>1
    <3> QED BY <2>3, <3>2 DEF Line
  <2> QED BY <1>1, <2>2, <2>3
<1> QED BY <1>1, <1>2, <1>3, <1>4

\* On a line the numbers fall, and what is behind a vertex is its line.
LEMMA LineIs ==
  ASSUME NEW n, NEW parent, Rooted(n, parent), NEW x \in 1 .. n, NEW a \in Line(n, parent, x)
  PROVE  /\ a \in 1 .. n /\ a <= x
         /\ 1 \in Line(n, parent, x)
         /\ Line(n, parent, a) \subseteq Line(n, parent, x)
         /\ \A b \in Line(n, parent, x) : b <= a => b \in Line(n, parent, a)
<1> DEFINE L(y) == Line(n, parent, y)
           S == {y \in 1 .. n : /\ 1 \in L(y)
                                /\ \A c \in L(y) : /\ c <= y /\ L(c) \subseteq L(y)
                                                   /\ \A b \in L(y) : b <= c => b \in L(c)}
<1>0. n \in Nat
  BY DEF Rooted
<1>1. ASSUME NEW y \in 1 .. n, \A z \in 1 .. y - 1 : z \in S PROVE y \in S
  <2> HIDE DEF L
  <2>1. CASE y = 1
    <3>1. L(y) = {1}
      BY <2>1, LineStep DEF L
    <3> QED BY <2>1, <3>1
  <2>2. CASE y # 1
    <3> DEFINE p == parent[y]
    <3>1. p \in 1 .. n /\ p < y /\ L(y) = {y} \cup L(p)
      BY <2>2, LineStep DEF L
    <3>2. p \in S
      <4>1. p \in 1 .. y - 1
        BY <3>1
      <4> QED BY <1>1, <4>1
    <3> HIDE DEF p
    <3>3. \A c \in L(p) : c <= p /\ c \in 1 .. n
      BY <3>1, <3>2, LineStep DEF L
    <3>4. \A b \in L(y) : b \in Int
      BY <3>1, <3>3
    <3> QED BY <3>1, <3>2, <3>3, <3>4
  <2> QED BY <2>1, <2>2
<1> HIDE DEF S
<1>2. x \in S
  BY <1>0, <1>1, Upwards
<1> QED BY <1>2, LineStep DEF S

\* Every edge that leads to a greater number leads down the tree, and the
\* vertices below another are numbered without a gap.
Searched(n, parent, E) ==
  /\ Rooted(n, parent)
  /\ E \in SUBSET ((1 .. n) \X (1 .. n))
  /\ \A x \in 2 .. n : <<parent[x], x>> \in E
  /\ \A e \in E : e[1] < e[2] => e[1] \in Line(n, parent, e[2])
  /\ \A y \in 1 .. n : \A a \in Line(n, parent, y) : \A x \in a .. y : a \in Line(n, parent, x)

\* What the key of w is the least of: the predecessors above w, and the keys
\* on the way from w to one that is not.
Sources(n, parent, E, key, w) ==
  {x \in 1 .. n : <<x, w>> \in E /\ x < w}
    \cup {key[u] : u \in {y \in 1 .. n : /\ y > w
                                        /\ \E x \in 1 .. n : <<x, w>> \in E /\ y \in Line(n, parent, x)}}

KeyIs(n, parent, E, key, w) ==
  /\ key[w] \in Sources(n, parent, E, key, w)
  /\ \A y \in Sources(n, parent, E, key, w) : key[w] <= y

Keyed(n, parent, E, key) ==
  /\ Searched(n, parent, E) /\ key \in [0 .. n -> 0 .. n]
  /\ \A w \in 2 .. n : KeyIs(n, parent, E, key, w)

LEMMA SearchedIs ==
  ASSUME NEW n, NEW parent, NEW E, Searched(n, parent, E)
  PROVE  /\ Rooted(n, parent) /\ n \in Nat /\ n >= 1 /\ 1 \in 1 .. n
         /\ \A e \in E : e[1] \in 1 .. n /\ e[2] \in 1 .. n /\ e = <<e[1], e[2]>>
         /\ \A x \in 1 .. n : x # 1 => /\ parent[x] \in 1 .. x - 1 /\ parent[x] \in 1 .. n
                                      /\ <<parent[x], x>> \in E
         /\ \A x, y \in 1 .. n : <<x, y>> \in E /\ x < y => x \in Line(n, parent, y)
<1>1. Rooted(n, parent) /\ E \in SUBSET ((1 .. n) \X (1 .. n))
  BY DEF Searched
<1>2. n \in Nat /\ n >= 1 /\ 1 \in 1 .. n
  BY <1>1 DEF Rooted
<1>3. ASSUME NEW x \in 1 .. n, x # 1
      PROVE  parent[x] \in 1 .. x - 1 /\ parent[x] \in 1 .. n /\ <<parent[x], x>> \in E
  <2>1. x \in 2 .. n
    BY <1>2, <1>3
  <2>2. parent[x] \in 1 .. x - 1
    BY <1>1, <2>1 DEF Rooted
  <2> QED BY <1>2, <2>1, <2>2 DEF Searched
<1>4. \A x, y \in 1 .. n : <<x, y>> \in E /\ x < y => x \in Line(n, parent, y)
  BY DEF Searched
<1> QED BY <1>1, <1>2, <1>3, <1>4

LEMMA KeyedIs ==
  ASSUME NEW n, NEW parent, NEW E, NEW key, Keyed(n, parent, E, key)
  PROVE  /\ Searched(n, parent, E) /\ Rooted(n, parent) /\ n \in Nat /\ n >= 1 /\ 1 \in 1 .. n
         /\ \A x \in 1 .. n : key[x] \in Int
         /\ \A x \in 1 .. n : x # 1 => x \in 2 .. n /\ KeyIs(n, parent, E, key, x)
<1>1. Searched(n, parent, E)
  BY DEF Keyed
<1>2. Rooted(n, parent) /\ n \in Nat /\ n >= 1 /\ 1 \in 1 .. n
  BY <1>1, SearchedIs
<1>3. \A x \in 1 .. n : key[x] \in Int
  BY <1>2 DEF Keyed
<1>4. \A x \in 1 .. n : x # 1 => x \in 2 .. n /\ KeyIs(n, parent, E, key, x)
  <2>1. \A x \in 1 .. n : x # 1 => x \in 2 .. n
    BY <1>2
  <2> QED BY <2>1 DEF Keyed
<1> QED BY <1>1, <1>2, <1>3, <1>4

\* The key of a vertex is above it.
LEMMA KeyAbove ==
  ASSUME NEW n, NEW parent, NEW E, NEW key, Keyed(n, parent, E, key), NEW w \in 2 .. n
  PROVE  key[w] \in Line(n, parent, parent[w]) /\ key[w] <= parent[w] /\ key[w] < w
<1> DEFINE L(x) == Line(n, parent, x)
           S == {x \in 1 .. n : x # 1 => key[x] \in L(parent[x]) /\ key[x] <= parent[x]}
<1>0. Searched(n, parent, E) /\ Rooted(n, parent) /\ n \in Nat
  BY KeyedIs
<1>1. ASSUME NEW x \in 1 .. n, \A y \in x + 1 .. n : y \in S PROVE x \in S
  <2> SUFFICES ASSUME x # 1 PROVE key[x] \in L(parent[x]) /\ key[x] <= parent[x]
    OBVIOUS
  <2>1. x \in 2 .. n /\ parent[x] \in 1 .. n /\ parent[x] < x /\ L(x) = {x} \cup L(parent[x])
    BY <1>0, LineStep
  <2>2. <<parent[x], x>> \in E /\ KeyIs(n, parent, E, key, x)
    BY <1>0, <2>1, SearchedIs, KeyedIs
  <2>3. parent[x] \in Sources(n, parent, E, key, x)
    BY <2>1, <2>2 DEF Sources
  <2>4. key[x] <= parent[x] /\ key[x] \in Sources(n, parent, E, key, x)
    BY <2>2, <2>3 DEF KeyIs
  <2>5. key[x] < x /\ key[x] # x
    <3>1. key[x] \in Int
      BY KeyedIs
    <3> QED BY <2>1, <2>4, <3>1
  <2>6. key[x] \in L(x)
    <3>1. CASE key[x] \in 1 .. n /\ <<key[x], x>> \in E
      BY <1>0, <2>5, <3>1, SearchedIs
    <3>2. ASSUME NEW u \in 1 .. n, u > x, key[x] = key[u] PROVE key[x] \in L(x)
      <4>1. u \in S /\ u # 1
        BY <1>0, <1>1, <3>2
      <4>2. key[u] \in L(u)
        <5>1. L(u) = {u} \cup L(parent[u])
          BY <1>0, <4>1, LineStep
        <5> QED BY <4>1, <5>1
      <4>3. key[u] \in 1 .. n
        BY <1>0, <4>2, LineStep
      <4>4. x \in key[u] .. u
        BY <2>5, <3>2, <4>3
      <4> QED BY <1>0, <3>2, <4>2, <4>4 DEF Searched
    <3> QED BY <2>4, <3>1, <3>2 DEF Sources
  <2> QED BY <2>1, <2>4, <2>5, <2>6
<1> HIDE DEF S
<1>2. w \in S /\ w # 1 /\ w \in 1 .. n
  <2>1. \A x \in 1 .. n : x \in S
    BY <1>0, <1>1, Downwards
  <2>2. w # 1 /\ w \in 1 .. n
    BY <1>0
  <2> QED BY <2>1, <2>2
<1>3. parent[w] \in 1 .. n /\ parent[w] < w
  BY <1>0, <1>2, LineStep
<1>4. key[w] \in L(parent[w]) /\ key[w] <= parent[w]
  BY <1>2 DEF S
<1>5. key[w] \in 1 .. n
  BY <1>0, <1>3, <1>4, LineStep
<1> QED BY <1>3, <1>4, <1>5

\* What the edges lead to without d: down the tree from any vertex after d.
LEMMA DownTheTree ==
  ASSUME NEW n, NEW parent, NEW E, Searched(n, parent, E), NEW d \in 1 .. n, NEW R \in SUBSET (1 .. n),
         Closed(R, E, 1, {d}), NEW x \in 1 .. n, NEW u \in Line(n, parent, x),
         u \in R, \A b \in Line(n, parent, x) : b > u => b # d
  PROVE  x \in R
<1> DEFINE L(y) == Line(n, parent, y)
           S == {y \in 1 .. n : /\ u \in L(y)
                                /\ \A b \in L(y) : b > u => b # d
                                => y \in R}
<1>0. Rooted(n, parent) /\ n \in Nat
  BY DEF Searched, Rooted
<1>1. ASSUME NEW y \in 1 .. n, \A z \in 1 .. y - 1 : z \in S PROVE y \in S
  <2> SUFFICES ASSUME u \in L(y), \A b \in L(y) : b > u => b # d PROVE y \in R
    OBVIOUS
  <2>1. CASE y = u
    BY <2>1
  <2>2. CASE y # u
    <3>1. y # 1
      BY <1>0, <2>2, LineStep
    <3>2. parent[y] \in 1 .. n /\ parent[y] < y /\ L(y) = {y} \cup L(parent[y]) /\ u \in 1 .. n /\ u <= y
      BY <1>0, <3>1, LineStep, LineIs
    <3>3. parent[y] \in S
      <4>1. parent[y] \in 1 .. y - 1
        BY <3>2
      <4> QED BY <1>1, <4>1
    <3>4. parent[y] \in R
      BY <2>2, <3>2, <3>3
    <3>5. <<parent[y], y>> \in E
      <4>1. y \in 2 .. n
        BY <3>1
      <4> QED BY <4>1 DEF Searched
    <3>6. y # d
      BY <2>2, <3>2
    <3> QED BY <3>4, <3>5, <3>6 DEF Closed
  <2> QED BY <2>1, <2>2
<1> HIDE DEF S
<1>2. x \in S
  BY <1>0, <1>1, Upwards
<1> QED BY <1>2 DEF S

\* From its key there is a way to a vertex over greater ones.
LEMMA FromTheKey ==
  ASSUME NEW n, NEW parent, NEW E, NEW key, Keyed(n, parent, E, key), NEW w \in 2 .. n,
         NEW d \in 1 .. n, d < w, NEW R \in SUBSET (1 .. n), Closed(R, E, 1, {d}), key[w] \in R
  PROVE  w \in R
<1> DEFINE L(x) == Line(n, parent, x)
           S == {x \in 1 .. n : x # 1 /\ d < x /\ key[x] \in R => x \in R}
<1>0. Searched(n, parent, E) /\ Rooted(n, parent) /\ n \in Nat
  BY KeyedIs
<1>1. ASSUME NEW x \in 1 .. n, \A y \in x + 1 .. n : y \in S PROVE x \in S
  <2> SUFFICES ASSUME x # 1, d < x, key[x] \in R PROVE x \in R
    OBVIOUS
  <2>1. KeyIs(n, parent, E, key, x)
    BY KeyedIs
  <2>2. CASE <<key[x], x>> \in E
    BY <2>2 DEF Closed
  <2>3. ASSUME NEW u \in 1 .. n, NEW y \in 1 .. n, u > x, <<y, x>> \in E, u \in L(y), key[x] = key[u]
        PROVE  x \in R
    <3>1. u \in R
      <4>1. u \in x + 1 .. n /\ u # 1 /\ d < u
        BY <2>3
      <4> QED BY <1>1, <2>3, <4>1
    <3>2. \A b \in L(y) : b > u => b # d
      BY <2>3
    <3>3. y \in R
      BY <1>0, <2>3, <3>1, <3>2, DownTheTree
    <3> QED BY <2>3, <3>3 DEF Closed
  <2> QED BY <2>1, <2>2, <2>3 DEF KeyIs, Sources
<1> HIDE DEF S
<1>2. \A x \in 1 .. n : x \in S
  BY <1>0, <1>1, Downwards
<1>3. w \in 1 .. n /\ w # 1
  BY <1>0
<1> QED BY <1>2, <1>3 DEF S

\* No edge enters the vertices below d whose lines keep their keys, but from d.
LEMMA KeptBelow ==
  ASSUME NEW n, NEW parent, NEW E, NEW key, Keyed(n, parent, E, key), NEW d \in 1 .. n,
         NEW Q, \A y \in 1 .. n : y \in Q <=> /\ y > d
                                             /\ \A b \in Line(n, parent, y) : b > d => key[b] >= d
  PROVE  Closed((1 .. n) \ (Q \cup {d}), E, 1, {d})
<1> DEFINE L(x) == Line(n, parent, x)
<1>0. Searched(n, parent, E) /\ Rooted(n, parent) /\ n \in Nat
  BY KeyedIs
<1>1. 1 \notin Q /\ 1 \in 1 .. n
  BY KeyedIs
<1>2. ASSUME NEW x \in 1 .. n, NEW y \in 1 .. n, <<x, y>> \in E, y \in Q, x # d PROVE x \in Q
  <2>1. y > d /\ KeyIs(n, parent, E, key, y) /\ key[y] \in Int
    <3>1. y > d /\ y # 1
      BY <1>2
    <3> QED BY <3>1, KeyedIs
  <2>2. key[y] >= d
    <3>1. y \in L(y)
      BY <1>0, LineStep
    <3> QED BY <1>2, <2>1, <3>1
  <2>3. ~(x < y /\ x < d)
    <3> SUFFICES ASSUME x < y, x < d PROVE FALSE
      OBVIOUS
    <3>1. x \in Sources(n, parent, E, key, y)
      BY <1>2 DEF Sources
    <3>2. key[y] <= x
      BY <2>1, <3>1 DEF KeyIs
    <3> QED BY <2>1, <2>2, <3>2
  <2>4. x > d
    BY <1>2, <2>1, <2>3
  <2>5. ASSUME NEW b \in L(x), b > d PROVE key[b] >= d
    <3>1. b \in 1 .. n /\ b <= x
      BY <1>0, LineIs
    <3>5. key[b] \in Int
      BY <3>1, KeyedIs
    <3>2. CASE b \in L(y)
      BY <1>2, <2>5, <3>2
    <3>3. CASE b > y
      <4>1. key[b] \in Sources(n, parent, E, key, y)
        BY <1>2, <2>5, <3>1, <3>3 DEF Sources
      <4>2. key[y] <= key[b]
        BY <2>1, <4>1 DEF KeyIs
      <4> QED BY <2>1, <2>2, <3>5, <4>2
    <3>4. CASE b <= y /\ b \notin L(y)
      <4>1. CASE y <= x
        <5>1. y \in b .. x
          BY <3>1, <3>4, <4>1
        <5> QED BY <1>0, <3>4, <5>1 DEF Searched
      <4>2. CASE x < y
        <5>1. x \in L(y)
          BY <1>0, <1>2, <4>2, SearchedIs
        <5>2. L(x) \subseteq L(y)
          BY <1>0, <5>1, LineIs
        <5> QED BY <3>4, <5>2
      <4> QED BY <4>1, <4>2
    <3> QED BY <3>1, <3>2, <3>3, <3>4
  <2> QED BY <1>2, <2>4, <2>5
<1>3. ASSUME NEW e \in E, e[1] \in (1 .. n) \ (Q \cup {d}) PROVE e[2] \in ((1 .. n) \ (Q \cup {d})) \cup {d}
  <2>1. e[1] \in 1 .. n /\ e[2] \in 1 .. n /\ <<e[1], e[2]>> \in E
    BY <1>0, SearchedIs
  <2> QED BY <1>2, <1>3, <2>1
<1> QED BY <1>1, <1>3 DEF Closed

\* A vertex dominates those after it on whose way up no key, up to it, is
\* above it.
LEMMA DominatesIf ==
  ASSUME NEW n, NEW parent, NEW E, NEW key, Keyed(n, parent, E, key),
         NEW w \in 1 .. n, NEW d \in 1 .. n
  PROVE  Dominates(1 .. n, E, 1, d, w)
           <=> \/ d = w
               \/ d < w /\ \A b \in Line(n, parent, w) : b > d => key[b] >= d
<1> DEFINE L(x) == Line(n, parent, x)
           Low(x) == d < x /\ \A b \in L(x) : b > d => key[b] >= d
<1>0. Rooted(n, parent) /\ n \in Nat /\ Searched(n, parent, E) /\ 1 \in 1 .. n
  BY KeyedIs
<1>1. ASSUME Low(w) PROVE Dominates(1 .. n, E, 1, d, w)
  <2> DEFINE Q == {y \in 1 .. n : /\ y > d
                                  /\ \A b \in L(y) : b > d => key[b] >= d}
  <2>1. Closed((1 .. n) \ (Q \cup {d}), E, 1, {d})
    BY KeptBelow
  <2>2. w \in Q
    BY <1>1
  <2> DEFINE R == (1 .. n) \ (Q \cup {d})
  <2>3. R \in SUBSET (1 .. n) /\ w \notin R /\ Closed(R, E, 1, {d})
    BY <2>1, <2>2
  <2> QED BY <2>3 DEF Dominates, Reached
<1>2. ASSUME w # d, ~Low(w), NEW R \in SUBSET (1 .. n), Closed(R, E, 1, {d}) PROVE w \in R
  <2>1. ASSUME NEW x \in 1 .. n, d \notin L(x) PROVE x \in R
    <3>1. 1 \in L(x)
      <4>1. x \in L(x)
        BY <1>0, LineStep
      <4> QED BY <1>0, <4>1, LineIs
    <3>2. 1 \in R
      <4>1. d # 1
        BY <2>1, <3>1
      <4> QED BY <1>2, <4>1 DEF Closed
    <3> QED BY <1>0, <1>2, <2>1, <3>1, <3>2, DownTheTree
  <2>2. CASE d \notin L(w)
    BY <2>1, <2>2
  <2>3. CASE d \in L(w)
    <3>1. d < w
      BY <1>0, <1>2, <2>3, LineIs
    <3>2. PICK b \in L(w) : b > d /\ ~(key[b] >= d)
      BY <1>2, <3>1
    <3>3. b \in 2 .. n /\ b \in 1 .. n /\ b # 1
      BY <1>0, <3>2, LineIs
    <3>4. key[b] \in L(parent[b]) /\ key[b] < b /\ parent[b] \in 1 .. n
      BY <1>0, <3>3, KeyAbove, SearchedIs
    <3>5. key[b] \in 1 .. n /\ key[b] < d
      BY <1>0, <3>2, <3>4, LineIs
    <3>6. d \notin L(key[b])
      BY <1>0, <3>5, LineIs
    <3>7. key[b] \in R
      BY <2>1, <3>5, <3>6
    <3>8. b \in R
      BY <1>2, <3>2, <3>3, <3>7, FromTheKey
    <3>9. \A c \in L(w) : c > b => c # d
      BY <3>2, <3>3
    <3> QED BY <1>0, <1>2, <3>2, <3>8, <3>9, DownTheTree
  <2> QED BY <2>2, <2>3
<1>3. ASSUME Dominates(1 .. n, E, 1, d, w), w # d, ~Low(w) PROVE FALSE
  <2>1. w \in Reached(1 .. n, E, 1, {d})
    BY <1>2, <1>3 DEF Reached
  <2> QED BY <1>3, <2>1 DEF Dominates
<1> QED BY <1>1, <1>3 DEF Dominates

-----------------------------------------------------------------------------
(***************************************************************************)
(* Loops: functions that go from 0 to m; I[i] is what is known after i     *)
(* iterations.                                                             *)
(***************************************************************************)
Iterates(h, m, x, F, I) ==
  /\ h = [i \in 0 .. m |-> h[i]] /\ h[0] = x
  /\ \A i \in 0 .. m : h[i] \in I[i]
  /\ \A i \in 1 .. m : i - 1 \in 0 .. m /\ i \in 0 .. m /\ i # 0 /\ h[i] = F[i][h[i - 1]]

LEMMA Loop ==
  ASSUME NEW m \in Nat, NEW I, NEW x, x \in I[0],
         NEW F, \A i \in 1 .. m : \A f \in I[i - 1] : F[i][f] \in I[i]
  PROVE  \E h : Iterates(h, m, x, F, I)
<1> DEFINE Good(k, h) == /\ h = [i \in 0 .. k |-> IF i = 0 THEN x ELSE F[i][h[i - 1]]]
                         /\ \A i \in 0 .. k : h[i] \in I[i]
           T == {k \in Nat : k <= m => \E h : Good(k, h)}
<1>1. 0 \in T
  <2>1. Good(0, [i \in 0 .. 0 |-> x])
    OBVIOUS
  <2> HIDE DEF Good
  <2> QED BY <2>1
<1>2. ASSUME NEW k \in Nat, k \in T PROVE k + 1 \in T
  <2> SUFFICES ASSUME k + 1 <= m PROVE \E h : Good(k + 1, h)
    OBVIOUS
  <2>1. PICK h : Good(k, h)
    BY <1>2
  <2> DEFINE g == [i \in 0 .. k + 1 |-> IF i = k + 1 THEN F[k + 1][h[k]] ELSE h[i]]
  <2>2. \A i \in 0 .. k : g[i] = h[i]
    OBVIOUS
  <2>3. g[k + 1] = F[k + 1][h[k]]
    OBVIOUS
  <2>4. g[k + 1] \in I[k + 1]
    BY <2>1, <2>3
  <2>5. \A i \in 0 .. k + 1 : g[i] \in I[i]
    <3>1. \A i \in 0 .. k + 1 : i \in 0 .. k \/ i = k + 1
      OBVIOUS
    <3> HIDE DEF g
    <3> QED BY <2>1, <2>2, <2>4, <3>1
  <2>6. ASSUME NEW i \in 0 .. k + 1 PROVE g[i] = IF i = 0 THEN x ELSE F[i][g[i - 1]]
    <3>1. CASE i = k + 1
      <4>1. i - 1 = k /\ k \in 0 .. k
        BY <3>1
      <4>2. g[i - 1] = h[k]
        BY <2>2, <4>1
      <4> HIDE DEF g
      <4> QED BY <2>3, <3>1, <4>2
    <3>2. CASE i # k + 1
      <4>1. i \in 0 .. k /\ (i # 0 => i - 1 \in 0 .. k)
        BY <3>2
      <4>2. g[i] = h[i] /\ (i # 0 => g[i - 1] = h[i - 1])
        BY <2>2, <4>1
      <4>3. h[i] = IF i = 0 THEN x ELSE F[i][h[i - 1]]
        BY <2>1, <4>1
      <4> HIDE DEF g
      <4> QED BY <4>2, <4>3
    <3> QED BY <3>1, <3>2
  <2>7. g = [i \in 0 .. k + 1 |-> IF i = 0 THEN x ELSE F[i][g[i - 1]]]
    BY <2>6
  <2> HIDE DEF g
  <2>8. Good(k + 1, g)
    BY <2>5, <2>7
  <2> HIDE DEF Good
  <2> QED BY <2>8
<1> HIDE DEF T
<1>3. m \in T
  BY <1>1, <1>2, Induct
<1>4. PICK h : Good(m, h)
  BY <1>3 DEF T
<1>5. h = [i \in 0 .. m |-> h[i]] /\ h[0] = x /\ \A i \in 0 .. m : h[i] \in I[i]
  BY <1>4
<1>6. ASSUME NEW i \in 1 .. m
      PROVE  i - 1 \in 0 .. m /\ i \in 0 .. m /\ i # 0 /\ h[i] = F[i][h[i - 1]]
  BY <1>4
<1>7. Iterates(h, m, x, F, I)
  BY <1>5, <1>6 DEF Iterates
<1> QED BY <1>7

LEMMA Iterated ==
  ASSUME NEW m \in Nat, NEW I, NEW h, h[0] \in I[0],
         \A i \in 1 .. m : h[i - 1] \in I[i - 1] => h[i] \in I[i]
  PROVE  \A i \in 0 .. m : h[i] \in I[i]
<1> DEFINE T == {k \in Nat : k <= m => h[k] \in I[k]}
<1>1. 0 \in T
  OBVIOUS
<1>2. ASSUME NEW k \in Nat, k \in T PROVE k + 1 \in T
  <2>1. k + 1 <= m => k + 1 \in 1 .. m /\ (k + 1) - 1 = k /\ k <= m
    OBVIOUS
  <2> QED BY <1>2, <2>1
<1> HIDE DEF T
<1>3. \A k \in Nat : k \in T
  BY <1>1, <1>2, Induct
<1> QED BY <1>3 DEF T

-----------------------------------------------------------------------------
(***************************************************************************)
(* From what the steps leave in dom to the immediate dominators.           *)
(***************************************************************************)
\* The last that dominates w but w itself.
Nearest(n, E, d, w) ==
  /\ d \in 1 .. n /\ d < w /\ Dominates(1 .. n, E, 1, d, w)
  /\ \A c \in 1 .. n : c # w /\ Dominates(1 .. n, E, 1, c, w) => Dominates(1 .. n, E, 1, c, d)

\* k has the least key on the way up from w to its key.
LeastOnWay(n, parent, key, k, w) ==
  /\ k \in Line(n, parent, w) /\ k > key[w]
  /\ \A u \in Line(n, parent, w) : u > key[w] => key[k] <= key[u]

\* w has its key, or a vertex with the same dominator.
Settled(n, parent, key, dom, w) ==
  \E k \in 1 .. n : /\ LeastOnWay(n, parent, key, k, w)
                    /\ dom[w] = IF key[k] < key[w] THEN k ELSE key[w]

LEMMA NearestIs ==
  ASSUME NEW n, NEW parent, NEW E, NEW key, Keyed(n, parent, E, key), NEW w \in 2 .. n,
         NEW k \in 1 .. n, LeastOnWay(n, parent, key, k, w)
  PROVE  /\ key[k] >= key[w] => Nearest(n, E, key[w], w)
         /\ key[k] < key[w] => /\ k \in 2 .. w - 1 /\ k # key[w]
                               /\ \A d : Nearest(n, E, d, k) => Nearest(n, E, d, w)
<1> DEFINE L(x) == Line(n, parent, x)
           Low(d, x) == d < x /\ \A b \in L(x) : b > d => key[b] >= d
           s == key[w]
<1>0. /\ Rooted(n, parent) /\ n \in Nat /\ w \in 1 .. n /\ 1 \in 1 .. n /\ parent[w] \in 1 .. n
      /\ \A x \in 1 .. n : key[x] \in Int /\ x \in L(x) /\ L(x) \subseteq 1 .. n
  <2>1. w \in 1 .. n /\ w # 1
    BY KeyedIs
  <2> QED BY <2>1, KeyedIs, SearchedIs, LineStep
<1>1. \A d, x \in 1 .. n : Dominates(1 .. n, E, 1, d, x) <=> d = x \/ Low(d, x)
  BY DominatesIf
<1>2. s \in L(w) /\ s < w /\ s \in 1 .. n
  <2>1. s \in L(parent[w]) /\ s < w
    BY KeyAbove
  <2>2. L(parent[w]) \subseteq L(w)
    BY <1>0, LineStep
  <2> QED BY <1>0, <2>1, <2>2
<1>3. k \in L(w) /\ k > s /\ k <= w /\ \A u \in L(w) : u > s => key[k] <= key[u]
  BY <1>0, LineIs DEF LeastOnWay
<1>4. L(s) \subseteq L(w) /\ L(k) \subseteq L(w) /\ \A b \in L(w) : b <= k => b \in L(k)
  BY <1>0, <1>2, <1>3, LineIs
<1>5. ASSUME NEW c \in 1 .. n, Low(c, w) PROVE c <= s
  BY <1>0, <1>2, <1>5
<1> HIDE DEF s
<1>6. ASSUME key[k] >= s PROVE Nearest(n, E, s, w)
  <2>1. Low(s, w)
    <3>1. ASSUME NEW b \in L(w), b > s PROVE key[b] >= s
      BY <1>0, <1>2, <1>3, <1>6, <3>1
    <3> QED BY <1>2, <3>1
  <2>2. ASSUME NEW c \in 1 .. n, Low(c, w) PROVE c = s \/ Low(c, s)
    BY <1>2, <1>4, <1>5, <2>2
  <2> HIDE DEF Low
  <2> QED BY <1>0, <1>1, <1>2, <2>1, <2>2 DEF Nearest
<1>7. ASSUME key[k] < s PROVE k # w /\ k < w /\ k # 1 /\ k # s
  BY <1>0, <1>2, <1>3, <1>7 DEF s
<1>8. ASSUME key[k] < s, NEW c \in 1 .. n PROVE Low(c, w) <=> Low(c, k)
  <2>1. ASSUME Low(c, w) PROVE Low(c, k)
    BY <1>2, <1>3, <1>4, <1>5, <2>1
  <2>2. ASSUME Low(c, k), NEW b \in L(w), b > c PROVE key[b] >= c
    <3>1. key[k] >= c
      BY <1>0, <2>2
    <3>2. CASE b > s
      BY <1>0, <1>3, <3>1, <3>2
    <3>3. CASE ~(b > s)
      <4>1. b \in L(k)
        BY <1>0, <1>2, <1>3, <1>4, <3>3
      <4> QED BY <2>2, <4>1
    <3> QED BY <3>2, <3>3
  <2>3. Low(c, k) => c < w
    BY <1>0, <1>3
  <2> QED BY <2>1, <2>2, <2>3
<1>9. ASSUME key[k] < s, NEW d, Nearest(n, E, d, k) PROVE Nearest(n, E, d, w)
  <2>1. d \in 1 .. n /\ d < k /\ d < w /\ (d = k \/ Low(d, k))
    BY <1>0, <1>1, <1>3, <1>9 DEF Nearest
  <2>2. Low(d, w)
    BY <1>8, <1>9, <2>1
  <2>3. ASSUME NEW c \in 1 .. n, c # w, Dominates(1 .. n, E, 1, c, w) PROVE Dominates(1 .. n, E, 1, c, d)
    <3>1. Low(c, k)
      BY <1>0, <1>1, <1>8, <1>9, <2>3
    <3>2. c # k /\ Dominates(1 .. n, E, 1, c, k)
      BY <1>1, <3>1
    <3> QED BY <1>9, <3>2 DEF Nearest
  <2> HIDE DEF Low
  <2> QED BY <1>0, <1>1, <2>1, <2>2, <2>3 DEF Nearest
<1> QED
  <2>1. w \in Nat /\ k \in Nat
    BY <1>0
  <2> QED BY <1>6, <1>7, <1>9, <2>1 DEF s

\* d has what dom has, or what d has for that.
Followed(n, dom, key, d) ==
  d \in [0 .. n -> 0 .. n] /\ \A v \in 2 .. n : d[v] = IF dom[v] = key[v] THEN dom[v] ELSE d[dom[v]]

LEMMA ExplicitIs ==
  ASSUME NEW n \in Nat, NEW dom \in [0 .. n -> 0 .. n], NEW key,
         \A v \in 2 .. n : dom[v] # key[v] => dom[v] < v
  PROVE  Followed(n, dom, key, Explicit(dom, key, n))
<1> DEFINE Type == [0 .. n -> 0 .. n]
           Body(v, d) == IF d[v] = key[v] THEN d ELSE [d EXCEPT ![v] = d[d[v]]]
           I == [i \in 0 .. n |-> Type]
           F == [i \in 1 .. n |-> [d \in Type |-> Body(i, d)]]
           D == CHOOSE d : d = [v \in 0 .. n |-> IF v = 0 THEN dom
                                                 ELSE IF d[v - 1][v] = key[v] THEN d[v - 1]
                                                 ELSE [d[v - 1] EXCEPT ![v] = d[v - 1][d[v - 1][v]]]]
<1>1. ASSUME NEW i \in 1 .. n, NEW d \in Type PROVE Body(i, d) \in Type
  OBVIOUS
<1>2. \A i \in 1 .. n : I[i - 1] = Type /\ I[i] = Type
  <2>1. \A i \in 1 .. n : i - 1 \in 0 .. n /\ i \in 0 .. n
    OBVIOUS
  <2> QED BY <2>1
<1>3. PICK h : Iterates(h, n, dom, F, I)
  <2>1. dom \in I[0] /\ n \in Nat
    OBVIOUS
  <2>2. \A i \in 1 .. n : \A f \in I[i - 1] : F[i][f] \in I[i]
    <3> HIDE DEF Type, Body, I
    <3>1. \A i \in 1 .. n : \A f \in Type : F[i][f] = Body(i, f)
      OBVIOUS
    <3> HIDE DEF F
    <3> QED BY <1>1, <1>2, <3>1, SMTT(20)
  <2> HIDE DEF F, I, Type
  <2> QED BY <2>1, <2>2, Loop
<1>4. h = [v \in 0 .. n |-> IF v = 0 THEN dom ELSE Body(v, h[v - 1])]
  <2>1. \A v \in 1 .. n : h[v] = Body(v, h[v - 1])
    <3>1. \A v \in 1 .. n : h[v - 1] \in Type /\ h[v] = F[v][h[v - 1]]
      BY <1>2, <1>3 DEF Iterates
    <3> HIDE DEF Body
    <3> QED BY <3>1
  <2>2. \A v \in 0 .. n : v # 0 => v \in 1 .. n
    OBVIOUS
  <2> HIDE DEF Body, F
  <2> QED BY <1>3, <2>1, <2>2 DEF Iterates
<1>5. D = [v \in 0 .. n |-> IF v = 0 THEN dom ELSE Body(v, D[v - 1])]
  BY <1>4
<1> HIDE DEF D
<1>6. Explicit(dom, key, n) = D[n]
  BY DEF Explicit, D
\* After v iterations the first v are those they end with.
<1> DEFINE J == [i \in 0 .. n |->
                   {d \in Type : /\ \A v \in i + 1 .. n : d[v] = dom[v]
                                 /\ \A v \in 2 .. i : d[v] = IF dom[v] = key[v] THEN dom[v] ELSE d[dom[v]]}]
<1>7. \A i \in 0 .. n : D[i] \in J[i]
  <2>1. D[0] \in J[0]
    <3>1. D[0] = dom
      BY <1>5
    <3> QED BY <3>1
  <2>2. ASSUME NEW i \in 1 .. n, D[i - 1] \in J[i - 1] PROVE D[i] \in J[i]
    <3>1. D[i] = Body(i, D[i - 1])
      <4>1. i \in 0 .. n /\ i # 0
        OBVIOUS
      <4> HIDE DEF Body
      <4> QED BY <1>5, <4>1
    <3> DEFINE d == D[i - 1]
    <3>2. /\ d \in Type /\ \A v \in i .. n : d[v] = dom[v]
          /\ \A v \in 2 .. i - 1 : d[v] = IF dom[v] = key[v] THEN dom[v] ELSE d[dom[v]]
      <4>1. i - 1 \in 0 .. n /\ (i - 1) + 1 = i
        OBVIOUS
      <4> HIDE DEF Type
      <4> QED BY <2>2, <4>1
    <3> HIDE DEF d
    <3>3. Body(i, d) \in J[i]
      <4> DEFINE b == Body(i, d)
      <4>1. b \in Type /\ b[i] = IF dom[i] = key[i] THEN dom[i] ELSE d[dom[i]]
        <5>1. i \in 0 .. n /\ i \in i .. n
          OBVIOUS
        <5>2. d[i] = dom[i] /\ dom[i] \in 0 .. n
          BY <3>2, <5>1
        <5>3. d[dom[i]] \in 0 .. n
          BY <3>2, <5>2
        <5> QED BY <3>2, <5>1, <5>2, <5>3
      <4>2. \A v \in 0 .. n : v # i => b[v] = d[v]
        BY <3>2
      <4> HIDE DEF b
      <4>3. \A v \in i + 1 .. n : b[v] = dom[v]
        <5>1. \A v \in i + 1 .. n : v \in i .. n /\ v \in 0 .. n /\ v # i
          OBVIOUS
        <5> QED BY <3>2, <4>2, <5>1
      <4>4. ASSUME NEW v \in 2 .. i PROVE b[v] = IF dom[v] = key[v] THEN dom[v] ELSE b[dom[v]]
        <5>1. dom[v] # key[v] => dom[v] # i /\ dom[v] \in 0 .. n
          OBVIOUS
        <5>2. v # i => v \in 2 .. i - 1 /\ v \in 0 .. n
          OBVIOUS
        <5> QED BY <3>2, <4>1, <4>2, <5>1, <5>2
      <4> HIDE DEF Type
      <4>5. b \in J[i]
        BY <4>1, <4>3, <4>4
      <4> QED BY <4>5 DEF b
    <3> HIDE DEF J
    <3> QED BY <3>1, <3>3 DEF d
  <2> HIDE DEF J
  <2> QED BY <2>1, <2>2, Iterated
<1>8. D[n] \in Type /\ \A v \in 2 .. n : D[n][v] = IF dom[v] = key[v] THEN dom[v] ELSE D[n][dom[v]]
  <2>1. n \in 0 .. n
    OBVIOUS
  <2> HIDE DEF Type
  <2> QED BY <1>7, <2>1
<1> HIDE DEF D
<1> QED BY <1>6, <1>8 DEF Followed

-----------------------------------------------------------------------------
(***************************************************************************)
(* The forest. v + 1 .. n are those linked so far; root has the root of the*)
(* tree of each, and best the vertex of the least key on its way up, but   *)
(* the root.                                                               *)
(***************************************************************************)
Forests(n) ==
  [key : [0 .. n -> 0 .. n], pathMin : [0 .. n -> 0 .. n], chain : [0 .. n -> 0 .. n],
   size : [0 .. n -> Int], over : [0 .. n -> Seq(1 .. n)]]

Acyclic(n, chain) ==
  \A S \in SUBSET (1 .. n) : S # {} => \E x \in S : chain[x] \notin S

\* pathMin has the best of the links in chain together.
Remembered(f, n, v, root, best, u) ==
  /\ root[u] \in 1 .. v /\ best[u] \in v + 1 .. n /\ f.pathMin[u] \in v + 1 .. n
  /\ f.key[best[u]] <= root[u]
  /\ f.chain[u] # 0 => root[f.chain[u]] = root[u]
  /\ \/ f.pathMin[u] = best[u]
     \/ /\ f.key[f.pathMin[u]] > f.key[best[u]]
        /\ f.chain[u] > v /\ best[f.chain[u]] = best[u]
  /\ f.chain[u] > v => f.key[best[f.chain[u]]] >= f.key[best[u]]

\* over[r] are the vertices below r that are not chained, by their keys.
Sorted(f, n, v, root, r) ==
  /\ \A i \in 1 .. Len(f.over[r]) :
       /\ f.over[r][i] \in v + 1 .. n
       /\ f.chain[f.over[r][i]] = 0 /\ root[f.over[r][i]] = r
  /\ \A u \in v + 1 .. n : f.chain[u] = 0 /\ root[u] = r
                           => \E i \in 1 .. Len(f.over[r]) : f.over[r][i] = u
  /\ \A i, j \in 1 .. Len(f.over[r]) :
       i < j => /\ f.over[r][i] # f.over[r][j]
                /\ f.key[f.pathMin[f.over[r][j]]] <= f.key[f.pathMin[f.over[r][i]]]

Linked(f, n, v, root, best) ==
  /\ n \in Nat /\ v \in 1 .. n /\ f \in Forests(n)
  /\ root \in [1 .. n -> 1 .. n] /\ best \in [1 .. n -> 1 .. n]
  /\ Acyclic(n, f.chain)
  /\ \A u \in 1 .. v : f.chain[u] = 0 /\ f.pathMin[u] = u /\ root[u] = u
  /\ \A u \in v + 1 .. n : Remembered(f, n, v, root, best, u)
  /\ \A r \in 1 .. v : Sorted(f, n, v, root, r)

\* A vertex is chained to what the one it was chained to is chained to.
LEMMA AcyclicShortened ==
  ASSUME NEW n \in Nat, NEW chain, Acyclic(n, chain),
         NEW u \in 1 .. n, chain[u] \in 1 .. n,
         NEW c, \A x \in 1 .. n : c[x] = IF x = u THEN chain[chain[u]] ELSE chain[x]
  PROVE  Acyclic(n, c)
<1> DEFINE p == chain[u]
<1> SUFFICES ASSUME NEW S \in SUBSET (1 .. n), S # {}, \A x \in S : c[x] \in S PROVE FALSE
  BY DEF Acyclic
<1>2. S \cup {p} \in SUBSET (1 .. n) /\ S \cup {p} # {}
  OBVIOUS
<1>3. PICK x \in S \cup {p} : chain[x] \notin S \cup {p}
  BY <1>2 DEF Acyclic
<1>4. u \in S
  <2>1. PICK y \in S : chain[y] \notin S
    BY DEF Acyclic
  <2> QED BY <2>1
<1>5. x # u /\ x # p
  BY <1>3, <1>4
<1> QED BY <1>3, <1>5

\* The vertices of M are chained below y.
Redirected(n, chain, new, M, y) ==
  /\ y \in 1 .. n /\ y \notin M /\ chain[y] = 0
  /\ \A x \in 1 .. n : new[x] = IF x \in M THEN y ELSE chain[x]

LEMMA AcyclicJoined ==
  ASSUME NEW n \in Nat, NEW chain, Acyclic(n, chain),
         NEW c, NEW M, NEW y, Redirected(n, chain, c, M, y)
  PROVE  Acyclic(n, c)
<1> SUFFICES ASSUME NEW S \in SUBSET (1 .. n), S # {}, \A x \in S : c[x] \in S PROVE FALSE
  BY DEF Acyclic
<1>1. PICK x \in S : chain[x] \notin S
  BY DEF Acyclic
<1>2. x \in M /\ y \in S
  BY <1>1 DEF Redirected
<1>3. c[y] = 0 /\ 0 \notin S
  BY <1>2 DEF Redirected
<1> QED BY <1>2, <1>3

LEMMA LinkedIs ==
  ASSUME NEW f, NEW n, NEW v, NEW root, NEW best, Linked(f, n, v, root, best)
  PROVE  /\ n \in Nat /\ v \in 1 .. n /\ v \in Nat /\ f \in Forests(n)
         /\ \A x \in 1 .. n : x \in 0 .. n /\ f.chain[x] \in 0 .. n /\ root[x] \in 1 .. n
         /\ \A x \in 0 .. n : f.key[x] \in Int
         /\ \A x \in 0 .. n : x # 0 => x \in 1 .. n
         /\ \A x \in v + 1 .. n : x \in 1 .. n /\ x # 0 /\ x > v
         /\ \A x \in 1 .. n : x > v => x \in v + 1 .. n
         /\ \A x \in 1 .. v : x \in 1 .. n
         /\ \A x \in 1 .. n : ~(x > v) => x \in 1 .. v
         /\ \A x \in 1 .. n : f.chain[x] # 0 => /\ f.chain[x] \in 1 .. n
                                                /\ x \in v + 1 .. n
<1>1. n \in Nat /\ v \in 1 .. n /\ v \in Nat /\ f \in Forests(n)
  BY DEF Linked
<1>2. \A x \in 1 .. n : x \in 0 .. n /\ f.chain[x] \in 0 .. n /\ root[x] \in 1 .. n
  <2>1. f.chain \in [0 .. n -> 0 .. n] /\ root \in [1 .. n -> 1 .. n]
    BY DEF Linked, Forests
  <2>2. \A x \in 1 .. n : x \in 0 .. n
    BY <1>1
  <2> QED BY <2>1, <2>2
<1>3. \A x \in 0 .. n : f.key[x] \in Int
  BY <1>1 DEF Forests
<1>4. /\ \A x \in v + 1 .. n : x \in 1 .. n /\ x # 0 /\ x > v
      /\ \A x \in 1 .. v : x \in 1 .. n
      /\ \A x \in 0 .. n : x # 0 => x \in 1 .. n
      /\ \A x \in 1 .. n : x > v => x \in v + 1 .. n
      /\ \A x \in 1 .. n : ~(x > v) => x \in 1 .. v
  BY <1>1
<1>5. ASSUME NEW x \in 1 .. n, f.chain[x] # 0 PROVE f.chain[x] \in 1 .. n /\ x \in v + 1 .. n
  <2>1. f.chain[x] \in 1 .. n
    BY <1>2, <1>4, <1>5
  <2>2. x \notin 1 .. v
    BY <1>5 DEF Linked
  <2> QED BY <1>4, <2>1, <2>2
<1> QED BY <1>1, <1>2, <1>3, <1>4, <1>5

LEMMA ShortenedIs ==
  ASSUME NEW f, NEW n, NEW v, NEW root, NEW best, Linked(f, n, v, root, best),
         NEW u \in 1 .. n, f.chain[u] # 0, f.chain[f.chain[u]] # 0
  PROVE  /\ Linked(Shortened(f, u), n, v, root, best)
         /\ Shortened(f, u).key = f.key
         /\ Shortened(f, u).chain[u] = f.chain[f.chain[u]]
         /\ \A x \in 0 .. n : x # u => Shortened(f, u).chain[x] = f.chain[x]
<1> DEFINE p == f.chain[u]
           q == f.chain[p]
           g == Shortened(f, u)
<1>0. /\ n \in Nat /\ v \in 1 .. n /\ v \in Nat /\ f \in Forests(n)
      /\ \A x \in 0 .. n : f.key[x] \in Int
      /\ \A x \in v + 1 .. n : x \in 1 .. n /\ x # 0 /\ x > v
      /\ \A x \in 1 .. n : x > v => x \in v + 1 .. n
      /\ \A x \in 1 .. n : x \in 0 .. n
  BY LinkedIs
<1>1. p \in 1 .. n /\ u \in v + 1 .. n /\ q \in 1 .. n /\ p \in v + 1 .. n
  BY LinkedIs
<1>2. /\ g \in Forests(n) /\ g.key = f.key /\ g.over = f.over
      /\ g.chain = [f.chain EXCEPT ![u] = q]
      /\ g.pathMin = [f.pathMin EXCEPT ![u] = IF f.key[f.pathMin[p]] < f.key[f.pathMin[u]]
                                              THEN f.pathMin[p] ELSE f.pathMin[u]]
  BY <1>0, <1>1 DEF Shortened, Forests
<1>3. /\ g.chain[u] = q /\ \A x \in 0 .. n : x # u => g.chain[x] = f.chain[x] /\ g.pathMin[x] = f.pathMin[x]
      /\ g.pathMin[u] = IF f.key[f.pathMin[p]] < f.key[f.pathMin[u]] THEN f.pathMin[p] ELSE f.pathMin[u]
  BY <1>0, <1>1, <1>2 DEF Forests
<1>4. Acyclic(n, g.chain)
  <2>1. Acyclic(n, f.chain) /\ \A x \in 1 .. n : g.chain[x] = IF x = u THEN q ELSE f.chain[x]
    BY <1>0, <1>3 DEF Linked
  <2> HIDE DEF g
  <2> QED BY <1>0, <1>1, <2>1, AcyclicShortened
<1> HIDE DEF g
<1>5. \A x \in v + 1 .. n : Remembered(f, n, v, root, best, x)
  BY DEF Linked
<1>6. ASSUME NEW x \in v + 1 .. n PROVE Remembered(g, n, v, root, best, x)
  <2>1. CASE x # u
    BY <1>0, <1>2, <1>3, <1>5, <2>1 DEF Remembered
  <2>2. CASE x = u
    <3>1. root[q] = root[u]
      BY <1>1, <1>5 DEF Remembered
    <3>2. /\ best[u] \in v + 1 .. n /\ f.pathMin[u] \in v + 1 .. n /\ f.pathMin[p] \in v + 1 .. n
          /\ best[p] \in v + 1 .. n
      BY <1>1, <1>5 DEF Remembered
    <3>3. q > v => best[q] \in v + 1 .. n
      BY <1>0, <1>1, <1>5 DEF Remembered
    <3>4. \A y \in v + 1 .. n : f.key[y] \in Int
      BY <1>0
    <3>5. p > v /\ p # 0
      BY <1>0, <1>1
    <3>6. /\ \/ f.pathMin[u] = best[u]
             \/ f.key[f.pathMin[u]] > f.key[best[u]] /\ best[p] = best[u]
          /\ f.key[best[p]] >= f.key[best[u]]
      BY <1>1, <1>5, <3>5 DEF Remembered
    <3>7. /\ \/ f.pathMin[p] = best[p]
             \/ f.key[f.pathMin[p]] > f.key[best[p]] /\ q > v /\ best[q] = best[p]
          /\ q > v => f.key[best[q]] >= f.key[best[p]]
      BY <1>1, <1>5 DEF Remembered
    <3>8. q > v => f.key[best[q]] >= f.key[best[u]]
      BY <3>2, <3>3, <3>4, <3>6, <3>7
    <3>9. \/ g.pathMin[u] = best[u]
          \/ f.key[g.pathMin[u]] > f.key[best[u]] /\ q > v /\ best[q] = best[u]
      <4>1. \A a, b \in Int : a < b <=> ~(a >= b)
        OBVIOUS
      <4> QED BY <1>3, <3>2, <3>3, <3>4, <3>6, <3>7, <4>1
    <3>10. g.pathMin[u] \in v + 1 .. n
      BY <1>3, <3>2
    <3>11. root[u] \in 1 .. v /\ f.key[best[u]] <= root[u]
      BY <1>1, <1>5 DEF Remembered
    <3> QED BY <1>2, <1>3, <2>2, <3>1, <3>2, <3>8, <3>9, <3>10, <3>11 DEF Remembered
  <2> QED BY <2>1, <2>2
<1>7. ASSUME NEW r \in 1 .. v PROVE Sorted(g, n, v, root, r)
  <2>0. g.key = f.key /\ g.over = f.over
    BY <1>2
  <2>1. Sorted(f, n, v, root, r)
    BY DEF Linked
  <2>2. \A i \in 1 .. Len(f.over[r]) : f.over[r][i] # u /\ f.over[r][i] \in 0 .. n
    BY <1>0, <2>1 DEF Sorted
  <2>3. \A i \in 1 .. Len(f.over[r]) : /\ g.chain[f.over[r][i]] = f.chain[f.over[r][i]]
                                       /\ g.pathMin[f.over[r][i]] = f.pathMin[f.over[r][i]]
    BY <1>3, <2>2
  <2>4. \A x \in v + 1 .. n : g.chain[x] = 0 => f.chain[x] = 0
    BY <1>0, <1>1, <1>3
  <2>5. ASSUME NEW i \in 1 .. Len(g.over[r]), NEW j \in 1 .. Len(g.over[r]), i < j
        PROVE  /\ g.over[r][i] # g.over[r][j]
               /\ g.key[g.pathMin[g.over[r][j]]] <= g.key[g.pathMin[g.over[r][i]]]
    <3>1. i \in 1 .. Len(f.over[r]) /\ j \in 1 .. Len(f.over[r])
      BY <2>0
    <3>2. /\ f.over[r][i] # f.over[r][j]
          /\ f.key[f.pathMin[f.over[r][j]]] <= f.key[f.pathMin[f.over[r][i]]]
      BY <2>1, <2>5, <3>1 DEF Sorted
    <3> QED BY <2>0, <2>3, <3>1, <3>2
  <2>6. \A x \in v + 1 .. n : g.chain[x] = 0 /\ root[x] = r
                             => \E i \in 1 .. Len(g.over[r]) : g.over[r][i] = x
    BY <2>0, <2>1, <2>4 DEF Sorted
  <2>7. \A i \in 1 .. Len(g.over[r]) :
          /\ g.over[r][i] \in v + 1 .. n /\ g.chain[g.over[r][i]] = 0 /\ root[g.over[r][i]] = r
    BY <2>0, <2>1, <2>3 DEF Sorted
  <2> QED BY <2>5, <2>6, <2>7 DEF Sorted
<1>8. \A x \in 1 .. v : g.chain[x] = f.chain[x] /\ g.pathMin[x] = f.pathMin[x]
  <2>1. \A x \in 1 .. v : x \in 0 .. n /\ x # u
    BY <1>0, <1>1
  <2> QED BY <1>3, <2>1
<1>9. Linked(g, n, v, root, best)
  <2>1. \A x \in 1 .. v : g.chain[x] = 0 /\ g.pathMin[x] = x /\ root[x] = x
    BY <1>8 DEF Linked
  <2>2. root \in [1 .. n -> 1 .. n] /\ best \in [1 .. n -> 1 .. n]
    BY DEF Linked
  <2> QED BY <1>0, <1>2, <1>4, <1>6, <1>7, <2>1, <2>2 DEF Linked
<1> QED BY <1>2, <1>3, <1>9 DEF g

\* The chain of a vertex ends before it comes back to a vertex.
LEMMA WalkIs ==
  ASSUME NEW f, NEW n, NEW v, NEW root, NEW best, Linked(f, n, v, root, best), NEW u \in 1 .. n
  PROVE  /\ Depth(f, u) \in Nat /\ Walk(f, u)[0] = u
         /\ \A i \in 0 .. Depth(f, u) : Walk(f, u)[i] \in 1 .. n
         /\ \A i \in 0 .. Depth(f, u) - 1 : /\ f.chain[Walk(f, u)[i]] = Walk(f, u)[i + 1]
                                            /\ f.chain[Walk(f, u)[i]] # 0
         /\ f.chain[Walk(f, u)[Depth(f, u)]] = 0
         /\ \A i, j \in 0 .. Depth(f, u) : i < j => Walk(f, u)[i] # Walk(f, u)[j]
<1> DEFINE N == n + 1
           I == [i \in 0 .. N |-> 0 .. n]
           F == [i \in 1 .. N |-> f.chain]
           w == CHOOSE w : w = [i \in 0 .. N |-> IF i = 0 THEN u ELSE f.chain[w[i - 1]]]
<1>0. n \in Nat /\ N \in Nat /\ f.chain \in [0 .. n -> 0 .. n] /\ u \in 0 .. n /\ Acyclic(n, f.chain)
      /\ DOMAIN f.chain = 0 .. n /\ Cardinality(0 .. n) = N
  <2>1. n \in Nat /\ f \in Forests(n) /\ Acyclic(n, f.chain)
    BY DEF Linked
  <2>2. f.chain \in [0 .. n -> 0 .. n]
    BY <2>1 DEF Forests
  <2>3. Cardinality(0 .. n) = N
    BY <2>1, FS_Interval
  <2> QED BY <2>1, <2>2, <2>3
<1>14. \A x \in 1 .. n : f.chain[x] # 0 => f.chain[x] \in 1 .. n
  BY LinkedIs
<1>1. PICK h : Iterates(h, N, u, F, I)
  <2>1. u \in I[0]
    BY <1>0
  <2>2. \A i \in 1 .. N : \A x \in I[i - 1] : F[i][x] \in I[i]
    <3>1. \A i \in 1 .. N : i \in 0 .. N /\ i - 1 \in 0 .. N
      BY <1>0
    <3> QED BY <1>0, <3>1
  <2> HIDE DEF F, I, N
  <2> QED BY <1>0, <2>1, <2>2, Loop
<1>2. h = [i \in 0 .. N |-> IF i = 0 THEN u ELSE f.chain[h[i - 1]]]
  <2>1. \A i \in 1 .. N : h[i] = f.chain[h[i - 1]]
    BY <1>1 DEF Iterates
  <2>2. \A i \in 0 .. N : i # 0 => i \in 1 .. N
    BY <1>0
  <2> HIDE DEF N
  <2> QED BY <1>1, <2>1, <2>2 DEF Iterates
<1>3. w = [i \in 0 .. N |-> IF i = 0 THEN u ELSE f.chain[w[i - 1]]]
  BY <1>2
<1>4. Walk(f, u) = w
  BY <1>0 DEF Walk
<1> HIDE DEF w
<1>5. w[0] = u /\ \A i \in 0 .. n : w[i + 1] = f.chain[w[i]] /\ i \in 0 .. N
  <2>1. \A i \in 0 .. n : i \in 0 .. N /\ i + 1 \in 0 .. N /\ i + 1 # 0 /\ (i + 1) - 1 = i
    BY <1>0
  <2>2. 0 \in 0 .. N
    BY <1>0
  <2> HIDE DEF N
  <2> QED BY <1>3, <2>1, <2>2
<1>6. ASSUME NEW M \in 0 .. N, \A k \in 0 .. M : w[k] \in 1 .. n, NEW i \in 0 .. M, NEW j \in 0 .. M,
             i < j, w[i] = w[j]
      PROVE  FALSE
  <2> DEFINE S == {w[k] : k \in i .. j - 1}
  <2>0. i \in i .. j - 1
    BY <1>0, <1>6
  <2>1. S \in SUBSET (1 .. n) /\ S # {}
    <3>1. \A k \in i .. j - 1 : k \in 0 .. M
      BY <1>0
    <3> QED BY <1>6, <2>0, <3>1
  <2>2. ASSUME NEW k \in i .. j - 1 PROVE f.chain[w[k]] \in S
    <3>1. k \in 0 .. n /\ (k + 1 \in i .. j - 1 \/ k + 1 = j)
      BY <1>0
    <3>2. f.chain[w[k]] = w[k + 1]
      BY <1>5, <3>1
    <3> QED BY <1>6, <2>0, <3>1, <3>2
  <2>3. \A x \in S : f.chain[x] \in S
    BY <2>2
  <2> HIDE DEF S
  <2> QED BY <1>0, <2>1, <2>3 DEF Acyclic
<1> DEFINE T == {i \in 0 .. N : f.chain[w[i]] = 0}
<1>7. T # {}
  <2> SUFFICES ASSUME T = {} PROVE FALSE
    OBVIOUS
  <2>1. \A i \in 0 .. N : w[i] \in 1 .. n
    <3> DEFINE K == [i \in 0 .. N |-> 1 .. n]
    <3>1. w[0] \in K[0]
      BY <1>0, <1>5
    <3>2. ASSUME NEW i \in 1 .. N, w[i - 1] \in K[i - 1] PROVE w[i] \in K[i]
      <4>1. i - 1 \in 0 .. n /\ i - 1 \in 0 .. N /\ i \in 0 .. N /\ (i - 1) + 1 = i
        BY <1>0
      <4>2. w[i - 1] \in 1 .. n /\ w[i] = f.chain[w[i - 1]] /\ w[i] # 0
        BY <1>5, <3>2, <4>1
      <4>3. w[i] \in 1 .. n
        BY <1>14, <4>2
      <4> QED BY <4>1, <4>3
    <3>3. \A i \in 0 .. N : w[i] \in K[i]
      <4> HIDE DEF K, N
      <4> QED BY <1>0, <3>1, <3>2, Iterated
    <3> QED BY <3>3
  <2>2. N \in 0 .. N
    BY <1>0
  <2>3. \A i, j \in 0 .. N : i # j => w[i] # w[j]
    <3>1. \A i, j \in 0 .. N : i # j => i < j \/ j < i
      BY <1>0
    <3> QED BY <1>6, <2>1, <2>2, <3>1
  <2> DEFINE g == [i \in 0 .. N |-> w[i]]
  <2>4. g \in Injection(0 .. N, 1 .. n)
    BY <2>1, <2>3 DEF Injection, IsInjective
  <2>5. Cardinality(0 .. N) = n + 2 /\ Cardinality(1 .. n) = n /\ IsFiniteSet(1 .. n)
    BY <1>0, FS_Interval
  <2>6. Cardinality(0 .. N) <= Cardinality(1 .. n)
    BY <2>4, <2>5, FS_Injection
  <2> QED BY <1>0, <2>5, <2>6
<1> DEFINE m == Depth(f, u)
<1>8. m \in T /\ \A i \in T : m <= i
  <2>1. DOMAIN w = 0 .. N
    BY <1>3
  <2>2. m = Min(T)
    BY <1>4, <2>1 DEF Depth
  <2>3. T \in SUBSET Nat
    BY <1>0
  <2> HIDE DEF T
  <2> QED BY <1>7, <2>2, <2>3, Least
<1> HIDE DEF m
<1>9. m \in 0 .. N /\ f.chain[w[m]] = 0 /\ \A i \in 0 .. m - 1 : i \in 0 .. n /\ f.chain[w[i]] # 0
  <2>1. \A i \in 0 .. m - 1 : i \in 0 .. N /\ i \in 0 .. n /\ ~(m <= i)
    BY <1>0, <1>8
  <2> QED BY <1>8, <2>1
<1>10. \A i \in 0 .. m : w[i] \in 1 .. n
  <2> DEFINE K == [i \in 0 .. m |-> 1 .. n]
  <2>1. w[0] \in K[0]
    BY <1>0, <1>5, <1>9
  <2>2. ASSUME NEW i \in 1 .. m, w[i - 1] \in K[i - 1] PROVE w[i] \in K[i]
    <3>1. i - 1 \in 0 .. m - 1 /\ i - 1 \in 0 .. m /\ i \in 0 .. m /\ (i - 1) + 1 = i
      BY <1>0, <1>9
    <3>2. w[i - 1] \in 1 .. n
      BY <2>2, <3>1
    <3>3. w[i] = f.chain[w[i - 1]] /\ w[i] # 0
      BY <1>5, <1>9, <3>1
    <3>4. w[i] \in 1 .. n
      BY <1>14, <3>2, <3>3
    <3> QED BY <3>1, <3>4
  <2>3. \A i \in 0 .. m : w[i] \in K[i]
    <3>1. m \in Nat
      BY <1>0, <1>9
    <3> HIDE DEF K
    <3> QED BY <2>1, <2>2, <3>1, Iterated
  <2> QED BY <2>3
<1>11. \A i, j \in 0 .. m : i < j => w[i] # w[j]
  BY <1>6, <1>9, <1>10
<1>12. \A i \in 0 .. m - 1 : f.chain[w[i]] = w[i + 1]
  BY <1>5, <1>9
<1>13. m \in Nat
  BY <1>0, <1>9
<1> HIDE DEF N, T
<1> QED BY <1>4, <1>5, <1>9, <1>10, <1>11, <1>12, <1>13 DEF m

\* From the vertex before the last back, each gets the last.
LEMMA CompressIs ==
  ASSUME NEW f, NEW n, NEW v, NEW root, NEW best, Linked(f, n, v, root, best), NEW u \in 1 .. n,
         f.chain[u] # 0, f.chain[f.chain[u]] # 0
  PROVE  /\ Linked(Compress(f, u), n, v, root, best) /\ Compress(f, u).key = f.key
         /\ Compress(f, u).chain[u] # 0 /\ Compress(f, u).chain[Compress(f, u).chain[u]] = 0
<1> DEFINE w == Walk(f, u)
           m == Depth(f, u)
<1>1. /\ m \in Nat /\ w[0] = u
      /\ \A i \in 0 .. m : w[i] \in 1 .. n
      /\ \A i \in 0 .. m - 1 : f.chain[w[i]] = w[i + 1] /\ f.chain[w[i]] # 0
      /\ f.chain[w[m]] = 0
      /\ \A i, j \in 0 .. m : i < j => w[i] # w[j]
  BY WalkIs
<1> DEFINE c == CHOOSE c : c = [i \in 0 .. m - 1 |->
                                  IF i = 0 THEN f ELSE Shortened(c[i - 1], w[m - 1 - i])]
<1>3. Compress(f, u) = c[m - 1]
  BY DEF Compress, Returned
<1> HIDE DEF w, m
<1>4. m \in Nat /\ m >= 2 /\ m - 1 \in Nat
  <2>1. m # 0
    BY <1>1
  <2>2. m # 1
    <3> SUFFICES ASSUME m = 1 PROVE FALSE
      OBVIOUS
    <3>1. f.chain[w[0]] = w[1]
      BY <1>1
    <3> QED BY <1>1, <3>1
  <2> QED BY <1>1, <2>1, <2>2
<1> DEFINE Body(i, g) == Shortened(g, w[m - 1 - i])
           Done(i, g) == /\ Linked(g, n, v, root, best) /\ g.key = f.key
                         /\ \A j \in 0 .. m - 2 - i : g.chain[w[j]] = w[j + 1]
                         /\ g.chain[w[m - 1 - i]] = w[m] /\ g.chain[w[m]] = 0
           I == [i \in 0 .. m - 1 |-> {g \in Forests(n) : Done(i, g)}]
           F == [i \in 1 .. m - 1 |-> [g \in I[i - 1] |-> Body(i, g)]]
<1>5. f \in I[0]
  <2>1. f \in Forests(n) /\ 0 \in 0 .. m - 1
    BY <1>4 DEF Linked
  <2>2. \A j \in 0 .. m - 2 - 0 : f.chain[w[j]] = w[j + 1]
    BY <1>1
  <2>3. f.chain[w[m - 1 - 0]] = w[m] /\ f.chain[w[m]] = 0
    <3>1. m - 1 \in 0 .. m - 1 /\ m - 1 - 0 = m - 1 /\ (m - 1) + 1 = m
      BY <1>4
    <3> QED BY <1>1, <3>1
  <2> QED BY <2>1, <2>2, <2>3
<1>6. ASSUME NEW i \in 1 .. m - 1, NEW g \in I[i - 1] PROVE Body(i, g) \in I[i]
  <2> DEFINE j == m - 1 - i
             h == Body(i, g)
  <2>1. /\ i - 1 \in 0 .. m - 1 /\ i \in 0 .. m - 1 /\ j \in 0 .. m - 2 - (i - 1)
        /\ j + 1 = m - 1 - (i - 1) /\ j \in 0 .. m /\ j < m /\ m \in 0 .. m
    BY <1>4
  <2>2. Done(i - 1, g)
    <3> HIDE DEF Done
    <3> QED BY <2>1
  <2>3. g.chain[w[j]] = w[j + 1] /\ g.chain[w[j + 1]] = w[m] /\ w[m] # 0 /\ w[j + 1] # 0 /\ w[j] # w[m]
        /\ w[m] \in 0 .. n
    <3>1. j + 1 \in 0 .. m
      BY <2>1
    <3>2. \A x \in 1 .. n : x # 0 /\ x \in 0 .. n
      BY LinkedIs
    <3> HIDE DEF j
    <3> QED BY <1>1, <2>1, <2>2, <3>1, <3>2
  <2>4. /\ Linked(h, n, v, root, best) /\ h.key = g.key /\ h.chain[w[j]] = w[m]
        /\ \A x \in 0 .. n : x # w[j] => h.chain[x] = g.chain[x]
    <3>1. w[j] \in 1 .. n
      BY <1>1, <2>1
    <3>2. Linked(g, n, v, root, best)
      BY <2>2
    <3> HIDE DEF Done
    <3> QED BY <2>3, <3>1, <3>2, ShortenedIs
  <2> HIDE DEF h
  <2>5. ASSUME NEW k \in 0 .. m - 2 - i PROVE h.chain[w[k]] = w[k + 1]
    <3>1. k \in 0 .. m - 2 - (i - 1) /\ k < j /\ k \in 0 .. m
      BY <1>4
    <3>2. w[k] # w[j] /\ w[k] \in 1 .. n
      BY <1>1, <2>1, <3>1
    <3>3. w[k] \in 0 .. n
      BY <3>2, LinkedIs
    <3>4. h.chain[w[k]] = g.chain[w[k]]
      BY <2>4, <3>2, <3>3
    <3> QED BY <2>2, <3>1, <3>4
  <2>6. h.chain[w[m]] = 0
    BY <2>2, <2>3, <2>4
  <2>7. h \in Forests(n)
    BY <2>4 DEF Linked
  <2>8. Done(i, h)
    BY <2>2, <2>4, <2>5, <2>6
  <2> HIDE DEF Done
  <2>9. h \in I[i]
    BY <2>1, <2>7, <2>8
  <2> QED BY <2>9 DEF h
<1> HIDE DEF Done
<1>7. PICK h : Iterates(h, m - 1, f, F, I)
  <2>1. \A i \in 1 .. m - 1 : \A g \in I[i - 1] : F[i][g] \in I[i]
    <3> HIDE DEF Body, I
    <3>1. \A i \in 1 .. m - 1 : \A g \in I[i - 1] : F[i][g] = Body(i, g)
      OBVIOUS
    <3> HIDE DEF F
    <3> QED BY <1>6, <3>1
  <2> HIDE DEF F, I
  <2> QED BY <1>4, <1>5, <2>1, Loop
<1>8. h = [i \in 0 .. m - 1 |-> IF i = 0 THEN f ELSE Body(i, h[i - 1])]
  <2> HIDE DEF Body, I
  <2>1. \A i \in 1 .. m - 1 : h[i] = Body(i, h[i - 1])
    <3>1. \A i \in 1 .. m - 1 : h[i - 1] \in I[i - 1] /\ h[i] = F[i][h[i - 1]]
      BY <1>7 DEF Iterates
    <3> QED BY <3>1
  <2>2. \A i \in 0 .. m - 1 : i # 0 => i \in 1 .. m - 1
    BY <1>4
  <2> HIDE DEF F
  <2> QED BY <1>7, <2>1, <2>2 DEF Iterates
<1>9. c = [i \in 0 .. m - 1 |-> IF i = 0 THEN f ELSE Body(i, c[i - 1])]
  BY <1>8
<1> HIDE DEF c
<1>10. \A i \in 0 .. m - 1 : c[i] \in I[i]
  <2> HIDE DEF I, Body
  <2>1. c[0] = f
    BY <1>4, <1>9
  <2>2. ASSUME NEW i \in 1 .. m - 1, c[i - 1] \in I[i - 1] PROVE c[i] \in I[i]
    <3>1. c[i] = Body(i, c[i - 1])
      <4>1. i \in 0 .. m - 1 /\ i # 0
        BY <1>4
      <4> QED BY <1>9, <4>1
    <3> QED BY <1>6, <2>2, <3>1
  <2> QED BY <1>4, <1>5, <2>1, <2>2, Iterated
<1>11. Done(m - 1, c[m - 1])
  <2>1. m - 1 \in 0 .. m - 1
    BY <1>4
  <2> QED BY <1>10, <2>1
<1>12. w[m - 1 - (m - 1)] = u /\ w[m] # 0
  <2>1. m - 1 - (m - 1) = 0 /\ m \in 0 .. m
    BY <1>4
  <2> QED BY <1>1, <2>1, LinkedIs
<1> QED BY <1>3, <1>11, <1>12 DEF Done

\* eval returns the best.
LEMMA EvaluatedIs ==
  ASSUME NEW f, NEW n, NEW v, NEW root, NEW best, Linked(f, n, v, root, best),
         \A x \in 1 .. v : f.key[x] = x, NEW u \in v + 1 .. n
  PROVE  /\ Linked(Evaluated(f, u), n, v, root, best) /\ Evaluated(f, u).key = f.key
         /\ Eval(Evaluated(f, u), u) = best[u]
<1> DEFINE g == Evaluated(f, u)
           r == g.chain[u]
<1>0. u \in 1 .. n /\ u \in 0 .. n /\ u > v
  BY LinkedIs
<1>1. Linked(g, n, v, root, best) /\ g.key = f.key /\ (r = 0 \/ g.chain[r] = 0)
  BY <1>0, CompressIs DEF Evaluated
<1> HIDE DEF g
<1>2. /\ \A x \in 0 .. n : g.key[x] \in Int
      /\ \A x \in v + 1 .. n : x \in 0 .. n
      /\ r # 0 => r \in 1 .. n
      /\ ~(r > v) /\ r # 0 => r \in 1 .. v
      /\ r > v => r \in v + 1 .. n /\ r # 0
      /\ v \in Nat
  <2>1. r \in 0 .. n /\ v \in Nat /\ (r # 0 => r \in 1 .. n) /\ (r > v => r # 0)
    BY <1>0, <1>1, LinkedIs
  <2> QED BY <1>1, <2>1, LinkedIs
<1>3. Remembered(g, n, v, root, best, u)
  BY <1>1 DEF Linked
<1>4. best[u] \in 0 .. n /\ g.pathMin[u] \in 0 .. n
  BY <1>2, <1>3 DEF Remembered
<1>5. ASSUME r = 0 PROVE Eval(g, u) = best[u]
  BY <1>2, <1>3, <1>5 DEF Eval, Remembered
<1>6. ASSUME r # 0, ~(r > v) PROVE Eval(g, u) = best[u]
  <2>1. r \in 1 .. v /\ g.pathMin[r] = r /\ root[r] = r
    BY <1>1, <1>2, <1>6 DEF Linked
  <2>2. g.key[r] = r /\ root[r] = root[u] /\ g.key[best[u]] <= root[u] /\ g.pathMin[u] = best[u]
    BY <1>1, <1>3, <1>6, <2>1 DEF Remembered
  <2>3. r \in 0 .. n
    BY <1>2, <1>6
  <2>4. ~(g.key[r] < g.key[best[u]])
    BY <1>2, <1>4, <2>1, <2>2, <2>3
  <2> QED BY <2>1, <2>2, <2>4 DEF Eval
<1>7. ASSUME r > v PROVE Eval(g, u) = best[u]
  <2>1. Remembered(g, n, v, root, best, r) /\ g.chain[r] = 0 /\ r # 0
    BY <1>1, <1>2, <1>7 DEF Linked
  <2>2. g.pathMin[r] = best[r] /\ best[r] \in v + 1 .. n
    BY <1>2, <2>1 DEF Remembered
  <2>3. best[r] \in 0 .. n
    BY <1>2, <2>2
  <2>4. /\ \/ g.pathMin[u] = best[u]
           \/ g.key[g.pathMin[u]] > g.key[best[u]] /\ best[r] = best[u]
        /\ g.key[best[r]] >= g.key[best[u]]
    BY <1>3, <1>7 DEF Remembered
  <2>5. Eval(g, u) = IF g.key[best[r]] < g.key[g.pathMin[u]] THEN best[r] ELSE g.pathMin[u]
    BY <2>1, <2>2 DEF Eval
  <2>6. g.key[best[r]] \in Int /\ g.key[best[u]] \in Int /\ g.key[g.pathMin[u]] \in Int
    BY <1>2, <1>4, <2>3
  <2> HIDE DEF r
  <2> QED BY <2>4, <2>5, <2>6
<1>8. Eval(g, u) = best[u]
  BY <1>5, <1>6, <1>7
<1> QED BY <1>1, <1>8 DEF g

-----------------------------------------------------------------------------
\* The trees that are under a greater key are the first.
LEMMA HeavierIs ==
  ASSUME NEW f, NEW n, NEW v, NEW root, NEW best, Linked(f, n, v, root, best)
  PROVE  /\ Len(f.over[v]) \in Nat /\ Heavier(f, v) \in 0 .. Len(f.over[v])
         /\ \A k \in 1 .. Heavier(f, v) : f.key[v] < f.key[f.pathMin[f.over[v][k]]]
         /\ \A k \in Heavier(f, v) + 1 .. Len(f.over[v]) : f.key[f.pathMin[f.over[v][k]]] <= f.key[v]
<1> DEFINE over == f.over[v]
           l == Len(over)
           Key(k) == f.key[f.pathMin[over[k]]]
           H == Heavier(f, v)
           S == {i \in 0 .. l : \A k \in 1 .. i : f.key[v] < Key(k)}
<1>1. /\ n \in Nat /\ v \in 1 .. n /\ f \in Forests(n) /\ f.pathMin[v] = v /\ Sorted(f, n, v, root, v)
      /\ v \in 0 .. n /\ \A x \in v + 1 .. n : x \in 0 .. n
  <2>1. v \in 1 .. v
    BY LinkedIs
  <2>2. f.pathMin[v] = v /\ Sorted(f, n, v, root, v)
    BY <2>1 DEF Linked
  <2>3. n \in Nat /\ v \in 1 .. n /\ f \in Forests(n)
    BY DEF Linked
  <2> QED BY <2>2, <2>3
<1>2. l \in Nat
  <2>1. over \in Seq(1 .. n)
    BY <1>1 DEF Forests
  <2> QED BY <2>1, LenProperties
<1>3. f.key[v] \in Int /\ \A k \in 1 .. l : Key(k) \in Int
  <2>1. \A k \in 1 .. l : over[k] \in v + 1 .. n
    BY <1>1 DEF Sorted
  <2>2. \A x \in 0 .. n : f.key[x] \in Int /\ f.pathMin[x] \in 0 .. n
    <3>1. f.key \in [0 .. n -> 0 .. n] /\ f.pathMin \in [0 .. n -> 0 .. n]
      BY <1>1 DEF Forests
    <3>2. \A y \in 0 .. n : y \in Int
      BY <1>1
    <3> QED BY <3>1, <3>2
  <2> QED BY <1>1, <2>1, <2>2
<1>4. \A i, j \in 1 .. l : i < j => Key(j) <= Key(i)
  BY <1>1 DEF Sorted
<1>5. H = Max(S)
  BY <1>1 DEF Heavier
<1> HIDE DEF l, Key, over, H
<1>6. S # {} /\ S \in SUBSET Int /\ IsFiniteSet(S)
  <2>1. 0 \in S
    BY <1>2
  <2>2. S \in SUBSET (0 .. l) /\ IsFiniteSet(0 .. l) /\ 0 .. l \in SUBSET Int
    BY <1>2, FS_Interval
  <2> HIDE DEF S
  <2> QED BY <1>2, <2>1, <2>2, FS_Subset
<1>7. H \in S /\ \A i \in S : H >= i
  <2> HIDE DEF S
  <2> QED BY <1>5, <1>6, MaxIsGreatest
<1>8. ASSUME NEW k \in H + 1 .. l, f.key[v] < Key(k) PROVE FALSE
  <2>1. H \in 0 .. l /\ H + 1 \in 0 .. l /\ k \in 1 .. l /\ H + 1 \in 1 .. l
    BY <1>2, <1>7
  <2>2. f.key[v] < Key(H + 1)
    <3>1. H + 1 = k \/ H + 1 < k
      BY <2>1
    <3>2. H + 1 < k => Key(k) <= Key(H + 1)
      BY <1>4, <2>1
    <3>3. Key(k) \in Int /\ Key(H + 1) \in Int
      BY <1>3, <2>1
    <3> QED BY <1>3, <1>8, <3>1, <3>2, <3>3
  <2>3. \A i \in 1 .. H + 1 : i \in 1 .. H \/ i = H + 1
    BY <2>1
  <2>4. H + 1 \in S
    BY <1>7, <2>1, <2>2, <2>3
  <2> QED BY <1>7, <2>1, <2>4
<1>9. ASSUME NEW k \in H + 1 .. l PROVE Key(k) <= f.key[v]
  <2>1. k \in 1 .. l
    BY <1>2, <1>7
  <2> QED BY <1>3, <1>8, <2>1
<1> QED BY <1>2, <1>7, <1>9 DEF l, Key, over, H

ChainedTo(f, x, y, g) ==
  \/ g = [f EXCEPT !.chain[x] = y]
  \/ g = [f EXCEPT !.size[y] = f.size[x], !.chain[x] = y]

LEMMA Rechained ==
  ASSUME NEW n, NEW f \in Forests(n), NEW x \in 0 .. n, NEW y \in 0 .. n, NEW g, ChainedTo(f, x, y, g)
  PROVE  /\ g \in Forests(n) /\ g.key = f.key /\ g.pathMin = f.pathMin
         /\ g.over = f.over /\ g.chain = [f.chain EXCEPT ![x] = y]
<1>1. CASE g = [f EXCEPT !.chain[x] = y]
  BY <1>1 DEF Forests
<1>2. CASE g = [f EXCEPT !.size[y] = f.size[x], !.chain[x] = y]
  BY <1>2 DEF Forests
<1> QED BY <1>1, <1>2 DEF ChainedTo

LEMMA JoinedIs ==
  ASSUME NEW n \in Nat, NEW b \in [forest : Forests(n), tail : 1 .. n], NEW c \in 1 .. n, NEW following
  PROVE  /\ Joined(b, c, following) \in [forest : Forests(n), tail : 1 .. n]
         /\ Joined(b, c, following).forest.key = b.forest.key
         /\ Joined(b, c, following).forest.pathMin = b.forest.pathMin
         /\ Joined(b, c, following).forest.over = b.forest.over
         /\ \E x, y \in {b.tail, c} :
              /\ b.tail # c => x # y
              /\ Joined(b, c, following).tail = y
              /\ \A z \in 1 .. n : Joined(b, c, following).forest.chain[z]
                                     = IF z = x THEN y ELSE b.forest.chain[z]
<1> DEFINE t == b.tail
           f == b.forest
           r == Joined(b, c, following)
<1>1. t \in 1 .. n /\ f \in Forests(n) /\ t \in 0 .. n /\ c \in 0 .. n /\ \A z \in 1 .. n : z \in 0 .. n
  OBVIOUS
<1>2. f.chain \in [0 .. n -> 0 .. n] /\ f.size \in [0 .. n -> Int]
  BY <1>1 DEF Forests
<1>3. CASE f.size[t] + following >= 2 * f.size[c]
  <2>1. r = [b EXCEPT !.forest.chain[c] = t]
    BY <1>3 DEF Joined
  <2>2. r = [forest |-> [f EXCEPT !.chain[c] = t], tail |-> t]
    BY <2>1
  <2>3. r.tail = t /\ r.forest = [f EXCEPT !.chain[c] = t]
    BY <2>2
  <2> HIDE DEF r
  <2>4. /\ r.forest \in Forests(n) /\ r.forest.key = f.key /\ r.forest.pathMin = f.pathMin
        /\ r.forest.over = f.over /\ r.forest.chain = [f.chain EXCEPT ![c] = t]
    <3> DEFINE g == r.forest
    <3> HIDE DEF f, t, g
    <3>1. /\ g \in Forests(n) /\ g.key = f.key /\ g.pathMin = f.pathMin /\ g.over = f.over
          /\ g.chain = [f.chain EXCEPT ![c] = t]
      <4>1. g = [f EXCEPT !.chain[c] = t]
        BY <2>3 DEF g
      <4>2. ChainedTo(f, c, t, g)
        BY <4>1 DEF ChainedTo
      <4> QED BY <1>1, <4>2, Rechained
    <3> QED BY <3>1 DEF g
  <2>5. \A z \in 1 .. n : r.forest.chain[z] = IF z = c THEN t ELSE f.chain[z]
    BY <1>1, <1>2, <2>4
  <2>6. r \in [forest : Forests(n), tail : 1 .. n]
    BY <1>1, <2>2, <2>3, <2>4
  <2>7. \E x, y \in {t, c} :
          /\ t # c => x # y
          /\ r.tail = y /\ \A z \in 1 .. n : r.forest.chain[z] = IF z = x THEN y ELSE f.chain[z]
    BY <2>3, <2>5
  <2> QED BY <2>4, <2>6, <2>7 DEF r
<1>4. CASE ~(f.size[t] + following >= 2 * f.size[c])
  <2>2. r = [forest |-> [f EXCEPT !.size[c] = f.size[t], !.chain[t] = c], tail |-> c]
    BY <1>4 DEF Joined
  <2>3. r.tail = c /\ r.forest = [f EXCEPT !.size[c] = f.size[t], !.chain[t] = c]
    BY <2>2
  <2> HIDE DEF r
  <2>4. /\ r.forest \in Forests(n) /\ r.forest.key = f.key /\ r.forest.pathMin = f.pathMin
        /\ r.forest.over = f.over /\ r.forest.chain = [f.chain EXCEPT ![t] = c]
    <3> DEFINE g == r.forest
    <3> HIDE DEF f, t, g
    <3>1. /\ g \in Forests(n) /\ g.key = f.key /\ g.pathMin = f.pathMin /\ g.over = f.over
          /\ g.chain = [f.chain EXCEPT ![t] = c]
      <4>1. g = [f EXCEPT !.size[c] = f.size[t], !.chain[t] = c]
        BY <2>3 DEF g
      <4>2. ChainedTo(f, t, c, g)
        BY <4>1 DEF ChainedTo
      <4> QED BY <1>1, <4>2, Rechained
    <3> QED BY <3>1 DEF g
  <2>5. \A z \in 1 .. n : r.forest.chain[z] = IF z = t THEN c ELSE f.chain[z]
    BY <1>1, <1>2, <2>4
  <2>6. r \in [forest : Forests(n), tail : 1 .. n]
    BY <1>1, <2>2, <2>3, <2>4
  <2>7. \E x, y \in {t, c} :
          /\ t # c => x # y
          /\ r.tail = y /\ \A z \in 1 .. n : r.forest.chain[z] = IF z = x THEN y ELSE f.chain[z]
    BY <2>3, <2>5
  <2> QED BY <2>4, <2>6, <2>7 DEF r
<1> QED BY <1>3, <1>4

\* Those that are under a greater key become one tree with the root.
Folded(f, v, i) == {v} \cup {f.over[v][k] : k \in 1 .. i}

IsFolded(f, n, v, i, b) ==
  /\ b.forest \in Forests(n) /\ b.forest.key = f.key /\ b.forest.pathMin = f.pathMin
  /\ b.forest.over = f.over /\ Acyclic(n, b.forest.chain)
  /\ b.tail \in Folded(f, v, i) /\ b.forest.chain[b.tail] = 0
  /\ \A x \in 1 .. n : x # b.tail =>
       IF x \in Folded(f, v, i) THEN b.forest.chain[x] \in Folded(f, v, i)
                                ELSE b.forest.chain[x] = f.chain[x]

LEMMA RebalancedIs ==
  ASSUME NEW f, NEW n, NEW v, NEW root, NEW best, Linked(f, n, v, root, best)
  PROVE  /\ Rebalanced(f, v).tail \in 1 .. n
         /\ IsFolded(f, n, v, Heavier(f, v), Rebalanced(f, v))
<1> DEFINE over == f.over[v]
           H == Heavier(f, v)
           Type == [forest : Forests(n), tail : 1 .. n]
           Next(i) == IF i = Len(over) THEN 1 ELSE f.size[over[i + 1]]
           Body(i, b) == Joined(b, over[i], Next(i))
           I == [i \in 0 .. H |-> {b \in Type : IsFolded(f, n, v, i, b)}]
           F == [i \in 1 .. H |-> [b \in I[i - 1] |-> Body(i, b)]]
           D == CHOOSE b : b = [i \in 0 .. H |->
                                  IF i = 0 THEN [forest |-> f, tail |-> v]
                                  ELSE Joined(b[i - 1], over[i], IF i = Len(over) THEN 1
                                                                 ELSE f.size[over[i + 1]])]
<1>1. Rebalanced(f, v) = D[H]
  BY DEF Rebalanced
<1>2. /\ n \in Nat /\ v \in 1 .. n /\ v \in Nat /\ f \in Forests(n) /\ H \in 0 .. Len(over) /\ Len(over) \in Nat
      /\ H \in Nat
  <2>1. H \in 0 .. Len(over) /\ Len(over) \in Nat
    BY HeavierIs
  <2> HIDE DEF H, over
  <2> QED BY <2>1, LinkedIs
<1>3. /\ f.chain[v] = 0 /\ Acyclic(n, f.chain)
      /\ \A k \in 1 .. H : /\ over[k] \in 1 .. n /\ over[k] # v /\ f.chain[over[k]] = 0
                           /\ \A j \in 1 .. k - 1 : over[j] # over[k]
  <2>1. v \in 1 .. v
    BY <1>2
  <2>2. f.chain[v] = 0 /\ Acyclic(n, f.chain) /\ Sorted(f, n, v, root, v)
    BY <2>1 DEF Linked
  <2>3. \A k \in 1 .. H : k \in 1 .. Len(over) /\ \A j \in 1 .. k - 1 : j \in 1 .. Len(over) /\ j < k
    BY <1>2
  <2>4. \A k \in 1 .. H : /\ over[k] \in v + 1 .. n /\ f.chain[over[k]] = 0
                          /\ \A j \in 1 .. k - 1 : over[j] # over[k]
    <3> HIDE DEF H
    <3> QED BY <2>2, <2>3 DEF Sorted
  <2>5. \A x \in v + 1 .. n : x \in 1 .. n /\ x # v
    BY <1>2
  <2> HIDE DEF H, over
  <2> QED BY <2>2, <2>4, <2>5
<1> HIDE DEF H
<1>4. [forest |-> f, tail |-> v] \in I[0]
  <2> DEFINE b == [forest |-> f, tail |-> v]
  <2>1. Folded(f, v, 0) = {v}
    BY DEF Folded
  <2>2. b.forest = f /\ b.tail = v /\ b \in Type
    BY <1>2
  <2> HIDE DEF b
  <2>3. IsFolded(f, n, v, 0, b)
    BY <1>2, <1>3, <2>1, <2>2 DEF IsFolded
  <2>4. 0 \in 0 .. H
    BY <1>2
  <2> HIDE DEF Type
  <2>5. b \in I[0]
    BY <2>2, <2>3, <2>4
  <2> QED BY <2>5 DEF b
<1>5. ASSUME NEW i \in 1 .. H, NEW b \in I[i - 1] PROVE Body(i, b) \in I[i]
  <2> DEFINE c == over[i]
             r == Body(i, b)
             S == Folded(f, v, i - 1)
  <2>1. i - 1 \in 0 .. H /\ i \in 0 .. H /\ i \in Nat
    BY <1>2
  <2>2. b \in Type /\ IsFolded(f, n, v, i - 1, b)
    <3> HIDE DEF Type
    <3> QED BY <2>1
  <2>3. c \in 1 .. n /\ c # v /\ f.chain[c] = 0 /\ c \notin S /\ Folded(f, v, i) = S \cup {c}
    <3>1. \A k : k \in 1 .. i <=> k \in 1 .. i - 1 \/ k = i
      BY <1>2
    <3>2. c \in 1 .. n /\ c # v /\ f.chain[c] = 0 /\ \A k \in 1 .. i - 1 : over[k] # c
      BY <1>3
    <3>3. c \notin S
      BY <3>2 DEF Folded
    <3>4. Folded(f, v, i) = S \cup {c}
      BY <3>1 DEF Folded
    <3> QED BY <3>2, <3>3, <3>4
  <2> HIDE DEF S, Next, over
  <2>4. b.tail \in S /\ b.tail \in 1 .. n /\ b.tail # c
    BY <2>2, <2>3 DEF IsFolded, S
  <2>5. /\ r \in Type /\ r.forest.key = f.key /\ r.forest.pathMin = f.pathMin /\ r.forest.over = f.over
    <3>1. /\ r \in Type
          /\ r.forest.key = b.forest.key /\ r.forest.pathMin = b.forest.pathMin
          /\ r.forest.over = b.forest.over
      BY <1>2, <2>2, <2>3, JoinedIs
    <3> HIDE DEF r
    <3> QED BY <2>2, <3>1 DEF IsFolded
  <2>6. PICK x, y \in {b.tail, c} :
          /\ x # y /\ r.tail = y
          /\ \A z \in 1 .. n : r.forest.chain[z] = IF z = x THEN y ELSE b.forest.chain[z]
    BY <1>2, <2>2, <2>3, <2>4, JoinedIs
  <2> HIDE DEF r, c
  <2>7. x \in 1 .. n /\ y \in 1 .. n /\ x \in S \cup {c} /\ y \in S \cup {c}
    BY <2>3, <2>4
  <2>8. b.forest.chain[x] = 0 /\ b.forest.chain[y] = 0
    BY <2>2, <2>3, <2>4 DEF IsFolded, S
  <2>9. Acyclic(n, r.forest.chain)
    <3>1. Acyclic(n, b.forest.chain)
      BY <2>2 DEF IsFolded
    <3>2. \A z \in 1 .. n : r.forest.chain[z] = IF z \in {x} THEN y ELSE b.forest.chain[z]
      BY <2>6
    <3>3. y \notin {x}
      BY <2>6
    <3> DEFINE M == {x}
    <3> HIDE DEF M
    <3>4. y \notin M /\ \A z \in 1 .. n : r.forest.chain[z] = IF z \in M THEN y ELSE b.forest.chain[z]
      BY <3>2, <3>3 DEF M
    <3> DEFINE old == b.forest.chain
               new == r.forest.chain
    <3>5. Acyclic(n, old) /\ old[y] = 0 /\ \A z \in 1 .. n : new[z] = IF z \in M THEN y ELSE old[z]
      BY <2>8, <3>1, <3>4
    <3> HIDE DEF old, new
    <3>6. Acyclic(n, new)
      <4>1. Redirected(n, old, new, M, y)
        BY <2>7, <3>4, <3>5 DEF Redirected
      <4> QED BY <1>2, <3>5, <4>1, AcyclicJoined
    <3> QED BY <3>6 DEF new
  <2>10. ASSUME NEW z \in 1 .. n, z # r.tail
         PROVE  IF z \in S \cup {c} THEN r.forest.chain[z] \in S \cup {c}
                                    ELSE r.forest.chain[z] = f.chain[z]
    <3>1. CASE z = x
      BY <2>6, <2>7, <3>1
    <3>2. CASE z # x
      <4>1. z # b.tail /\ z # c
        BY <2>6, <2>10, <3>2
      <4>2. IF z \in S THEN b.forest.chain[z] \in S ELSE b.forest.chain[z] = f.chain[z]
        BY <2>2, <4>1 DEF IsFolded, S
      <4>3. r.forest.chain[z] = b.forest.chain[z]
        BY <2>6, <3>2
      <4> QED BY <4>1, <4>2, <4>3
    <3> QED BY <3>1, <3>2
  <2>11. r.tail \in S \cup {c} /\ r.forest.chain[r.tail] = 0 /\ r.forest \in Forests(n)
    BY <2>5, <2>6, <2>7, <2>8
  <2>12. IsFolded(f, n, v, i, r)
    BY <2>3, <2>5, <2>9, <2>10, <2>11 DEF IsFolded
  <2> HIDE DEF Type
  <2>13. r \in I[i]
    BY <2>1, <2>5, <2>12
  <2> QED BY <2>13 DEF r, c
<1> HIDE DEF Type, over
<1>6. PICK h : Iterates(h, H, [forest |-> f, tail |-> v], F, I)
  <2>1. \A i \in 1 .. H : \A b \in I[i - 1] : F[i][b] \in I[i]
    <3> HIDE DEF Body, I
    <3>1. \A i \in 1 .. H : \A b \in I[i - 1] : F[i][b] = Body(i, b)
      OBVIOUS
    <3> HIDE DEF F
    <3> QED BY <1>5, <3>1
  <2> HIDE DEF F, I
  <2> QED BY <1>2, <1>4, <2>1, Loop
<1>7. h = [i \in 0 .. H |-> IF i = 0 THEN [forest |-> f, tail |-> v] ELSE Body(i, h[i - 1])]
  <2> HIDE DEF Body, I
  <2>1. \A i \in 1 .. H : h[i] = Body(i, h[i - 1])
    <3>1. \A i \in 1 .. H : h[i - 1] \in I[i - 1] /\ h[i] = F[i][h[i - 1]]
      BY <1>6 DEF Iterates
    <3> QED BY <3>1
  <2>2. \A i \in 0 .. H : i # 0 => i \in 1 .. H
    BY <1>2
  <2> HIDE DEF F
  <2> QED BY <1>6, <2>1, <2>2 DEF Iterates
<1>8. D = [i \in 0 .. H |-> IF i = 0 THEN [forest |-> f, tail |-> v] ELSE Body(i, D[i - 1])]
  BY <1>7
<1> HIDE DEF D
<1>9. \A i \in 0 .. H : D[i] \in I[i]
  <2> HIDE DEF I, Body
  <2>1. D[0] = [forest |-> f, tail |-> v]
    BY <1>2, <1>8
  <2>2. ASSUME NEW i \in 1 .. H, D[i - 1] \in I[i - 1] PROVE D[i] \in I[i]
    <3>1. D[i] = Body(i, D[i - 1])
      <4>1. i \in 0 .. H /\ i # 0
        BY <1>2
      <4> QED BY <1>8, <4>1
    <3> QED BY <1>5, <2>2, <3>1
  <2> QED BY <1>2, <1>4, <2>1, <2>2, Iterated
<1>10. D[H] \in Type /\ IsFolded(f, n, v, H, D[H])
  <2>1. H \in 0 .. H
    BY <1>2
  <2> QED BY <1>9, <2>1
<1> QED BY <1>1, <1>10 DEF H, Type

\* A root gets another one: whose trees are chained to it, M, and whose are
\* kept.
LinkedTo(f, t, min, p, size, trees, M, g) ==
  g = [f EXCEPT !.pathMin[t] = min, !.size[p] = size, !.over[p] = trees,
                !.chain = [x \in DOMAIN @ |-> IF x \in M THEN p ELSE @[x]]]

LEMMA Relinked ==
  ASSUME NEW n \in Nat, NEW f \in Forests(n), NEW t \in 0 .. n, NEW min \in 0 .. n, NEW p \in 0 .. n,
         NEW size \in Int, NEW trees \in Seq(1 .. n), NEW M, NEW g,
         LinkedTo(f, t, min, p, size, trees, M, g)
  PROVE  /\ g \in Forests(n) /\ g.key = f.key
         /\ \A x \in 0 .. n : /\ g.pathMin[x] = IF x = t THEN min ELSE f.pathMin[x]
                              /\ g.over[x] = IF x = p THEN trees ELSE f.over[x]
                              /\ g.chain[x] = IF x \in M THEN p ELSE f.chain[x]
<1>1. /\ g.key = f.key /\ g.pathMin = [f.pathMin EXCEPT ![t] = min]
      /\ g.size = [f.size EXCEPT ![p] = size] /\ g.over = [f.over EXCEPT ![p] = trees]
      /\ g.chain = [x \in DOMAIN f.chain |-> IF x \in M THEN p ELSE f.chain[x]]
  BY DEF LinkedTo, Forests
<1>2. /\ f.key \in [0 .. n -> 0 .. n] /\ f.pathMin \in [0 .. n -> 0 .. n] /\ f.chain \in [0 .. n -> 0 .. n]
      /\ f.size \in [0 .. n -> Int] /\ f.over \in [0 .. n -> Seq(1 .. n)]
  BY DEF Forests
<1>3. /\ g.key \in [0 .. n -> 0 .. n] /\ g.pathMin \in [0 .. n -> 0 .. n] /\ g.chain \in [0 .. n -> 0 .. n]
      /\ g.size \in [0 .. n -> Int] /\ g.over \in [0 .. n -> Seq(1 .. n)]
  <2>0. /\ g.key = f.key /\ f.key \in [0 .. n -> 0 .. n]
        /\ f.pathMin \in [0 .. n -> 0 .. n] /\ f.chain \in [0 .. n -> 0 .. n] /\ DOMAIN f.chain = 0 .. n
    BY <1>1, <1>2
  <2>1. g.key \in [0 .. n -> 0 .. n] /\ g.pathMin \in [0 .. n -> 0 .. n]
    <3>1. [f.pathMin EXCEPT ![t] = min] \in [0 .. n -> 0 .. n]
      BY <2>0
    <3> QED BY <1>1, <2>0, <3>1, Zenon
  <2>2. g.chain \in [0 .. n -> 0 .. n]
    <3>1. \A x \in 0 .. n : f.chain[x] \in 0 .. n
      BY <2>0
    <3>2. [x \in 0 .. n |-> IF x \in M THEN p ELSE f.chain[x]] \in [0 .. n -> 0 .. n]
      BY <3>1
    <3> QED BY <1>1, <2>0, <3>2, Zenon
  <2>3. g.size \in [0 .. n -> Int]
    BY <1>1, <1>2
  <2>4. g.over \in [0 .. n -> Seq(1 .. n)]
    <3> DEFINE S == Seq(1 .. n)
    <3> HIDE DEF S
    <3>1. trees \in S /\ f.over \in [0 .. n -> S] /\ g.over = [f.over EXCEPT ![p] = trees]
      BY <1>1, <1>2 DEF S
    <3>2. g.over \in [0 .. n -> S]
      BY <3>1
    <3> QED BY <3>2 DEF S
  <2> QED BY <2>1, <2>2, <2>3, <2>4
<1>4. g = [key |-> g.key, pathMin |-> g.pathMin, chain |-> g.chain, size |-> g.size, over |-> g.over]
  BY DEF LinkedTo, Forests
<1>5. g \in Forests(n)
  BY <1>3, <1>4 DEF Forests
<1> QED BY <1>1, <1>2, <1>5

\* The trees of v: those folded into one, t, and the rest.
Trees(f, v, t) == <<t>> \o SubSeq(f.over[v], Heavier(f, v) + 1, Len(f.over[v]))

LEMMA TreesAre ==
  ASSUME NEW f, NEW n, NEW v, NEW root, NEW best, Linked(f, n, v, root, best),
         NEW t, t \in 1 .. n, NEW trees, trees = Trees(f, v, t)
  PROVE  /\ trees \in Seq(1 .. n) /\ Len(trees) \in Nat /\ Len(trees) >= 1 /\ trees[1] = t
         /\ Len(trees) = Len(f.over[v]) - Heavier(f, v) + 1
         /\ \A i \in 2 .. Len(trees) : /\ i + Heavier(f, v) - 1 \in Heavier(f, v) + 1 .. Len(f.over[v])
                                       /\ trees[i] = f.over[v][i + Heavier(f, v) - 1]
         /\ \A k \in Heavier(f, v) + 1 .. Len(f.over[v]) :
              k - Heavier(f, v) + 1 \in 2 .. Len(trees) /\ trees[k - Heavier(f, v) + 1] = f.over[v][k]
<1> DEFINE H == Heavier(f, v)
           over == f.over[v]
           l == Len(over)
           rest == SubSeq(over, H + 1, l)
<1>1. l \in Nat /\ H \in 0 .. l /\ H \in Nat
  <2>1. l \in Nat /\ H \in 0 .. l
    BY HeavierIs
  <2> QED BY <2>1
<1>2. over \in Seq(1 .. n)
  <2>1. f \in Forests(n) /\ v \in 0 .. n
    BY LinkedIs
  <2> QED BY <2>1 DEF Forests
<1> HIDE DEF H, over
<1>3. rest \in Seq(1 .. n) /\ Len(rest) = l - H /\ \A i \in 1 .. l - H : rest[i] = over[H + i]
  <2>1. \A i \in H + 1 .. l : i \in 1 .. l
    BY <1>1
  <2>2. \A i \in 1 .. l : over[i] \in 1 .. n
    BY <1>2, ElementOfSeq
  <2>3. /\ rest \in Seq(1 .. n) /\ Len(rest) = IF H + 1 <= l THEN l - (H + 1) + 1 ELSE 0
        /\ \A i \in 1 .. l - (H + 1) + 1 : rest[i] = over[(H + 1) + i - 1]
    <3> DEFINE S == 1 .. n
               a == H + 1
    <3>1. \A i \in a .. l : over[i] \in S
      BY <2>1, <2>2
    <3>2. a \in Int /\ l \in Int
      BY <1>1
    <3> HIDE DEF S, a, l
    <3>3. /\ SubSeq(over, a, l) \in Seq(S) /\ Len(SubSeq(over, a, l)) = IF a <= l THEN l - a + 1 ELSE 0
          /\ \A i \in 1 .. l - a + 1 : SubSeq(over, a, l)[i] = over[a + i - 1]
      BY <3>1, <3>2, SubSeqProperties
    <3> QED BY <3>3 DEF S, a
  <2>4. Len(rest) = l - H
    BY <1>1, <2>3
  <2>5. \A i \in 1 .. l - H : rest[i] = over[H + i]
    <3>1. \A i \in 1 .. l - H : i \in 1 .. l - (H + 1) + 1 /\ (H + 1) + i - 1 = H + i
      BY <1>1
    <3> HIDE DEF rest
    <3> QED BY <2>3, <3>1
  <2> QED BY <2>3, <2>4, <2>5
<1> HIDE DEF l, rest
<1>4. <<t>> \in Seq(1 .. n) /\ Len(<<t>>) = 1 /\ <<t>>[1] = t
  OBVIOUS
<1>5. trees = <<t>> \o rest
  BY DEF Trees, rest, l, over, H
<1>6. /\ trees \in Seq(1 .. n) /\ Len(trees) = 1 + (l - H)
      /\ trees[1] = t /\ \A i \in 2 .. 1 + (l - H) : trees[i] = rest[i - 1]
  <2> DEFINE one == <<t>>
             S == 1 .. n
  <2>0. one \in Seq(S) /\ rest \in Seq(S) /\ Len(one) = 1 /\ one[1] = t /\ trees = one \o rest
    BY <1>3, <1>4, <1>5
  <2> HIDE DEF one, S
  <2>4. /\ trees \in Seq(S) /\ Len(trees) = Len(one) + Len(rest)
        /\ \A i \in 1 .. Len(one) + Len(rest) :
             trees[i] = IF i <= Len(one) THEN one[i] ELSE rest[i - Len(one)]
    <3>1. /\ one \o rest \in Seq(S) /\ Len(one \o rest) = Len(one) + Len(rest)
          /\ \A i \in 1 .. Len(one) + Len(rest) :
               (one \o rest)[i] = IF i <= Len(one) THEN one[i] ELSE rest[i - Len(one)]
      <4> HIDE DEF rest
      <4> QED BY <2>0, ConcatProperties
    <3> QED BY <2>0, <3>1
  <2>1. \A i \in 1 .. 1 + (l - H) : trees[i] = IF i <= 1 THEN one[i] ELSE rest[i - 1]
    BY <1>3, <2>0, <2>4
  <2>2. trees \in Seq(1 .. n) /\ Len(trees) = 1 + (l - H)
    BY <1>3, <2>0, <2>4 DEF S
  <2>3. 1 \in 1 .. 1 + (l - H) /\ \A i \in 2 .. 1 + (l - H) : i \in 1 .. 1 + (l - H) /\ ~(i <= 1)
    BY <1>1
  <2> QED BY <2>0, <2>1, <2>2, <2>3
<1>7. ASSUME NEW i \in 2 .. Len(trees)
      PROVE  i + H - 1 \in H + 1 .. l /\ trees[i] = over[i + H - 1]
  <2>1. i \in 2 .. 1 + (l - H) /\ i - 1 \in 1 .. l - H /\ H + (i - 1) = i + H - 1 /\ i + H - 1 \in H + 1 .. l
    BY <1>1, <1>6
  <2> QED BY <1>3, <1>6, <2>1
<1>8. ASSUME NEW k \in H + 1 .. l PROVE k - H + 1 \in 2 .. Len(trees) /\ trees[k - H + 1] = over[k]
  <2>1. k - H + 1 \in 2 .. Len(trees) /\ (k - H + 1) + H - 1 = k
    BY <1>1, <1>6
  <2> QED BY <1>7, <2>1
<1>9. Len(trees) \in Nat /\ Len(trees) >= 1 /\ Len(trees) = l - H + 1
  BY <1>1, <1>6
<1> QED BY <1>6, <1>7, <1>8, <1>9 DEF l, over, H

\* What link does to the trees: T is folded into one with root t, Rest are
\* the others of v, Old those of p; M of them are chained to p.
Tied(f, n, v, root, best, p, T, Rest, Old, t, M, g) ==
  /\ \A x \in T : x \in v .. n /\ root[x] = v /\ (x # v => f.key[v] < f.key[f.pathMin[x]])
  /\ t \in T /\ v \in T
  /\ \A x \in Rest : /\ x \in v + 1 .. n /\ f.chain[x] = 0 /\ root[x] = v /\ x \notin T
                     /\ f.key[f.pathMin[x]] <= f.key[v]
  /\ \A x \in Old : x \in v + 1 .. n /\ f.chain[x] = 0 /\ root[x] = p
  /\ \A x \in v + 1 .. n : f.chain[x] = 0 => /\ root[x] = v => x \in T \cup Rest
                                             /\ root[x] = p => x \in Old
  /\ \A x \in T : x # v => f.chain[x] = 0
  /\ M = Old \/ M = {t} \cup Rest
  /\ g \in Forests(n) /\ g.key = f.key
  /\ \A x \in 1 .. n : /\ g.pathMin[x] = IF x = t THEN v ELSE f.pathMin[x]
                       /\ x \in M => g.chain[x] = p
                       /\ x \notin M /\ x \notin T => g.chain[x] = f.chain[x]
                       /\ x \notin M /\ x = t => g.chain[x] = 0
                       /\ x \in T /\ x # t => g.chain[x] \in T
  /\ Acyclic(n, g.chain)

LinkedBy(f, n, v, root, best, p, T, Rest, Old, t, M, trees, g) ==
  /\ Tied(f, n, v, root, best, p, T, Rest, Old, t, M, g)
  /\ t \in 1 .. n /\ trees = Trees(f, v, t)
  /\ Rest = {f.over[v][k] : k \in Heavier(f, v) + 1 .. Len(f.over[v])}
  /\ Old = {f.over[p][k] : k \in 1 .. Len(f.over[p])}
  /\ \A x \in 1 .. n : x # p => g.over[x] = f.over[x]
  /\ g.over[p] = IF M = Old THEN trees ELSE f.over[p]

LEMMA LinkRootsTies ==
  ASSUME NEW f, NEW n, NEW v, NEW root, NEW best, Linked(f, n, v, root, best), NEW p \in 1 .. v - 1
  PROVE  \E T, Rest, Old, t, M, trees :
           LinkedBy(f, n, v, root, best, p, T, Rest, Old, t, M, trees, LinkRoots(f, p, v))
<1> DEFINE H == Heavier(f, v)
           over == f.over[v]
           l == Len(over)
           b == Rebalanced(f, v)
           t == b.tail
           trees == <<t>> \o SubSeq(over, H + 1, l)
           T == Folded(f, v, H)
           Rest == {over[k] : k \in H + 1 .. l}
           Old == {f.over[p][k] : k \in 1 .. Len(f.over[p])}
           size == f.size[p] + b.forest.size[v]
           small == size < 2 * b.forest.size[v]
           M == Range(IF small THEN f.over[p] ELSE trees)
           g == LinkRoots(f, p, v)
           kept == IF small THEN trees ELSE f.over[p]
<1>0. /\ n \in Nat /\ v \in 1 .. n /\ v \in Nat /\ f \in Forests(n) /\ p \in 1 .. n /\ p \in 1 .. v /\ p < v
      /\ p \in 0 .. n /\ v \in 1 .. v /\ p \in Nat
      /\ \A x \in 1 .. n : x \in 0 .. n
      /\ \A x \in v + 1 .. n : x \in 1 .. n /\ x # v /\ x # p /\ x \in v .. n
  <2>1. n \in Nat /\ v \in 1 .. n /\ v \in Nat /\ f \in Forests(n)
    BY LinkedIs
  <2> QED BY <2>1
<1>1. /\ l \in Nat /\ H \in 0 .. l /\ H \in Nat
      /\ \A k \in 1 .. H : f.key[v] < f.key[f.pathMin[over[k]]]
      /\ \A k \in H + 1 .. l : f.key[f.pathMin[over[k]]] <= f.key[v]
  <2>1. l \in Nat /\ H \in 0 .. l
    BY HeavierIs
  <2>2. H \in Nat
    BY <2>1
  <2> QED BY <2>1, <2>2, HeavierIs
<1>2. t \in 1 .. n /\ IsFolded(f, n, v, H, b)
  BY RebalancedIs
<1>3. /\ Sorted(f, n, v, root, v) /\ Sorted(f, n, v, root, p)
      /\ f.pathMin[v] = v /\ root[v] = v /\ f.chain[v] = 0 /\ f.chain[p] = 0 /\ root[p] = p
  BY <1>0 DEF Linked
<1>4. /\ trees \in Seq(1 .. n) /\ Len(trees) \in Nat /\ Len(trees) >= 1 /\ trees[1] = t
      /\ \A i \in 2 .. Len(trees) : i + H - 1 \in H + 1 .. l /\ trees[i] = over[i + H - 1]
      /\ \A k \in H + 1 .. l : k - H + 1 \in 2 .. Len(trees) /\ trees[k - H + 1] = over[k]
  <2>1. t \in 1 .. n /\ trees = Trees(f, v, t)
    BY <1>2 DEF Trees
  <2> HIDE DEF trees, t
  <2> QED BY <2>1, TreesAre
<1>5. f.over[p] \in Seq(1 .. n) /\ f.over \in [0 .. n -> Seq(1 .. n)] /\ f.size \in [0 .. n -> Int]
  BY <1>0 DEF Forests
<1>6. M = IF small THEN Old ELSE {t} \cup Rest
  <2>1. Range(f.over[p]) = Old
    <3>1. DOMAIN f.over[p] = 1 .. Len(f.over[p])
      BY <1>5, LenProperties
    <3> QED BY <3>1 DEF Range
  <2>2. Range(trees) = {t} \cup Rest
    <3> HIDE DEF t, trees, over, H, l
    <3>1. DOMAIN trees = 1 .. Len(trees)
      BY <1>4, LenProperties
    <3>2. 1 \in 1 .. Len(trees) /\ \A i : i \in 1 .. Len(trees) <=> i = 1 \/ i \in 2 .. Len(trees)
      BY <1>4
    <3>3. ASSUME NEW i \in 1 .. Len(trees) PROVE trees[i] \in {t} \cup Rest
      BY <1>4, <3>2
    <3>4. ASSUME NEW x \in {t} \cup Rest PROVE \E i \in 1 .. Len(trees) : trees[i] = x
      BY <1>4, <3>2
    <3> QED BY <3>1, <3>3, <3>4 DEF Range
  <2> HIDE DEF trees, Old, Rest, t
  <2> QED BY <2>1, <2>2
<1>7. LinkedTo(b.forest, t, f.pathMin[v], p, size, kept, M, g)
  <2>1. b.forest.over = f.over
    BY <1>2 DEF IsFolded
  <2> QED BY <2>1 DEF LinkRoots, Merged, LinkedTo
<1> HIDE DEF g, M, kept, b, T, Rest, Old, trees, t, H, over, l
<1>8. /\ b.forest \in Forests(n) /\ b.forest.key = f.key /\ b.forest.pathMin = f.pathMin
      /\ b.forest.over = f.over /\ Acyclic(n, b.forest.chain)
      /\ t \in T /\ b.forest.chain[t] = 0
      /\ \A x \in 1 .. n : x # t => IF x \in T THEN b.forest.chain[x] \in T
                                               ELSE b.forest.chain[x] = f.chain[x]
  BY <1>2 DEF IsFolded, T, t
<1>9. /\ g \in Forests(n) /\ g.key = f.key
      /\ \A x \in 0 .. n : /\ g.pathMin[x] = IF x = t THEN v ELSE f.pathMin[x]
                           /\ g.over[x] = IF x = p THEN kept ELSE f.over[x]
                           /\ g.chain[x] = IF x \in M THEN p ELSE b.forest.chain[x]
  <2>1. kept \in Seq(1 .. n)
    BY <1>4, <1>5 DEF kept
  <2>2. size \in Int
    <3>1. b.forest.size \in [0 .. n -> Int]
      BY <1>8 DEF Forests
    <3>2. b.forest.size[v] \in Int /\ f.size[p] \in Int
      BY <1>0, <1>5, <3>1
    <3> QED BY <3>2
  <2>3. t \in 0 .. n /\ v \in 0 .. n
    BY <1>0, <1>2
  <2> HIDE DEF size
  <2>4. LinkedTo(b.forest, t, v, p, size, kept, M, g)
    BY <1>3, <1>7
  <2> DEFINE e == b.forest
  <2>5. e \in Forests(n) /\ LinkedTo(e, t, v, p, size, kept, M, g)
    BY <1>8, <2>4
  <2> HIDE DEF e
  <2>6. /\ g \in Forests(n) /\ g.key = e.key
        /\ \A x \in 0 .. n : /\ g.pathMin[x] = IF x = t THEN v ELSE e.pathMin[x]
                             /\ g.over[x] = IF x = p THEN kept ELSE e.over[x]
                             /\ g.chain[x] = IF x \in M THEN p ELSE e.chain[x]
    BY <1>0, <2>1, <2>2, <2>3, <2>5, Relinked, SMTT(20)
  <2> QED BY <1>8, <2>6 DEF e
<1>10. /\ \A x \in T : x \in v .. n /\ root[x] = v /\ (x # v => f.key[v] < f.key[f.pathMin[x]])
       /\ v \in T /\ \A x \in T : x # v => f.chain[x] = 0
  <2>1. \A k \in 1 .. H : k \in 1 .. l
    BY <1>1
  <2>2. \A k \in 1 .. H : over[k] \in v + 1 .. n /\ f.chain[over[k]] = 0 /\ root[over[k]] = v
    BY <1>3, <2>1 DEF Sorted, over, l
  <2>3. \A x : x \in T <=> x = v \/ \E k \in 1 .. H : x = over[k]
    BY DEF T, Folded, over
  <2>4. v \in v .. n
    BY <1>0
  <2> QED BY <1>0, <1>1, <1>3, <2>2, <2>3, <2>4
<1>11. \A x \in Rest : /\ x \in v + 1 .. n /\ f.chain[x] = 0 /\ root[x] = v /\ x \notin T
                       /\ f.key[f.pathMin[x]] <= f.key[v]
  <2> SUFFICES ASSUME NEW k \in H + 1 .. l
               PROVE  /\ over[k] \in v + 1 .. n /\ f.chain[over[k]] = 0 /\ root[over[k]] = v
                      /\ over[k] \notin T /\ f.key[f.pathMin[over[k]]] <= f.key[v]
    BY DEF Rest
  <2>1. k \in 1 .. l /\ \A i \in 1 .. H : i \in 1 .. l /\ i < k
    BY <1>1
  <2>2. over[k] \in v + 1 .. n /\ f.chain[over[k]] = 0 /\ root[over[k]] = v
        /\ \A i \in 1 .. H : over[i] # over[k]
    BY <1>3, <2>1 DEF Sorted, over, l
  <2>3. \A x : x \in T <=> x = v \/ \E i \in 1 .. H : x = over[i]
    BY DEF T, Folded, over
  <2> QED BY <1>0, <1>1, <2>2, <2>3
<1>12. \A x \in Old : x \in v + 1 .. n /\ f.chain[x] = 0 /\ root[x] = p
  BY <1>3 DEF Sorted, Old
<1>13. ASSUME NEW x \in v + 1 .. n, f.chain[x] = 0
       PROVE  /\ root[x] = v => x \in T \cup Rest
              /\ root[x] = p => x \in Old
  <2>1. root[x] = p => x \in Old
    BY <1>3, <1>13 DEF Sorted, Old
  <2>2. ASSUME root[x] = v PROVE x \in T \cup Rest
    <3>1. PICK k \in 1 .. l : over[k] = x
      BY <1>3, <1>13, <2>2 DEF Sorted, over, l
    <3>2. k \in 1 .. H \/ k \in H + 1 .. l
      BY <1>1
    <3> QED BY <3>1, <3>2 DEF T, Folded, Rest, over
  <2> QED BY <2>1, <2>2
<1>14. M = Old \/ M = {t} \cup Rest
  BY <1>6
<1>15. p \notin M /\ p \notin T /\ \A x \in M : b.forest.chain[x] = 0
  <2>1. p \notin T
    <3>1. p \notin v .. n
      BY <1>0
    <3> QED BY <1>10, <3>1
  <2>2. \A x \in Rest : x \in 1 .. n /\ x # t /\ x \notin T /\ f.chain[x] = 0 /\ x # p
    BY <1>0, <1>8, <1>11
  <2>3. \A x \in Old : x \in 1 .. n /\ x # t /\ x \notin T /\ f.chain[x] = 0 /\ x # p
    <3>1. \A x \in Old : x \notin T
      BY <1>0, <1>10, <1>12
    <3> QED BY <1>0, <1>8, <1>12, <3>1
  <2>4. t # p
    BY <1>8, <2>1
  <2> QED BY <1>8, <1>14, <2>1, <2>2, <2>3, <2>4
<1>16. Acyclic(n, g.chain)
  <2> DEFINE old == b.forest.chain
             new == g.chain
  <2>1. old[p] = 0
    <3>1. p # t
      BY <1>8, <1>15
    <3> QED BY <1>0, <1>3, <1>8, <1>15, <3>1
  <2>2. Acyclic(n, old) /\ \A x \in 1 .. n : new[x] = IF x \in M THEN p ELSE old[x]
    BY <1>0, <1>8, <1>9
  <2> HIDE DEF old, new
  <2>3. Redirected(n, old, new, M, p)
    BY <1>0, <1>15, <2>1, <2>2 DEF Redirected
  <2>4. Acyclic(n, new)
    BY <1>0, <2>2, <2>3, AcyclicJoined
  <2> QED BY <2>4 DEF new
<1>17. ASSUME NEW x \in 1 .. n
       PROVE  /\ g.pathMin[x] = IF x = t THEN v ELSE f.pathMin[x]
              /\ x \in M => g.chain[x] = p
              /\ x \notin M /\ x \notin T => g.chain[x] = f.chain[x]
              /\ x \notin M /\ x = t => g.chain[x] = 0
              /\ x \in T /\ x # t => g.chain[x] \in T
  <2>1. /\ g.pathMin[x] = IF x = t THEN v ELSE f.pathMin[x]
        /\ g.chain[x] = IF x \in M THEN p ELSE b.forest.chain[x]
    BY <1>0, <1>9
  <2>2. x \in T /\ x # t => x \notin M
    <3>1. x \in T => x \notin Old
      BY <1>0, <1>10, <1>12
    <3>2. x \in T => x \notin Rest
      BY <1>11
    <3> QED BY <1>14, <3>1, <3>2
  <2> QED BY <1>8, <2>1, <2>2
<1>18. Tied(f, n, v, root, best, p, T, Rest, Old, t, M, g)
  BY <1>8, <1>9, <1>10, <1>11, <1>12, <1>13, <1>14, <1>16, <1>17 DEF Tied
<1>19. (\A x \in 1 .. n : x # p => g.over[x] = f.over[x]) /\ g.over[p] = kept
  BY <1>0, <1>9
<1>20. small <=> M = Old
  <2>1. t \notin Old
    BY <1>0, <1>8, <1>10, <1>12
  <2> QED BY <1>6, <2>1
<1>21. kept = IF M = Old THEN trees ELSE f.over[p]
  BY <1>20 DEF kept
<1>22. /\ trees = Trees(f, v, t)
       /\ Rest = {f.over[v][k] : k \in Heavier(f, v) + 1 .. Len(f.over[v])}
       /\ Old = {f.over[p][k] : k \in 1 .. Len(f.over[p])}
  BY DEF trees, Trees, Rest, Old, over, H, l
<1>23. LinkedBy(f, n, v, root, best, p, T, Rest, Old, t, M, trees, g)
  BY <1>2, <1>18, <1>19, <1>21, <1>22 DEF LinkedBy
<1> QED BY <1>23 DEF g

\* Whatever was below v is below p, and v is the best of those with a
\* greater key.
Moved(f, n, v, p, root, best, rootNew, bestNew) ==
  /\ rootNew \in [1 .. n -> 1 .. n] /\ bestNew \in [1 .. n -> 1 .. n]
  /\ \A u \in 1 .. n : rootNew[u] = IF root[u] = v THEN p ELSE root[u]
  /\ \A u \in 1 .. n : bestNew[u] = IF u = v \/ (u > v /\ root[u] = v /\ f.key[v] < f.key[best[u]])
                                    THEN v ELSE best[u]

LEMMA LinkRemembers ==
  ASSUME NEW f, NEW n, NEW v, NEW root, NEW best, Linked(f, n, v, root, best), NEW p \in 1 .. v - 1,
         f.key[v] <= p, NEW rootNew, NEW bestNew, Moved(f, n, v, p, root, best, rootNew, bestNew),
         NEW T, NEW Rest, NEW Old, NEW t, NEW M, NEW g, Tied(f, n, v, root, best, p, T, Rest, Old, t, M, g),
         NEW u \in v .. n
  PROVE  Remembered(g, n, v - 1, rootNew, bestNew, u)
<1> DEFINE k == f.key[v]
           w == v - 1
<1>0. /\ n \in Nat /\ v \in 1 .. n /\ v \in Nat /\ w \in Nat /\ p \in 1 .. n /\ p \in 1 .. v /\ p < v
      /\ p \in 1 .. w /\ v \in 1 .. v /\ p \in Nat /\ v > w /\ w + 1 = v /\ v \in w + 1 .. n
      /\ \A x \in v + 1 .. n : x \in 1 .. n /\ x # v /\ x # p /\ x \in v .. n /\ x > v
      /\ \A x \in v .. n : x \in 1 .. n /\ x > w /\ x # p /\ x # 0 /\ (x # v => x \in v + 1 .. n)
      /\ \A x \in 1 .. v : x # v => x \in 1 .. w /\ ~(x > w)
      /\ \A x \in 1 .. n : x > w => x \in v .. n
      /\ p # 0 /\ ~(p > w)
  <2>1. n \in Nat /\ v \in 1 .. n /\ v \in Nat
    BY LinkedIs
  <2> QED BY <2>1
<1>1. /\ \A x \in 0 .. n : f.key[x] \in Int
      /\ k \in Int /\ k <= p /\ g.key = f.key
  <2>1. \A x \in 0 .. n : f.key[x] \in Int
    BY LinkedIs
  <2>2. v \in 0 .. n /\ g.key = f.key
    BY <1>0 DEF Tied
  <2> QED BY <2>1, <2>2
<1>2. \A x \in v + 1 .. n :
        /\ root[x] \in 1 .. v /\ best[x] \in v + 1 .. n /\ f.pathMin[x] \in v + 1 .. n
        /\ f.key[best[x]] <= root[x] /\ f.key[best[x]] \in Int /\ f.key[f.pathMin[x]] \in Int
        /\ f.chain[x] # 0 => root[f.chain[x]] = root[x]
        /\ \/ f.pathMin[x] = best[x]
           \/ /\ f.key[f.pathMin[x]] > f.key[best[x]]
              /\ f.chain[x] > v /\ best[f.chain[x]] = best[x]
        /\ f.chain[x] > v => f.key[best[f.chain[x]]] >= f.key[best[x]]
        /\ f.chain[x] # 0 => f.chain[x] \in 1 .. n
        /\ f.chain[x] # 0 /\ ~(f.chain[x] > v) => f.chain[x] \in 1 .. v
        /\ f.chain[x] > v => f.chain[x] \in v + 1 .. n
        /\ f.chain[x] = 0 => ~(f.chain[x] > v)
  <2> TAKE x \in v + 1 .. n
  <2>1. Remembered(f, n, v, root, best, x)
    BY DEF Linked
  <2>2. \A y \in v + 1 .. n : y \in 0 .. n
    BY <1>0
  <2>3. x \in 1 .. n /\ f.chain[x] \in 0 .. n
    BY LinkedIs
  <2>4. /\ f.chain[x] # 0 => f.chain[x] \in 1 .. n
        /\ f.chain[x] # 0 /\ ~(f.chain[x] > v) => f.chain[x] \in 1 .. v
        /\ f.chain[x] > v => f.chain[x] \in v + 1 .. n
        /\ f.chain[x] = 0 => ~(f.chain[x] > v)
    BY <1>0, <2>3
  <2> QED BY <1>1, <2>1, <2>2, <2>4 DEF Remembered
<1>3. /\ \A x \in 1 .. v : f.pathMin[x] = x /\ root[x] = x
      /\ \A x \in 1 .. n : rootNew[x] = IF root[x] = v THEN p ELSE root[x]
      /\ bestNew[v] = v
      /\ \A x \in v + 1 .. n : bestNew[x] = IF root[x] = v /\ k < f.key[best[x]] THEN v ELSE best[x]
  <2>1. \A x \in 1 .. v : f.pathMin[x] = x /\ root[x] = x
    BY DEF Linked
  <2> QED BY <1>0, <2>1 DEF Moved
<1> HIDE DEF k, w
<1>4. /\ \A x \in T : x \in v .. n /\ root[x] = v /\ (x # v => k < f.key[f.pathMin[x]])
      /\ t \in T /\ v \in T
      /\ \A x \in Rest : /\ x \in v + 1 .. n /\ f.chain[x] = 0 /\ root[x] = v /\ x \notin T
                         /\ f.key[f.pathMin[x]] <= k
      /\ \A x \in Old : x \in v + 1 .. n /\ f.chain[x] = 0 /\ root[x] = p
      /\ \A x \in v + 1 .. n : f.chain[x] = 0 /\ root[x] = v => x \in T \cup Rest
      /\ \A x \in T : x # v => f.chain[x] = 0
      /\ M = Old \/ M = {t} \cup Rest
  BY DEF Tied, k
<1>5. \A x \in 1 .. n : /\ g.pathMin[x] = IF x = t THEN v ELSE f.pathMin[x]
                        /\ x \in M => g.chain[x] = p
                        /\ x \notin M /\ x \notin T => g.chain[x] = f.chain[x]
                        /\ x \notin M /\ x = t => g.chain[x] = 0
                        /\ x \in T /\ x # t => g.chain[x] \in T
  BY DEF Tied
\* v is the best of what is folded.
<1>6. \A x \in T : rootNew[x] = p /\ bestNew[x] = v
  <2> TAKE x \in T
  <2>1. x \in 1 .. n /\ root[x] = v
    BY <1>0, <1>4
  <2>2. CASE x = v
    BY <1>3, <2>1, <2>2
  <2>3. CASE x # v
    <3>1. x \in v + 1 .. n /\ f.chain[x] = 0 /\ k < f.key[f.pathMin[x]]
      BY <1>0, <1>4, <2>3
    <3>2. f.pathMin[x] = best[x]
      BY <1>2, <3>1
    <3> QED BY <1>3, <2>1, <3>1, <3>2
  <2> QED BY <2>2, <2>3
<1>7. rootNew[p] = p
  BY <1>0, <1>3
<1>8. rootNew[u] \in 1 .. w /\ bestNew[u] \in v .. n /\ f.key[bestNew[u]] <= rootNew[u]
      /\ f.key[bestNew[u]] \in Int
  <2>1. CASE u = v
    BY <1>0, <1>1, <1>3, <2>1 DEF k
  <2>2. CASE u # v
    <3>1. u \in v + 1 .. n
      BY <1>0, <2>2
    <3>2. CASE root[u] = v
      <4>1. rootNew[u] = p
        BY <1>0, <1>3, <3>1, <3>2
      <4>2. CASE k < f.key[best[u]]
        BY <1>0, <1>1, <1>3, <3>1, <3>2, <4>1, <4>2 DEF k
      <4>3. CASE ~(k < f.key[best[u]])
        <5>1. bestNew[u] = best[u] /\ best[u] \in v .. n
          BY <1>0, <1>2, <1>3, <3>1, <4>3
        <5>2. f.key[best[u]] <= p
          BY <1>0, <1>1, <1>2, <3>1, <4>3
        <5> QED BY <1>0, <1>2, <3>1, <4>1, <5>1, <5>2
      <4> QED BY <4>2, <4>3
    <3>3. CASE root[u] # v
      <4>1. rootNew[u] = root[u] /\ bestNew[u] = best[u] /\ best[u] \in v .. n
        BY <1>0, <1>2, <1>3, <3>1, <3>3
      <4>2. root[u] \in 1 .. w
        BY <1>0, <1>2, <3>1, <3>3
      <4> QED BY <1>2, <3>1, <4>1, <4>2
    <3> QED BY <3>2, <3>3
  <2> QED BY <2>1, <2>2
<1>9. CASE u \in T
  <2>1. u \in 1 .. n /\ rootNew[u] = p /\ bestNew[u] = v
    BY <1>0, <1>6, <1>9
  <2>2. CASE u = t
    <3>1. g.pathMin[u] = v /\ (g.chain[u] = p \/ g.chain[u] = 0)
      BY <1>5, <2>1, <2>2
    <3>2. ~(g.chain[u] > w)
      BY <1>0, <3>1
    <3> QED BY <1>0, <1>1, <1>7, <1>8, <2>1, <3>1, <3>2 DEF Remembered, w
  <2>3. CASE u # t
    <3>1. g.chain[u] \in T /\ g.pathMin[u] = f.pathMin[u]
      BY <1>5, <1>9, <2>1, <2>3
    <3>2. g.chain[u] > w /\ rootNew[g.chain[u]] = p /\ bestNew[g.chain[u]] = v
      BY <1>0, <1>4, <1>6, <3>1
    <3>3. f.pathMin[u] = v \/ (f.pathMin[u] \in v + 1 .. n /\ f.key[f.pathMin[u]] > k)
      <4>1. CASE u = v
        BY <1>0, <1>3, <4>1
      <4>2. CASE u # v
        <5>1. u \in v + 1 .. n /\ k < f.key[f.pathMin[u]]
          BY <1>0, <1>4, <1>9, <4>2
        <5> QED BY <1>1, <1>2, <5>1
      <4> QED BY <4>1, <4>2
    <3>4. f.pathMin[u] \in v .. n
      BY <1>0, <3>3
    <3> QED BY <1>0, <1>1, <1>8, <2>1, <3>1, <3>2, <3>3, <3>4 DEF Remembered, k, w
  <2> QED BY <2>2, <2>3
<1>10. CASE u \notin T
  <2>1. u \in v + 1 .. n /\ u \in 1 .. n /\ u # t /\ u # v
    BY <1>0, <1>4, <1>10
  <2>2. g.pathMin[u] = f.pathMin[u] /\ f.pathMin[u] \in v .. n
    BY <1>0, <1>2, <1>5, <2>1
  <2>3. CASE u \in M
    <3>1. g.chain[u] = p /\ rootNew[u] = p
      <4>1. root[u] = p \/ root[u] = v
        BY <1>4, <2>1, <2>3
      <4> QED BY <1>3, <1>5, <2>1, <2>3, <4>1
    <3>2. f.pathMin[u] = best[u] /\ bestNew[u] = best[u]
      <4>1. f.chain[u] = 0
        BY <1>4, <2>1, <2>3
      <4>2. f.pathMin[u] = best[u]
        BY <1>2, <2>1, <4>1
      <4>3. CASE u \in Old
        <5>1. root[u] # v
          BY <1>0, <1>4, <4>3
        <5> QED BY <1>3, <2>1, <4>2, <5>1
      <4>4. CASE u \in Rest
        <5>1. f.key[best[u]] <= k /\ f.key[best[u]] \in Int
          BY <1>2, <1>4, <2>1, <4>2, <4>4
        <5>2. ~(k < f.key[best[u]])
          BY <1>1, <5>1
        <5> QED BY <1>3, <2>1, <4>2, <5>2
      <4> QED BY <1>4, <2>1, <2>3, <4>3, <4>4
    <3> QED BY <1>0, <1>1, <1>7, <1>8, <2>2, <3>1, <3>2 DEF Remembered, w
  <2>4. CASE u \notin M
    <3> DEFINE c == f.chain[u]
    <3>1. g.chain[u] = c
      BY <1>5, <1>10, <2>1, <2>4
    <3>2. CASE c = 0
      <4>1. f.pathMin[u] = best[u] /\ bestNew[u] = best[u]
        <5>1. f.pathMin[u] = best[u]
          BY <1>2, <2>1, <3>2
        <5>2. CASE root[u] = v
          <6>1. u \in Rest
            BY <1>4, <1>10, <2>1, <3>2, <5>2
          <6>2. f.key[best[u]] <= k /\ f.key[best[u]] \in Int
            BY <1>2, <1>4, <2>1, <5>1, <6>1
          <6>3. ~(k < f.key[best[u]])
            BY <1>1, <6>2
          <6> QED BY <1>3, <2>1, <5>1, <6>3
        <5>3. CASE root[u] # v
          BY <1>3, <2>1, <5>1, <5>3
        <5> QED BY <5>2, <5>3
      <4>2. ~(c > w)
        BY <1>0, <3>2
      <4> QED BY <1>0, <1>1, <1>8, <2>2, <3>1, <3>2, <4>1, <4>2 DEF Remembered, w
    <3>3. CASE c # 0 /\ ~(c > v)
      <4>1. c \in 1 .. v /\ root[c] = c /\ root[c] = root[u] /\ f.pathMin[u] = best[u] /\ c \in 1 .. n
        BY <1>2, <1>3, <2>1, <3>3
      <4> HIDE DEF c
      <4>2. rootNew[c] = rootNew[u]
        BY <1>3, <2>1, <4>1
      <4>3. CASE c = v
        <5>1. c > w /\ bestNew[c] = v
          BY <1>0, <1>3, <4>3
        <5>2. f.key[bestNew[u]] <= k
          <6>1. bestNew[u] = IF k < f.key[best[u]] THEN v ELSE best[u]
            BY <1>3, <2>1, <4>1, <4>3
          <6>2. f.key[best[u]] \in Int
            BY <1>2, <2>1
          <6> QED BY <1>1, <6>1, <6>2 DEF k
        <5>3. g.pathMin[u] = bestNew[u] \/ (f.key[g.pathMin[u]] > f.key[bestNew[u]] /\ bestNew[u] = v)
          BY <1>1, <1>2, <1>3, <2>1, <2>2, <4>1, <4>3 DEF k
        <5>4. f.key[bestNew[c]] >= f.key[bestNew[u]]
          BY <1>1, <1>8, <5>1, <5>2 DEF k
        <5> QED BY <1>0, <1>1, <1>8, <2>2, <3>1, <4>2, <5>1, <5>3, <5>4 DEF Remembered, w
      <4>4. CASE c # v
        <5>1. bestNew[u] = best[u] /\ ~(c > w)
          BY <1>0, <1>3, <2>1, <4>1, <4>4
        <5> QED BY <1>0, <1>1, <1>8, <2>2, <3>1, <4>1, <4>2, <5>1 DEF Remembered, w
      <4> QED BY <4>3, <4>4
    <3>4. CASE c > v
      <4>1. c \in v + 1 .. n /\ c \in 1 .. n /\ root[c] = root[u] /\ c # v /\ c > w
        BY <1>0, <1>2, <2>1, <3>4
      <4>2. /\ \/ f.pathMin[u] = best[u]
               \/ f.key[f.pathMin[u]] > f.key[best[u]] /\ best[c] = best[u]
            /\ f.key[best[c]] >= f.key[best[u]]
            /\ f.key[best[u]] \in Int /\ f.key[best[c]] \in Int /\ f.key[f.pathMin[u]] \in Int
        BY <1>2, <2>1, <3>4, <4>1
      <4> HIDE DEF c
      <4>3. rootNew[c] = rootNew[u]
        BY <1>3, <2>1, <4>1
      <4>4. /\ bestNew[c] = IF root[u] = v /\ k < f.key[best[c]] THEN v ELSE best[c]
            /\ bestNew[u] = IF root[u] = v /\ k < f.key[best[u]] THEN v ELSE best[u]
        BY <1>3, <2>1, <4>1
      <4>5. \/ f.pathMin[u] = bestNew[u]
            \/ f.key[f.pathMin[u]] > f.key[bestNew[u]] /\ bestNew[c] = bestNew[u]
        BY <1>1, <4>2, <4>4 DEF k
      <4>6. f.key[bestNew[c]] >= f.key[bestNew[u]]
        BY <1>1, <4>2, <4>4 DEF k
      <4> QED BY <1>0, <1>1, <1>8, <2>2, <3>1, <4>1, <4>3, <4>5, <4>6 DEF Remembered, w
    <3> QED BY <3>2, <3>3, <3>4
  <2> QED BY <2>3, <2>4
<1> QED BY <1>9, <1>10

LEMMA LinkSorts ==
  ASSUME NEW f, NEW n, NEW v, NEW root, NEW best, Linked(f, n, v, root, best), NEW p \in 1 .. v - 1,
         NEW rootNew, NEW bestNew, Moved(f, n, v, p, root, best, rootNew, bestNew),
         NEW T, NEW Rest, NEW Old, NEW t, NEW M, NEW trees, NEW g,
         LinkedBy(f, n, v, root, best, p, T, Rest, Old, t, M, trees, g), NEW r \in 1 .. v - 1
  PROVE  Sorted(g, n, v - 1, rootNew, r)
<1> DEFINE w == v - 1
           k == f.key[v]
           H == Heavier(f, v)
           over == f.over[v]
           l == Len(over)
           Key(x) == f.key[f.pathMin[x]]
<1>0. /\ n \in Nat /\ v \in 1 .. n /\ v \in Nat /\ p \in 1 .. n /\ p \in 1 .. v /\ p < v /\ p \in Nat
      /\ r \in 1 .. n /\ r \in 1 .. v /\ r < v /\ r \in Nat /\ w + 1 = v /\ p # 0
      /\ \A x \in v + 1 .. n : x \in 1 .. n /\ x # v /\ x # p /\ x \in v .. n /\ x > v
      /\ \A x \in v .. n : x \in 1 .. n /\ x # p /\ x # 0 /\ (x # v => x \in v + 1 .. n)
  <2>1. n \in Nat /\ v \in 1 .. n /\ v \in Nat
    BY LinkedIs
  <2> QED BY <2>1
<1>1. /\ Sorted(f, n, v, root, r) /\ Sorted(f, n, v, root, v) /\ f.pathMin[v] = v
      /\ root[v] = v /\ root[p] = p /\ root[r] = r
  <2>1. v \in 1 .. v
    BY <1>0
  <2> QED BY <1>0, <2>1 DEF Linked
<1>2. \A x \in 1 .. n : rootNew[x] = IF root[x] = v THEN p ELSE root[x]
  BY DEF Moved
<1>3. /\ l \in Nat /\ H \in 0 .. l /\ H \in Nat
      /\ \A i \in H + 1 .. l : Key(over[i]) <= k
  <2>1. l \in Nat /\ H \in 0 .. l
    BY HeavierIs
  <2>2. H \in Nat
    BY <2>1
  <2> QED BY <2>1, <2>2, HeavierIs
<1>4. /\ Tied(f, n, v, root, best, p, T, Rest, Old, t, M, g) /\ t \in 1 .. n
      /\ Rest = {over[i] : i \in H + 1 .. l} /\ Old = {f.over[p][i] : i \in 1 .. Len(f.over[p])}
      /\ \A x \in 1 .. n : x # p => g.over[x] = f.over[x]
      /\ g.over[p] = IF M = Old THEN trees ELSE f.over[p]
  BY DEF LinkedBy
<1>5. /\ trees \in Seq(1 .. n) /\ Len(trees) \in Nat /\ Len(trees) >= 1 /\ trees[1] = t
      /\ \A i \in 2 .. Len(trees) : i + H - 1 \in H + 1 .. l /\ trees[i] = over[i + H - 1]
      /\ \A i \in H + 1 .. l : i - H + 1 \in 2 .. Len(trees) /\ trees[i - H + 1] = over[i]
  <2>1. t \in 1 .. n /\ trees = Trees(f, v, t)
    BY DEF LinkedBy
  <2> QED BY <2>1, TreesAre
<1>6. /\ \A x \in T : x \in v .. n /\ root[x] = v
      /\ t \in T /\ v \in T
      /\ \A x \in Rest : x \in v + 1 .. n /\ f.chain[x] = 0 /\ root[x] = v /\ x \notin T
      /\ \A x \in Old : x \in v + 1 .. n /\ f.chain[x] = 0 /\ root[x] = p
      /\ \A x \in v + 1 .. n : f.chain[x] = 0 => /\ root[x] = v => x \in T \cup Rest
                                                 /\ root[x] = p => x \in Old
      /\ M = Old \/ M = {t} \cup Rest
      /\ g.key = f.key
  BY <1>4 DEF Tied
<1>7. \A x \in 1 .. n : /\ g.pathMin[x] = IF x = t THEN v ELSE f.pathMin[x]
                        /\ x \in M => g.chain[x] = p
                        /\ x \notin M /\ x \notin T => g.chain[x] = f.chain[x]
                        /\ x \notin M /\ x = t => g.chain[x] = 0
                        /\ x \in T /\ x # t => g.chain[x] \in T
  BY <1>4 DEF Tied
<1>8. \A x \in 1 .. n : x # t => g.key[g.pathMin[x]] = Key(x)
  BY <1>6, <1>7
<1>9. g.key[g.pathMin[t]] = k
  BY <1>4, <1>6, <1>7
<1>10. t \notin Old /\ t \notin Rest
  BY <1>0, <1>6
<1> HIDE DEF w, k, H, over, l, Key
\* Those that are not chained below another root than p are as before.
<1>11. CASE r # p
  <2>1. g.over[r] = f.over[r]
    BY <1>0, <1>4, <1>11
  <2>2. \A x \in 1 .. n : root[x] = r => x \notin T /\ x \notin M /\ x # t /\ x # v
    BY <1>0, <1>1, <1>6, <1>11
  <2>3. ASSUME NEW i \in 1 .. Len(f.over[r])
        PROVE  /\ f.over[r][i] \in v + 1 .. n /\ f.over[r][i] \in 1 .. n /\ root[f.over[r][i]] = r
               /\ f.chain[f.over[r][i]] = 0
    BY <1>0, <1>1 DEF Sorted
  <2>4. ASSUME NEW i \in 1 .. Len(f.over[r])
        PROVE  f.over[r][i] \in v .. n /\ g.chain[f.over[r][i]] = 0 /\ rootNew[f.over[r][i]] = r
    <3>1. f.over[r][i] # t /\ f.over[r][i] \notin T /\ f.over[r][i] \notin M
      BY <2>2, <2>3
    <3> QED BY <1>0, <1>2, <1>7, <2>3, <3>1, SMTT(20)
  <2>5. ASSUME NEW x \in v .. n, g.chain[x] = 0, rootNew[x] = r
        PROVE  \E i \in 1 .. Len(f.over[r]) : f.over[r][i] = x
    <3>1. x \in 1 .. n /\ root[x] = r
      BY <1>0, <1>2, <1>11, <2>5
    <3>2. x \in v + 1 .. n /\ f.chain[x] = 0
      BY <1>0, <1>7, <2>2, <2>5, <3>1
    <3> QED BY <1>1, <3>1, <3>2 DEF Sorted
  <2>6. ASSUME NEW i \in 1 .. Len(f.over[r]), NEW j \in 1 .. Len(f.over[r]), i < j
        PROVE  /\ f.over[r][i] # f.over[r][j]
               /\ g.key[g.pathMin[f.over[r][j]]] <= g.key[g.pathMin[f.over[r][i]]]
    <3>1. f.over[r][i] # f.over[r][j] /\ Key(f.over[r][j]) <= Key(f.over[r][i])
      BY <1>1, <2>6 DEF Sorted, Key
    <3>2. f.over[r][i] \in 1 .. n /\ f.over[r][i] # t /\ f.over[r][j] \in 1 .. n /\ f.over[r][j] # t
      BY <2>2, <2>3
    <3> QED BY <1>8, <3>1, <3>2
  <2> QED BY <1>0, <2>1, <2>4, <2>5, <2>6 DEF Sorted, w
\* The trees of v are those of p now.
<1>12. CASE r = p /\ M = Old
  <2>1. g.over[r] = trees
    BY <1>4, <1>12
  <2>2. \A i \in 1 .. Len(trees) : i = 1 \/ i \in 2 .. Len(trees)
    BY <1>5
  <2>3. \A i \in 1 .. Len(trees) : trees[i] = t \/ trees[i] \in Rest
    BY <1>4, <1>5, <2>2
  <2>4. \A x \in {t} \cup Rest : x \in v .. n /\ x \in 1 .. n /\ g.chain[x] = 0 /\ rootNew[x] = r
    <3>1. t \in v .. n /\ t \notin M /\ root[t] = v
      BY <1>6, <1>10, <1>12
    <3>2. \A x \in Rest : x \in v .. n /\ x \in 1 .. n /\ x \notin M /\ x \notin T /\ f.chain[x] = 0 /\ root[x] = v
      BY <1>0, <1>6, <1>12
    <3> QED BY <1>2, <1>4, <1>7, <1>12, <3>1, <3>2
  <2>5. ASSUME NEW i \in 1 .. Len(trees)
        PROVE  trees[i] \in v .. n /\ g.chain[trees[i]] = 0 /\ rootNew[trees[i]] = r
    BY <2>3, <2>4
  <2>6. ASSUME NEW x \in v .. n, g.chain[x] = 0, rootNew[x] = r
        PROVE  \E i \in 1 .. Len(trees) : trees[i] = x
    <3>1. x \in 1 .. n /\ x \notin M /\ (root[x] = p \/ root[x] = v)
      BY <1>0, <1>2, <1>7, <1>12, <2>6
    <3>2. x \in T => x = t
      BY <1>0, <1>6, <1>7, <2>6, <3>1
    <3>3. x \notin T => x \in v + 1 .. n /\ f.chain[x] = 0
      BY <1>0, <1>6, <1>7, <2>6, <3>1
    <3>4. x = t \/ x \in Rest
      BY <1>6, <1>12, <3>1, <3>2, <3>3
    <3>5. 1 \in 1 .. Len(trees) /\ \A i \in 2 .. Len(trees) : i \in 1 .. Len(trees)
      BY <1>5
    <3>6. CASE x = t
      BY <1>5, <3>5, <3>6
    <3>7. CASE x \in Rest
      <4>1. PICK i \in H + 1 .. l : x = over[i]
        BY <1>4, <3>7
      <4> QED BY <1>5, <3>5, <4>1
    <3> QED BY <3>4, <3>6, <3>7
  <2>7. ASSUME NEW i \in 1 .. Len(trees), NEW j \in 1 .. Len(trees), i < j
        PROVE  /\ trees[i] # trees[j]
               /\ g.key[g.pathMin[trees[j]]] <= g.key[g.pathMin[trees[i]]]
    <3>1. j \in 2 .. Len(trees)
      BY <2>2, <2>7
    <3> DEFINE y == j + H - 1
    <3>2. y \in H + 1 .. l /\ trees[j] = over[y] /\ trees[j] \in Rest
      BY <1>4, <1>5, <3>1
    <3>3. trees[j] \in 1 .. n /\ trees[j] # t
      BY <1>10, <2>4, <3>2
    <3>4. g.key[g.pathMin[trees[j]]] = Key(over[y])
      BY <1>8, <3>2, <3>3
    <3>5. CASE i = 1
      <4>1. Key(over[y]) <= k
        BY <1>3, <3>2
      <4> HIDE DEF y
      <4> QED BY <1>5, <1>9, <3>3, <3>4, <3>5, <4>1
    <3>6. CASE i \in 2 .. Len(trees)
      <4> DEFINE x == i + H - 1
      <4>1. x \in H + 1 .. l /\ trees[i] = over[x] /\ trees[i] \in Rest
        BY <1>4, <1>5, <3>6
      <4>2. trees[i] \in 1 .. n /\ trees[i] # t
        BY <1>10, <2>4, <4>1
      <4>3. g.key[g.pathMin[trees[i]]] = Key(over[x])
        BY <1>8, <4>1, <4>2
      <4>4. x \in 1 .. l /\ y \in 1 .. l /\ x < y
        BY <1>3, <2>7, <3>2, <4>1
      <4>5. over[x] # over[y] /\ Key(over[y]) <= Key(over[x])
        BY <1>1, <4>4 DEF Sorted, over, l, Key
      <4> HIDE DEF x, y
      <4> QED BY <3>2, <3>4, <4>1, <4>3, <4>5
    <3> QED BY <2>2, <3>5, <3>6
  <2> QED BY <1>0, <2>1, <2>5, <2>6, <2>7 DEF Sorted, w
\* Those of p stay.
<1>13. CASE r = p /\ M # Old
  <2>1. g.over[r] = f.over[p] /\ M = {t} \cup Rest
    BY <1>4, <1>6, <1>13
  <2>2. \A x \in Old : /\ x \in v + 1 .. n /\ x \in v .. n /\ x \in 1 .. n /\ x \notin M /\ x # t
                       /\ g.chain[x] = 0 /\ rootNew[x] = r
    <3>1. \A x \in Old : x \in v + 1 .. n /\ x \in v .. n /\ x \in 1 .. n /\ x \notin T /\ x \notin Rest
                         /\ x # t /\ f.chain[x] = 0 /\ root[x] = p
      BY <1>0, <1>6
    <3> QED BY <1>2, <1>0, <1>7, <1>13, <2>1, <3>1
  <2>3. \A i \in 1 .. Len(f.over[p]) : f.over[p][i] \in Old
    BY <1>4
  <2>4. ASSUME NEW x \in v .. n, g.chain[x] = 0, rootNew[x] = r
        PROVE  \E i \in 1 .. Len(f.over[p]) : f.over[p][i] = x
    <3>1. x \in 1 .. n /\ x \notin M /\ (root[x] = p \/ root[x] = v)
      BY <1>0, <1>2, <1>7, <1>13, <2>4
    <3>2. x \notin T
      BY <1>0, <1>6, <1>7, <2>1, <2>4, <3>1
    <3>3. x \in v + 1 .. n /\ f.chain[x] = 0
      BY <1>0, <1>6, <1>7, <2>4, <3>1, <3>2
    <3>4. x \in Old
      BY <1>6, <2>1, <3>1, <3>2, <3>3
    <3> QED BY <1>4, <3>4
  <2>5. ASSUME NEW i \in 1 .. Len(f.over[p]), NEW j \in 1 .. Len(f.over[p]), i < j
        PROVE  /\ f.over[p][i] # f.over[p][j]
               /\ g.key[g.pathMin[f.over[p][j]]] <= g.key[g.pathMin[f.over[p][i]]]
    <3>1. f.over[p][i] # f.over[p][j] /\ Key(f.over[p][j]) <= Key(f.over[p][i])
      BY <1>1, <1>13, <2>5 DEF Sorted, Key
    <3>2. f.over[p][i] \in 1 .. n /\ f.over[p][i] # t /\ f.over[p][j] \in 1 .. n /\ f.over[p][j] # t
      BY <2>2, <2>3
    <3> QED BY <1>8, <3>1, <3>2
  <2>6. \A i \in 1 .. Len(f.over[p]) :
          f.over[p][i] \in v .. n /\ g.chain[f.over[p][i]] = 0 /\ rootNew[f.over[p][i]] = r
    BY <2>2, <2>3
  <2> QED BY <1>0, <2>1, <2>4, <2>5, <2>6 DEF Sorted, w
<1> QED BY <1>11, <1>12, <1>13

\* link.
LEMMA LinkRootsIs ==
  ASSUME NEW f, NEW n, NEW v, NEW root, NEW best, Linked(f, n, v, root, best), NEW p \in 1 .. v - 1,
         f.key[v] <= p, NEW rootNew, NEW bestNew, Moved(f, n, v, p, root, best, rootNew, bestNew)
  PROVE  Linked(LinkRoots(f, p, v), n, v - 1, rootNew, bestNew) /\ LinkRoots(f, p, v).key = f.key
<1> DEFINE g == LinkRoots(f, p, v)
<1>0. /\ n \in Nat /\ v \in 1 .. n /\ v \in Nat /\ v - 1 \in 1 .. n /\ (v - 1) + 1 = v
      /\ \A u \in 1 .. v - 1 : u \in 1 .. n /\ u \in 1 .. v /\ u # v /\ u \notin v .. n /\ u \notin v + 1 .. n
  <2>1. n \in Nat /\ v \in 1 .. n /\ v \in Nat
    BY LinkedIs
  <2> QED BY <2>1
<1>1. PICK T, Rest, Old, t, M, trees : LinkedBy(f, n, v, root, best, p, T, Rest, Old, t, M, trees, g)
  BY LinkRootsTies
<1> HIDE DEF g
<1>2. Tied(f, n, v, root, best, p, T, Rest, Old, t, M, g)
  BY <1>1 DEF LinkedBy
<1>3. \A u \in v .. n : Remembered(g, n, v - 1, rootNew, bestNew, u)
  BY <1>2, LinkRemembers
<1>4. \A r \in 1 .. v - 1 : Sorted(g, n, v - 1, rootNew, r)
  BY <1>1, LinkSorts
<1>5. ASSUME NEW u \in 1 .. v - 1 PROVE g.chain[u] = 0 /\ g.pathMin[u] = u /\ rootNew[u] = u
  <2>1. f.chain[u] = 0 /\ f.pathMin[u] = u /\ root[u] = u
    BY <1>0 DEF Linked
  <2>2. u \notin T /\ u \notin M /\ u # t
    BY <1>0, <1>2 DEF Tied
  <2>3. rootNew[u] = u
    BY <1>0, <2>1 DEF Moved
  <2> QED BY <1>0, <1>2, <2>1, <2>2, <2>3 DEF Tied
<1>6. g \in Forests(n) /\ g.key = f.key /\ Acyclic(n, g.chain)
  BY <1>2 DEF Tied
<1>7. rootNew \in [1 .. n -> 1 .. n] /\ bestNew \in [1 .. n -> 1 .. n]
  BY DEF Moved
<1>8. Linked(g, n, v - 1, rootNew, bestNew)
  BY <1>0, <1>3, <1>4, <1>5, <1>6, <1>7 DEF Linked
<1> QED BY <1>6, <1>8 DEF g

-----------------------------------------------------------------------------
(***************************************************************************)
(* The steps. After them root and best are those of the tree.              *)
(***************************************************************************)
LEMMA ForestIs ==
  ASSUME NEW n \in Nat \ {0}
  PROVE  Linked(Forest(n), n, n, [x \in 1 .. n |-> x], [x \in 1 .. n |-> x])
<1> DEFINE f == Forest(n)
           r == [x \in 1 .. n |-> x]
<1>1. f \in Forests(n)
  <2>1. << >> \in Seq(1 .. n)
    OBVIOUS
  <2>2. [x \in 0 .. n |-> << >>] \in [0 .. n -> Seq(1 .. n)]
    BY <2>1
  <2>3. /\ [x \in 0 .. n |-> x] \in [0 .. n -> 0 .. n] /\ [x \in 0 .. n |-> 0] \in [0 .. n -> 0 .. n]
        /\ [x \in 0 .. n |-> 1] \in [0 .. n -> Int]
    OBVIOUS
  <2> QED BY <2>2, <2>3 DEF Forest, Forests
<1>2. \A x \in 1 .. n : f.chain[x] = 0 /\ f.pathMin[x] = x /\ f.over[x] = << >>
  BY DEF Forest
<1>3. \A x \in n + 1 .. n : FALSE
  OBVIOUS
<1>4. n \in 1 .. n
  OBVIOUS
<1> HIDE DEF f
<1>5. Acyclic(n, f.chain)
  <2> SUFFICES ASSUME NEW S \in SUBSET (1 .. n), S # {} PROVE \E x \in S : f.chain[x] \notin S
    BY DEF Acyclic
  <2>1. PICK x \in S : TRUE
    OBVIOUS
  <2>2. f.chain[x] = 0 /\ 0 \notin S
    BY <1>2
  <2> QED BY <2>2
<1>6. \A x \in 1 .. n : Sorted(f, n, n, r, x)
  <2> TAKE x \in 1 .. n
  <2>1. f.over[x] = << >> /\ Len(<< >>) = 0
    BY <1>2
  <2>2. \A i \in 1 .. Len(f.over[x]) : FALSE
    BY <2>1
  <2> HIDE DEF r
  <2> QED BY <1>3, <2>2 DEF Sorted
<1>7. r \in [1 .. n -> 1 .. n] /\ \A x \in 1 .. n : r[x] = x
  OBVIOUS
<1> HIDE DEF r
<1>8. Linked(f, n, n, r, r)
  BY <1>1, <1>2, <1>3, <1>4, <1>5, <1>6, <1>7 DEF Linked
<1> QED BY <1>8 DEF f, r

\* The key of the next is nobody's best yet.
LEMMA KeySet ==
  ASSUME NEW f, NEW n, NEW v, NEW root, NEW best, Linked(f, n, v, root, best), NEW k \in 0 .. n
  PROVE  /\ Linked([f EXCEPT !.key[v] = k], n, v, root, best)
         /\ [f EXCEPT !.key[v] = k].key = [f.key EXCEPT ![v] = k]
<1> DEFINE g == [f EXCEPT !.key[v] = k]
<1>0. /\ n \in Nat /\ v \in 1 .. n /\ v \in Nat /\ f \in Forests(n) /\ v \in 0 .. n
      /\ \A x \in v + 1 .. n : x \in 0 .. n /\ x # v
  <2>1. n \in Nat /\ v \in 1 .. n /\ v \in Nat /\ f \in Forests(n)
    BY LinkedIs
  <2> QED BY <2>1
<1>1. /\ g \in Forests(n) /\ g.key = [f.key EXCEPT ![v] = k] /\ g.pathMin = f.pathMin
      /\ g.chain = f.chain /\ g.over = f.over
  BY <1>0 DEF Forests
<1>2. \A x \in v + 1 .. n : g.key[x] = f.key[x]
  BY <1>0, <1>1 DEF Forests
<1>7. g.pathMin = f.pathMin /\ g.chain = f.chain /\ g.over = f.over /\ g \in Forests(n)
  BY <1>1
<1> HIDE DEF g
<1>3. ASSUME NEW u \in v + 1 .. n PROVE Remembered(g, n, v, root, best, u)
  <2>1. Remembered(f, n, v, root, best, u)
    BY DEF Linked
  <2>2. best[u] \in v + 1 .. n /\ f.pathMin[u] \in v + 1 .. n
    BY <2>1 DEF Remembered
  <2>3. f.chain[u] > v => best[f.chain[u]] \in v + 1 .. n
    <3>1. f.chain[u] > v => f.chain[u] \in v + 1 .. n
      <4>1. f.chain[u] \in 0 .. n
        BY LinkedIs
      <4> QED BY <1>0, <4>1
    <3>2. f.chain[u] > v => Remembered(f, n, v, root, best, f.chain[u])
      BY <3>1 DEF Linked
    <3> QED BY <3>2 DEF Remembered
  <2>4. /\ g.key[best[u]] = f.key[best[u]] /\ g.key[f.pathMin[u]] = f.key[f.pathMin[u]]
        /\ f.chain[u] > v => g.key[best[f.chain[u]]] = f.key[best[f.chain[u]]]
    BY <1>2, <2>2, <2>3
  <2> QED BY <1>7, <2>1, <2>4 DEF Remembered
<1>4. ASSUME NEW r \in 1 .. v PROVE Sorted(g, n, v, root, r)
  <2>1. Sorted(f, n, v, root, r)
    BY DEF Linked
  <2>2. \A i \in 1 .. Len(f.over[r]) : g.key[f.pathMin[f.over[r][i]]] = f.key[f.pathMin[f.over[r][i]]]
    <3> TAKE i \in 1 .. Len(f.over[r])
    <3>1. f.over[r][i] \in v + 1 .. n
      BY <2>1 DEF Sorted
    <3>2. f.pathMin[f.over[r][i]] \in v + 1 .. n
      BY <3>1 DEF Linked, Remembered
    <3> QED BY <1>2, <3>2
  <2>3. ASSUME NEW i \in 1 .. Len(f.over[r]), NEW j \in 1 .. Len(f.over[r]), i < j
        PROVE  /\ f.over[r][i] # f.over[r][j]
               /\ g.key[f.pathMin[f.over[r][j]]] <= g.key[f.pathMin[f.over[r][i]]]
    <3>1. f.over[r][i] # f.over[r][j] /\ f.key[f.pathMin[f.over[r][j]]] <= f.key[f.pathMin[f.over[r][i]]]
      BY <2>1, <2>3 DEF Sorted
    <3> QED BY <2>2, <3>1
  <2>4. /\ \A i \in 1 .. Len(f.over[r]) :
             f.over[r][i] \in v + 1 .. n /\ f.chain[f.over[r][i]] = 0 /\ root[f.over[r][i]] = r
        /\ \A u \in v + 1 .. n : f.chain[u] = 0 /\ root[u] = r
                                 => \E i \in 1 .. Len(f.over[r]) : f.over[r][i] = u
    BY <2>1 DEF Sorted
  <2> QED BY <1>7, <2>3, <2>4, SMTT(20) DEF Sorted
<1>5. /\ root \in [1 .. n -> 1 .. n] /\ best \in [1 .. n -> 1 .. n] /\ Acyclic(n, g.chain)
      /\ \A u \in 1 .. v : g.chain[u] = 0 /\ g.pathMin[u] = u /\ root[u] = u
  BY <1>7 DEF Linked
<1>6. Linked(g, n, v, root, best)
  BY <1>0, <1>7, <1>3, <1>4, <1>5 DEF Linked
<1> QED BY <1>1, <1>6 DEF g

\* root is the last on the way up that is not done, best has the least key
\* of those after it.
Sees(n, parent, key, v, root, best) ==
  \A u \in v + 1 .. n :
    /\ root[u] \in Line(n, parent, u) /\ best[u] \in Line(n, parent, u)
    /\ \A x \in Line(n, parent, u) : /\ x <= v => x <= root[u]
                                     /\ x > v => key[best[u]] <= key[x]

LEMMA MovedSees ==
  ASSUME NEW f, NEW n, NEW v, NEW root, NEW best, Linked(f, n, v, root, best),
         NEW parent, Rooted(n, parent), v # 1, Sees(n, parent, f.key, v, root, best),
         NEW rootNew, NEW bestNew, Moved(f, n, v, parent[v], root, best, rootNew, bestNew)
  PROVE  Sees(n, parent, f.key, v - 1, rootNew, bestNew)
<1> DEFINE L(x) == Line(n, parent, x)
           p == parent[v]
           k == f.key[v]
<1>0. /\ n \in Nat /\ v \in 1 .. n /\ v \in Nat
      /\ \A x \in 0 .. n : f.key[x] \in Int
      /\ \A x \in 1 .. n : x \in 0 .. n
      /\ \A x \in v + 1 .. n : x \in 1 .. n /\ x > v
  BY LinkedIs
<1>1. p \in 1 .. n /\ p < v /\ L(v) = {v} \cup L(p) /\ v \in L(v)
  BY <1>0, LineStep
<1>2. \A x \in 1 .. n : L(x) \subseteq 1 .. n /\ x \in L(x)
  BY LineStep
<1>3. \A x \in 1 .. n : \A a \in L(x) : a <= x /\ L(a) \subseteq L(x) /\ \A b \in L(x) : b <= a => b \in L(a)
  BY LineIs
<1> HIDE DEF L
<1>4. /\ \A u \in 1 .. n : rootNew[u] = IF root[u] = v THEN p ELSE root[u]
      /\ \A u \in 1 .. n : bestNew[u] = IF u = v \/ (u > v /\ root[u] = v /\ k < f.key[best[u]])
                                        THEN v ELSE best[u]
  BY DEF Moved
<1>5. root[v] = v
  <2>1. v \in 1 .. v
    BY <1>0
  <2> QED BY <2>1 DEF Linked
<1> HIDE DEF p
<1> SUFFICES ASSUME NEW u \in (v - 1) + 1 .. n
             PROVE  /\ rootNew[u] \in L(u) /\ bestNew[u] \in L(u)
                    /\ \A x \in L(u) : /\ x <= v - 1 => x <= rootNew[u]
                                       /\ x > v - 1 => f.key[bestNew[u]] <= f.key[x]
  BY DEF Sees, L
<1>6. u \in 1 .. n /\ (u = v \/ u \in v + 1 .. n) /\ \A x \in L(u) : x \in 1 .. n /\ f.key[x] \in Int
  <2>1. u \in 1 .. n /\ (u = v \/ u \in v + 1 .. n)
    BY <1>0
  <2> QED BY <1>0, <1>2, <2>1
<1>7. CASE u = v
  <2>1. rootNew[u] = p /\ bestNew[u] = v
    BY <1>4, <1>5, <1>6, <1>7
  <2>2. p \in L(v)
    BY <1>1, <1>2
  <2>3. \A x \in L(v) : x = v \/ x <= p
    BY <1>1, <1>3
  <2>4. /\ \A x \in L(v) : x <= v - 1 => x <= p
        /\ \A x \in L(v) : x > v - 1 => x = v
    BY <1>0, <1>1, <1>6, <1>7, <2>3
  <2>5. f.key[v] <= f.key[v]
    BY <1>0, <1>1, <1>6, <1>7
  <2> QED BY <1>1, <1>7, <2>1, <2>2, <2>4, <2>5
<1>8. CASE u \in v + 1 .. n
  <2>1. /\ root[u] \in L(u) /\ best[u] \in L(u) /\ root[u] \in 1 .. v /\ best[u] \in v + 1 .. n /\ u > v
        /\ \A x \in L(u) : (x <= v => x <= root[u]) /\ (x > v => f.key[best[u]] <= f.key[x])
    BY <1>0, <1>8 DEF Sees, L, Linked, Remembered
  <2>2. f.key[best[u]] \in Int /\ k \in Int
    BY <1>0, <1>6, <2>1
  <2>3. CASE root[u] = v
    <3>1. rootNew[u] = p /\ bestNew[u] = (IF k < f.key[best[u]] THEN v ELSE best[u])
      BY <1>0, <1>4, <1>6, <1>8, <2>1, <2>3
    <3>2. v \in L(u) /\ p \in L(u)
      BY <1>1, <1>2, <1>3, <1>6, <2>1, <2>3
    <3>3. \A x \in L(u) : x <= v - 1 => x <= p
      <4> TAKE x \in L(u)
      <4> HAVE x <= v - 1
      <4>1. x <= v /\ x # v
        BY <1>0, <1>6
      <4>2. x \in L(p)
        BY <1>1, <1>3, <1>6, <3>2, <4>1
      <4> QED BY <1>1, <1>3, <4>2
    <3>4. \A x \in L(u) : x > v - 1 => x = v \/ x > v
      BY <1>0, <1>6
    <3>5. \A x \in L(u) : x > v - 1 => f.key[bestNew[u]] <= f.key[x]
      BY <1>6, <2>1, <2>2, <3>1, <3>4
    <3> QED BY <2>1, <3>1, <3>2, <3>3, <3>5
  <2>4. CASE root[u] # v
    <3>1. rootNew[u] = root[u] /\ bestNew[u] = best[u]
      BY <1>0, <1>4, <1>6, <1>8, <2>1, <2>4
    <3>2. v \notin L(u)
      BY <1>0, <2>1, <2>4
    <3>3. \A x \in L(u) : (x <= v - 1 => x <= v) /\ (x > v - 1 => x > v)
      BY <1>0, <1>6, <3>2
    <3> QED BY <2>1, <3>1, <3>3
  <2> QED BY <2>3, <2>4
<1> QED BY <1>6, <1>7, <1>8

-----------------------------------------------------------------------------
\* preds are the predecessors of v, in some order.
PredsOf(n, E, v, preds) ==
  /\ preds \in Seq(1 .. n)
  /\ \A x \in 1 .. n : <<x, v>> \in E <=> \E i \in 1 .. Len(preds) : preds[i] = x

\* a has the least over the first i predecessors.
LookedThrough(n, parent, E, key, v, root, best, preds, i, a) ==
  /\ a \in [forest : Forests(n), key : 0 .. n]
  /\ Linked(a.forest, n, v, root, best) /\ a.forest.key = key
  /\ a.key = v \/ a.key \in Sources(n, parent, E, key, v)
  /\ \A j \in 1 .. i : /\ preds[j] < v => a.key <= preds[j]
                       /\ preds[j] > v => \A u \in Line(n, parent, preds[j]) : u > v => a.key <= key[u]

LEMMA PredsOfIs ==
  ASSUME NEW n, NEW E, NEW v, NEW preds, PredsOf(n, E, v, preds)
  PROVE  /\ Len(preds) \in Nat
         /\ \A i \in 1 .. Len(preds) : preds[i] \in 1 .. n /\ <<preds[i], v>> \in E
         /\ \A x \in 1 .. n : <<x, v>> \in E => \E i \in 1 .. Len(preds) : preds[i] = x
<1> DEFINE S == 1 .. n
<1>1. preds \in Seq(S)
  BY DEF PredsOf
<1> HIDE DEF S
<1>2. Len(preds) \in Nat /\ \A i \in 1 .. Len(preds) : preds[i] \in S
  BY <1>1, ElementOfSeq
<1> QED BY <1>2 DEF PredsOf, S

LEMMA LookedAtIs ==
  ASSUME NEW n, NEW parent, NEW E, NEW key, NEW v, NEW root, NEW best, NEW preds, NEW i \in Nat, NEW a,
         Searched(n, parent, E), Sees(n, parent, key, v, root, best), PredsOf(n, E, v, preds),
         \A x \in 1 .. v : key[x] = x, i + 1 \in 1 .. Len(preds),
         LookedThrough(n, parent, E, key, v, root, best, preds, i, a)
  PROVE  LookedThrough(n, parent, E, key, v, root, best, preds, i + 1, LookedAt(a, v, preds[i + 1]))
<1> DEFINE p == preds[i + 1]
           g == IF p > v THEN Evaluated(a.forest, p) ELSE a.forest
           y == IF p > v THEN g.key[Eval(g, p)] ELSE p
           b == LookedAt(a, v, p)
           L(x) == Line(n, parent, x)
<1>1. /\ a \in [forest : Forests(n), key : 0 .. n]
      /\ Linked(a.forest, n, v, root, best) /\ a.forest.key = key
      /\ a.key = v \/ a.key \in Sources(n, parent, E, key, v)
      /\ \A j \in 1 .. i : /\ preds[j] < v => a.key <= preds[j]
                           /\ preds[j] > v => \A u \in L(preds[j]) : u > v => a.key <= key[u]
  BY DEF LookedThrough
<1>2. /\ n \in Nat /\ v \in 1 .. n /\ v \in Nat
      /\ \A x \in v + 1 .. n : x \in 1 .. n /\ x > v
      /\ \A x \in 1 .. n : x \in 0 .. n
      /\ \A x \in 1 .. n : x > v => x \in v + 1 .. n
      /\ key \in [0 .. n -> 0 .. n]
      /\ p \in 1 .. n /\ <<p, v>> \in E
      /\ a.key \in 0 .. n /\ a.forest \in Forests(n)
  <2>1. n \in Nat /\ v \in 1 .. n /\ v \in Nat /\ a.forest \in Forests(n)
    BY <1>1, LinkedIs
  <2>2. key \in [0 .. n -> 0 .. n]
    BY <1>1, <2>1 DEF Forests
  <2>3. p \in 1 .. n /\ <<p, v>> \in E
    BY PredsOfIs
  <2>4. a.key \in 0 .. n
    BY <1>1
  <2>5. /\ \A x \in v + 1 .. n : x \in 1 .. n /\ x > v
        /\ \A x \in 1 .. n : x \in 0 .. n
        /\ \A x \in 1 .. n : x > v => x \in v + 1 .. n
    BY <2>1
  <2> QED BY <2>1, <2>2, <2>3, <2>4, <2>5
<1>3. b = [forest |-> g, key |-> Min({a.key, y})]
  BY DEF LookedAt, Lowered
<1>10. \A j \in 1 .. i + 1 :
         /\ preds[j] \in 1 .. n
         /\ \A u \in L(preds[j]) : u \in 1 .. n /\ key[u] \in Int
  <2>1. \A j \in 1 .. i + 1 : preds[j] \in 1 .. n
    <3>1. \A j \in 1 .. i + 1 : j \in 1 .. Len(preds)
      BY PredsOfIs
    <3> QED BY <3>1, PredsOfIs
  <2>2. \A x \in 1 .. n : L(x) \subseteq 1 .. n
    BY SearchedIs, LineStep
  <2>3. \A x \in 1 .. n : key[x] \in Int
    BY <1>2
  <2> HIDE DEF L
  <2> QED BY <2>1, <2>2, <2>3
<1>11. \A j \in 1 .. i + 1 : j \in 1 .. i \/ j = i + 1
  OBVIOUS
<1> HIDE DEF b, L
<1>4. /\ Linked(g, n, v, root, best) /\ g.key = key /\ y \in 0 .. n
      /\ y = v \/ y \in Sources(n, parent, E, key, v)
      /\ p < v => y <= p
      /\ p > v => \A u \in L(p) : u > v => y <= key[u]
  <2>1. CASE p > v
    <3>1. p \in v + 1 .. n
      BY <1>2, <2>1
    <3>2. Linked(g, n, v, root, best) /\ g.key = key /\ Eval(g, p) = best[p]
      BY <1>1, <2>1, <3>1, EvaluatedIs
    <3>3. best[p] \in L(p) /\ \A x \in L(p) : x > v => key[best[p]] <= key[x]
      BY <3>1 DEF Sees, L
    <3>4. best[p] \in v + 1 .. n
      BY <3>1, <3>2 DEF Linked, Remembered
    <3>5. y = key[best[p]]
      BY <2>1, <3>2
    <3> HIDE DEF g, y, p
    <3>6. best[p] \in 1 .. n /\ best[p] > v
      BY <1>2, <3>4
    <3>7. best[p] \in {x \in 1 .. n : x > v /\ \E z \in 1 .. n : <<z, v>> \in E /\ x \in Line(n, parent, z)}
      BY <1>2, <3>3, <3>6 DEF L
    <3>8. y \in 0 .. n /\ y \in Sources(n, parent, E, key, v)
      BY <1>2, <3>5, <3>6, <3>7 DEF Sources
    <3>9. ~(p < v)
      BY <1>2, <2>1
    <3> QED BY <3>2, <3>3, <3>5, <3>8, <3>9
  <2>2. CASE ~(p > v)
    <3>1. g = a.forest /\ y = p
      BY <2>2
    <3> HIDE DEF g, y, p
    <3>2. p = v \/ p \in Sources(n, parent, E, key, v)
      BY <1>2, <2>2 DEF Sources
    <3>3. p \in 0 .. n /\ (p < v => p <= p)
      BY <1>2
    <3> QED BY <1>1, <2>2, <3>1, <3>2, <3>3
  <2> QED BY <2>1, <2>2
<1> HIDE DEF g, y
<1>5. Min({a.key, y}) = IF a.key <= y THEN a.key ELSE y
  <2>1. a.key \in Nat /\ y \in Nat
    BY <1>2, <1>4
  <2> QED BY <2>1, MinOfTwo
<1>6. b \in [forest : Forests(n), key : 0 .. n] /\ b.forest = g /\ b.key = IF a.key <= y THEN a.key ELSE y
  <2>1. g \in Forests(n)
    BY <1>4 DEF Linked
  <2> QED BY <1>2, <1>3, <1>4, <1>5, <2>1
<1>7. b.key = v \/ b.key \in Sources(n, parent, E, key, v)
  BY <1>1, <1>4, <1>6
<1>8. a.key \in Int /\ y \in Int /\ b.key \in Int /\ b.key <= a.key /\ b.key <= y
  <2>1. a.key \in Int /\ y \in Int
    BY <1>2, <1>4
  <2> QED BY <1>6, <2>1
<1>9. ASSUME NEW j \in 1 .. i + 1
      PROVE  /\ preds[j] < v => b.key <= preds[j]
             /\ preds[j] > v => \A u \in L(preds[j]) : u > v => b.key <= key[u]
  <2> DEFINE q == preds[j]
  <2>1. \E z \in Int : b.key <= z /\ (q < v => z <= q) /\ (q > v => \A u \in L(q) : u > v => z <= key[u])
    <3>1. CASE j = i + 1
      <4>1. q = p
        BY <3>1
      <4> QED BY <1>4, <1>8, <4>1
    <3>2. CASE j # i + 1
      <4>1. j \in 1 .. i
        BY <1>11, <3>2
      <4> QED BY <1>1, <1>8, <4>1
    <3> QED BY <3>1, <3>2
  <2>2. q \in Int /\ \A u \in L(q) : key[u] \in Int
    BY <1>10
  <2> HIDE DEF q
  <2>3. /\ q < v => b.key <= q
        /\ q > v => \A u \in L(q) : u > v => b.key <= key[u]
    BY <1>8, <2>1, <2>2
  <2> QED BY <2>3 DEF q
<1>12. LookedThrough(n, parent, E, key, v, root, best, preds, i + 1, b)
  BY <1>4, <1>6, <1>7, <1>9 DEF LookedThrough, L
<1> QED BY <1>12 DEF b, p

LEMMA SemidominatorIs ==
  ASSUME NEW f, NEW n, NEW parent, NEW E, NEW v, NEW root, NEW best, NEW preds,
         Linked(f, n, v, root, best), v # 1,
         Searched(n, parent, E), Sees(n, parent, f.key, v, root, best), PredsOf(n, E, v, preds),
         \A x \in 1 .. v : f.key[x] = x
  PROVE  /\ Linked(Semidominator(f, v, preds).forest, n, v, root, best)
         /\ Semidominator(f, v, preds).forest.key = f.key
         /\ Semidominator(f, v, preds).key \in Sources(n, parent, E, f.key, v)
         /\ \A y \in Sources(n, parent, E, f.key, v) : Semidominator(f, v, preds).key <= y
         /\ Semidominator(f, v, preds).key \in 0 .. n
<1> DEFINE key == f.key
           m == Len(preds)
           x == [forest |-> f, key |-> v]
           Body(i, a) == LookedAt(a, v, preds[i])
           Known(i, a) == LookedThrough(n, parent, E, key, v, root, best, preds, i, a)
           I == [i \in 0 .. m |-> {a \in [forest : Forests(n), key : 0 .. n] : Known(i, a)}]
           F == [i \in 1 .. m |-> [a \in I[i - 1] |-> Body(i, a)]]
           D == CHOOSE a : a = [i \in 0 .. m |-> IF i = 0 THEN x ELSE LookedAt(a[i - 1], v, preds[i])]
           s == Semidominator(f, v, preds)
<1>0. n \in Nat /\ v \in 1 .. n /\ v \in Nat /\ v \in 0 .. n /\ f \in Forests(n) /\ m \in Nat
      /\ key \in [0 .. n -> 0 .. n]
  <2>1. n \in Nat /\ v \in 1 .. n /\ v \in Nat /\ f \in Forests(n)
    BY LinkedIs
  <2>2. m \in Nat
    <3>1. preds \in Seq(1 .. n)
      BY DEF PredsOf
    <3> QED BY <3>1
  <2>3. key \in [0 .. n -> 0 .. n]
    BY <2>1 DEF Forests
  <2>4. v \in 0 .. n
    BY <2>1
  <2> QED BY <2>1, <2>2, <2>3, <2>4
<1>1. s = D[m]
  BY DEF Semidominator
<1> HIDE DEF s
<1>2. x \in I[0]
  <2>1. x \in [forest : Forests(n), key : 0 .. n] /\ x.forest = f /\ x.key = v
    BY <1>0
  <2> HIDE DEF x, key
  <2>2. Known(0, x)
    BY <2>1 DEF LookedThrough, key
  <2> HIDE DEF Known
  <2> QED BY <1>0, <2>1, <2>2
<1>3. ASSUME NEW i \in 1 .. m, NEW a \in I[i - 1] PROVE Body(i, a) \in I[i]
  <2>1. i - 1 \in 0 .. m /\ i \in 0 .. m /\ i - 1 \in Nat /\ (i - 1) + 1 = i /\ (i - 1) + 1 \in 1 .. m
    BY <1>0
  <2>2. Known(i - 1, a)
    <3> HIDE DEF Known
    <3> QED BY <2>1
  <2>3. Known((i - 1) + 1, LookedAt(a, v, preds[(i - 1) + 1]))
    <3> HIDE DEF key
    <3>1. Sees(n, parent, key, v, root, best) /\ \A z \in 1 .. v : key[z] = z
      BY DEF key
    <3> QED BY <2>1, <2>2, <3>1, LookedAtIs
  <2>4. Known(i, Body(i, a))
    BY <2>1, <2>3
  <2>5. Body(i, a) \in [forest : Forests(n), key : 0 .. n]
    BY <2>4 DEF LookedThrough
  <2> HIDE DEF Known, Body
  <2> QED BY <2>1, <2>4, <2>5
<1> HIDE DEF Known, x
<1>7. PICK h : Iterates(h, m, x, F, I)
  <2>1. \A i \in 1 .. m : \A a \in I[i - 1] : F[i][a] \in I[i]
    <3> HIDE DEF Body, I
    <3>1. \A i \in 1 .. m : \A a \in I[i - 1] : F[i][a] = Body(i, a)
      OBVIOUS
    <3> HIDE DEF F
    <3> QED BY <1>3, <3>1
  <2> HIDE DEF F, I
  <2> QED BY <1>0, <1>2, <2>1, Loop
<1>8. h = [i \in 0 .. m |-> IF i = 0 THEN x ELSE Body(i, h[i - 1])]
  <2> HIDE DEF Body, I
  <2>1. \A i \in 1 .. m : h[i] = Body(i, h[i - 1])
    <3>1. \A i \in 1 .. m : h[i - 1] \in I[i - 1] /\ h[i] = F[i][h[i - 1]]
      BY <1>7 DEF Iterates
    <3> QED BY <3>1
  <2>2. \A i \in 0 .. m : i # 0 => i \in 1 .. m
    BY <1>0
  <2> HIDE DEF F
  <2> QED BY <1>7, <2>1, <2>2 DEF Iterates
<1>9. D = [i \in 0 .. m |-> IF i = 0 THEN x ELSE Body(i, D[i - 1])]
  BY <1>8
<1> HIDE DEF D
<1>10. \A i \in 0 .. m : D[i] \in I[i]
  <2> HIDE DEF I, Body
  <2>1. D[0] = x
    BY <1>0, <1>9
  <2>2. ASSUME NEW i \in 1 .. m, D[i - 1] \in I[i - 1] PROVE D[i] \in I[i]
    <3>1. D[i] = Body(i, D[i - 1])
      <4>1. i \in 0 .. m /\ i # 0
        BY <1>0
      <4> QED BY <1>9, <4>1
    <3> QED BY <1>3, <2>2, <3>1
  <2> QED BY <1>0, <1>2, <2>1, <2>2, Iterated
<1>11. Known(m, s)
  <2>1. m \in 0 .. m
    BY <1>0
  <2> QED BY <1>1, <1>10, <2>1
<1> HIDE DEF D, I, F, m
<1>12. /\ Linked(s.forest, n, v, root, best) /\ s.forest.key = key
       /\ s.key = v \/ s.key \in Sources(n, parent, E, key, v)
       /\ s.key \in 0 .. n
       /\ \A j \in 1 .. m : /\ preds[j] < v => s.key <= preds[j]
                            /\ preds[j] > v => \A u \in Line(n, parent, preds[j]) : u > v => s.key <= key[u]
  <2>1. s \in [forest : Forests(n), key : 0 .. n]
    BY <1>11 DEF Known, LookedThrough
  <2>2. s.key \in 0 .. n
    BY <2>1
  <2> QED BY <1>11, <2>2 DEF Known, LookedThrough
<1> HIDE DEF key
<1>13. ASSUME NEW z \in Sources(n, parent, E, key, v) PROVE s.key <= z
  <2>1. CASE z \in 1 .. n /\ <<z, v>> \in E /\ z < v
    <3>1. PICK j \in 1 .. m : preds[j] = z
      BY <2>1 DEF PredsOf, m
    <3> QED BY <1>12, <2>1, <3>1
  <2>2. ASSUME NEW u \in 1 .. n, NEW y \in 1 .. n, u > v, <<y, v>> \in E, u \in Line(n, parent, y), z = key[u]
        PROVE  s.key <= z
    <3>1. PICK j \in 1 .. m : preds[j] = y
      BY <2>2 DEF PredsOf, m
    <3>2. u <= y
      BY <2>2, SearchedIs, LineIs
    <3>3. y > v
      BY <1>0, <2>2, <3>2
    <3> QED BY <1>12, <2>2, <3>1, <3>3
  <2> QED BY <2>1, <2>2 DEF Sources
<1>14. s.key # v
  <2>1. parent[v] \in 1 .. v - 1 /\ parent[v] \in 1 .. n /\ <<parent[v], v>> \in E
    BY <1>0, SearchedIs
  <2>2. parent[v] \in Sources(n, parent, E, key, v)
    BY <1>0, <2>1 DEF Sources
  <2>3. s.key <= parent[v]
    BY <1>13, <2>2
  <2>4. s.key \in Int /\ parent[v] < v /\ parent[v] \in Int
    <3> HIDE DEF s
    <3>1. s.key \in 0 .. n
      BY <1>12
    <3>2. n \in Nat /\ v \in Nat
      BY <1>0
    <3> QED BY <2>1, <3>1, <3>2
  <2> HIDE DEF s
  <2> QED BY <1>0, <2>3, <2>4, SMTT(20)
<1> QED BY <1>12, <1>13, <1>14 DEF s, key

States(n) == [forest : Forests(n), bucket : [0 .. n -> Seq(1 .. n)], dom : [0 .. n -> 0 .. n]]

\* What eval says of w when its key is that of par.
Found(key, best, par, w) == IF key[best[w]] < key[w] THEN best[w] ELSE par

\* The vertices that are not done have their own numbers for keys.
OwnKeys(key, v) == \A x \in 1 .. v : key[x] = x

\* r is what s becomes when the vertices in W have their key par.
Settling(n, v, root, best, par, s, W, r) ==
  /\ r \in States(n) /\ Linked(r.forest, n, v, root, best)
  /\ r.forest.key = s.forest.key
  /\ \A x \in 0 .. n : r.dom[x] = IF x \in W THEN Found(s.forest.key, best, par, x) ELSE s.dom[x]

LEMMA DominatedIs ==
  ASSUME NEW n, NEW v, NEW root, NEW best, NEW s \in States(n), Linked(s.forest, n, v, root, best),
         OwnKeys(s.forest.key, v), NEW w \in v + 1 .. n, NEW par \in 0 .. n
  PROVE  /\ Settling(n, v, root, best, par, s, {w}, Dominated(s, w, par))
         /\ Dominated(s, w, par).bucket = s.bucket
<1> DEFINE f == Evaluated(s.forest, w)
           k == Eval(f, w)
           e == IF f.key[k] < f.key[w] THEN k ELSE par
           t == [s EXCEPT !.forest = f, !.dom[w] = e]
<1>1. Linked(f, n, v, root, best) /\ f.key = s.forest.key /\ k = best[w]
  BY EvaluatedIs DEF OwnKeys
<1>2. e = Found(s.forest.key, best, par, w)
  BY <1>1 DEF Found
<1>3. best[w] \in 1 .. n /\ w \in 0 .. n /\ f \in Forests(n)
  <2>1. best \in [1 .. n -> 1 .. n]
    BY <1>1 DEF Linked
  <2>2. w \in 1 .. n
    BY <1>1, LinkedIs
  <2> QED BY <1>1, <2>1, <2>2, LinkedIs
<1>4. e \in 0 .. n
  <2>1. best[w] \in 0 .. n
    BY <1>1, <1>3, LinkedIs
  <2> QED BY <1>2, <2>1 DEF Found
<1>5. Dominated(s, w, par) = t
  BY DEF Dominated, Decided
<1> HIDE DEF e, f, k
<1>6. t \in States(n) /\ t.forest = f /\ t.bucket = s.bucket
  BY <1>3, <1>4 DEF States
<1>7. \A x \in 0 .. n : t.dom[x] = IF x = w THEN e ELSE s.dom[x]
  BY <1>3 DEF States
<1>8. \A x \in 0 .. n : t.dom[x] = IF x \in {w} THEN Found(s.forest.key, best, par, x) ELSE s.dom[x]
  BY <1>2, <1>7
<1> HIDE DEF t
<1>9. Settling(n, v, root, best, par, s, {w}, t)
  BY <1>1, <1>6, <1>8 DEF Settling
<1> QED BY <1>5, <1>6, <1>9 DEF t

Items(b) == {b[i] : i \in 1 .. Len(b)}

Emptying(n, v, root, best, par, s, r) ==
  /\ Settling(n, v, root, best, par, s, Items(s.bucket[par]), r)
  /\ \A x \in 0 .. n : r.bucket[x] = IF x = par THEN << >> ELSE s.bucket[x]

LEMMA EmptiedIs ==
  ASSUME NEW n, NEW v, NEW root, NEW best, NEW s \in States(n), Linked(s.forest, n, v, root, best),
         OwnKeys(s.forest.key, v), NEW par \in 0 .. n,
         Items(s.bucket[par]) \subseteq v + 1 .. n
  PROVE  Emptying(n, v, root, best, par, s, Emptied(s, par))
<1> DEFINE b == s.bucket[par]
           m == Len(b)
           W(i) == {b[j] : j \in 1 .. i}
           Body(i, r) == Dominated(r, b[i], par)
           Known(i, r) == Settling(n, v, root, best, par, s, W(i), r) /\ r.bucket = s.bucket
           I == [i \in 0 .. m |-> {r \in States(n) : Known(i, r)}]
           F == [i \in 1 .. m |-> [r \in I[i - 1] |-> Body(i, r)]]
           D == CHOOSE e : e = [i \in 0 .. m |-> IF i = 0 THEN s ELSE Dominated(e[i - 1], s.bucket[par][i], par)]
<1>0. n \in Nat /\ v \in Nat /\ m \in Nat
  <2>1. b \in Seq(1 .. n)
    BY DEF States
  <2> HIDE DEF b
  <2> QED BY <2>1, LinkedIs
<1>1. Emptied(s, par) = [D[m] EXCEPT !.bucket[par] = << >>]
  BY DEF Emptied
<1>12. \A i \in 1 .. m : b[i] \in v + 1 .. n /\ b[i] \in 0 .. n
  <2>1. \A x \in v + 1 .. n : x \in 0 .. n
    BY <1>0
  <2>2. \A i \in 1 .. m : b[i] \in Items(s.bucket[par])
    BY DEF Items
  <2> QED BY <2>1, <2>2
<1>2. s \in I[0]
  <2>1. W(0) = {}
    OBVIOUS
  <2> HIDE DEF W
  <2>2. Known(0, s)
    BY <2>1 DEF Settling
  <2> HIDE DEF Known
  <2> QED BY <1>0, <2>2
<1> HIDE DEF b
<1>3. ASSUME NEW i \in 1 .. m, NEW r \in I[i - 1] PROVE Body(i, r) \in I[i]
  <2>1. i - 1 \in 0 .. m /\ i \in 0 .. m /\ W(i) = W(i - 1) \cup {b[i]}
    <3>1. i - 1 \in 0 .. m /\ i \in 0 .. m
      BY <1>0
    <3>2. \A j \in Int : j \in 1 .. i <=> j \in 1 .. i - 1 \/ j = i
      BY <1>0
    <3>3. W(i) = W(i - 1) \cup {b[i]}
      BY <3>2
    <3> QED BY <3>1, <3>3
  <2> HIDE DEF W
  <2>2. r \in States(n) /\ Known(i - 1, r)
    <3> HIDE DEF Known
    <3> QED BY <2>1
  <2> DEFINE t == Body(i, r)
  <2>3. Linked(r.forest, n, v, root, best) /\ r.forest.key = s.forest.key
    BY <2>2 DEF Settling
  <2>4. /\ t \in States(n) /\ Linked(t.forest, n, v, root, best) /\ t.forest.key = s.forest.key
        /\ t.bucket = s.bucket
        /\ \A x \in 0 .. n : t.dom[x] = IF x = b[i] THEN Found(s.forest.key, best, par, b[i]) ELSE r.dom[x]
    <3>1. OwnKeys(r.forest.key, v)
      BY <2>3
    <3>2. b[i] \in v + 1 .. n
      BY <1>12
    <3>3. r \in States(n) /\ Linked(r.forest, n, v, root, best)
      BY <2>2, <2>3
    <3>4. Settling(n, v, root, best, par, r, {b[i]}, t) /\ t.bucket = r.bucket
      <4> HIDE DEF I, Known
      <4> QED BY <3>1, <3>2, <3>3, DominatedIs
    <3> HIDE DEF t
    <3> QED BY <2>2, <2>3, <3>4 DEF Settling
  <2> HIDE DEF t
  <2>5. \A x \in 0 .. n : t.dom[x] = IF x \in W(i) THEN Found(s.forest.key, best, par, x) ELSE s.dom[x]
    <3>1. \A x \in 0 .. n : r.dom[x] = IF x \in W(i - 1) THEN Found(s.forest.key, best, par, x) ELSE s.dom[x]
      BY <2>2 DEF Settling
    <3> QED BY <2>1, <2>4, <3>1
  <2>6. Known(i, t)
    BY <2>4, <2>5 DEF Settling
  <2> HIDE DEF Known
  <2>7. t \in I[i]
    BY <2>1, <2>4, <2>6
  <2> QED BY <2>7 DEF t
<1> HIDE DEF Known
<1>7. PICK h : Iterates(h, m, s, F, I)
  <2>1. \A i \in 1 .. m : \A a \in I[i - 1] : F[i][a] \in I[i]
    <3> HIDE DEF Body, I
    <3>1. \A i \in 1 .. m : \A a \in I[i - 1] : F[i][a] = Body(i, a)
      OBVIOUS
    <3> HIDE DEF F
    <3> QED BY <1>3, <3>1
  <2> HIDE DEF F, I
  <2> QED BY <1>0, <1>2, <2>1, Loop
<1>8. h = [i \in 0 .. m |-> IF i = 0 THEN s ELSE Body(i, h[i - 1])]
  <2> HIDE DEF Body, I
  <2>1. \A i \in 1 .. m : h[i] = Body(i, h[i - 1])
    <3>1. \A i \in 1 .. m : h[i - 1] \in I[i - 1] /\ h[i] = F[i][h[i - 1]]
      BY <1>7 DEF Iterates
    <3> QED BY <3>1
  <2>2. \A i \in 0 .. m : i # 0 => i \in 1 .. m
    BY <1>0
  <2> HIDE DEF F
  <2> QED BY <1>7, <2>1, <2>2 DEF Iterates
<1>9. D = [i \in 0 .. m |-> IF i = 0 THEN s ELSE Body(i, D[i - 1])]
  BY <1>8 DEF b
<1> HIDE DEF D
<1>10. \A i \in 0 .. m : D[i] \in I[i]
  <2> HIDE DEF I, Body
  <2>1. D[0] = s
    BY <1>0, <1>9
  <2>2. ASSUME NEW i \in 1 .. m, D[i - 1] \in I[i - 1] PROVE D[i] \in I[i]
    <3>1. D[i] = Body(i, D[i - 1])
      <4>1. i \in 0 .. m /\ i # 0
        BY <1>0
      <4> QED BY <1>9, <4>1
    <3> QED BY <1>3, <2>2, <3>1
  <2> QED BY <1>0, <1>2, <2>1, <2>2, Iterated
<1>11. Known(m, D[m])
  <2>1. m \in 0 .. m
    BY <1>0
  <2> QED BY <1>10, <2>1
<1> DEFINE d == D[m]
           r == [d EXCEPT !.bucket[par] = << >>]
<1>13. /\ d \in States(n) /\ Linked(d.forest, n, v, root, best) /\ d.forest.key = s.forest.key
       /\ \A x \in 0 .. n : d.dom[x] = IF x \in W(m) THEN Found(s.forest.key, best, par, x) ELSE s.dom[x]
       /\ d.bucket = s.bucket
  BY <1>11 DEF Known, Settling
<1>14. r = Emptied(s, par)
  BY <1>1
<1> HIDE DEF d, W
<1>15. /\ r.forest = d.forest /\ r.dom = d.dom
       /\ r.bucket = [s.bucket EXCEPT ![par] = << >>]
       /\ r \in States(n)
  <2>1. << >> \in Seq(1 .. n)
    OBVIOUS
  <2> QED BY <1>13, <2>1 DEF States
<1>16. \A x \in 0 .. n : r.bucket[x] = IF x = par THEN << >> ELSE s.bucket[x]
  BY <1>15 DEF States
<1> HIDE DEF r
<1>17. Settling(n, v, root, best, par, s, W(m), r)
  BY <1>13, <1>15 DEF Settling
<1>18. W(m) = Items(s.bucket[par])
  BY DEF W, b, Items
<1> QED BY <1>14, <1>16, <1>17, <1>18 DEF Emptying

\* Only the keys of greater vertices matter.
SameAfter(n, v, key, keyNew) == n \in Nat /\ v \in Nat /\ \A x \in 1 .. n : x > v => keyNew[x] = key[x]

LeastSource(n, parent, E, key, k, w) ==
  k \in Sources(n, parent, E, key, w) /\ \A y \in Sources(n, parent, E, key, w) : k <= y

LEMMA SourcesSame ==
  ASSUME NEW n, NEW parent, NEW E, NEW key, NEW keyNew, NEW v, NEW w \in 1 .. n, w >= v,
         SameAfter(n, v, key, keyNew), NEW k, LeastSource(n, parent, E, key, k, w)
  PROVE  LeastSource(n, parent, E, keyNew, k, w)
<1> DEFINE U == {y \in 1 .. n : /\ y > w
                                /\ \E x \in 1 .. n : <<x, w>> \in E /\ y \in Line(n, parent, x)}
<1>1. \A y \in U : y \in 1 .. n /\ y > v
  BY DEF SameAfter
<1>2. \A y \in U : keyNew[y] = key[y]
  BY <1>1 DEF SameAfter
<1> HIDE DEF U
<1>3. {keyNew[u] : u \in U} = {key[u] : u \in U}
  BY <1>2
<1>4. Sources(n, parent, E, keyNew, w) = Sources(n, parent, E, key, w)
  BY <1>3 DEF Sources, U
<1> QED BY <1>4 DEF LeastSource

\* g is what f becomes when v gets its key k and is linked.
Advanced(n, parent, E, f, v, k, g) ==
  /\ \E root, best : Linked(g, n, v - 1, root, best) /\ Sees(n, parent, g.key, v - 1, root, best)
  /\ k \in 0 .. n
  /\ \A x \in 0 .. n : g.key[x] = IF x = v THEN k ELSE f.key[x]
  /\ KeyIs(n, parent, E, g.key, v)

LEMMA AdvancedIs ==
  ASSUME NEW f, NEW n, NEW parent, NEW E, NEW v, NEW root, NEW best, NEW preds,
         Linked(f, n, v, root, best), v # 1,
         Searched(n, parent, E), Sees(n, parent, f.key, v, root, best), PredsOf(n, E, v, preds),
         \A x \in 1 .. v : f.key[x] = x
  PROVE  Advanced(n, parent, E, f, v, Semidominator(f, v, preds).key,
                  LinkRoots([Semidominator(f, v, preds).forest EXCEPT !.key[v] = Semidominator(f, v, preds).key],
                            parent[v], v))
<1> DEFINE a == Semidominator(f, v, preds)
           h == a.forest
           k == a.key
           e == [h EXCEPT !.key[v] = k]
           p == parent[v]
           g == LinkRoots(e, p, v)
           rootNew == [u \in 1 .. n |-> IF root[u] = v THEN p ELSE root[u]]
           bestNew == [u \in 1 .. n |-> IF u = v \/ (u > v /\ root[u] = v /\ e.key[v] < e.key[best[u]])
                                        THEN v ELSE best[u]]
<1>1. /\ Linked(h, n, v, root, best) /\ h.key = f.key
      /\ k \in Sources(n, parent, E, f.key, v)
      /\ \A y \in Sources(n, parent, E, f.key, v) : k <= y
      /\ k \in 0 .. n
  BY SemidominatorIs
<1>2. /\ n \in Nat /\ v \in 1 .. n /\ v \in Nat /\ v \in 0 .. n /\ f.key \in [0 .. n -> 0 .. n]
      /\ root \in [1 .. n -> 1 .. n] /\ best \in [1 .. n -> 1 .. n]
  <2>1. n \in Nat /\ v \in 1 .. n /\ v \in Nat /\ f \in Forests(n)
    BY LinkedIs
  <2>2. root \in [1 .. n -> 1 .. n] /\ best \in [1 .. n -> 1 .. n]
    BY DEF Linked
  <2>3. f.key \in [0 .. n -> 0 .. n]
    BY <2>1 DEF Forests
  <2>4. v \in 0 .. n
    BY <2>1
  <2> QED BY <2>1, <2>2, <2>3, <2>4
<1>3. p \in 1 .. v - 1 /\ p \in 1 .. n /\ <<p, v>> \in E /\ p < v
  BY <1>2, SearchedIs
<1>4. k <= p
  <2>1. p \in Sources(n, parent, E, f.key, v)
    BY <1>3 DEF Sources
  <2> QED BY <1>1, <2>1
<1> HIDE DEF a, k, h
<1>5. Linked(e, n, v, root, best) /\ e.key = [h.key EXCEPT ![v] = k]
  <2> HIDE DEF e
  <2>1. Linked([h EXCEPT !.key[v] = k], n, v, root, best) /\ [h EXCEPT !.key[v] = k].key = [h.key EXCEPT ![v] = k]
    BY <1>1, KeySet
  <2> QED BY <2>1 DEF e
<1>15. Linked(e, n, v, root, best)
  BY <1>5
<1> HIDE DEF e
<1>6. \A x \in 0 .. n : e.key[x] = IF x = v THEN k ELSE f.key[x]
  BY <1>1, <1>2, <1>5
<1>7. \A x \in 1 .. n : x # v => e.key[x] = f.key[x]
  <2>1. \A x \in 1 .. n : x \in 0 .. n
    BY <1>2
  <2> QED BY <1>6, <2>1
<1>8. Sees(n, parent, e.key, v, root, best)
  <2> SUFFICES ASSUME NEW u \in v + 1 .. n
               PROVE  /\ root[u] \in Line(n, parent, u) /\ best[u] \in Line(n, parent, u)
                      /\ \A x \in Line(n, parent, u) : /\ x <= v => x <= root[u]
                                                       /\ x > v => e.key[best[u]] <= e.key[x]
    BY DEF Sees
  <2>1. /\ root[u] \in Line(n, parent, u) /\ best[u] \in Line(n, parent, u)
        /\ \A x \in Line(n, parent, u) : /\ x <= v => x <= root[u]
                                         /\ x > v => f.key[best[u]] <= f.key[x]
    BY DEF Sees
  <2>2. best[u] \in v + 1 .. n
    BY DEF Linked, Remembered
  <2>3. e.key[best[u]] = f.key[best[u]]
    BY <1>2, <1>7, <2>2
  <2>4. \A x \in Line(n, parent, u) : x \in 1 .. n
    BY DEF Line
  <2>5. \A x \in Line(n, parent, u) : x > v => e.key[x] = f.key[x]
    <3>1. \A x \in 1 .. n : x > v => x # v
      BY <1>2
    <3> QED BY <1>7, <2>4, <3>1
  <2> QED BY <2>1, <2>3, <2>5
<1>9. Moved(e, n, v, p, root, best, rootNew, bestNew)
  <2>1. rootNew \in [1 .. n -> 1 .. n] /\ bestNew \in [1 .. n -> 1 .. n]
    BY <1>2, <1>3
  <2>2. /\ \A u \in 1 .. n : rootNew[u] = IF root[u] = v THEN p ELSE root[u]
        /\ \A u \in 1 .. n : bestNew[u] = IF u = v \/ (u > v /\ root[u] = v /\ e.key[v] < e.key[best[u]])
                                          THEN v ELSE best[u]
    OBVIOUS
  <2> HIDE DEF rootNew, bestNew
  <2> QED BY <2>1, <2>2 DEF Moved
<1> HIDE DEF rootNew, bestNew
<1>10. Rooted(n, parent) /\ e.key[v] <= p
  BY <1>2, <1>4, <1>6, SearchedIs
<1>11. Linked(g, n, v - 1, rootNew, bestNew) /\ g.key = e.key
  <2> HIDE DEF p
  <2> QED BY <1>3, <1>9, <1>10, <1>15, LinkRootsIs
<1>12. Sees(n, parent, e.key, v - 1, rootNew, bestNew)
  BY <1>5, <1>8, <1>9, <1>10, MovedSees
<1> HIDE DEF g
<1>13. KeyIs(n, parent, E, g.key, v)
  <2>1. LeastSource(n, parent, E, e.key, k, v)
    <3>1. SameAfter(n, v, f.key, e.key)
      <4>1. n \in Nat /\ v \in Nat
        BY <1>2
      <4> QED BY <1>7, <4>1 DEF SameAfter
    <3>2. v >= v /\ v \in 1 .. n
      BY <1>2
    <3>3. LeastSource(n, parent, E, f.key, k, v)
      BY <1>1 DEF LeastSource
    <3> QED BY <3>1, <3>2, <3>3, SourcesSame
  <2>2. e.key[v] = k
    BY <1>2, <1>6
  <2> QED BY <1>11, <2>1, <2>2 DEF KeyIs, LeastSource
<1>14. Advanced(n, parent, E, f, v, k, g)
  BY <1>1, <1>6, <1>11, <1>12, <1>13 DEF Advanced
<1> QED BY <1>14 DEF g, e, k, h, a, p

LEMMA ItemsPrepended ==
  ASSUME NEW S, NEW b \in Seq(S), NEW v \in S
  PROVE  <<v>> \o b \in Seq(S) /\ Items(<<v>> \o b) = {v} \cup Items(b)
<1> DEFINE a == <<v>>
           c == a \o b
<1>1. a \in Seq(S) /\ Len(a) = 1 /\ a[1] = v /\ Len(b) \in Nat
  OBVIOUS
<1> HIDE DEF a
<1>2. /\ c \in Seq(S) /\ Len(c) = 1 + Len(b)
      /\ \A i \in 1 .. Len(c) : c[i] = IF i <= 1 THEN a[i] ELSE b[i - 1]
  <2>1. /\ c \in Seq(S) /\ Len(c) = Len(a) + Len(b)
        /\ \A i \in 1 .. Len(a) + Len(b) : c[i] = IF i <= Len(a) THEN a[i] ELSE b[i - Len(a)]
    BY <1>1, ConcatProperties
  <2> HIDE DEF c
  <2> QED BY <1>1, <2>1
<1> HIDE DEF c
<1>3. \A i \in 1 .. Len(c) : c[i] = IF i = 1 THEN v ELSE b[i - 1]
  BY <1>1, <1>2
<1>4. ASSUME NEW x \in Items(c) PROVE x \in {v} \cup Items(b)
  <2>1. PICK i \in 1 .. Len(c) : x = c[i]
    BY DEF Items
  <2>2. i # 1 => i - 1 \in 1 .. Len(b)
    BY <1>1, <1>2
  <2> QED BY <1>3, <2>1, <2>2 DEF Items
<1>5. v \in Items(c)
  <2>1. 1 \in 1 .. Len(c)
    BY <1>1, <1>2
  <2> QED BY <1>3, <2>1 DEF Items
<1>6. ASSUME NEW x \in Items(b) PROVE x \in Items(c)
  <2>1. PICK i \in 1 .. Len(b) : x = b[i]
    BY DEF Items
  <2>2. i + 1 \in 1 .. Len(c) /\ i + 1 # 1 /\ (i + 1) - 1 = i
    BY <1>1, <1>2
  <2>3. c[i + 1] = b[i]
    BY <1>3, <2>2
  <2> QED BY <2>1, <2>2, <2>3 DEF Items
<1>7. Items(c) = {v} \cup Items(b)
  BY <1>4, <1>5, <1>6
<1> QED BY <1>2, <1>7 DEF c, a

\* w is in the bucket x, and its way up does not come to x at once.
InBucket(n, parent, key, v, x, w) ==
  /\ w \in v + 1 .. n /\ key[w] = x
  /\ \A u \in Line(n, parent, w) : u > v => parent[u] # x

SettledAt(n, parent, key, dom, v, w) ==
  /\ Settled(n, parent, key, dom, w)
  /\ \A u \in Line(n, parent, w) : u > key[w] => u > v

\* What is known when v is the next.
InLoop(n, parent, E, s, v) ==
  /\ n \in Nat /\ s \in States(n) /\ v \in 1 .. n
  /\ \E root, best : Linked(s.forest, n, v, root, best) /\ Sees(n, parent, s.forest.key, v, root, best)
  /\ \A x \in 1 .. v : s.forest.key[x] = x
  /\ \A w \in v + 1 .. n : KeyIs(n, parent, E, s.forest.key, w)
  /\ \A x \in 0 .. n : \A w \in Items(s.bucket[x]) : InBucket(n, parent, s.forest.key, v, x, w)
  /\ \A w \in v + 1 .. n : \/ w \in Items(s.bucket[s.forest.key[w]])
                           \/ SettledAt(n, parent, s.forest.key, s.dom, v, w)

\* A vertex in the bucket of the parent of v is settled when v is linked.
LEMMA SettlesAt ==
  ASSUME NEW n, NEW parent, NEW E, NEW key \in [0 .. n -> 0 .. n], NEW root, NEW best, NEW dom, NEW v,
         NEW f, Linked(f, n, v - 1, root, best), v \in 2 .. n,
         Searched(n, parent, E), Sees(n, parent, key, v - 1, root, best), NEW w \in v .. n,
         key[w] = parent[v], dom[w] = Found(key, best, parent[v], w)
  PROVE  SettledAt(n, parent, key, dom, v - 1, w)
<1> DEFINE p == parent[v]
           L(x) == Line(n, parent, x)
<1>0. n \in Nat /\ v \in 1 .. n /\ v # 1 /\ w \in 1 .. n /\ w \in (v - 1) + 1 .. n /\ v \in Nat
  <2>1. n \in Nat
    BY LinkedIs
  <2> QED BY <2>1
<1>1. p \in 1 .. n /\ p < v /\ L(v) = {v} \cup L(p)
  BY <1>0, SearchedIs, LineStep
<1>2. \A x \in L(w) : x \in 1 .. n /\ x <= w
  BY <1>0, SearchedIs, LineIs
<1>3. ASSUME NEW u \in L(w), u > p PROVE u > v - 1
  <2> SUFFICES ASSUME u < v PROVE FALSE
    BY <1>0, <1>2
  <2>1. v \in u .. w
    BY <1>0, <1>2
  <2>2. u \in L(v)
    BY <1>0, <2>1 DEF Searched
  <2>3. u \in L(p)
    BY <1>0, <1>1, <1>2, <2>2
  <2>4. u <= p
    BY <1>1, <2>3, SearchedIs, LineIs
  <2> QED BY <1>1, <1>2, <1>3, <2>4
<1>4. best[w] \in L(w) /\ \A x \in L(w) : x > v - 1 => key[best[w]] <= key[x]
  BY <1>0 DEF Sees
<1>5. best[w] \in (v - 1) + 1 .. n
  BY <1>0 DEF Linked, Remembered
<1> HIDE DEF L, p
<1>6. best[w] > p /\ best[w] \in 1 .. n
  <2>1. \A x \in (v - 1) + 1 .. n : x > p /\ x \in 1 .. n
    BY <1>0, <1>1
  <2> QED BY <1>5, <2>1
<1>7. LeastOnWay(n, parent, key, best[w], w)
  BY <1>3, <1>4, <1>6 DEF LeastOnWay, L, p
<1>8. Settled(n, parent, key, dom, w)
  BY <1>6, <1>7 DEF Settled, Found
<1> QED BY <1>3, <1>8 DEF SettledAt, L, p

\* What was settled before v got its key and was linked still is.
LEMMA StaysSettled ==
  ASSUME NEW n, NEW parent, NEW key, NEW keyNew, NEW dom, NEW domNew, NEW v, NEW w \in v + 1 .. n,
         Rooted(n, parent), SameAfter(n, v, key, keyNew), domNew[w] = dom[w],
         SettledAt(n, parent, key, dom, v, w)
  PROVE  SettledAt(n, parent, keyNew, domNew, v - 1, w)
<1> DEFINE L == Line(n, parent, w)
<1>0. n \in Nat /\ v \in Nat /\ w \in 1 .. n /\ w > v /\ \A x \in 1 .. n : x > v => keyNew[x] = key[x]
  BY DEF SameAfter
<1>1. L \subseteq 1 .. n
  BY <1>0, LineStep
<1>2. \A u \in L : u > key[w] => u > v
  BY DEF SettledAt
<1>3. PICK k \in 1 .. n : /\ LeastOnWay(n, parent, key, k, w)
                          /\ dom[w] = IF key[k] < key[w] THEN k ELSE key[w]
  BY DEF SettledAt, Settled
<1>4. /\ k \in L /\ k > key[w] /\ \A u \in L : u > key[w] => key[k] <= key[u]
  BY <1>3 DEF LeastOnWay
<1> HIDE DEF L
<1>5. keyNew[w] = key[w] /\ keyNew[k] = key[k] /\ \A u \in L : u > key[w] => keyNew[u] = key[u]
  BY <1>0, <1>1, <1>2, <1>4
<1>6. LeastOnWay(n, parent, keyNew, k, w)
  BY <1>4, <1>5 DEF LeastOnWay, L
<1>7. Settled(n, parent, keyNew, domNew, w)
  BY <1>3, <1>5, <1>6 DEF Settled
<1>8. \A u \in L : u > keyNew[w] => u > v - 1
  BY <1>0, <1>1, <1>2, <1>5
<1> QED BY <1>7, <1>8 DEF SettledAt, L

LEMMA SteppedIs ==
  ASSUME NEW n, NEW parent, NEW E, NEW s, NEW v, NEW preds,
         InLoop(n, parent, E, s, v), v # 1, Searched(n, parent, E), PredsOf(n, E, v, preds)
  PROVE  InLoop(n, parent, E, Stepped(s, v, parent[v], preds), v - 1)
<1> DEFINE a == Semidominator(s.forest, v, preds)
           k == a.key
           p == parent[v]
           f == LinkRoots([a.forest EXCEPT !.key[v] = a.key], p, v)
           t == [s EXCEPT !.forest = f, !.bucket[k] = <<v>> \o @]
           r == Emptied(t, p)
           key == s.forest.key
           keyNew == f.key
<1>1. /\ n \in Nat /\ s \in States(n) /\ v \in 1 .. n
      /\ \E root, best : Linked(s.forest, n, v, root, best) /\ Sees(n, parent, key, v, root, best)
      /\ \A x \in 1 .. v : key[x] = x
      /\ \A w \in v + 1 .. n : KeyIs(n, parent, E, key, w)
      /\ \A x \in 0 .. n : \A w \in Items(s.bucket[x]) : InBucket(n, parent, key, v, x, w)
      /\ \A w \in v + 1 .. n : \/ w \in Items(s.bucket[key[w]])
                               \/ SettledAt(n, parent, key, s.dom, v, w)
  BY DEF InLoop
<1>2. Stepped(s, v, parent[v], preds) = r
  BY DEF Stepped, LinkedToParent
<1>3. Advanced(n, parent, E, s.forest, v, k, f)
  BY <1>1, AdvancedIs
<1> HIDE DEF a, k, f, p
<1>4. PICK root, best : Linked(f, n, v - 1, root, best) /\ Sees(n, parent, keyNew, v - 1, root, best)
  BY <1>3 DEF Advanced
<1>5. /\ k \in 0 .. n /\ f \in Forests(n) /\ p \in 1 .. v - 1 /\ p \in 0 .. n /\ p \in 1 .. n
      /\ Rooted(n, parent) /\ v \in 2 .. n /\ v - 1 \in 1 .. n /\ v \in Nat /\ (v - 1) + 1 = v
      /\ \A w \in v .. n : w \in 0 .. n /\ (w = v \/ w \in v + 1 .. n) /\ w \in 1 .. n
      /\ \A w \in v + 1 .. n : w \in v .. n /\ w # v /\ w > v
      /\ \A x \in 1 .. v - 1 : x # v /\ x \in 0 .. n /\ x \in 1 .. v
  <2>1. k \in 0 .. n /\ f \in Forests(n)
    BY <1>3, <1>4 DEF Advanced, Linked
  <2>2. p \in 1 .. v - 1 /\ Rooted(n, parent)
    BY <1>1, SearchedIs DEF p
  <2>3. v \in 2 .. n /\ v - 1 \in 1 .. n /\ v \in Nat /\ (v - 1) + 1 = v
    BY <1>1
  <2>4. p \in 0 .. n /\ p \in 1 .. n
    BY <1>1, <2>2, <2>3
  <2>5. /\ \A w \in v .. n : w \in 0 .. n /\ (w = v \/ w \in v + 1 .. n) /\ w \in 1 .. n
        /\ \A w \in v + 1 .. n : w \in v .. n /\ w # v /\ w > v
        /\ \A x \in 1 .. v - 1 : x # v /\ x \in 0 .. n /\ x \in 1 .. v
    BY <1>1
  <2> QED BY <2>1, <2>2, <2>3, <2>4, <2>5
<1>6. \A x \in 0 .. n : s.bucket[x] \in Seq(1 .. n)
  BY <1>1 DEF States
<1>7. /\ t \in States(n) /\ t.forest = f /\ t.dom = s.dom
      /\ t.bucket = [s.bucket EXCEPT ![k] = <<v>> \o @]
  <2> DEFINE b == <<v>> \o s.bucket[k]
  <2>1. b \in Seq(1 .. n)
    BY <1>1, <1>5, <1>6, ItemsPrepended
  <2>2. t = [s EXCEPT !.forest = f, !.bucket[k] = b] /\ s.bucket[k] = s.bucket[k]
    OBVIOUS
  <2> HIDE DEF b, t
  <2>3. t \in States(n) /\ t.forest = f /\ t.dom = s.dom /\ t.bucket = [s.bucket EXCEPT ![k] = b]
    BY <1>1, <1>5, <2>1, <2>2 DEF States
  <2> QED BY <2>3 DEF b
<1> HIDE DEF t
<1>8. \A x \in 0 .. n : Items(t.bucket[x]) = IF x = k THEN {v} \cup Items(s.bucket[x]) ELSE Items(s.bucket[x])
  <2>1. Items(<<v>> \o s.bucket[k]) = {v} \cup Items(s.bucket[k])
    BY <1>1, <1>5, <1>6, ItemsPrepended
  <2>2. \A x \in 0 .. n : t.bucket[x] = IF x = k THEN <<v>> \o s.bucket[k] ELSE s.bucket[x]
    BY <1>1, <1>7 DEF States
  <2> QED BY <2>1, <2>2
<1> HIDE DEF key, keyNew
<1>9. /\ \A x \in 0 .. n : keyNew[x] = IF x = v THEN k ELSE key[x]
      /\ keyNew \in [0 .. n -> 0 .. n] /\ SameAfter(n, v, key, keyNew)
      /\ \A w \in v + 1 .. n : keyNew[w] = key[w] /\ keyNew[w] \in 0 .. n
      /\ keyNew[v] = k
  <2>1. \A x \in 0 .. n : keyNew[x] = IF x = v THEN k ELSE key[x]
    BY <1>3 DEF Advanced, key, keyNew
  <2>2. keyNew \in [0 .. n -> 0 .. n]
    BY <1>5 DEF keyNew, Forests
  <2>3. \A x \in 1 .. n : x > v => x \in 0 .. n /\ x # v
    BY <1>1
  <2>4. SameAfter(n, v, key, keyNew)
    BY <1>1, <1>5, <2>1, <2>3 DEF SameAfter
  <2> QED BY <1>5, <2>1, <2>2, <2>4
<1>10. ASSUME NEW x \in 0 .. n, NEW w \in Items(t.bucket[x]) PROVE w \in v .. n /\ keyNew[w] = x
  <2>1. (w = v /\ x = k) \/ w \in Items(s.bucket[x])
    BY <1>8
  <2>2. ASSUME w \in Items(s.bucket[x]) PROVE w \in v .. n /\ keyNew[w] = x
    <3>1. w \in v + 1 .. n /\ key[w] = x
      BY <1>1, <2>2 DEF InBucket
    <3> QED BY <1>5, <1>9, <3>1
  <2> QED BY <1>5, <1>9, <2>1, <2>2
<1>11. \A x \in 1 .. v - 1 : keyNew[x] = x
  BY <1>1, <1>5, <1>9
<1>12. /\ Settling(n, v - 1, root, best, p, t, Items(t.bucket[p]), r)
       /\ \A x \in 0 .. n : r.bucket[x] = IF x = p THEN << >> ELSE t.bucket[x]
  <2>1. Items(t.bucket[p]) \subseteq (v - 1) + 1 .. n
    BY <1>5, <1>10
  <2>2. Linked(t.forest, n, v - 1, root, best) /\ OwnKeys(t.forest.key, v - 1)
    BY <1>4, <1>7, <1>11 DEF keyNew, OwnKeys
  <2>3. t \in States(n) /\ p \in 0 .. n
    BY <1>5, <1>7
  <2>4. Emptying(n, v - 1, root, best, p, t, r)
    BY <2>1, <2>2, <2>3, EmptiedIs
  <2> HIDE DEF r
  <2> QED BY <2>4 DEF Emptying
<1> HIDE DEF r
<1>13. /\ r \in States(n) /\ Linked(r.forest, n, v - 1, root, best) /\ r.forest.key = keyNew
       /\ \A x \in 0 .. n : r.dom[x] = IF x \in Items(t.bucket[p]) THEN Found(keyNew, best, p, x) ELSE s.dom[x]
  BY <1>7, <1>12 DEF Settling, keyNew
<1>14. \A w \in v .. n : KeyIs(n, parent, E, keyNew, w)
  <2>1. KeyIs(n, parent, E, keyNew, v)
    BY <1>3 DEF Advanced, keyNew
  <2>2. ASSUME NEW w \in v + 1 .. n PROVE KeyIs(n, parent, E, keyNew, w)
    <3>1. LeastSource(n, parent, E, key, key[w], w)
      BY <1>1 DEF KeyIs, LeastSource
    <3>2. w \in 1 .. n /\ w >= v
      BY <1>1
    <3>3. LeastSource(n, parent, E, keyNew, key[w], w)
      BY <1>9, <3>1, <3>2, SourcesSame
    <3> QED BY <1>9, <3>3 DEF KeyIs, LeastSource
  <2> QED BY <1>5, <2>1, <2>2
<1>15. ASSUME NEW x \in 0 .. n, NEW w \in Items(r.bucket[x]) PROVE InBucket(n, parent, keyNew, v - 1, x, w)
  <2>1. x # p /\ w \in Items(t.bucket[x])
    <3>1. Items(<< >>) = {}
      BY DEF Items
    <3> QED BY <1>12, <1>15, <3>1
  <2>2. w \in v .. n /\ keyNew[w] = x
    BY <1>10, <2>1
  <2>3. ASSUME NEW u \in Line(n, parent, w), u > v - 1, parent[u] = x PROVE FALSE
    <3>0. u \in 1 .. n
      BY DEF Line
    <3>1. u # v
      BY <2>1, <2>3 DEF p
    <3>2. u > v
      BY <1>1, <2>3, <3>0, <3>1
    <3>3. CASE w = v
      <4>1. v \in 1 .. n
        BY <1>1
      <4>2. u <= v
        BY <1>5, <3>3, <4>1, LineIs
      <4> QED BY <1>1, <3>0, <3>2, <4>2
    <3>4. CASE w # v
      <4>1. w \in Items(s.bucket[x])
        BY <1>8, <2>1, <3>4
      <4> QED BY <1>1, <2>3, <3>2, <4>1 DEF InBucket
    <3> QED BY <3>3, <3>4
  <2> QED BY <1>5, <2>2, <2>3 DEF InBucket
<1>16. ASSUME NEW w \in v .. n
       PROVE  \/ w \in Items(r.bucket[keyNew[w]])
              \/ SettledAt(n, parent, keyNew, r.dom, v - 1, w)
  <2>0. w \in 0 .. n /\ keyNew[w] \in 0 .. n
    BY <1>5, <1>9
  <2>1. CASE w \in Items(t.bucket[p])
    <3>1. keyNew[w] = parent[v] /\ r.dom[w] = Found(keyNew, best, parent[v], w)
      BY <1>5, <1>10, <1>13, <2>0, <2>1 DEF p
    <3>2. SettledAt(n, parent, keyNew, r.dom, v - 1, w)
      BY <1>4, <1>5, <1>9, <3>1, SettlesAt
    <3> QED BY <3>2
  <2>2. CASE w \notin Items(t.bucket[p])
    <3>1. r.dom[w] = s.dom[w]
      BY <1>13, <2>0, <2>2
    <3>2. CASE w \in Items(t.bucket[keyNew[w]])
      <4>1. keyNew[w] # p
        BY <2>2, <3>2
      <4> QED BY <1>12, <2>0, <3>2, <4>1
    <3>3. CASE w \notin Items(t.bucket[keyNew[w]])
      <4>1. w # v /\ w \in v + 1 .. n
        BY <1>5, <1>8, <1>9, <3>3
      <4>2. keyNew[w] = key[w]
        BY <1>9, <4>1
      <4>3. w \notin Items(s.bucket[key[w]])
        BY <1>8, <2>0, <3>3, <4>2
      <4>4. SettledAt(n, parent, key, s.dom, v, w)
        BY <1>1, <4>1, <4>3
      <4>5. SettledAt(n, parent, keyNew, r.dom, v - 1, w)
        BY <1>5, <1>9, <3>1, <4>1, <4>4, StaysSettled
      <4> QED BY <4>5
    <3> QED BY <3>2, <3>3
  <2> QED BY <2>1, <2>2
<1>17. InLoop(n, parent, E, r, v - 1)
  <2>1. \E q, b : Linked(r.forest, n, v - 1, q, b) /\ Sees(n, parent, r.forest.key, v - 1, q, b)
    BY <1>4, <1>13
  <2> QED BY <1>1, <1>5, <1>11, <1>13, <1>14, <1>15, <1>16, <2>1 DEF InLoop
<1> QED BY <1>2, <1>17

LEMMA StepsIs ==
  ASSUME NEW n, NEW parent, NEW E, NEW preds, Searched(n, parent, E),
         \A v \in 2 .. n : PredsOf(n, E, v, preds[v])
  PROVE  InLoop(n, parent, E, Steps(n, parent, preds), 1)
<1> DEFINE m == n - 1
           x == [forest |-> Forest(n), bucket |-> [y \in 0 .. n |-> << >>], dom |-> [y \in 0 .. n |-> 0]]
           Body(i, s) == Stepped(s, n + 1 - i, parent[n + 1 - i], preds[n + 1 - i])
           Known(i, s) == InLoop(n, parent, E, s, n - i)
           I == [i \in 0 .. m |-> {s \in States(n) : Known(i, s)}]
           F == [i \in 1 .. m |-> [s \in I[i - 1] |-> Body(i, s)]]
           D == CHOOSE s : s = [i \in 0 .. n - 1 |-> IF i = 0 THEN x
                                  ELSE Stepped(s[i - 1], n + 1 - i, parent[n + 1 - i], preds[n + 1 - i])]
<1>0. n \in Nat /\ n \in Nat \ {0} /\ m \in Nat /\ n \in 1 .. n
  <2>1. n \in Nat /\ n >= 1
    BY SearchedIs
  <2> QED BY <2>1
<1>1. Steps(n, parent, preds) = D[m]
  BY DEF Steps
<1>2. x \in I[0]
  <2> DEFINE r == [y \in 1 .. n |-> y]
  <2>1. Linked(Forest(n), n, n, r, r)
    BY <1>0, ForestIs
  <2> HIDE DEF r
  <2>2. /\ x \in States(n) /\ x.forest = Forest(n)
        /\ \A y \in 0 .. n : x.bucket[y] = << >>
    <3>1. Forest(n) \in Forests(n)
      BY <2>1 DEF Linked
    <3>2. << >> \in Seq(1 .. n)
      OBVIOUS
    <3>3. [y \in 0 .. n |-> << >>] \in [0 .. n -> Seq(1 .. n)] /\ [y \in 0 .. n |-> 0] \in [0 .. n -> 0 .. n]
      BY <1>0, <3>2
    <3> QED BY <3>1, <3>3 DEF States
  <2> HIDE DEF x
  <2>3. \A y \in 1 .. n : x.forest.key[y] = y
    <3>1. \A y \in 1 .. n : y \in 0 .. n
      BY <1>0
    <3> QED BY <2>2, <3>1 DEF Forest
  <2>4. \A w : w \notin n + 1 .. n
    BY <1>0
  <2>5. \A y \in 0 .. n : \A w : w \notin Items(x.bucket[y])
    BY <2>2 DEF Items
  <2>6. Sees(n, parent, x.forest.key, n, r, r)
    BY <2>4 DEF Sees
  <2>7. \E root, best : Linked(x.forest, n, n, root, best) /\ Sees(n, parent, x.forest.key, n, root, best)
    BY <2>1, <2>2, <2>6
  <2>8. InLoop(n, parent, E, x, n)
    BY <1>0, <2>2, <2>3, <2>4, <2>5, <2>7 DEF InLoop
  <2>9. Known(0, x)
    <3>1. n - 0 = n
      BY <1>0
    <3> QED BY <2>8, <3>1
  <2>10. 0 \in 0 .. m
    BY <1>0
  <2> HIDE DEF Known, m
  <2> QED BY <2>2, <2>9, <2>10
<1>3. ASSUME NEW i \in 1 .. m, NEW s \in I[i - 1] PROVE Body(i, s) \in I[i]
  <2>1. /\ i - 1 \in 0 .. m /\ i \in 0 .. m /\ n + 1 - i \in 2 .. n /\ n + 1 - i # 1
        /\ n - (i - 1) = n + 1 - i /\ (n + 1 - i) - 1 = n - i
    BY <1>0
  <2> DEFINE v == n + 1 - i
             t == Stepped(s, v, parent[v], preds[v])
  <2>2. Known(i - 1, s)
    <3> HIDE DEF Known, m
    <3> QED BY <2>1
  <2>3. InLoop(n, parent, E, s, v) /\ v # 1 /\ PredsOf(n, E, v, preds[v])
    BY <2>1, <2>2
  <2>4. v - 1 = n - i
    BY <2>1
  <2> HIDE DEF v
  <2>5. InLoop(n, parent, E, t, v - 1)
    BY <2>3, SteppedIs
  <2> HIDE DEF t
  <2>6. Known(i, t) /\ t \in States(n)
    BY <2>4, <2>5 DEF InLoop
  <2> HIDE DEF Known
  <2>7. t \in I[i]
    BY <2>1, <2>6
  <2>8. t = Body(i, s)
    BY DEF t, v
  <2> HIDE DEF Body, I
  <2> QED BY <2>7, <2>8
<1> HIDE DEF Known, x
<1>4. m = n - 1
  OBVIOUS
<1> HIDE DEF m
<1>7. PICK h : Iterates(h, m, x, F, I)
  <2>1. \A i \in 1 .. m : \A a \in I[i - 1] : F[i][a] \in I[i]
    <3> HIDE DEF Body, I
    <3>1. \A i \in 1 .. m : \A a \in I[i - 1] : F[i][a] = Body(i, a)
      OBVIOUS
    <3> HIDE DEF F
    <3> QED BY <1>3, <3>1
  <2> HIDE DEF F, I
  <2> QED BY <1>0, <1>2, <2>1, Loop
<1>8. h = [i \in 0 .. m |-> IF i = 0 THEN x ELSE Body(i, h[i - 1])]
  <2> HIDE DEF Body, I
  <2>1. \A i \in 1 .. m : h[i] = Body(i, h[i - 1])
    <3>1. \A i \in 1 .. m : h[i - 1] \in I[i - 1] /\ h[i] = F[i][h[i - 1]]
      BY <1>7 DEF Iterates
    <3> QED BY <3>1
  <2>2. \A i \in 0 .. m : i # 0 => i \in 1 .. m
    BY <1>0
  <2> HIDE DEF F
  <2> QED BY <1>7, <2>1, <2>2 DEF Iterates
<1>9. D = [i \in 0 .. m |-> IF i = 0 THEN x ELSE Body(i, D[i - 1])]
  BY <1>8 DEF m
<1> HIDE DEF D
<1>10. \A i \in 0 .. m : D[i] \in I[i]
  <2> HIDE DEF I, Body
  <2>1. D[0] = x
    BY <1>0, <1>9
  <2>2. ASSUME NEW i \in 1 .. m, D[i - 1] \in I[i - 1] PROVE D[i] \in I[i]
    <3>1. D[i] = Body(i, D[i - 1])
      <4>1. i \in 0 .. m /\ i # 0
        BY <1>0
      <4> QED BY <1>9, <4>1
    <3> QED BY <1>3, <2>2, <3>1
  <2> QED BY <1>0, <1>2, <2>1, <2>2, Iterated
<1>11. Known(m, D[m])
  <2>1. m \in 0 .. m
    BY <1>0
  <2> QED BY <1>10, <2>1
<1>12. n - m = 1
  BY <1>0 DEF m
<1> QED BY <1>1, <1>11, <1>12 DEF Known

\* Whatever is on a line behind a vertex has a child on it.
LEMMA ChildOnLine ==
  ASSUME NEW n, NEW parent, Rooted(n, parent), NEW y \in 1 .. n, NEW x \in Line(n, parent, y), x # y
  PROVE  \E u \in Line(n, parent, y) : u # 1 /\ u > x /\ parent[u] = x
<1> DEFINE L(z) == Line(n, parent, z)
           S == {z \in 1 .. n : \A a \in L(z) : a # z => \E u \in L(z) : u # 1 /\ u > a /\ parent[u] = a}
<1>0. n \in Nat
  BY DEF Rooted
<1>1. ASSUME NEW z \in 1 .. n, \A b \in 1 .. z - 1 : b \in S PROVE z \in S
  <2> SUFFICES ASSUME NEW a \in L(z), a # z PROVE \E u \in L(z) : u # 1 /\ u > a /\ parent[u] = a
    OBVIOUS
  <2>1. z # 1
    BY LineStep
  <2>2. /\ parent[z] \in 1 .. n /\ parent[z] < z /\ L(z) = {z} \cup L(parent[z])
        /\ z \in L(z)
    BY <2>1, LineStep
  <2>3. parent[z] \in S
    <3>1. parent[z] \in 1 .. z - 1
      BY <2>2
    <3> QED BY <1>1, <3>1
  <2>4. CASE a = parent[z]
    BY <2>1, <2>2, <2>4
  <2>5. CASE a # parent[z]
    <3>1. a \in L(parent[z])
      BY <2>2
    <3>2. PICK u \in L(parent[z]) : u # 1 /\ u > a /\ parent[u] = a
      BY <2>3, <2>5, <3>1
    <3> QED BY <2>2, <3>2
  <2> QED BY <2>4, <2>5
<1> HIDE DEF S
<1>2. y \in S
  BY <1>0, <1>1, Upwards
<1> QED BY <1>2 DEF S

\* When all are done none is left in a bucket.
LEMMA AllSettled ==
  ASSUME NEW n, NEW parent, NEW E, NEW s, Searched(n, parent, E), InLoop(n, parent, E, s, 1)
  PROVE  /\ s \in States(n) /\ Keyed(n, parent, E, s.forest.key)
         /\ \A w \in 2 .. n : Settled(n, parent, s.forest.key, s.dom, w)
<1> DEFINE key == s.forest.key
<1>1. /\ n \in Nat /\ s \in States(n)
      /\ \A w \in 2 .. n : KeyIs(n, parent, E, key, w)
      /\ \A x \in 0 .. n : \A w \in Items(s.bucket[x]) : InBucket(n, parent, key, 1, x, w)
      /\ \A w \in 2 .. n : w \in Items(s.bucket[key[w]]) \/ SettledAt(n, parent, key, s.dom, 1, w)
  BY DEF InLoop
<1>2. key \in [0 .. n -> 0 .. n]
  BY <1>1 DEF States, Forests
<1> HIDE DEF key
<1>3. Keyed(n, parent, E, key)
  BY <1>1, <1>2 DEF Keyed
<1>4. ASSUME NEW w \in 2 .. n PROVE Settled(n, parent, key, s.dom, w)
  <2>1. w \in 1 .. n /\ w # 1 /\ w \in 0 .. n
    BY <1>1
  <2>2. ASSUME w \in Items(s.bucket[key[w]]) PROVE FALSE
    <3>1. InBucket(n, parent, key, 1, key[w], w)
      BY <1>1, <1>2, <2>1, <2>2
    <3>2. key[w] \in Line(n, parent, parent[w]) /\ key[w] < w
      BY <1>3, KeyAbove
    <3>3. key[w] \in Line(n, parent, w) /\ key[w] # w
      <4>1. Line(n, parent, w) = {w} \cup Line(n, parent, parent[w])
        BY <2>1, SearchedIs, LineStep
      <4>2. key[w] \in Int /\ w \in Int
        BY <1>2, <2>1
      <4> QED BY <3>2, <4>1, <4>2
    <3>4. PICK u \in Line(n, parent, w) : u # 1 /\ u > key[w] /\ parent[u] = key[w]
      BY <2>1, <3>3, SearchedIs, ChildOnLine
    <3>5. u > 1
      <4>1. u \in 1 .. n
        BY DEF Line
      <4> QED BY <3>4, <4>1
    <3> QED BY <3>1, <3>4, <3>5 DEF InBucket
  <2> QED BY <1>1, <2>2 DEF SettledAt
<1> QED BY <1>1, <1>3, <1>4 DEF key

\* The dominators of a numbered graph.
LEMMA StepsFind ==
  ASSUME NEW n, NEW parent, NEW E, NEW preds, Searched(n, parent, E),
         \A v \in 2 .. n : PredsOf(n, E, v, preds[v]),
         NEW w \in 2 .. n
  PROVE  Nearest(n, E, Explicit(Steps(n, parent, preds).dom, Steps(n, parent, preds).forest.key, n)[w], w)
<1> DEFINE s == Steps(n, parent, preds)
           key == s.forest.key
           dom == s.dom
           X == Explicit(dom, key, n)
           S == {x \in 1 .. n : x # 1 => Nearest(n, E, X[x], x)}
<1>1. s \in States(n) /\ Keyed(n, parent, E, key) /\ \A x \in 2 .. n : Settled(n, parent, key, dom, x)
  BY StepsIs, AllSettled
<1>2. n \in Nat /\ dom \in [0 .. n -> 0 .. n]
  BY <1>1, SearchedIs DEF States
<1> HIDE DEF key, dom, s
<1>3. ASSUME NEW x \in 2 .. n
      PROVE  \/ dom[x] = key[x] /\ Nearest(n, E, key[x], x)
             \/ /\ dom[x] \in 2 .. x - 1 /\ dom[x] # key[x]
                /\ \A d : Nearest(n, E, d, dom[x]) => Nearest(n, E, d, x)
  <2>1. PICK k \in 1 .. n : /\ LeastOnWay(n, parent, key, k, x)
                            /\ dom[x] = IF key[k] < key[x] THEN k ELSE key[x]
    BY <1>1 DEF Settled
  <2>2. /\ key[k] >= key[x] => Nearest(n, E, key[x], x)
        /\ key[k] < key[x] => /\ k \in 2 .. x - 1 /\ k # key[x]
                              /\ \A d : Nearest(n, E, d, k) => Nearest(n, E, d, x)
    BY <1>1, <2>1, NearestIs
  <2>3. key[k] \in Int /\ key[x] \in Int
    <3>1. x \in 1 .. n
      BY <1>2
    <3> QED BY <1>1, <3>1, KeyedIs
  <2>4. key[k] < key[x] \/ (key[k] >= key[x] /\ ~(key[k] < key[x]))
    BY <2>3
  <2> QED BY <2>1, <2>2, <2>4
<1>4. \A x \in 2 .. n : X[x] = IF dom[x] = key[x] THEN dom[x] ELSE X[dom[x]]
  <2>1. \A x \in 2 .. n : dom[x] # key[x] => dom[x] < x
    BY <1>2, <1>3
  <2>2. Followed(n, dom, key, X)
    BY <1>2, <2>1, ExplicitIs
  <2> HIDE DEF X
  <2> QED BY <2>2 DEF Followed
<1> HIDE DEF X
<1>5. ASSUME NEW x \in 1 .. n, \A y \in 1 .. x - 1 : y \in S PROVE x \in S
  <2> SUFFICES ASSUME x # 1 PROVE Nearest(n, E, X[x], x)
    OBVIOUS
  <2>1. x \in 2 .. n
    BY <1>2
  <2>2. CASE dom[x] = key[x] /\ Nearest(n, E, key[x], x)
    BY <1>4, <2>1, <2>2
  <2>3. CASE /\ dom[x] \in 2 .. x - 1 /\ dom[x] # key[x]
             /\ \A d : Nearest(n, E, d, dom[x]) => Nearest(n, E, d, x)
    <3>1. dom[x] \in 1 .. x - 1 /\ dom[x] # 1
      BY <2>3
    <3>2. Nearest(n, E, X[dom[x]], dom[x])
      BY <1>5, <3>1
    <3> QED BY <1>4, <2>1, <2>3, <3>2
  <2> QED BY <1>3, <2>1, <2>2, <2>3
<1> HIDE DEF S
<1>6. w \in S /\ w # 1
  <2>1. w \in 1 .. n /\ w # 1
    BY <1>2
  <2> QED BY <1>2, <1>5, <2>1, Upwards
<1> QED BY <1>6 DEF S, X, key, dom, s

-----------------------------------------------------------------------------
(***************************************************************************)
(* The search. The vertices on the way up from the last one are those      *)
(* whose calls have not returned.                                          *)
(***************************************************************************)
LEMMA LineGrown ==
  ASSUME NEW m, NEW parent, Rooted(m, parent), NEW q, Rooted(m + 1, q), \A x \in 1 .. m : q[x] = parent[x],
         NEW x \in 1 .. m
  PROVE  Line(m + 1, q, x) = Line(m, parent, x)
<1> DEFINE S == {y \in 1 .. m : Line(m + 1, q, y) = Line(m, parent, y)}
<1>0. m \in Nat /\ \A y \in 1 .. m : y \in 1 .. m + 1
  BY DEF Rooted
<1>1. ASSUME NEW y \in 1 .. m, \A z \in 1 .. y - 1 : z \in S PROVE y \in S
  <2>1. CASE y = 1
    <3>1. Line(m + 1, q, y) = {1} /\ Line(m, parent, y) = {1}
      BY <1>0, <2>1, LineStep
    <3> QED BY <3>1
  <2>2. CASE y # 1
    <3>1. parent[y] \in 1 .. m /\ parent[y] < y /\ Line(m, parent, y) = {y} \cup Line(m, parent, parent[y])
      BY <2>2, LineStep
    <3>2. Line(m + 1, q, y) = {y} \cup Line(m + 1, q, q[y])
      BY <1>0, <2>2, LineStep
    <3>3. parent[y] \in S
      <4>1. parent[y] \in 1 .. y - 1
        BY <3>1
      <4> QED BY <1>1, <4>1
    <3>4. q[y] = parent[y]
      OBVIOUS
    <3> QED BY <3>1, <3>2, <3>3, <3>4
  <2> QED BY <2>1, <2>2
<1> HIDE DEF S
<1>2. x \in S
  BY <1>0, <1>1, Upwards
<1> QED BY <1>2 DEF S

\* d is a search with m visits.
Visiting(V, E, entry, m, d) ==
  /\ m \in Nat \ {0} /\ Len(d.at) = m /\ d.at \in Seq(V) /\ d.at[1] = entry
  /\ \A x, y \in 1 .. m : d.at[x] = d.at[y] => x = y
  /\ d.parent \in Seq(Nat) /\ Len(d.parent) = m /\ Rooted(m, d.parent)
  /\ \A x \in 2 .. m : <<d.at[d.parent[x]], d.at[x]>> \in E
  /\ d.open = Line(m, d.parent, m)
  /\ \A i \in 1 .. m : i \notin d.open => Unvisited(d, E, i) = {}
  /\ \A x, y \in 1 .. m : x < y /\ <<d.at[x], d.at[y]>> \in E => x \in Line(m, d.parent, y)
  /\ \A y \in 1 .. m : \A a \in Line(m, d.parent, y) : \A x \in a .. y : a \in Line(m, d.parent, x)

LEMMA UnvisitedIs ==
  ASSUME NEW V, NEW E \in SUBSET (V \X V), NEW d, d.at \in Seq(V), NEW i, NEW w
  PROVE  w \in Unvisited(d, E, i)
           <=> <<d.at[i], w>> \in E /\ \A x \in 1 .. Len(d.at) : d.at[x] # w
<1>1. DOMAIN d.at = 1 .. Len(d.at)
  OBVIOUS
<1>2. w \in Range(d.at) <=> \E x \in 1 .. Len(d.at) : d.at[x] = w
  BY <1>1 DEF Range
<1>3. w \in Unvisited(d, E, i) <=> \E e \in E : e[1] = d.at[i] /\ e[2] \notin Range(d.at) /\ w = e[2]
  BY DEF Unvisited
<1>4. \A e \in E : e = <<e[1], e[2]>>
  OBVIOUS
<1> QED BY <1>2, <1>3, <1>4

LEMMA VisitIs ==
  ASSUME NEW V, NEW E \in SUBSET (V \X V), NEW entry, NEW m, NEW d, Visiting(V, E, entry, m, d),
         Calling(d, E) # {}
  PROVE  Visiting(V, E, entry, m + 1, Visit(d, E))
<1> DEFINE i == Max(Calling(d, E))
           w == CHOOSE y \in Unvisited(d, E, i) : TRUE
           at == Append(d.at, w)
           q == Append(d.parent, i)
           open == {j \in d.open : j <= i} \cup {Len(d.at) + 1}
           e == [at |-> at, parent |-> q, open |-> open]
           L(x) == Line(m, d.parent, x)
           K(x) == Line(m + 1, q, x)
<1>1. /\ m \in Nat \ {0} /\ Len(d.at) = m /\ d.at \in Seq(V) /\ d.at[1] = entry
      /\ \A x, y \in 1 .. m : d.at[x] = d.at[y] => x = y
      /\ d.parent \in Seq(Nat) /\ Len(d.parent) = m /\ Rooted(m, d.parent)
      /\ \A x \in 2 .. m : <<d.at[d.parent[x]], d.at[x]>> \in E
      /\ d.open = L(m)
      /\ \A j \in 1 .. m : j \notin d.open => Unvisited(d, E, j) = {}
      /\ \A x, y \in 1 .. m : x < y /\ <<d.at[x], d.at[y]>> \in E => x \in L(y)
      /\ \A y \in 1 .. m : \A a \in L(y) : \A x \in a .. y : a \in L(x)
  BY DEF Visiting
<1>2. Visit(d, E) = e
  BY DEF Visit
<1>3. /\ m \in Nat /\ m + 1 \in Nat \ {0} /\ m \in 1 .. m /\ 1 \in 1 .. m /\ m + 1 \in 1 .. m + 1
      /\ \A x \in 1 .. m + 1 : x = m + 1 \/ x \in 1 .. m
      /\ \A x \in 1 .. m : x \in 1 .. m + 1 /\ x # m + 1 /\ x < m + 1 /\ x \in Nat
      /\ \A x \in 2 .. m + 1 : x = m + 1 \/ x \in 2 .. m
      /\ \A x \in 2 .. m : x \in 1 .. m /\ d.parent[x] \in 1 .. x - 1 /\ d.parent[x] \in 1 .. m
  <2>1. \A x \in 2 .. m : d.parent[x] \in 1 .. x - 1
    BY <1>1 DEF Rooted
  <2> QED BY <1>1, <2>1
<1>4. \A x \in 1 .. m : L(x) \subseteq 1 .. m /\ x \in L(x)
  BY <1>1, LineStep
<1>5. /\ i \in Calling(d, E) /\ \A j \in Calling(d, E) : j <= i
      /\ i \in L(m) /\ i \in 1 .. m /\ i \in Nat /\ Unvisited(d, E, i) # {}
  <2> DEFINE C == Calling(d, E)
  <2>1. C \subseteq L(m) /\ C \subseteq 1 .. m /\ \A j \in C : Unvisited(d, E, j) # {}
    BY <1>1, <1>3, <1>4 DEF Calling
  <2>2. IsFiniteSet(C) /\ C \in SUBSET Int
    <3> DEFINE T == 1 .. m
    <3>1. IsFiniteSet(T) /\ T \in SUBSET Int
      BY <1>3, FS_Interval
    <3>2. C \in SUBSET T
      BY <2>1
    <3> HIDE DEF C, T
    <3>3. IsFiniteSet(C)
      BY <3>1, <3>2, FS_Subset
    <3> QED BY <3>1, <3>2, <3>3
  <2>3. Max(C) \in C /\ \A j \in C : Max(C) >= j
    <3> HIDE DEF C
    <3>1. C # {}
      BY DEF C
    <3> QED BY <2>2, <3>1, MaxIsGreatest
  <2>4. \A j \in C : j <= Max(C)
    <3> HIDE DEF C
    <3> QED BY <2>2, <2>3
  <2> QED BY <1>3, <2>1, <2>3, <2>4
<1> HIDE DEF i, L
<1>6. w \in Unvisited(d, E, i)
  BY <1>5
<1> HIDE DEF w
<1>7. <<d.at[i], w>> \in E /\ w \in V /\ \A x \in 1 .. m : d.at[x] # w
  <2>1. <<d.at[i], w>> \in E /\ \A x \in 1 .. m : d.at[x] # w
    BY <1>1, <1>6, UnvisitedIs
  <2> QED BY <2>1
<1>8. /\ at \in Seq(V) /\ Len(at) = m + 1 /\ at[m + 1] = w
      /\ \A x \in 1 .. m : at[x] = d.at[x]
  BY <1>1, <1>7, AppendProperties
<1>9. /\ q \in Seq(Nat) /\ Len(q) = m + 1 /\ q[m + 1] = i
      /\ \A x \in 1 .. m : q[x] = d.parent[x]
  BY <1>1, <1>5, AppendProperties
<1> HIDE DEF at, q
<1>10. Rooted(m + 1, q)
  <2>1. \A x \in 2 .. m + 1 : q[x] \in 1 .. x - 1
    <3> TAKE x \in 2 .. m + 1
    <3>1. CASE x = m + 1
      BY <1>3, <1>5, <1>9, <3>1
    <3>2. CASE x \in 2 .. m
      BY <1>3, <1>9, <3>2
    <3> QED BY <1>3, <3>1, <3>2
  <2>2. q \in [1 .. m + 1 -> 0 .. m + 1]
    <3>1. q[1] \in 0 .. m + 1
      <4>1. d.parent[1] \in 0 .. m
        BY <1>1, <1>3 DEF Rooted
      <4>2. q[1] = d.parent[1]
        BY <1>3, <1>9
      <4> QED BY <1>3, <4>1, <4>2
    <3>2. \A x \in 2 .. m + 1 : q[x] \in 0 .. m + 1
      BY <1>3, <2>1
    <3>3. \A x \in 1 .. m + 1 : q[x] \in 0 .. m + 1
      <4>1. \A x \in 1 .. m + 1 : x = 1 \/ x \in 2 .. m + 1
        BY <1>3
      <4> QED BY <3>1, <3>2, <4>1
    <3>4. q \in [1 .. m + 1 -> Nat]
      BY <1>9
    <3> QED BY <3>3, <3>4
  <2> QED BY <1>3, <2>1, <2>2 DEF Rooted
<1>11. \A x \in 1 .. m : K(x) = L(x)
  <2> DEFINE p == d.parent
  <2>1. Rooted(m, p) /\ \A x \in 1 .. m : q[x] = p[x]
    BY <1>1, <1>9
  <2> HIDE DEF p
  <2>2. \A x \in 1 .. m : K(x) = Line(m, p, x)
    BY <1>10, <2>1, LineGrown
  <2> QED BY <2>2 DEF L, p
<1>12. K(m + 1) = {m + 1} \cup L(i)
  <2>1. K(m + 1) = {m + 1} \cup K(q[m + 1])
    <3>1. m + 1 # 1
      BY <1>3
    <3> QED BY <1>3, <1>10, <3>1, LineStep
  <2> QED BY <1>5, <1>9, <1>11, <2>1
<1> HIDE DEF K
<1>13. /\ L(i) \subseteq L(m) /\ \A b \in L(m) : b <= i => b \in L(i)
       /\ \A b \in L(i) : b <= i
  BY <1>1, <1>3, <1>5, LineIs DEF L
<1>14. open = K(m + 1)
  BY <1>1, <1>12, <1>13
<1>15. \A j \in 1 .. m : Unvisited(e, E, j) \subseteq Unvisited(d, E, j)
  <2> SUFFICES ASSUME NEW j \in 1 .. m, NEW y \in Unvisited(e, E, j) PROVE y \in Unvisited(d, E, j)
    OBVIOUS
  <2>0. e.at = at /\ e.at \in Seq(V) /\ Len(e.at) = m + 1
    BY <1>8
  <2> HIDE DEF e
  <2>1. <<at[j], y>> \in E /\ \A x \in 1 .. m + 1 : at[x] # y
    <3>1. <<e.at[j], y>> \in E /\ \A x \in 1 .. Len(e.at) : e.at[x] # y
      BY <2>0, UnvisitedIs
    <3> QED BY <2>0, <3>1
  <2>2. <<d.at[j], y>> \in E /\ \A x \in 1 .. m : d.at[x] # y
    BY <1>3, <1>8, <2>1
  <2> QED BY <1>1, <2>2, UnvisitedIs
<1>16. ASSUME NEW j \in 1 .. m + 1, j \notin open PROVE Unvisited(e, E, j) = {}
  <2>1. j \in 1 .. m
    BY <1>1, <1>3, <1>16
  <2>2. Unvisited(d, E, j) = {}
    <3>1. CASE j \notin d.open
      BY <1>1, <2>1, <3>1
    <3>2. CASE j \in d.open
      <4>1. ~(j <= i)
        BY <1>16, <3>2
      <4>2. j \notin Calling(d, E)
        BY <1>5, <4>1
      <4> QED BY <3>2, <4>2 DEF Calling
    <3> QED BY <3>1, <3>2
  <2> QED BY <1>15, <2>1, <2>2
<1>17. \A x, y \in 1 .. m + 1 : at[x] = at[y] => x = y
  BY <1>1, <1>3, <1>7, <1>8
<1>18. ASSUME NEW x \in 2 .. m + 1 PROVE <<at[q[x]], at[x]>> \in E
  <2>1. CASE x = m + 1
    BY <1>5, <1>7, <1>8, <1>9, <2>1
  <2>2. CASE x \in 2 .. m
    BY <1>1, <1>3, <1>8, <1>9, <2>2
  <2> QED BY <1>3, <2>1, <2>2
<1>19. ASSUME NEW x \in 1 .. m + 1, NEW y \in 1 .. m + 1, x < y, <<at[x], at[y]>> \in E PROVE x \in K(y)
  <2>0. x \in 1 .. m
    BY <1>3, <1>19
  <2>1. CASE y = m + 1
    <3>1. at[x] = d.at[x] /\ at[y] = w
      BY <1>8, <2>0, <2>1
    <3>2. w \in Unvisited(d, E, x)
      BY <1>1, <1>7, <1>19, <3>1, UnvisitedIs
    <3>3. x \in d.open
      BY <1>1, <2>0, <3>2
    <3>4. x \in Calling(d, E)
      BY <3>2, <3>3 DEF Calling
    <3> QED BY <1>1, <1>5, <1>12, <1>13, <2>1, <3>3, <3>4
  <2>2. CASE y \in 1 .. m
    BY <1>1, <1>8, <1>11, <1>19, <2>0, <2>2
  <2> QED BY <1>3, <2>1, <2>2
<1>20. ASSUME NEW y \in 1 .. m + 1, NEW a \in K(y), NEW x \in a .. y PROVE a \in K(x)
  <2>1. CASE y \in 1 .. m
    <3>1. a \in L(y) /\ a \in 1 .. m
      BY <1>4, <1>11, <1>20, <2>1
    <3>2. x \in 1 .. m
      BY <1>3, <1>20, <2>1, <3>1
    <3>3. a \in L(x)
      BY <1>1, <1>20, <2>1, <3>1
    <3> QED BY <1>11, <3>2, <3>3
  <2>2. CASE y = m + 1
    <3>1. CASE a = m + 1
      <4>1. x = m + 1
        BY <1>3, <1>20, <2>2, <3>1
      <4> QED BY <1>12, <3>1, <4>1
    <3>2. CASE a \in L(i)
      <4>1. a \in L(m) /\ a \in 1 .. m
        BY <1>3, <1>4, <1>13, <3>2
      <4>2. CASE x = m + 1
        BY <1>12, <3>2, <4>2
      <4>3. CASE x # m + 1
        <5>1. x \in a .. m /\ x \in 1 .. m
          BY <1>3, <1>20, <2>2, <4>1, <4>3
        <5>2. a \in L(x)
          BY <1>1, <1>3, <4>1, <5>1
        <5> QED BY <1>11, <5>1, <5>2
      <4> QED BY <4>2, <4>3
    <3> QED BY <1>12, <1>20, <2>2, <3>1, <3>2
  <2> QED BY <1>3, <2>1, <2>2
<1>21. e.at = at /\ e.parent = q /\ e.open = open
  OBVIOUS
<1>22. at[1] = entry
  BY <1>1, <1>3, <1>8
<1> HIDE DEF e, open
<1>23. Visiting(V, E, entry, m + 1, e)
  BY <1>3, <1>8, <1>9, <1>10, <1>14, <1>16, <1>17, <1>18, <1>19, <1>20, <1>21, <1>22 DEF Visiting, K
<1> QED BY <1>2, <1>23

LEMMA SearchIs ==
  ASSUME NEW V, IsFiniteSet(V), NEW E \in SUBSET (V \X V), NEW entry \in V
  PROVE  /\ \E m : Visiting(V, E, entry, m, Search(V, E, entry))
         /\ Calling(Search(V, E, entry), E) = {}
<1> DEFINE N == Cardinality(V)
           x == [at |-> <<entry>>, parent |-> <<0>>, open |-> {1}]
           Ds == [at : Seq(V), parent : Seq(Nat), open : SUBSET Nat]
           Body(i, d) == Visit(d, E)
           Known(i, d) == \E m : Visiting(V, E, entry, m, d) /\ (Calling(d, E) = {} \/ m = i + 1)
           I == [i \in 0 .. N |-> {d \in Ds : Known(i, d)}]
           F == [i \in 1 .. N |-> [d \in I[i - 1] |-> Body(i, d)]]
           D == CHOOSE s : s = [k \in 0 .. N |-> IF k = 0 THEN x ELSE Visit(s[k - 1], E)]
<1>0. N \in Nat
  BY FS_CardinalityType
<1>1. Search(V, E, entry) = D[N]
  BY DEF Search
<1> HIDE DEF N
<1>2. x \in I[0]
  <2>1. x \in Ds /\ x.at = <<entry>> /\ x.parent = <<0>> /\ x.open = {1}
    <3>1. <<entry>> \in Seq(V) /\ <<0>> \in Seq(Nat) /\ {1} \in SUBSET Nat
      OBVIOUS
    <3> HIDE DEF N
    <3> QED BY <3>1
  <2>2. x.at \in Seq(V) /\ Len(x.at) = 1 /\ x.at[1] = entry
    BY <2>1
  <2>3. x.parent \in Seq(Nat) /\ Len(x.parent) = 1 /\ x.parent[1] = 0 /\ x.parent \in [1 .. 1 -> 0 .. 1]
    BY <2>1
  <2> HIDE DEF x
  <2>4. Rooted(1, x.parent)
    <3>1. \A y : y \notin 2 .. 1
      OBVIOUS
    <3> QED BY <2>3, <3>1 DEF Rooted
  <2>5. Line(1, x.parent, 1) = {1}
    BY <2>4, LineStep
  <2>6. \A y \in 1 .. 1 : y = 1
    OBVIOUS
  <2>7. \A y : y \notin 2 .. 1
    OBVIOUS
  <2>8. \A y \in 1 .. 1 : \A a \in Line(1, x.parent, y) : \A z \in a .. y : a \in Line(1, x.parent, z)
    <3>1. \A z \in 1 .. 1 : z = 1
      OBVIOUS
    <3> QED BY <2>5, <2>6, <3>1
  <2>9. Visiting(V, E, entry, 1, x)
    BY <2>1, <2>2, <2>3, <2>4, <2>5, <2>6, <2>7, <2>8 DEF Visiting
  <2>10. Known(0, x)
    BY <2>9
  <2>11. 0 \in 0 .. N
    BY <1>0
  <2> HIDE DEF Known
  <2> QED BY <2>1, <2>10, <2>11
<1>3. ASSUME NEW i \in 1 .. N, NEW d \in I[i - 1] PROVE Body(i, d) \in I[i]
  <2>1. i - 1 \in 0 .. N /\ i \in 0 .. N /\ (i - 1) + 1 = i
    BY <1>0
  <2>2. d \in Ds /\ Known(i - 1, d)
    <3> HIDE DEF Known
    <3> QED BY <2>1
  <2>3. CASE Calling(d, E) = {}
    <3>1. Body(i, d) = d
      BY <2>3 DEF Visit
    <3>2. Known(i, d)
      BY <2>2, <2>3
    <3> HIDE DEF Known, Body
    <3> QED BY <2>1, <2>2, <3>1, <3>2
  <2>4. CASE Calling(d, E) # {}
    <3> DEFINE e == Visit(d, E)
    <3>1. Visiting(V, E, entry, i, d)
      BY <2>1, <2>2, <2>4
    <3>2. Visiting(V, E, entry, i + 1, e)
      BY <2>4, <3>1, VisitIs
    <3>3. e.at \in Seq(V) /\ e.parent \in Seq(Nat) /\ e.open = Line(i + 1, e.parent, i + 1)
      BY <3>2 DEF Visiting
    <3>4. e.open \in SUBSET Nat
      <4>1. 1 .. i + 1 \subseteq Nat
        OBVIOUS
      <4> HIDE DEF e
      <4> QED BY <3>3, <4>1 DEF Line
    <3>5. e \in Ds
      <4>1. e = [at |-> e.at, parent |-> e.parent, open |-> e.open]
        BY <2>4 DEF Visit
      <4> HIDE DEF e
      <4> QED BY <3>3, <3>4, <4>1
    <3> HIDE DEF e
    <3>6. Known(i, e)
      BY <3>2
    <3> HIDE DEF Known
    <3>7. e \in I[i]
      BY <2>1, <3>5, <3>6
    <3> HIDE DEF I
    <3> QED BY <3>7 DEF e
  <2> QED BY <2>3, <2>4
<1> HIDE DEF Known, x
<1>7. PICK h : Iterates(h, N, x, F, I)
  <2>1. \A i \in 1 .. N : \A a \in I[i - 1] : F[i][a] \in I[i]
    <3> HIDE DEF Body, I
    <3>1. \A i \in 1 .. N : \A a \in I[i - 1] : F[i][a] = Body(i, a)
      OBVIOUS
    <3> HIDE DEF F
    <3> QED BY <1>3, <3>1
  <2> HIDE DEF F, I
  <2> QED BY <1>0, <1>2, <2>1, Loop
<1>8. h = [i \in 0 .. N |-> IF i = 0 THEN x ELSE Body(i, h[i - 1])]
  <2> HIDE DEF Body, I
  <2>1. \A i \in 1 .. N : h[i] = Body(i, h[i - 1])
    <3>1. \A i \in 1 .. N : h[i - 1] \in I[i - 1] /\ h[i] = F[i][h[i - 1]]
      BY <1>7 DEF Iterates
    <3> QED BY <3>1
  <2>2. \A i \in 0 .. N : i # 0 => i \in 1 .. N
    BY <1>0
  <2> HIDE DEF F
  <2> QED BY <1>7, <2>1, <2>2 DEF Iterates
<1>9. D = [i \in 0 .. N |-> IF i = 0 THEN x ELSE Body(i, D[i - 1])]
  BY <1>8
<1> HIDE DEF D
<1>10. \A i \in 0 .. N : D[i] \in I[i]
  <2> HIDE DEF I, Body
  <2>1. D[0] = x
    BY <1>0, <1>9
  <2>2. ASSUME NEW i \in 1 .. N, D[i - 1] \in I[i - 1] PROVE D[i] \in I[i]
    <3>1. D[i] = Body(i, D[i - 1])
      <4>1. i \in 0 .. N /\ i # 0
        BY <1>0
      <4> QED BY <1>9, <4>1
    <3> QED BY <1>3, <2>2, <3>1
  <2> QED BY <1>0, <1>2, <2>1, <2>2, Iterated
<1>11. Known(N, D[N])
  <2>1. N \in 0 .. N
    BY <1>0
  <2> QED BY <1>10, <2>1
<1> DEFINE d == D[N]
<1> HIDE DEF d
<1>12. PICK m : Visiting(V, E, entry, m, d) /\ (Calling(d, E) = {} \/ m = N + 1)
  BY <1>11 DEF d, Known
<1>13. m # N + 1
  <2> SUFFICES ASSUME m = N + 1 PROVE FALSE
    OBVIOUS
  <2> DEFINE S == 1 .. m
             a == d.at
  <2>1. IsFiniteSet(S) /\ Cardinality(S) = N + 1
    BY <1>0, FS_Interval
  <2>2. a \in [S -> V] /\ \A y, z \in S : a[y] = a[z] => y = z
    BY <1>12 DEF Visiting
  <2>3. Cardinality(V) < Cardinality(S)
    BY <1>0, <2>1 DEF N
  <2> HIDE DEF S, a
  <2>4. \E y, z \in S : y # z /\ a[y] = a[z]
    BY <2>1, <2>2, <2>3, FS_PigeonHole
  <2> QED BY <2>2, <2>4
<1> QED BY <1>1, <1>12, <1>13 DEF d

LEMMA SetToSeqIs ==
  ASSUME NEW S, IsFiniteSet(S)
  PROVE  /\ SetToSeq(S) \in Seq(S)
         /\ \A x : x \in S <=> \E i \in 1 .. Len(SetToSeq(S)) : SetToSeq(S)[i] = x
<1> DEFINE N == Cardinality(S)
           J == 1 .. N
           s == SetToSeq(S)
<1>0. N \in Nat /\ ExistsBijection(J, S)
  BY FS_CardinalityType
<1>1. IsFiniteSet(J) /\ Cardinality(J) = N
  BY <1>0, FS_Interval
<1>2. \E f \in [J -> S] : IsInjective(f)
  BY <1>0 DEF ExistsBijection, Bijection, Injection
<1>3. s \in [J -> S] /\ IsInjective(s)
  BY <1>2 DEF SetToSeq
<1> HIDE DEF s
<1>4. s \in Seq(S) /\ Len(s) = N
  BY <1>0, <1>3
<1>5. s \in Surjection(J, S)
  <2> HIDE DEF J
  <2>1. s \in Injection(J, S) /\ IsFiniteSet(S) /\ Cardinality(J) = Cardinality(S)
    BY <1>1, <1>3 DEF Injection
  <2> QED BY <2>1, FS_Injection
<1>6. \A x : x \in S <=> \E i \in J : s[i] = x
  BY <1>3, <1>5 DEF Surjection
<1> QED BY <1>4, <1>6 DEF s

\* The search comes to whatever is reached.
LEMMA SearchWhole ==
  ASSUME NEW V, NEW E \in SUBSET (V \X V), NEW entry \in V, NEW m, NEW d,
         Visiting(V, E, entry, m, d), Calling(d, E) = {}, Reached(V, E, entry, {}) = V,
         NEW v \in V
  PROVE  \E i \in 1 .. m : d.at[i] = v
<1> DEFINE R == {d.at[i] : i \in 1 .. m}
<1>1. /\ m \in Nat \ {0} /\ Len(d.at) = m /\ d.at \in Seq(V) /\ d.at[1] = entry
      /\ d.open = Line(m, d.parent, m) /\ \A i \in 1 .. m : i \notin d.open => Unvisited(d, E, i) = {}
  BY DEF Visiting
<1>2. R \in SUBSET V /\ entry \in R
  <2>1. \A i \in 1 .. m : d.at[i] \in V
    BY <1>1
  <2>2. 1 \in 1 .. m
    BY <1>1
  <2> QED BY <1>1, <2>1, <2>2
<1>3. ASSUME NEW e \in E, e[1] \in R PROVE e[2] \in R
  <2>1. PICK i \in 1 .. m : d.at[i] = e[1]
    BY <1>3
  <2>2. Unvisited(d, E, i) = {}
    BY <1>1 DEF Calling
  <2>3. <<d.at[i], e[2]>> \in E
    <3>1. \A x \in E : x[1] \in V /\ x[2] \in V /\ x = <<x[1], x[2]>>
      OBVIOUS
    <3> QED BY <2>1, <3>1
  <2>4. \E x \in 1 .. Len(d.at) : d.at[x] = e[2]
    BY <1>1, <2>2, <2>3, UnvisitedIs, ZenonT(20)
  <2> QED BY <1>1, <2>4
<1>4. Closed(R, E, entry, {})
  BY <1>2, <1>3 DEF Closed
<1>5. v \in R
  BY <1>2, <1>4 DEF Reached
<1> QED BY <1>5

Numbered(E, at, m) == {e \in (1 .. m) \X (1 .. m) : <<at[e[1]], at[e[2]]>> \in E}

LEMMA VisitingSearched ==
  ASSUME NEW V, NEW E, NEW entry, NEW m, NEW d, Visiting(V, E, entry, m, d)
  PROVE  Searched(m, d.parent, Numbered(E, d.at, m))
<1> DEFINE EN == Numbered(E, d.at, m)
           p == d.parent
<1>1. /\ Rooted(m, p) /\ \A x \in 2 .. m : <<d.at[p[x]], d.at[x]>> \in E
      /\ \A x, y \in 1 .. m : x < y /\ <<d.at[x], d.at[y]>> \in E => x \in Line(m, p, y)
      /\ \A y \in 1 .. m : \A a \in Line(m, p, y) : \A x \in a .. y : a \in Line(m, p, x)
  BY DEF Visiting
<1> HIDE DEF p
<1>2. \A x, y \in 1 .. m : <<x, y>> \in EN <=> <<d.at[x], d.at[y]>> \in E
  BY DEF Numbered
<1>3. EN \in SUBSET ((1 .. m) \X (1 .. m)) /\ \A e \in EN : e[1] \in 1 .. m /\ e[2] \in 1 .. m /\ e = <<e[1], e[2]>>
  BY DEF Numbered
<1> HIDE DEF EN
<1>4. \A x \in 2 .. m : <<p[x], x>> \in EN
  <2> TAKE x \in 2 .. m
  <2>1. x \in 1 .. m /\ p[x] \in 1 .. m
    BY <1>1 DEF Rooted
  <2> QED BY <1>1, <1>2, <2>1
<1>5. ASSUME NEW e \in EN, e[1] < e[2] PROVE e[1] \in Line(m, p, e[2])
  <2> DEFINE x == e[1]
             y == e[2]
  <2>1. x \in 1 .. m /\ y \in 1 .. m /\ <<x, y>> \in EN /\ x < y
    BY <1>3, <1>5
  <2> HIDE DEF x, y
  <2>2. x \in Line(m, p, y)
    BY <1>1, <1>2, <2>1
  <2> QED BY <2>2 DEF x, y
<1>6. Searched(m, p, EN)
  BY <1>1, <1>3, <1>4, <1>5 DEF Searched
<1> QED BY <1>6 DEF p, EN

\* Dominators are the same by numbers.
LEMMA SameDominators ==
  ASSUME NEW V, NEW E \in SUBSET (V \X V), NEW entry \in V, NEW m \in Nat \ {0}, NEW at \in [1 .. m -> V],
         at[1] = entry, \A x, y \in 1 .. m : at[x] = at[y] => x = y, \A v \in V : \E i \in 1 .. m : at[i] = v,
         NEW c \in 1 .. m, NEW w \in 1 .. m
  PROVE  Dominates(V, E, entry, at[c], at[w]) <=> Dominates(1 .. m, Numbered(E, at, m), 1, c, w)
<1> DEFINE J == 1 .. m
           EN == Numbered(E, at, m)
<1>0. 1 \in J
  OBVIOUS
<1>1. \A x, y \in J : <<x, y>> \in EN <=> <<at[x], at[y]>> \in E
  BY DEF Numbered
<1>2. \A e \in EN : e[1] \in J /\ e[2] \in J /\ e = <<e[1], e[2]>>
  BY DEF Numbered
<1> HIDE DEF EN, J
<1>3. /\ \A x \in J : at[x] \in V
      /\ \A x, y \in J : at[x] = at[y] => x = y
      /\ \A v \in V : \E i \in J : at[i] = v
      /\ c \in J /\ w \in J
  BY DEF J
<1>4. ASSUME NEW R \in SUBSET V, Closed(R, E, entry, {at[c]})
      PROVE  \E S \in SUBSET J : Closed(S, EN, 1, {c}) /\ (w \in S => at[w] \in R)
  <2> DEFINE S == {x \in J : at[x] \in R}
  <2>1. 1 \in S \cup {c}
    <3>1. at[1] \in R \/ at[1] = at[c]
      BY <1>4 DEF Closed
    <3> QED BY <1>0, <1>3, <3>1
  <2>2. ASSUME NEW e \in EN, e[1] \in S PROVE e[2] \in S \cup {c}
    <3>1. <<at[e[1]], at[e[2]]>> \in E /\ e[1] \in J /\ e[2] \in J
      BY <1>1, <1>2
    <3>2. at[e[2]] \in R \cup {at[c]}
      BY <1>4, <2>2, <3>1 DEF Closed
    <3> HIDE DEF S
    <3>3. at[e[2]] = at[c] => e[2] = c
      BY <1>3, <3>1, ZenonT(20)
    <3> USE DEF S
    <3> QED BY <3>1, <3>2, <3>3
  <2>3. Closed(S, EN, 1, {c})
    BY <2>1, <2>2 DEF Closed
  <2>4. S \in SUBSET J /\ (w \in S => at[w] \in R)
    OBVIOUS
  <2> QED BY <2>3, <2>4
<1>5. ASSUME NEW S \in SUBSET J, Closed(S, EN, 1, {c})
      PROVE  \E R \in SUBSET V : Closed(R, E, entry, {at[c]}) /\ (at[w] \in R => w \in S)
  <2> DEFINE R == {at[x] : x \in S}
  <2>1. R \in SUBSET V /\ (at[w] \in R => w \in S)
    BY <1>3
  <2>2. entry \in R \cup {at[c]}
    <3>1. 1 \in S \cup {c}
      BY <1>5 DEF Closed
    <3> QED BY <3>1
  <2>3. ASSUME NEW e \in E, e[1] \in R PROVE e[2] \in R \cup {at[c]}
    <3>1. PICK x \in S : at[x] = e[1]
      BY <2>3
    <3>2. PICK y \in J : at[y] = e[2]
      BY <1>3
    <3>3. e = <<at[x], at[y]>>
      BY <3>1, <3>2
    <3>4. <<x, y>> \in EN
      BY <1>1, <3>3
    <3>5. y \in S \cup {c}
      BY <1>5, <3>4 DEF Closed
    <3> QED BY <3>2, <3>5
  <2>4. Closed(R, E, entry, {at[c]})
    BY <2>2, <2>3 DEF Closed
  <2> QED BY <2>1, <2>4
<1>6. at[w] \in Reached(V, E, entry, {at[c]}) <=> w \in Reached(J, EN, 1, {c})
  BY <1>3, <1>4, <1>5 DEF Reached
<1>7. Dominates(V, E, entry, at[c], at[w]) <=> Dominates(J, EN, 1, c, w)
  BY <1>3, <1>6 DEF Dominates
<1> QED BY <1>7 DEF J, EN

\* Two vertices do not dominate each other.
LEMMA OneWay ==
  ASSUME NEW n, NEW parent, NEW E, NEW key, Keyed(n, parent, E, key), NEW c \in 1 .. n, NEW d \in 1 .. n,
         Dominates(1 .. n, E, 1, c, d), Dominates(1 .. n, E, 1, d, c)
  PROVE  c = d
<1>1. n \in Nat
  BY KeyedIs
<1>2. c = d \/ c < d
  BY DominatesIf
<1>3. d = c \/ d < c
  BY DominatesIf
<1> QED BY <1>1, <1>2, <1>3

\* The least of them is the only one.
LEMMA NearestOnly ==
  ASSUME NEW n, NEW parent, NEW E, NEW key, Keyed(n, parent, E, key), NEW w \in 1 .. n,
         NEW d, Nearest(n, E, d, w), NEW c \in 1 .. n, c # w, Dominates(1 .. n, E, 1, c, w),
         \A b \in 1 .. n : b # w /\ Dominates(1 .. n, E, 1, b, w) => Dominates(1 .. n, E, 1, b, c)
  PROVE  c = d
<1>1. n \in Nat
  BY KeyedIs
<1>2. d \in 1 .. n /\ d # w /\ Dominates(1 .. n, E, 1, d, w) /\ Dominates(1 .. n, E, 1, c, d)
  BY <1>1 DEF Nearest
<1>3. Dominates(1 .. n, E, 1, d, c)
  BY <1>2
<1> QED BY <1>2, <1>3, OneWay

\* Every vertex has a number.
Whole(V, d, m) == \A v \in V : \E i \in 1 .. m : d.at[i] = v

\* The vertex numbered x is the immediate dominator of the one numbered w.
ImmediateAt(V, E, entry, d, x, w) == ImmediateDominators(V, E, entry)[d.at[w]] = d.at[x]

\* By name, the immediate dominator is the vertex with the number found.
LEMMA ImmediateNumbered ==
  ASSUME NEW V, NEW E \in SUBSET (V \X V), NEW entry \in V, NEW m, NEW d, Visiting(V, E, entry, m, d),
         Whole(V, d, m),
         NEW key, Keyed(m, d.parent, Numbered(E, d.at, m), key),
         NEW w \in 2 .. m, NEW x, Nearest(m, Numbered(E, d.at, m), x, w)
  PROVE  ImmediateAt(V, E, entry, d, x, w)
<1> DEFINE at == d.at
           EN == Numbered(E, at, m)
           Is(c) == /\ Dominates(V, E, entry, c, at[w])
                    /\ \A b \in V \ {at[w]} : Dominates(V, E, entry, b, at[w]) => Dominates(V, E, entry, b, c)
           Sub(c, y) == Dominates(V, E, entry, c, y)
           Dom(c, y) == Dominates(1 .. m, EN, 1, c, y)
<1>1. /\ m \in Nat \ {0} /\ at \in [1 .. m -> V] /\ at[1] = entry
      /\ \A y, z \in 1 .. m : at[y] = at[z] => y = z
  BY DEF Visiting
<1>2. \A v \in V : \E i \in 1 .. m : at[i] = v
  BY DEF Whole
<1>0. ImmediateAt(V, E, entry, d, x, w) <=> ImmediateDominators(V, E, entry)[at[w]] = at[x]
  BY DEF ImmediateAt
<1> HIDE DEF at
<1>3. \A c, y \in 1 .. m : Sub(at[c], at[y]) <=> Dom(c, y)
  BY <1>1, <1>2, SameDominators
<1>4. Nearest(m, EN, x, w) /\ Keyed(m, d.parent, EN, key)
  BY DEF at
<1>5. /\ x \in 1 .. m /\ x < w /\ Dom(x, w) /\ w \in 1 .. m /\ 1 \in 1 .. m /\ w # 1 /\ x # w
      /\ \A c \in 1 .. m : c # w /\ Dom(c, w) => Dom(c, x)
  <2>1. /\ x \in 1 .. m /\ x < w /\ Dom(x, w)
        /\ \A c \in 1 .. m : c # w /\ Dom(c, w) => Dom(c, x)
    BY <1>4 DEF Nearest
  <2>2. w \in 1 .. m /\ 1 \in 1 .. m /\ w # 1 /\ x # w
    BY <1>1, <2>1
  <2> QED BY <2>1, <2>2
<1> HIDE DEF EN
<1>6. at[w] \in V /\ at[x] \in V \ {at[w]} /\ at[w] # entry
  BY <1>1, <1>5
<1>7. ASSUME NEW c \in 1 .. m, c # w PROVE Is(at[c]) <=> Dom(c, w) /\ \A b \in 1 .. m : b # w /\ Dom(b, w) => Dom(b, c)
  <2>1. ASSUME Is(at[c]) PROVE Dom(c, w) /\ \A b \in 1 .. m : b # w /\ Dom(b, w) => Dom(b, c)
    <3>1. Sub(at[c], at[w]) /\ \A b \in V \ {at[w]} : Sub(b, at[w]) => Sub(b, at[c])
      BY <2>1
    <3> HIDE DEF Sub, Dom, Is
    <3>2. ASSUME NEW b \in 1 .. m, b # w, Dom(b, w) PROVE Dom(b, c)
      <4>1. at[b] \in V \ {at[w]}
        BY <1>1, <1>5, <3>2
      <4> QED BY <1>3, <1>5, <3>1, <3>2, <4>1
    <3> QED BY <1>3, <1>5, <3>1, <3>2
  <2>2. ASSUME Dom(c, w), \A b \in 1 .. m : b # w /\ Dom(b, w) => Dom(b, c) PROVE Is(at[c])
    <3> HIDE DEF Sub, Dom
    <3>1. Sub(at[c], at[w])
      BY <1>3, <1>5, <2>2
    <3>2. ASSUME NEW b \in V \ {at[w]}, Sub(b, at[w]) PROVE Sub(b, at[c])
      <4>1. PICK y \in 1 .. m : at[y] = b
        BY <1>2
      <4> QED BY <1>3, <1>5, <2>2, <3>2, <4>1
    <3> QED BY <3>1, <3>2 DEF Sub
  <2> QED BY <2>1, <2>2
<1>8. Is(at[x])
  BY <1>5, <1>7
<1>9. ASSUME NEW b \in V \ {at[w]}, Is(b) PROVE b = at[x]
  <2>1. PICK c \in 1 .. m : at[c] = b
    BY <1>2
  <2>2. c # w
    BY <2>1
  <2>3. Dom(c, w) /\ \A y \in 1 .. m : y # w /\ Dom(y, w) => Dom(y, c)
    BY <1>7, <1>9, <2>1, <2>2
  <2>4. c = x
    BY <1>4, <1>5, <2>2, <2>3, NearestOnly
  <2> QED BY <2>1, <2>4
<1>10. ImmediateDominators(V, E, entry)[at[w]] = CHOOSE c \in V \ {at[w]} : Is(c)
  BY <1>6 DEF ImmediateDominators
<1> HIDE DEF Is
<1>11. (CHOOSE c \in V \ {at[w]} : Is(c)) = at[x]
  BY <1>6, <1>8, <1>9
<1> QED BY <1>0, <1>10, <1>11

\* dom_info finds the immediate dominators of every graph all of whose
\* vertices are reached from its entry.
THEOREM DominatorsAreRight ==
  ASSUME NEW V, IsFiniteSet(V), NEW E \in SUBSET (V \X V), NEW entry \in V,
         Reached(V, E, entry, {}) = V
  PROVE  DominatorMap(V, E, entry) = ImmediateDominators(V, E, entry)
<1> DEFINE d == Search(V, E, entry)
           n == Len(d.at)
           Number(v) == CHOOSE i \in 1 .. n : d.at[i] = v
           preds == [i \in 1 .. n |-> SetToSeq({Number(e[1]) : e \in {x \in E : x[2] = d.at[i]}})]
           s == Steps(n, d.parent, preds)
           dom == Explicit(s.dom, s.forest.key, n)
           EN == Numbered(E, d.at, n)
<1>1. DominatorMap(V, E, entry) = [v \in V |-> IF v = entry THEN entry ELSE d.at[dom[Number(v)]]]
  BY DEF DominatorMap, DominatorsBy
<1>2. Visiting(V, E, entry, n, d) /\ Calling(d, E) = {}
  <2> HIDE DEF d
  <2>1. PICK m : Visiting(V, E, entry, m, d)
    BY SearchIs DEF d
  <2>2. n = m
    BY <2>1 DEF Visiting
  <2>3. Calling(d, E) = {}
    BY SearchIs DEF d
  <2> QED BY <2>1, <2>2, <2>3
<1> HIDE DEF d
<1>3. /\ n \in Nat \ {0} /\ d.at \in [1 .. n -> V] /\ d.at[1] = entry
      /\ \A x, y \in 1 .. n : d.at[x] = d.at[y] => x = y
  BY <1>2 DEF Visiting
<1>4. \A v \in V : \E i \in 1 .. n : d.at[i] = v
  BY <1>2, SearchWhole
<1> HIDE DEF n
<1>5. \A v \in V : Number(v) \in 1 .. n /\ d.at[Number(v)] = v
  BY <1>4
<1>6. ASSUME NEW i \in 1 .. n, Number(d.at[i]) # i PROVE FALSE
  <2>1. d.at[i] \in V
    BY <1>3
  <2> HIDE DEF Number
  <2> QED BY <1>3, <1>5, <1>6, <2>1
<1> HIDE DEF Number
<1>7. Searched(n, d.parent, EN)
  BY <1>2, VisitingSearched
<1>8. \A x, y \in 1 .. n : <<x, y>> \in EN <=> <<d.at[x], d.at[y]>> \in E
  BY DEF Numbered
<1> HIDE DEF EN
<1>9. ASSUME NEW v \in 2 .. n PROVE PredsOf(n, EN, v, preds[v])
  <2> DEFINE P == {Number(e[1]) : e \in {x \in E : x[2] = d.at[v]}}
             J == 1 .. n
             q == SetToSeq(P)
  <2>0. v \in J
    BY <1>3
  <2>1. \A e \in E : e[1] \in V /\ e[2] \in V /\ e = <<e[1], e[2]>>
    OBVIOUS
  <2>2. P \in SUBSET J
    BY <1>5, <2>1
  <2>3. ASSUME NEW x \in J PROVE x \in P <=> <<x, v>> \in EN
    <3>1. ASSUME x \in P PROVE <<x, v>> \in EN
      <4>1. PICK e \in E : e[2] = d.at[v] /\ x = Number(e[1])
        BY <3>1
      <4>2. e = <<d.at[x], d.at[v]>>
        BY <1>5, <2>1, <4>1
      <4> QED BY <1>8, <2>0, <4>2
    <3>2. ASSUME <<x, v>> \in EN PROVE x \in P
      <4>1. <<d.at[x], d.at[v]>> \in E
        BY <1>8, <2>0, <3>2
      <4>2. x = Number(d.at[x])
        BY <1>6
      <4> QED BY <4>1, <4>2
    <3> QED BY <3>1, <3>2
  <2>4. preds[v] = q
    BY <2>0
  <2> HIDE DEF P, preds, q
  <2>5. IsFiniteSet(P)
    <3>1. IsFiniteSet(J)
      BY <1>3, FS_Interval
    <3> HIDE DEF J
    <3> QED BY <2>2, <3>1, FS_Subset
  <2>6. q \in Seq(P) /\ \A x : x \in P <=> \E i \in 1 .. Len(q) : q[i] = x
    BY <2>5, SetToSeqIs DEF q
  <2>7. q \in Seq(J)
    <3> HIDE DEF J
    <3> QED BY <2>2, <2>6
  <2> QED BY <2>3, <2>4, <2>6, <2>7 DEF PredsOf
<1> HIDE DEF preds
<1>10. Keyed(n, d.parent, EN, s.forest.key)
  BY <1>7, <1>9, StepsIs, AllSettled
<1>11. \A w \in 2 .. n : Nearest(n, EN, dom[w], w)
  BY <1>7, <1>9, StepsFind
<1> HIDE DEF dom, s
<1>12. ASSUME NEW v \in V, v # entry PROVE ImmediateDominators(V, E, entry)[v] = d.at[dom[Number(v)]]
  <2> DEFINE w == Number(v)
  <2>1. w \in 1 .. n /\ d.at[w] = v
    BY <1>5
  <2>2. w # 1
    BY <1>3, <1>12, <2>1
  <2> HIDE DEF w
  <2>3. w \in 2 .. n
    BY <1>3, <2>1, <2>2
  <2>4. ImmediateDominators(V, E, entry)[d.at[w]] = d.at[dom[w]]
    <3> DEFINE k == s.forest.key
               x == dom[w]
    <3>1. Keyed(n, d.parent, Numbered(E, d.at, n), k)
      BY <1>10 DEF EN
    <3>2. Nearest(n, Numbered(E, d.at, n), x, w)
      BY <1>11, <2>3 DEF EN
    <3>3. Visiting(V, E, entry, n, d)
      BY <1>2
    <3>4. Whole(V, d, n)
      BY <1>4 DEF Whole
    <3> HIDE DEF k, x
    <3>5. ImmediateAt(V, E, entry, d, x, w)
      BY <2>3, <3>1, <3>2, <3>3, <3>4, ImmediateNumbered
    <3> QED BY <3>5 DEF x, ImmediateAt
  <2> QED BY <2>1, <2>4 DEF w
<1>13. ImmediateDominators(V, E, entry) = [v \in V |-> ImmediateDominators(V, E, entry)[v]]
  BY DEF ImmediateDominators
<1>14. ImmediateDominators(V, E, entry)[entry] = entry
  BY DEF ImmediateDominators
<1>15. [v \in V |-> IF v = entry THEN entry ELSE d.at[dom[Number(v)]]]
         = [v \in V |-> ImmediateDominators(V, E, entry)[v]]
  BY <1>12, <1>14
<1> QED BY <1>1, <1>13, <1>15
=============================================================================
