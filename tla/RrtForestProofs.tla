--------------------------- MODULE RrtForestProofs ---------------------------
(***************************************************************************)
(* The search of RrtForest, for any road graphs, destinations and bounds:  *)
(* whatever the samples, the hash orders and the graph updates, the trees  *)
(* are trees of the present graph with exact frontiers, the links between  *)
(* them are ways, and the disjoint sets hold their components.  First one  *)
(* tree alone: what the operations of rrt/tree.rs and rrt/planner.rs that  *)
(* change it make of a sound tree.                                         *)
(***************************************************************************)
EXTENDS RrtForest, DataLemmas

-----------------------------------------------------------------------------
(* One tree                                                                 *)

TreeType ==
  [root : Node, parent : [Node -> Node \cup {None}], children : [Node -> SUBSET Node],
   cost : [Node -> Nat], expandables : SUBSET Node]

IsRoads(g) == \A e \in DOMAIN g : e \subseteq Node /\ Cardinality(e) = 2 /\ g[e] \in Nat

\* d falls by one along the parents: following them from a visited node ends.
IsRank(d, t) ==
  d \in [Node -> Nat] /\ \A n \in Visited(t) \ {t.root} : d[n] = d[t.parent[n]] + 1

\* What makes TreeSound inductive: no node is its own ancestor.
IsTree(t, g) ==
  /\ t \in TreeType
  /\ t.parent[t.root] = t.root /\ t.cost[t.root] = 0
  /\ \A n \in Visited(t) \ {t.root} :
       /\ t.parent[n] \in Visited(t) /\ {n, t.parent[n]} \in DOMAIN g
       /\ t.cost[n] = t.cost[t.parent[n]] + g[{n, t.parent[n]}]
  /\ \A n \in Node : t.children[n] = {m \in Visited(t) \ {t.root} : t.parent[m] = n}
  /\ \E d : IsRank(d, t)

-----------------------------------------------------------------------------
(* Fields                                                                   *)

LEMMA TreeFields ==
  ASSUME NEW t \in TreeType
  PROVE  /\ t.root \in Node /\ t.parent \in [Node -> Node \cup {None}]
         /\ t.children \in [Node -> SUBSET Node] /\ t.cost \in [Node -> Nat]
         /\ t.expandables \in SUBSET Node /\ Visited(t) \in SUBSET Node
         /\ \A n \in Visited(t) : n \in Node /\ t.parent[n] \in Node
         /\ \A n \in Node : t.parent[n] = None \/ n \in Visited(t)
  BY DEF TreeType, Visited

LEMMA TwoNodes ==
  ASSUME NEW g, IsRoads(g), NEW m, NEW n, {m, n} \in DOMAIN g
  PROVE  /\ m \in Node /\ n \in Node /\ m # n /\ g[{m, n}] \in Nat
         /\ m \in Neighbors(g, n) /\ n \in Neighbors(g, m)
  <1>1. m \in Node /\ n \in Node /\ g[{m, n}] \in Nat /\ Cardinality({m, n}) = 2
    BY DEF IsRoads
  <1>2. m # n
    <2> SUFFICES ASSUME m = n PROVE FALSE
      OBVIOUS
    <2>1. {m, n} = {m}
      OBVIOUS
    <2>2. Cardinality({m}) = 1
      BY FS_Singleton
    <2> QED BY <1>1, <2>1, <2>2
  <1>3. {m, n} = {n, m}
    OBVIOUS
  <1> QED BY <1>1, <1>2, <1>3 DEF Neighbors

\* The roots of a sound tree, and the way every visited node has to its parent.
LEMMA TreeFacts ==
  ASSUME NEW g, IsRoads(g), NEW t, IsTree(t, g)
  PROVE  /\ t.root \in Visited(t)
         /\ \A n \in Visited(t) : n \in Node /\ t.cost[n] \in Nat /\ t.parent[n] \in Visited(t)
         /\ \A n \in Visited(t) \ {t.root} :
              /\ t.parent[n] # n /\ g[{n, t.parent[n]}] \in Nat
              /\ t.cost[t.parent[n]] <= t.cost[n]
         /\ \A n \in Node : t.children[n] \subseteq Visited(t) \ {t.root}
         /\ \A n \in Node \ Visited(t) : t.children[n] = {}
  <1>1. t \in TreeType
    BY DEF IsTree
  <1>2. t.root \in Visited(t)
    BY <1>1, NodeAssumption DEF IsTree, TreeType, Visited
  <1>3. \A n \in Visited(t) : n \in Node /\ t.cost[n] \in Nat /\ t.parent[n] \in Visited(t)
    BY <1>1, <1>2, TreeFields DEF IsTree
  <1>4. ASSUME NEW n \in Visited(t) \ {t.root}
        PROVE  /\ t.parent[n] # n /\ g[{n, t.parent[n]}] \in Nat
               /\ t.cost[t.parent[n]] <= t.cost[n]
    <2>1. {n, t.parent[n]} \in DOMAIN g /\ t.cost[n] = t.cost[t.parent[n]] + g[{n, t.parent[n]}]
      BY DEF IsTree
    <2>2. t.parent[n] # n /\ g[{n, t.parent[n]}] \in Nat
      BY <2>1, TwoNodes
    <2>3. t.cost[t.parent[n]] \in Nat /\ t.cost[n] \in Nat
      BY <1>3
    <2> QED BY <2>1, <2>2, <2>3
  <1>5. \A n \in Node : t.children[n] = {m \in Visited(t) \ {t.root} : t.parent[m] = n}
    BY DEF IsTree
  <1>6. \A n \in Node \ Visited(t) : t.children[n] = {}
    BY <1>3, <1>5
  <1> QED BY <1>2, <1>3, <1>4, <1>5, <1>6

-----------------------------------------------------------------------------
(* Descendants                                                              *)

\* The levels are what the children maps give when they are followed step by step.
IsLevels(f, t, x) ==
  /\ f \in [Nat -> SUBSET Node] /\ f[0] = {x}
  /\ \A k \in Nat : f[k + 1] = UNION {t.children[n] : n \in f[k]}
  /\ \A k \in 0..Cardinality(Node) : Level(t, x)[k] = f[k]

LEMMA NodesCounted == Cardinality(Node) \in Nat
  BY NodeAssumption, FS_CardinalityType

LEMMA LevelsExist ==
  ASSUME NEW t, t.children \in [Node -> SUBSET Node], NEW x \in Node
  PROVE  \E f : IsLevels(f, t, x)
  <1> DEFINE N == Cardinality(Node)
             V == SUBSET Node
             below(T) == UNION {t.children[n] : n \in T}
             h == [T \in V |-> below(T)]
  <1>1. N \in Nat
    BY NodesCounted
  <1>2. h \in [V -> V]
    OBVIOUS
  <1>3. {x} \in V
    OBVIOUS
  <1>4. PICK f : IsIteration(f, V, {x}, h)
    <2> HIDE DEF V, h
    <2> QED BY <1>2, <1>3, Iteration
  <1>5. /\ f \in [Nat -> V] /\ f[0] = {x}
        /\ \A k \in Nat : f[k] \in V /\ f[k + 1] = below(f[k])
    BY <1>4 DEF IsIteration
  <1> HIDE DEF h, N
  <1> DEFINE step(g) == [k \in 0..N |-> IF k = 0 THEN {x} ELSE UNION {t.children[n] : n \in g[k - 1]}]
             level == CHOOSE g : g = step(g)
             F == [k \in 0..N |-> f[k]]
  <1>6. F = step(F)
    <2>1. ASSUME NEW k \in 0..N PROVE F[k] = step(F)[k]
      <3>1. CASE k = 0
        BY <1>1, <1>5, <3>1
      <3>2. CASE k # 0
        <4>1. k - 1 \in 0..N /\ k - 1 \in Nat /\ (k - 1) + 1 = k
          BY <1>1, <3>2
        <4>2. f[k] = below(f[k - 1])
          <5> HIDE DEF below
          <5> QED BY <1>5, <4>1
        <4> QED BY <3>2, <4>1, <4>2
      <3> QED BY <3>1, <3>2
    <2> QED BY <2>1
  <1>7. level = step(level)
    <2> HIDE DEF F, step
    <2> QED BY <1>6
  <1>8. Level(t, x) = level
    BY DEF Level, N
  <1> HIDE DEF level
  <1>9. \A k \in 0..N : level[k] = IF k = 0 THEN {x} ELSE UNION {t.children[n] : n \in level[k - 1]}
    BY <1>7
  <1> DEFINE S == {k \in Nat : k <= N => level[k] = f[k]}
  <1>10. 0 \in S
    <2>1. 0 \in 0..N
      BY <1>1
    <2>2. level[0] = {x}
      BY <1>9, <2>1
    <2> QED BY <1>5, <2>2
  <1>11. ASSUME NEW k \in Nat, k \in S PROVE k + 1 \in S
    <2> SUFFICES ASSUME k + 1 <= N PROVE level[k + 1] = f[k + 1]
      OBVIOUS
    <2>1. k + 1 \in 0..N /\ k + 1 # 0 /\ (k + 1) - 1 = k /\ level[k] = f[k]
      BY <1>1, <1>11
    <2>2. level[k + 1] = UNION {t.children[n] : n \in level[k]}
      BY <1>9, <2>1
    <2> QED BY <1>5, <2>1, <2>2
  <1>12. Nat \subseteq S
    <2> HIDE DEF S
    <2> QED BY <1>10, <1>11, NatSetInduction
  <1>13. \A k \in 0..N : Level(t, x)[k] = f[k]
    BY <1>1, <1>8, <1>12
  <1> QED BY <1>5, <1>13 DEF IsLevels, N

\* Nodes of different levels are different, so the levels end before the nodes do.
LEMMA LevelsEnd ==
  ASSUME NEW g, IsRoads(g), NEW t, IsTree(t, g), NEW y \in Visited(t),
         NEW f, IsLevels(f, t, y), NEW d, IsRank(d, t)
  PROVE  /\ \A k \in Nat : \A n \in f[k] :
              /\ n \in Visited(t) /\ (k # 0 => n # t.root)
              /\ d[n] = d[y] + k /\ t.cost[y] <= t.cost[n]
         /\ f[Cardinality(Node)] = {}
  <1> DEFINE N == Cardinality(Node)
             S == {k \in Nat : \A n \in f[k] :
                     /\ n \in Visited(t) /\ (k # 0 => n # t.root)
                     /\ d[n] = d[y] + k /\ t.cost[y] <= t.cost[n]}
  <1>1. N \in Nat
    BY NodesCounted
  <1>2. /\ f \in [Nat -> SUBSET Node] /\ f[0] = {y}
        /\ \A k \in Nat : f[k + 1] = UNION {t.children[n] : n \in f[k]}
    BY DEF IsLevels
  <1>3. d \in [Node -> Nat] /\ \A n \in Visited(t) \ {t.root} : d[n] = d[t.parent[n]] + 1
    BY DEF IsRank
  <1>4. /\ \A n \in Visited(t) : n \in Node /\ t.cost[n] \in Nat /\ d[n] \in Nat
        /\ \A n \in Visited(t) \ {t.root} : t.cost[t.parent[n]] <= t.cost[n]
        /\ \A n \in Node : t.children[n] = {m \in Visited(t) \ {t.root} : t.parent[m] = n}
    <2>1. \A n \in Node : t.children[n] = {m \in Visited(t) \ {t.root} : t.parent[m] = n}
      BY DEF IsTree
    <2>2. /\ \A n \in Visited(t) : n \in Node /\ t.cost[n] \in Nat
          /\ \A n \in Visited(t) \ {t.root} : t.cost[t.parent[n]] <= t.cost[n]
      BY TreeFacts
    <2> QED BY <1>3, <2>1, <2>2
  <1>5. 0 \in S
    BY <1>2, <1>4
  <1>6. ASSUME NEW k \in Nat, k \in S PROVE k + 1 \in S
    <2> SUFFICES ASSUME NEW m \in f[k + 1]
                 PROVE  /\ m \in Visited(t) /\ m # t.root
                        /\ d[m] = d[y] + (k + 1) /\ t.cost[y] <= t.cost[m]
      OBVIOUS
    <2>1. PICK n \in f[k] : m \in t.children[n]
      BY <1>2
    <2>2. n \in Visited(t) /\ d[n] = d[y] + k /\ t.cost[y] <= t.cost[n]
      BY <1>6
    <2>3. m \in Visited(t) \ {t.root} /\ t.parent[m] = n
      BY <1>4, <2>1, <2>2
    <2>4. d[m] = d[n] + 1 /\ t.cost[n] <= t.cost[m]
      BY <1>3, <1>4, <2>3
    <2> QED BY <1>4, <2>2, <2>3, <2>4
  <1>7. Nat \subseteq S
    <2> HIDE DEF S
    <2> QED BY <1>5, <1>6, NatSetInduction
  <1>8. f[N] = {}
    <2> SUFFICES ASSUME f[N] # {} PROVE FALSE
      OBVIOUS
    <2> DEFINE E == {j \in Nat : j <= N => f[N - j] # {}}
    <2>1. 0 \in E
      BY <1>1
    <2>2. ASSUME NEW j \in Nat, j \in E PROVE j + 1 \in E
      <3> SUFFICES ASSUME j + 1 <= N PROVE f[N - (j + 1)] # {}
        OBVIOUS
      <3> DEFINE k == N - (j + 1)
      <3>1. k \in Nat /\ k + 1 = N - j /\ f[N - j] # {}
        BY <1>1, <2>2
      <3>2. f[k + 1] = UNION {t.children[n] : n \in f[k]}
        BY <1>2, <3>1
      <3> HIDE DEF k
      <3>3. f[k] # {}
        BY <3>1, <3>2
      <3> QED BY <3>3 DEF k
    <2>3. Nat \subseteq E
      <3> HIDE DEF E
      <3> QED BY <2>1, <2>2, NatSetInduction
    <2>4. \A k \in 0..N : f[k] # {}
      <3> SUFFICES ASSUME NEW k \in 0..N PROVE f[k] # {}
        OBVIOUS
      <3>1. N - k \in Nat /\ N - k <= N /\ N - (N - k) = k
        BY <1>1
      <3> QED BY <2>3, <3>1
    <2> DEFINE c == [k \in 0..N |-> CHOOSE n \in f[k] : TRUE]
    <2>5. \A k \in 0..N : c[k] \in f[k]
      BY <2>4
    <2>6. c \in [0..N -> Node]
      BY <1>1, <1>2, <2>5
    <2>7. IsFiniteSet(0..N) /\ Cardinality(0..N) = N + 1
      BY <1>1, FS_Interval
    <2>8. Cardinality(Node) < Cardinality(0..N)
      BY <1>1, <2>7
    <2>9. \E i, j \in 0..N : i # j /\ c[i] = c[j]
      <3> HIDE DEF c, N
      <3> QED BY <2>6, <2>7, <2>8, NodeAssumption, FS_PigeonHole
    <2>10. PICK i \in 0..N, j \in 0..N : i # j /\ c[i] = c[j]
      BY <2>9
    <2>11. i \in Nat /\ j \in Nat /\ c[i] \in f[i] /\ c[i] \in f[j]
      BY <1>1, <2>5, <2>10
    <2>12. d[c[i]] = d[y] + i /\ d[c[i]] = d[y] + j
      BY <1>7, <2>11
    <2> QED BY <1>4, <2>10, <2>11, <2>12
  <1>9. \A k \in Nat : \A n \in f[k] :
          /\ n \in Visited(t) /\ (k # 0 => n # t.root)
          /\ d[n] = d[y] + k /\ t.cost[y] <= t.cost[n]
    BY <1>7
  <1> QED BY <1>8, <1>9

\* What hangs from y: the visited nodes whose parents do, and only later and dearer ones.
LEMMA BelowFacts ==
  ASSUME NEW g, IsRoads(g), NEW t, IsTree(t, g), NEW y \in Visited(t)
  PROVE  /\ Below(t, y) \subseteq Visited(t) \ {t.root} /\ y \notin Below(t, y)
         /\ \A n \in Visited(t) \ {t.root} :
              t.parent[n] \in Below(t, y) \cup {y} <=> n \in Below(t, y)
         /\ \A n \in Below(t, y) : t.cost[y] <= t.cost[n]
         /\ \A d : IsRank(d, t) => \A n \in Below(t, y) : d[y] < d[n]
  <1> DEFINE N == Cardinality(Node)
             B == Below(t, y)
  <1>1. N \in Nat
    BY NodesCounted
  <1>2. /\ t.children \in [Node -> SUBSET Node] /\ y \in Node
        /\ \A n \in Node : t.children[n] = {m \in Visited(t) \ {t.root} : t.parent[m] = n}
        /\ \A n \in Visited(t) : n \in Node /\ t.cost[n] \in Nat /\ t.parent[n] \in Node
    BY TreeFacts, TreeFields DEF IsTree
  <1>3. PICK f : IsLevels(f, t, y)
    BY <1>2, LevelsExist
  <1>4. /\ f \in [Nat -> SUBSET Node] /\ f[0] = {y}
        /\ \A k \in Nat : f[k + 1] = UNION {t.children[n] : n \in f[k]}
        /\ \A k \in 0..N : Level(t, y)[k] = f[k]
    BY <1>3 DEF IsLevels
  <1>5. B = UNION {f[k] : k \in 1..N}
    <2>1. B = UNION {Level(t, y)[k] : k \in 1..N}
      BY DEF Below
    <2>2. \A k \in 1..N : Level(t, y)[k] = f[k]
      BY <1>1, <1>4
    <2> HIDE DEF B, N
    <2> QED BY <2>1, <2>2
  <1>6. PICK d0 : IsRank(d0, t)
    BY DEF IsTree
  <1>7. \A d : IsRank(d, t) =>
          /\ d[y] \in Nat
          /\ \A k \in Nat : \A n \in f[k] :
               /\ n \in Visited(t) /\ (k # 0 => n # t.root)
               /\ d[n] = d[y] + k /\ t.cost[y] <= t.cost[n]
    BY <1>2, <1>3, LevelsEnd DEF IsRank
  <1>8. f[N] = {}
    BY <1>3, <1>6, LevelsEnd
  <1> HIDE DEF B, N
  <1>9. \A n \in B : \E k \in 1..N : n \in f[k]
    BY <1>5
  <1>10. \A n \in B : n \in Visited(t) \ {t.root} /\ t.cost[y] <= t.cost[n]
    <2> SUFFICES ASSUME NEW n \in B
                 PROVE  n \in Visited(t) \ {t.root} /\ t.cost[y] <= t.cost[n]
      OBVIOUS
    <2>1. PICK k \in 1..N : n \in f[k]
      BY <1>9
    <2>2. k \in Nat /\ k # 0
      BY <1>1
    <2> QED BY <1>6, <1>7, <2>1, <2>2
  <1>11. \A d : IsRank(d, t) => \A n \in B : d[y] < d[n]
    <2> SUFFICES ASSUME NEW d, IsRank(d, t), NEW n \in B PROVE d[y] < d[n]
      OBVIOUS
    <2>1. PICK k \in 1..N : n \in f[k]
      BY <1>9
    <2>2. k \in Nat /\ k > 0 /\ d[y] \in Nat /\ d[n] = d[y] + k
      BY <1>1, <1>7, <2>1
    <2> QED BY <2>2
  <1>12. y \notin B
    BY <1>6, <1>7, <1>11
  <1>13. ASSUME NEW n \in Visited(t) \ {t.root}, t.parent[n] \in B \cup {y}
         PROVE  n \in B
    <2>1. PICK k \in 0..N : t.parent[n] \in f[k]
      BY <1>1, <1>4, <1>9, <1>13
    <2>2. k < N /\ k \in Nat
      BY <1>1, <1>8, <2>1
    <2>3. n \in t.children[t.parent[n]]
      BY <1>2
    <2>4. n \in f[k + 1]
      BY <1>4, <2>1, <2>2, <2>3
    <2>5. k + 1 \in 1..N
      BY <1>1, <2>2
    <2> QED BY <1>5, <2>4, <2>5
  <1>14. ASSUME NEW n \in B
         PROVE  t.parent[n] \in B \cup {y}
    <2>1. PICK k \in 1..N : n \in f[k]
      BY <1>9
    <2> DEFINE j == k - 1
    <2>2. j \in Nat /\ j + 1 = k /\ j <= N /\ (j = 0 \/ j \in 1..N)
      BY <1>1
    <2>3. f[k] = UNION {t.children[m] : m \in f[j]}
      BY <1>4, <2>2
    <2> HIDE DEF j
    <2>4. PICK m \in f[j] : n \in t.children[m]
      BY <2>1, <2>3
    <2>5. m \in Node
      BY <1>4, <2>2, <2>4
    <2>6. t.parent[n] = m
      BY <1>2, <2>4, <2>5
    <2>7. CASE j = 0
      BY <1>4, <2>4, <2>6, <2>7
    <2>8. CASE j \in 1..N
      BY <1>5, <2>4, <2>6, <2>8
    <2> QED BY <2>2, <2>7, <2>8
  <1>15. \A n \in Visited(t) \ {t.root} : t.parent[n] \in B \cup {y} <=> n \in B
    BY <1>10, <1>13, <1>14
  <1> QED BY <1>10, <1>11, <1>12, <1>15 DEF B

\* The definition of a sound tree (TreeSound) follows, on the graph at hand.
LEMMA TreeIsSound ==
  ASSUME IsRoads(graph), NEW t, IsTree(t, graph)
  PROVE  TreeSound(t)
  <1> DEFINE B == Below(t, t.root) \cup {t.root}
  <1>1. t.root \in Visited(t) /\ t \in TreeType
        /\ \A n \in Visited(t) : n \in Node /\ t.parent[n] \in Visited(t)
    BY TreeFacts DEF IsTree
  <1>2. /\ Below(t, t.root) \subseteq Visited(t)
        /\ \A n \in Visited(t) \ {t.root} : t.parent[n] \in B <=> n \in Below(t, t.root)
    BY <1>1, BelowFacts
  <1>3. PICK d : IsRank(d, t)
    BY DEF IsTree
  <1>4. /\ \A n \in Visited(t) : d[n] \in Nat
        /\ \A n \in Visited(t) \ {t.root} : d[n] = d[t.parent[n]] + 1
    BY <1>1, <1>3 DEF IsRank
  <1> DEFINE S == {k \in Nat : \A n \in Visited(t) : d[n] <= k => n \in B}
  <1>5. 0 \in S
    <2> SUFFICES ASSUME NEW n \in Visited(t), d[n] <= 0 PROVE n \in B
      OBVIOUS
    <2>1. CASE n = t.root
      BY <2>1
    <2>2. CASE n # t.root
      <3>1. d[n] = d[t.parent[n]] + 1 /\ d[t.parent[n]] \in Nat
        BY <1>1, <1>4, <2>2
      <3> QED BY <3>1
    <2> QED BY <2>1, <2>2
  <1>6. ASSUME NEW k \in Nat, k \in S PROVE k + 1 \in S
    <2> SUFFICES ASSUME NEW n \in Visited(t), d[n] <= k + 1 PROVE n \in B
      OBVIOUS
    <2>1. CASE n = t.root
      BY <2>1
    <2>2. CASE n # t.root
      <3>1. d[n] = d[t.parent[n]] + 1 /\ d[t.parent[n]] \in Nat /\ t.parent[n] \in Visited(t)
        BY <1>1, <1>4, <2>2
      <3>2. t.parent[n] \in B
        <4> HIDE DEF B
        <4> QED BY <1>6, <3>1
      <3> QED BY <1>2, <2>2, <3>2
    <2> QED BY <2>1, <2>2
  <1>7. Nat \subseteq S
    <2> HIDE DEF S
    <2> QED BY <1>5, <1>6, NatSetInduction
  <1>8. Visited(t) \subseteq B
    BY <1>4, <1>7
  <1>9. Visited(t) = {t.root} \cup Below(t, t.root)
    BY <1>1, <1>2, <1>8
  <1> QED BY <1>9 DEF TreeSound, IsTree

-----------------------------------------------------------------------------
(* Growing a tree                                                           *)

\* What ahead of a tree on g there is left to visit.
Frontier(t, g) == (UNION {Neighbors(g, n) : n \in Visited(t)}) \ Visited(t)

LEMMA AdvanceKeeps ==
  ASSUME NEW t \in TreeType, NEW g, NEW x
  PROVE  /\ Advance(g, t, x) \in TreeType /\ Visited(Advance(g, t, x)) = Visited(t)
         /\ Advance(g, t, x).root = t.root /\ Advance(g, t, x).parent = t.parent
         /\ Advance(g, t, x).children = t.children /\ Advance(g, t, x).cost = t.cost
         /\ Advance(g, t, x).expandables =
              (t.expandables \ {x}) \cup (Neighbors(g, x) \ Visited(t))
  BY DEF Advance, TreeType, Visited, Neighbors

\* A tree is judged by its maps, not by what is ahead of it.
LEMMA SameMaps ==
  ASSUME NEW g, NEW t, IsTree(t, g), NEW u \in TreeType,
         u.root = t.root, u.parent = t.parent, u.children = t.children, u.cost = t.cost
  PROVE  IsTree(u, g)
  <1>1. Visited(u) = Visited(t)
    BY DEF Visited
  <1>2. \A d : IsRank(d, t) => IsRank(d, u)
    BY <1>1 DEF IsRank
  <1> QED BY <1>1, <1>2 DEF IsTree

LEMMA StartTree ==
  ASSUME NEW g, NEW r \in Node
  PROVE  /\ IsTree(NewTree(r), g) /\ Visited(NewTree(r)) = {r}
         /\ NewTree(r).expandables = {} /\ NewTree(r).root = r
  <1> DEFINE t == NewTree(r)
  <1>1. /\ t.root = r /\ t.parent = [n \in Node |-> IF n = r THEN r ELSE None]
        /\ t.children = [n \in Node |-> {}] /\ t.cost = [n \in Node |-> 0]
        /\ t.expandables = {} /\ t \in TreeType
    BY DEF NewTree, TreeType
  <1> HIDE DEF t
  <1>2. Visited(t) = {r}
    BY <1>1, NodeAssumption DEF Visited
  <1>3. IsRank([n \in Node |-> 0], t)
    BY <1>1, <1>2 DEF IsRank
  <1>4. IsTree(t, g)
    BY <1>1, <1>2, <1>3 DEF IsTree
  <1> QED BY <1>1, <1>2, <1>4 DEF t

\* A node that was not visited becomes a leaf.
LEMMA AttachTree ==
  ASSUME NEW g, IsRoads(g), NEW t, IsTree(t, g), NEW x \in Node \ Visited(t),
         NEW p \in Visited(t), {p, x} \in DOMAIN g
  PROVE  /\ IsTree(Attach(g, t, x, p), g)
         /\ Visited(Attach(g, t, x, p)) = Visited(t) \cup {x}
         /\ Attach(g, t, x, p).root = t.root
         /\ Attach(g, t, x, p).expandables = t.expandables
         /\ \A n \in Visited(t) : Attach(g, t, x, p).cost[n] = t.cost[n]
  <1> DEFINE u == Attach(g, t, x, p)
  <1>1. /\ t \in TreeType /\ p \in Node /\ t.root \in Visited(t)
        /\ t.parent \in [Node -> Node \cup {None}] /\ t.children \in [Node -> SUBSET Node]
        /\ t.cost \in [Node -> Nat] /\ Visited(t) \subseteq Node
        /\ \A n \in Visited(t) : t.parent[n] \in Visited(t)
        /\ \A n \in Node \ Visited(t) : t.children[n] = {}
    BY TreeFields, TreeFacts DEF IsTree
  <1>2. g[{p, x}] \in Nat /\ t.cost[p] \in Nat /\ {p, x} = {x, p}
    BY <1>1, TwoNodes
  <1>3. /\ u.root = t.root /\ u.parent = [t.parent EXCEPT ![x] = p]
        /\ u.children = [t.children EXCEPT ![p] = @ \cup {x}]
        /\ u.cost = [t.cost EXCEPT ![x] = t.cost[p] + g[{p, x}]]
        /\ u.expandables = t.expandables /\ u \in TreeType
    <2>1. t.cost[p] + g[{p, x}] \in Nat
      BY <1>2
    <2> QED BY <1>1, <2>1 DEF Attach, TreeType
  <1> HIDE DEF u
  <1>4. Visited(u) = Visited(t) \cup {x}
    BY <1>1, <1>3, NodeAssumption DEF Visited
  <1>5. \A n \in Visited(t) \ {t.root} :
          /\ t.parent[n] \in Visited(t) /\ {n, t.parent[n]} \in DOMAIN g
          /\ t.cost[n] = t.cost[t.parent[n]] + g[{n, t.parent[n]}]
    BY DEF IsTree
  <1>6. u.parent[u.root] = u.root /\ u.cost[u.root] = 0
    BY <1>1, <1>3 DEF IsTree
  <1>7. ASSUME NEW n \in Visited(u) \ {u.root}
        PROVE  /\ u.parent[n] \in Visited(u) /\ {n, u.parent[n]} \in DOMAIN g
               /\ u.cost[n] = u.cost[u.parent[n]] + g[{n, u.parent[n]}]
    <2>1. CASE n = x
      <3>1. u.parent[n] = p /\ u.cost[n] = t.cost[p] + g[{x, p}] /\ u.cost[p] = t.cost[p]
        BY <1>1, <1>2, <1>3, <2>1
      <3> QED BY <1>2, <1>4, <2>1, <3>1
    <2>2. CASE n # x
      <3>1. n \in Visited(t) \ {t.root} /\ n \in Node
        BY <1>1, <1>3, <1>4, <2>2
      <3>2. u.parent[n] = t.parent[n] /\ u.cost[n] = t.cost[n]
        BY <1>1, <1>3, <2>2, <3>1
      <3>3. t.parent[n] \in Visited(t) /\ u.cost[t.parent[n]] = t.cost[t.parent[n]]
        BY <1>1, <1>3, <3>1
      <3> QED BY <1>4, <1>5, <3>1, <3>2, <3>3
    <2> QED BY <2>1, <2>2
  <1>8. ASSUME NEW n \in Node
        PROVE  u.children[n] = {m \in Visited(u) \ {u.root} : u.parent[m] = n}
    <2>1. t.children[n] = {m \in Visited(t) \ {t.root} : t.parent[m] = n}
      BY DEF IsTree
    <2>2. \A m \in Visited(t) : m # x /\ u.parent[m] = t.parent[m]
      BY <1>1, <1>3
    <2>3. u.parent[x] = p /\ x # t.root
      BY <1>1, <1>3
    <2>4. u.children[n] = IF n = p THEN t.children[n] \cup {x} ELSE t.children[n]
      BY <1>1, <1>3
    <2> QED BY <1>3, <1>4, <2>1, <2>2, <2>3, <2>4
  <1>9. \E d : IsRank(d, u)
    <2>1. PICK d : IsRank(d, t)
      BY DEF IsTree
    <2> DEFINE e == [d EXCEPT ![x] = d[p] + 1]
    <2>2. d \in [Node -> Nat] /\ \A n \in Visited(t) \ {t.root} : d[n] = d[t.parent[n]] + 1
      BY <2>1 DEF IsRank
    <2>3. e \in [Node -> Nat] /\ e[x] = d[p] + 1 /\ \A n \in Visited(t) : e[n] = d[n]
      BY <1>1, <2>2
    <2> HIDE DEF e
    <2>4. ASSUME NEW n \in Visited(u) \ {u.root} PROVE e[n] = e[u.parent[n]] + 1
      <3>1. CASE n = x
        <4>1. u.parent[n] = p /\ e[p] = d[p]
          BY <1>1, <1>3, <2>3, <3>1
        <4> QED BY <2>3, <3>1, <4>1
      <3>2. CASE n # x
        <4>1. n \in Visited(t) \ {t.root} /\ u.parent[n] = t.parent[n]
          BY <1>1, <1>3, <1>4, <3>2
        <4>2. t.parent[n] \in Visited(t)
          BY <1>1, <4>1
        <4> QED BY <2>2, <2>3, <4>1, <4>2
      <3> QED BY <3>1, <3>2
    <2>5. IsRank(e, u)
      BY <2>3, <2>4 DEF IsRank
    <2> QED BY <2>5
  <1>10. IsTree(u, g)
    BY <1>3, <1>6, <1>7, <1>8, <1>9 DEF IsTree
  <1>11. \A n \in Visited(t) : u.cost[n] = t.cost[n]
    BY <1>1, <1>3
  <1> QED BY <1>3, <1>4, <1>10, <1>11 DEF u

-----------------------------------------------------------------------------
(* Rewiring a tree                                                          *)

\* A neighbour that is cheaper to reach through x has x elsewhere than below it: it
\* can move there with all that hangs from it, and no cost rises.
LEMMA RewiredTree ==
  ASSUME NEW g, IsRoads(g), NEW t, IsTree(t, g), NEW x \in Visited(t), NEW y \in Visited(t),
         {x, y} \in DOMAIN g, t.cost[x] + g[{x, y}] < t.cost[y]
  PROVE  /\ IsTree(Rewired(g, t, x, y), g)
         /\ Visited(Rewired(g, t, x, y)) = Visited(t)
         /\ Rewired(g, t, x, y).root = t.root
         /\ Rewired(g, t, x, y).expandables = t.expandables
         /\ \A n \in Visited(t) : Rewired(g, t, x, y).cost[n] <= t.cost[n]
  <1> DEFINE u == Rewired(g, t, x, y)
             by == t.cost[x] + g[{x, y}]
             B == Below(t, y) \cup {y}
  <1>1. /\ t \in TreeType /\ x \in Node /\ y \in Node /\ t.root \in Visited(t)
        /\ t.parent \in [Node -> Node \cup {None}] /\ t.children \in [Node -> SUBSET Node]
        /\ t.cost \in [Node -> Nat] /\ Visited(t) \subseteq Node
        /\ \A n \in Visited(t) : t.parent[n] \in Visited(t)
    BY TreeFields, TreeFacts DEF IsTree
  <1>2. /\ t.parent[t.root] = t.root /\ t.cost[t.root] = 0
        /\ \A n \in Visited(t) \ {t.root} :
             /\ t.parent[n] \in Visited(t) /\ {n, t.parent[n]} \in DOMAIN g
             /\ t.cost[n] = t.cost[t.parent[n]] + g[{n, t.parent[n]}]
        /\ \A n \in Node : t.children[n] = {m \in Visited(t) \ {t.root} : t.parent[m] = n}
    BY DEF IsTree
  <1>3. g[{x, y}] \in Nat /\ by \in Nat /\ by < t.cost[y] /\ {x, y} = {y, x} /\ x # y
    <2>1. g[{x, y}] \in Nat /\ x # y
      BY TwoNodes
    <2> QED BY <1>1, <2>1
  <1>4. /\ B \subseteq Visited(t) \ {t.root}
        /\ \A n \in Visited(t) \ {t.root} : n # y => (t.parent[n] \in B <=> n \in B)
        /\ t.parent[y] \notin B
        /\ \A n \in B : t.cost[y] <= t.cost[n]
        /\ \A d : IsRank(d, t) => \A n \in B : d[y] <= d[n]
    <2>1. y # t.root
      BY <1>2, <1>3
    <2>2. /\ Below(t, y) \subseteq Visited(t) \ {t.root} /\ y \notin Below(t, y)
          /\ \A n \in Visited(t) \ {t.root} :
               t.parent[n] \in Below(t, y) \cup {y} <=> n \in Below(t, y)
          /\ \A n \in Below(t, y) : t.cost[y] <= t.cost[n]
          /\ \A d : IsRank(d, t) => \A n \in Below(t, y) : d[y] < d[n]
      BY BelowFacts
    <2>3. t.cost[y] <= t.cost[y]
      BY <1>1
    <2>4. \A d : IsRank(d, t) => d \in [Node -> Nat]
      BY DEF IsRank
    <2>5. ASSUME NEW d, IsRank(d, t), NEW n \in B PROVE d[y] <= d[n]
      <3>1. n = y \/ d[y] < d[n]
        BY <2>2, <2>5
      <3>2. d[y] \in Nat /\ d[n] \in Nat
        BY <1>1, <2>2, <2>4, <2>5
      <3> QED BY <3>1, <3>2
    <2>6. \A n \in Visited(t) \ {t.root} : n # y => (t.parent[n] \in B <=> n \in B)
      BY <2>2
    <2>7. t.parent[y] \notin B
      BY <2>1, <2>2
    <2> QED BY <2>1, <2>2, <2>3, <2>5, <2>6, <2>7
  <1>5. x \notin B
    BY <1>1, <1>3, <1>4
  <1>6. y \in B /\ y # t.root
    BY <1>4
  <1>7. /\ u.root = t.root /\ u.parent = [t.parent EXCEPT ![y] = x]
        /\ u.children = [t.children EXCEPT ![t.parent[y]] = @ \ {y}, ![x] = @ \cup {y}]
        /\ u.cost = [n \in Node |-> IF n \in B THEN t.cost[n] + by - t.cost[y] ELSE t.cost[n]]
        /\ u.expandables = t.expandables
        /\ DOMAIN u = DOMAIN t
    <2>1. u.root = t.root /\ u.expandables = t.expandables /\ DOMAIN u = DOMAIN t
      BY <1>1 DEF Rewired, TreeType
    <2>2. u.parent = [t.parent EXCEPT ![y] = x]
      BY <1>1 DEF Rewired, TreeType
    <2>3. u.children = [t.children EXCEPT ![t.parent[y]] = @ \ {y}, ![x] = @ \cup {y}]
      BY <1>1 DEF Rewired, TreeType
    <2>4. u.cost = [n \in Node |-> IF n \in B THEN t.cost[n] + by - t.cost[y] ELSE t.cost[n]]
      BY <1>1 DEF Rewired, TreeType
    <2> QED BY <2>1, <2>2, <2>3, <2>4
  <1> HIDE DEF u, B, by
  <1>8. /\ \A n \in B : u.cost[n] = t.cost[n] + by - t.cost[y] /\ u.cost[n] \in Nat
                        /\ u.cost[n] <= t.cost[n]
        /\ \A n \in Node \ B : u.cost[n] = t.cost[n] /\ u.cost[n] \in Nat
    BY <1>1, <1>3, <1>4, <1>7
  <1>9. u.cost \in [Node -> Nat]
    BY <1>7, <1>8
  <1>10. u.parent \in [Node -> Node \cup {None}] /\ u.children \in [Node -> SUBSET Node]
    BY <1>1, <1>7
  <1>11. Visited(u) = Visited(t)
    BY <1>1, <1>7, NodeAssumption DEF Visited
  <1>12. u.parent[u.root] = u.root /\ u.cost[u.root] = 0
    <2>1. t.root \in Node \ B /\ t.root # y
      BY <1>1, <1>4, <1>6
    <2> QED BY <1>2, <1>7, <1>8, <2>1
  <1>13. ASSUME NEW n \in Visited(u) \ {u.root}
         PROVE  /\ u.parent[n] \in Visited(u) /\ {n, u.parent[n]} \in DOMAIN g
                /\ u.cost[n] = u.cost[u.parent[n]] + g[{n, u.parent[n]}]
    <2>0. n \in Visited(t) \ {t.root} /\ n \in Node
      BY <1>1, <1>7, <1>11
    <2>1. CASE n = y
      <3>1. u.parent[n] = x /\ u.cost[x] = t.cost[x]
        BY <1>1, <1>5, <1>7, <1>8, <2>1
      <3>2. u.cost[y] = t.cost[x] + g[{y, x}]
        <4>1. u.cost[y] = t.cost[y] + by - t.cost[y] /\ t.cost[y] \in Nat
          BY <1>1, <1>6, <1>8
        <4>2. u.cost[y] = by
          BY <1>3, <4>1
        <4> QED BY <1>3, <4>2 DEF by
      <3> QED BY <1>3, <1>11, <2>1, <3>1, <3>2
    <2>2. CASE n # y
      <3>1. /\ u.parent[n] = t.parent[n] /\ t.parent[n] \in Visited(t) /\ t.parent[n] \in Node
            /\ {n, t.parent[n]} \in DOMAIN g
            /\ t.cost[n] = t.cost[t.parent[n]] + g[{n, t.parent[n]}]
            /\ (t.parent[n] \in B <=> n \in B)
        <4>1. t.parent[n] \in B <=> n \in B
          BY <1>4, <2>0, <2>2
        <4>2. u.parent[n] = t.parent[n]
          BY <1>1, <1>7, <2>0, <2>2
        <4> QED BY <1>1, <1>2, <2>0, <4>1, <4>2
      <3>2. g[{n, t.parent[n]}] \in Nat
        BY <2>0, TreeFacts
      <3>3. CASE n \in B
        <4>1. /\ u.cost[n] = t.cost[n] + by - t.cost[y]
              /\ u.cost[t.parent[n]] = t.cost[t.parent[n]] + by - t.cost[y]
          BY <1>8, <3>1, <3>3
        <4>2. t.cost[t.parent[n]] \in Nat /\ t.cost[y] \in Nat
          BY <1>1, <3>1
        <4>3. u.cost[n] = u.cost[t.parent[n]] + g[{n, t.parent[n]}]
          BY <1>3, <3>1, <3>2, <4>1, <4>2
        <4> QED BY <1>11, <3>1, <4>3
      <3>4. CASE n \notin B
        <4>1. u.cost[n] = t.cost[n] /\ u.cost[t.parent[n]] = t.cost[t.parent[n]]
          BY <1>8, <2>0, <3>1, <3>4
        <4> QED BY <1>11, <3>1, <4>1
      <3> QED BY <3>3, <3>4
    <2> QED BY <2>1, <2>2
  <1>14. ASSUME NEW n \in Node
         PROVE  u.children[n] = {m \in Visited(u) \ {u.root} : u.parent[m] = n}
    <2> DEFINE p == t.parent[y]
    <2>1. t.children[n] = {m \in Visited(t) \ {t.root} : t.parent[m] = n}
      BY <1>2
    <2>2. /\ u.parent[y] = x /\ \A m \in Visited(t) : m # y => u.parent[m] = t.parent[m]
          /\ p \in Node
      BY <1>1, <1>7
    <2>3. CASE n = x /\ n = p
      <3>1. u.children[n] = (t.children[n] \ {y}) \cup {y}
        BY <1>1, <1>7, <2>2, <2>3
      <3> QED BY <1>6, <1>7, <1>11, <2>1, <2>2, <2>3, <3>1
    <2>4. CASE n = x /\ n # p
      <3>1. u.children[n] = t.children[n] \cup {y}
        BY <1>1, <1>7, <2>2, <2>4
      <3> QED BY <1>6, <1>7, <1>11, <2>1, <2>2, <2>4, <3>1
    <2>5. CASE n # x /\ n = p
      <3>1. u.children[n] = t.children[n] \ {y}
        BY <1>1, <1>7, <2>2, <2>5
      <3> QED BY <1>6, <1>7, <1>11, <2>1, <2>2, <2>5, <3>1
    <2>6. CASE n # x /\ n # p
      <3>1. u.children[n] = t.children[n]
        BY <1>1, <1>7, <2>2, <2>6
      <3>2. t.parent[y] # n /\ u.parent[y] # n
        BY <2>2, <2>6
      <3>3. \A m \in Visited(t) : u.parent[m] = n <=> t.parent[m] = n
        BY <2>2, <3>2
      <3> QED BY <1>7, <1>11, <2>1, <3>1, <3>3
    <2> QED BY <2>3, <2>4, <2>5, <2>6
  <1>15. \E d : IsRank(d, u)
    <2>1. PICK d : IsRank(d, t)
      BY DEF IsTree
    <2> DEFINE e == [n \in Node |-> IF n \in B THEN d[n] - d[y] + d[x] + 1 ELSE d[n]]
    <2>2. d \in [Node -> Nat] /\ \A n \in Visited(t) \ {t.root} : d[n] = d[t.parent[n]] + 1
      BY <2>1 DEF IsRank
    <2>3. \A n \in B : d[y] <= d[n]
      BY <1>4, <2>1
    <2>4. /\ \A n \in B : e[n] = d[n] - d[y] + d[x] + 1 /\ e[n] \in Nat
          /\ \A n \in Node \ B : e[n] = d[n] /\ e[n] \in Nat
      BY <1>1, <1>4, <2>2, <2>3
    <2>5. e \in [Node -> Nat]
      BY <2>4
    <2> HIDE DEF e
    <2>6. ASSUME NEW n \in Visited(u) \ {u.root} PROVE e[n] = e[u.parent[n]] + 1
      <3>0. n \in Visited(t) \ {t.root} /\ n \in Node
        BY <1>1, <1>7, <1>11
      <3>1. CASE n = y
        <4>1. u.parent[n] = x /\ e[x] = d[x] /\ e[y] = d[y] - d[y] + d[x] + 1
          BY <1>1, <1>5, <1>6, <1>7, <2>4, <3>1
        <4>2. d[x] \in Nat /\ d[y] \in Nat
          BY <1>1, <2>2
        <4> QED BY <3>1, <4>1, <4>2
      <3>2. CASE n # y
        <4>1. /\ u.parent[n] = t.parent[n] /\ t.parent[n] \in Node
              /\ t.parent[n] \in B <=> n \in B
          BY <1>1, <1>4, <1>7, <3>0, <3>2
        <4>2. d[n] = d[t.parent[n]] + 1 /\ d[t.parent[n]] \in Nat /\ d[x] \in Nat /\ d[y] \in Nat
          BY <1>1, <2>2, <3>0, <4>1
        <4> QED BY <2>4, <3>0, <4>1, <4>2
      <3> QED BY <3>1, <3>2
    <2>7. IsRank(e, u)
      BY <2>5, <2>6 DEF IsRank
    <2> QED BY <2>7
  <1>16. u \in TreeType
    <2>1. DOMAIN u = {"root", "parent", "children", "cost", "expandables"}
          /\ t.root \in Node /\ t.expandables \in SUBSET Node
      BY <1>1, <1>7 DEF TreeType
    <2>2. u \in TreeType <=>
            /\ u.root \in Node /\ u.parent \in [Node -> Node \cup {None}]
            /\ u.children \in [Node -> SUBSET Node] /\ u.cost \in [Node -> Nat]
            /\ u.expandables \in SUBSET Node
      BY <1>1 DEF u, Rewired, TreeType
    <2> QED BY <1>7, <1>9, <1>10, <2>1, <2>2
  <1>17. IsTree(u, g)
    BY <1>12, <1>13, <1>14, <1>15, <1>16 DEF IsTree
  <1>18. \A n \in Visited(t) : u.cost[n] <= t.cost[n]
    BY <1>1, <1>8
  <1> QED BY <1>7, <1>11, <1>17, <1>18 DEF u

-----------------------------------------------------------------------------
(* Paths from the root, and the branches a new graph cuts                   *)

\* The roads a path takes.
PathRoads(s) == {{s[k], s[k + 1]} : k \in 1..(Len(s) - 1)}

\* The visited nodes obey what the root and every child of one that does obey.
LEMMA TreeInduction ==
  ASSUME NEW g, IsRoads(g), NEW t, IsTree(t, g), NEW Good, t.root \in Good,
         \A n \in Visited(t) \ {t.root} : t.parent[n] \in Good => n \in Good
  PROVE  Visited(t) \subseteq Good
  <1>1. PICK d : IsRank(d, t)
    BY DEF IsTree
  <1>2. /\ \A n \in Visited(t) : d[n] \in Nat /\ t.parent[n] \in Visited(t)
        /\ \A n \in Visited(t) \ {t.root} : d[n] = d[t.parent[n]] + 1
    BY <1>1, TreeFacts DEF IsRank
  <1> DEFINE S == {k \in Nat : \A n \in Visited(t) : d[n] <= k => n \in Good}
  <1>3. 0 \in S
    <2> SUFFICES ASSUME NEW n \in Visited(t), d[n] <= 0, n # t.root PROVE FALSE
      OBVIOUS
    <2> QED BY <1>2
  <1>4. ASSUME NEW k \in Nat, k \in S PROVE k + 1 \in S
    <2> SUFFICES ASSUME NEW n \in Visited(t), d[n] <= k + 1, n # t.root PROVE n \in Good
      OBVIOUS
    <2>1. d[t.parent[n]] <= k /\ t.parent[n] \in Visited(t)
      BY <1>2
    <2>2. t.parent[n] \in Good
      BY <1>4, <2>1
    <2> QED BY <2>2
  <1>5. Nat \subseteq S
    <2> HIDE DEF S
    <2> QED BY <1>3, <1>4, NatSetInduction
  <1> QED BY <1>2, <1>5

LEMMA RootPathStep ==
  ASSUME NEW g, IsRoads(g), NEW t, IsTree(t, g)
  PROVE  /\ \A n \in Visited(t) : RootPath(t, n) \in Seq(Visited(t))
         /\ RootPath(t, t.root) = <<t.root>>
         /\ \A n \in Visited(t) \ {t.root} :
              RootPath(t, n) = Append(RootPath(t, t.parent[n]), n)
  <1> DEFINE D == Visited(t)
             V == Seq(D)
             start == [n \in D |-> <<n>>]
             stop == {t.root}
             p == [n \in D |-> t.parent[n]]
             h == [x \in D \X V |-> Append(x[2], x[1])]
             step(q) == [m \in D |-> IF m = t.root THEN <<m>> ELSE Append(q[t.parent[m]], m)]
             path == CHOOSE q : q = step(q)
  <1>1. t.root \in D /\ \A n \in D : n \in Node /\ t.parent[n] \in D
    BY TreeFacts
  <1>2. PICK d : IsRank(d, t)
    BY DEF IsTree
  <1> DEFINE r == [n \in D |-> d[n]]
  <1>3. r \in [D -> Nat] /\ \A n \in D \ stop : p[n] \in D /\ r[p[n]] < r[n]
    BY <1>1, <1>2 DEF IsRank
  <1>4. start \in [D -> V]
    OBVIOUS
  <1>5. h \in [D \X V -> V]
    <2> SUFFICES ASSUME NEW n \in D, NEW s \in V PROVE Append(s, n) \in V
      OBVIOUS
    <2> QED OBVIOUS
  <1>6. PICK f : IsRecursion(f, D, V, start, stop, p, h)
    <2>1. \A n \in D \ stop : p[n] \in D /\ r[p[n]] < r[n]
      BY <1>3
    <2> HIDE DEF D, V, start, stop, p, h, r
    <2> QED BY <1>3, <1>4, <1>5, <2>1, RankedRecursion
  <1>7. /\ f \in [D -> V]
        /\ \A n \in D : f[n] = IF n \in stop THEN start[n] ELSE h[<<n, f[p[n]]>>]
    BY <1>6 DEF IsRecursion
  <1>8. \A n \in D : f[n] = IF n = t.root THEN <<n>> ELSE Append(f[t.parent[n]], n)
    <2> SUFFICES ASSUME NEW n \in D
                 PROVE  f[n] = IF n = t.root THEN <<n>> ELSE Append(f[t.parent[n]], n)
      OBVIOUS
    <2>1. CASE n = t.root
      BY <1>7, <2>1
    <2>2. CASE n # t.root
      <3>1. p[n] = t.parent[n] /\ t.parent[n] \in D /\ f[t.parent[n]] \in V
        BY <1>1, <1>7
      <3>2. <<n, f[t.parent[n]]>> \in D \X V
        BY <3>1
      <3>3. h[<<n, f[t.parent[n]]>>] = Append(f[t.parent[n]], n)
        BY <3>2
      <3> QED BY <1>7, <2>2, <3>1, <3>3
    <2> QED BY <2>1, <2>2
  <1>9. f = step(f)
    <2> HIDE DEF V
    <2> QED BY <1>7, <1>8
  <1>10. path = step(path)
    <2> HIDE DEF step
    <2> QED BY <1>9
  <1>11. \A n \in D : path[n] = IF n = t.root THEN <<n>> ELSE Append(path[t.parent[n]], n)
    <2> HIDE DEF path
    <2> QED BY <1>10
  <1>12. \A n \in D : RootPath(t, n) = path[n]
    BY DEF RootPath
  <1> HIDE DEF path
  <1> DEFINE Good == {n \in D : path[n] \in V}
  <1>13. D \subseteq Good
    <2>1. t.root \in Good
      <3>1. path[t.root] = <<t.root>>
        BY <1>1, <1>11
      <3>2. <<t.root>> \in V
        BY <1>1
      <3> HIDE DEF V
      <3> QED BY <1>1, <3>1, <3>2
    <2>2. ASSUME NEW n \in D \ {t.root}, t.parent[n] \in Good PROVE n \in Good
      <3>1. path[n] = Append(path[t.parent[n]], n) /\ path[t.parent[n]] \in V
        BY <1>11, <2>2
      <3>2. \A q \in V : Append(q, n) \in V
        OBVIOUS
      <3> HIDE DEF V
      <3> QED BY <3>1, <3>2
    <2> HIDE DEF Good
    <2> QED BY <2>1, <2>2, TreeInduction
  <1> QED BY <1>1, <1>11, <1>12, <1>13

\* A path from the root takes roads of the graph, from the root to the node.
LEMMA RootPathFacts ==
  ASSUME NEW g, IsRoads(g), NEW t, IsTree(t, g)
  PROVE  /\ PathRoads(RootPath(t, t.root)) = {}
         /\ \A n \in Visited(t) \ {t.root} :
              PathRoads(RootPath(t, n)) = PathRoads(RootPath(t, t.parent[n])) \cup {{t.parent[n], n}}
         /\ \A n \in Visited(t) :
              /\ RootPath(t, n) \in Seq(Visited(t)) /\ Len(RootPath(t, n)) \in Nat \ {0}
              /\ RootPath(t, n)[1] = t.root /\ RootPath(t, n)[Len(RootPath(t, n))] = n
              /\ PathRoads(RootPath(t, n)) \subseteq DOMAIN g
  <1> DEFINE V == Visited(t)
             path(n) == RootPath(t, n)
             Good == {n \in V : /\ Len(path(n)) \in Nat \ {0}
                                /\ path(n)[1] = t.root /\ path(n)[Len(path(n))] = n
                                /\ PathRoads(path(n)) \subseteq DOMAIN g}
  <1>1. /\ t.root \in V /\ \A n \in V : t.parent[n] \in V
        /\ \A n \in V \ {t.root} : {n, t.parent[n]} \in DOMAIN g
    BY TreeFacts DEF IsTree
  <1>2. /\ \A n \in V : path(n) \in Seq(V)
        /\ path(t.root) = <<t.root>>
        /\ \A n \in V \ {t.root} : path(n) = Append(path(t.parent[n]), n)
    BY RootPathStep
  <1> HIDE DEF path, V
  <1>3. PathRoads(path(t.root)) = {}
    BY <1>2 DEF PathRoads
  <1>4. ASSUME NEW s \in Seq(V), NEW n \in V, Len(s) # 0
        PROVE  PathRoads(Append(s, n)) = PathRoads(s) \cup {{s[Len(s)], n}}
    <2> DEFINE a == Append(s, n)
               L == Len(s)
    <2>1. L \in Nat \ {0} /\ Len(a) = L + 1 /\ a[L + 1] = n /\ \A k \in 1..L : a[k] = s[k]
      BY <1>4
    <2>2. 1..(Len(a) - 1) = 1..L
      BY <2>1
    <2>3. PathRoads(a) = {{a[k], a[k + 1]} : k \in 1..L}
      BY <2>2 DEF PathRoads
    <2>4. {a[L], a[L + 1]} = {s[L], n}
      BY <2>1
    <2>5. \A k \in 1..(L - 1) : k \in 1..L /\ {a[k], a[k + 1]} = {s[k], s[k + 1]}
      BY <2>1
    <2>6. \A k \in 1..L : k = L \/ k \in 1..(L - 1)
      BY <2>1
    <2>7. L \in 1..L
      BY <2>1
    <2> HIDE DEF a
    <2>8. PathRoads(s) = {{s[k], s[k + 1]} : k \in 1..(L - 1)}
      BY DEF PathRoads
    <2> HIDE DEF L
    <2>9. \A e : e \in PathRoads(a) <=> e \in PathRoads(s) \cup {{s[L], n}}
      BY <2>3, <2>4, <2>5, <2>6, <2>7, <2>8
    <2> QED BY <2>9 DEF a, L
  <1>5. t.root \in Good
    <2>1. Len(path(t.root)) = 1 /\ path(t.root)[1] = t.root
      BY <1>2
    <2> QED BY <1>1, <1>3, <2>1
  <1>6. ASSUME NEW n \in V \ {t.root}, t.parent[n] \in Good
        PROVE  /\ n \in Good
               /\ PathRoads(path(n)) = PathRoads(path(t.parent[n])) \cup {{t.parent[n], n}}
    <2> DEFINE s == path(t.parent[n])
    <2>1. s \in Seq(V) /\ path(n) = Append(s, n) /\ {t.parent[n], n} \in DOMAIN g
      <3>1. {t.parent[n], n} = {n, t.parent[n]}
        OBVIOUS
      <3> QED BY <1>1, <1>2, <3>1
    <2>2. /\ Len(s) \in Nat \ {0} /\ s[1] = t.root /\ s[Len(s)] = t.parent[n]
          /\ PathRoads(s) \subseteq DOMAIN g
      BY <1>6
    <2> HIDE DEF s
    <2>3. PathRoads(path(n)) = PathRoads(s) \cup {{t.parent[n], n}}
      BY <1>4, <2>1, <2>2
    <2>4. Len(path(n)) = Len(s) + 1 /\ path(n)[1] = t.root /\ path(n)[Len(path(n))] = n
      BY <2>1, <2>2
    <2>5. Len(path(n)) \in Nat \ {0}
      BY <2>2, <2>4
    <2>7. PathRoads(path(n)) \subseteq DOMAIN g
      <3> HIDE DEF path
      <3> QED BY <2>1, <2>2, <2>3
    <2>6. n \in Good
      BY <2>4, <2>5, <2>7
    <2> QED BY <2>3, <2>6 DEF s
  <1>7. V \subseteq Good
    <2> HIDE DEF Good
    <2> QED BY <1>5, <1>6, TreeInduction DEF V
  <1>8. \A n \in V \ {t.root} :
          PathRoads(path(n)) = PathRoads(path(t.parent[n])) \cup {{t.parent[n], n}}
    BY <1>1, <1>6, <1>7
  <1>9. \A n \in V : /\ path(n) \in Seq(V) /\ Len(path(n)) \in Nat \ {0}
                     /\ path(n)[1] = t.root /\ path(n)[Len(path(n))] = n
                     /\ PathRoads(path(n)) \subseteq DOMAIN g
    BY <1>2, <1>7
  <1> QED BY <1>3, <1>8, <1>9 DEF path, V

\* What a new graph leaves of a tree is a tree of that graph, with all that is ahead
\* of it: a branch goes with the first of its roads that is missing.
LEMMA RetainedTree ==
  ASSUME NEW g0, IsRoads(g0), NEW t, IsTree(t, g0), NEW g, IsRoads(g)
  PROVE  /\ IsTree(Retained(g, t), g)
         /\ Visited(Retained(g, t)) \subseteq Visited(t)
         /\ Retained(g, t).root = t.root
         /\ Retained(g, t).expandables = Frontier(Retained(g, t), g)
  <1> DEFINE u == Retained(g, t)
             edges(n) == {{RootPath(t, n)[k], RootPath(t, n)[k + 1]} :
                            k \in 1..(Len(RootPath(t, n)) - 1)}
             kept == {n \in Visited(t) : edges(n) \subseteq DOMAIN g}
             step(c) == [n \in Node |-> IF n \notin kept \/ n = t.root THEN 0
                                        ELSE c[t.parent[n]] + g[{n, t.parent[n]}]]
             cost == CHOOSE c : c = step(c)
  <1>1. /\ t \in TreeType /\ t.root \in Visited(t) /\ Visited(t) \subseteq Node
        /\ \A n \in Visited(t) : t.parent[n] \in Visited(t) /\ t.parent[n] \in Node
        /\ \A n \in Node \ Visited(t) : t.children[n] = {}
        /\ \A n \in Visited(t) \ {t.root} : t.parent[n] # n
    <2>1. t \in TreeType
      BY DEF IsTree
    <2>2. Visited(t) \subseteq Node /\ \A n \in Visited(t) : t.parent[n] \in Node
      BY <2>1, TreeFields
    <2> QED BY <2>1, <2>2, TreeFacts
  <1>2. /\ t.parent[t.root] = t.root
        /\ \A n \in Node : t.children[n] = {m \in Visited(t) \ {t.root} : t.parent[m] = n}
    BY DEF IsTree
  <1>3. \A n \in Visited(t) : edges(n) = PathRoads(RootPath(t, n))
    BY DEF PathRoads
  <1>4. t.root \in kept
    <2>1. PathRoads(RootPath(t, t.root)) = {}
      BY RootPathFacts
    <2> HIDE DEF edges
    <2> QED BY <1>1, <1>3, <2>1
  <1>5. \A n \in kept \ {t.root} : t.parent[n] \in kept /\ {n, t.parent[n]} \in DOMAIN g
    <2> SUFFICES ASSUME NEW n \in kept, n # t.root
                 PROVE  t.parent[n] \in kept /\ {n, t.parent[n]} \in DOMAIN g
      OBVIOUS
    <2>1. n \in Visited(t) /\ edges(n) \subseteq DOMAIN g /\ t.parent[n] \in Visited(t)
      BY <1>1
    <2>2. edges(n) = edges(t.parent[n]) \cup {{t.parent[n], n}}
      <3>1. PathRoads(RootPath(t, n)) = PathRoads(RootPath(t, t.parent[n])) \cup {{t.parent[n], n}}
        BY <2>1, RootPathFacts
      <3> HIDE DEF edges
      <3> QED BY <1>3, <2>1, <3>1
    <2>3. {t.parent[n], n} = {n, t.parent[n]}
      OBVIOUS
    <2> HIDE DEF edges
    <2> QED BY <2>1, <2>2, <2>3
  <1>6. kept \subseteq Visited(t) /\ kept \subseteq Node
    BY <1>1
  <1> HIDE DEF kept
  <1>7. \A n \in kept \ {t.root} : g[{n, t.parent[n]}] \in Nat
    BY <1>5, TwoNodes
  <1>8. PICK d : IsRank(d, t)
    BY DEF IsTree
  <1>9. d \in [Node -> Nat] /\ \A n \in Visited(t) \ {t.root} : d[n] = d[t.parent[n]] + 1
    BY <1>8 DEF IsRank
  <1>10. \E c \in [Node -> Nat] : c = step(c)
    <2> DEFINE stop == (Node \ kept) \cup {t.root}
               p == [n \in Node |-> t.parent[n]]
               h == [x \in Node \X Nat |-> IF x[1] \in stop THEN 0
                                           ELSE x[2] + g[{x[1], t.parent[x[1]]}]]
               start == [n \in Node |-> 0]
    <2>1. start \in [Node -> Nat]
      OBVIOUS
    <2>2. \A n \in Node \ stop : p[n] \in Node /\ d[p[n]] < d[n]
      BY <1>1, <1>6, <1>9
    <2>3. h \in [Node \X Nat -> Nat]
      <3> SUFFICES ASSUME NEW n \in Node, NEW v \in Nat
                   PROVE  (IF n \in stop THEN 0 ELSE v + g[{n, t.parent[n]}]) \in Nat
        OBVIOUS
      <3> QED BY <1>7
    <2>4. PICK c : IsRecursion(c, Node, Nat, start, stop, p, h)
      <3>1. d \in [Node -> Nat]
        BY <1>9
      <3> HIDE DEF start, stop, p, h
      <3> QED BY <2>1, <2>2, <2>3, <3>1, RankedRecursion
    <2>5. /\ c \in [Node -> Nat]
          /\ \A n \in Node : c[n] = IF n \in stop THEN start[n] ELSE h[<<n, c[p[n]]>>]
      BY <2>4 DEF IsRecursion
    <2>6. ASSUME NEW n \in Node PROVE c[n] = step(c)[n]
      <3>1. CASE n \in stop
        BY <2>5, <3>1
      <3>2. CASE n \notin stop
        <4>1. p[n] = t.parent[n] /\ c[t.parent[n]] \in Nat
          BY <2>2, <2>5, <3>2
        <4>2. <<n, c[t.parent[n]]>> \in Node \X Nat
          BY <4>1
        <4>3. h[<<n, c[t.parent[n]]>>] = c[t.parent[n]] + g[{n, t.parent[n]}]
          BY <3>2, <4>2
        <4> QED BY <2>5, <3>2, <4>1, <4>3
      <3> QED BY <3>1, <3>2
    <2>7. c = step(c)
      BY <2>5, <2>6
    <2> QED BY <2>5, <2>7
  <1>11. cost = step(cost)
    <2> HIDE DEF step
    <2> QED BY <1>10
  <1>12. u = [root |-> t.root,
              parent |-> [n \in Node |-> IF n \in kept THEN t.parent[n] ELSE None],
              children |-> [n \in Node |-> t.children[n] \cap kept],
              cost |-> cost,
              expandables |-> (UNION {Neighbors(g, n) : n \in kept}) \ kept]
    BY DEF Retained, kept
  <1> HIDE DEF cost, u
  <1>13. \A n \in Node :
           /\ n \notin kept \/ n = t.root => cost[n] = 0
           /\ n \in kept \ {t.root} => cost[n] = cost[t.parent[n]] + g[{n, t.parent[n]}]
    BY <1>11
  <1>14. cost \in [Node -> Nat]
    <2> DEFINE Good == {n \in Visited(t) : cost[n] \in Nat}
    <2>0. \A n \in Node : n \notin kept \/ n = t.root => cost[n] \in Nat
      <3>1. \A n \in Node : n \notin kept \/ n = t.root => cost[n] = 0
        BY <1>13
      <3> QED BY <3>1
    <2>1. t.root \in Good
      BY <1>1, <2>0
    <2>2. ASSUME NEW n \in Visited(t) \ {t.root}, t.parent[n] \in Good PROVE n \in Good
      <3>1. CASE n \in kept
        <4>1. cost[t.parent[n]] \in Nat /\ g[{n, t.parent[n]}] \in Nat
          BY <1>7, <2>2, <3>1
        <4>2. cost[n] = cost[t.parent[n]] + g[{n, t.parent[n]}]
          BY <1>6, <1>13, <3>1
        <4>3. cost[n] \in Nat
          BY <4>1, <4>2
        <4> QED BY <4>3
      <3>2. CASE n \notin kept
        BY <1>1, <2>0, <3>2
      <3> QED BY <3>1, <3>2
    <2>3. Visited(t) \subseteq Good
      <3> HIDE DEF Good
      <3> QED BY <2>1, <2>2, TreeInduction
    <2>4. \A n \in Node : cost[n] \in Nat
      BY <1>6, <2>0, <2>3
    <2>5. cost = [n \in Node |-> cost[n]]
      BY <1>11
    <2> QED BY <2>4, <2>5
  <1>15. /\ u.root = t.root
         /\ u.parent = [n \in Node |-> IF n \in kept THEN t.parent[n] ELSE None]
         /\ u.children = [n \in Node |-> t.children[n] \cap kept]
         /\ u.cost = cost
         /\ u.expandables = (UNION {Neighbors(g, n) : n \in kept}) \ kept
    BY <1>12
  <1>16. u \in TreeType
    <2>1. u.root \in Node /\ u.parent \in [Node -> Node \cup {None}]
      BY <1>1, <1>6, <1>15
    <2>2. u.children \in [Node -> SUBSET Node]
      BY <1>6, <1>15
    <2>3. u.expandables \in SUBSET Node
      <3>1. \A n \in kept : Neighbors(g, n) \in SUBSET Node
        BY DEF Neighbors
      <3> HIDE DEF kept, u
      <3> QED BY <1>15, <3>1
    <2> QED BY <1>12, <1>14, <1>15, <2>1, <2>2, <2>3 DEF TreeType
  <1>17. Visited(u) = kept
    BY <1>1, <1>6, <1>15, NodeAssumption DEF Visited
  <1>18. u.parent[u.root] = u.root /\ u.cost[u.root] = 0
    <2>1. t.root \in Node /\ cost[t.root] = 0
      BY <1>1, <1>13
    <2> QED BY <1>2, <1>4, <1>15, <2>1
  <1>19. ASSUME NEW n \in Visited(u) \ {u.root}
         PROVE  /\ u.parent[n] \in Visited(u) /\ {n, u.parent[n]} \in DOMAIN g
                /\ u.cost[n] = u.cost[u.parent[n]] + g[{n, u.parent[n]}]
    <2>1. n \in kept /\ n # t.root /\ n \in Node /\ u.parent[n] = t.parent[n]
      BY <1>6, <1>15, <1>17
    <2> QED BY <1>5, <1>13, <1>15, <1>17, <2>1
  <1>20. ASSUME NEW n \in Node
         PROVE  u.children[n] = {m \in Visited(u) \ {u.root} : u.parent[m] = n}
    BY <1>2, <1>6, <1>15, <1>17
  <1>21. IsRank(d, u)
    <2> SUFFICES ASSUME NEW n \in Visited(u) \ {u.root} PROVE d[n] = d[u.parent[n]] + 1
      BY <1>9 DEF IsRank
    <2> QED BY <1>6, <1>9, <1>15, <1>17
  <1>22. IsTree(u, g)
    BY <1>16, <1>18, <1>19, <1>20, <1>21 DEF IsTree
  <1>23. u.expandables = Frontier(u, g)
    BY <1>15, <1>17 DEF Frontier
  <1> QED BY <1>6, <1>15, <1>17, <1>22, <1>23 DEF u

-----------------------------------------------------------------------------
(* Walks                                                                    *)

\* f adds up the weights along q.
IsLength(f, g, q) ==
  /\ f \in [1..Len(q) -> Int] /\ f[1] = 0
  /\ \A k \in 1..(Len(q) - 1) : f[k + 1] = f[k] + g[{q[k], q[k + 1]}]

\* q is a walk from m to n of weight w on g.
IsWalk(g, q, m, n, w) ==
  /\ q \in Seq(Node) /\ Len(q) \in Nat \ {0} /\ q[1] = m /\ q[Len(q)] = n
  /\ \A k \in 1..(Len(q) - 1) : {q[k], q[k + 1]} \in DOMAIN g
  /\ \E f : IsLength(f, g, q) /\ f[Len(q)] = w

LEMMA WalkOn ==
  ASSUME NEW g, IsRoads(g), NEW q, NEW r, NEW m, NEW n, NEW o, NEW v, NEW w,
         IsWalk(g, q, m, n, v), IsWalk(g, r, n, o, w)
  PROVE  /\ IsWalk(g, q \o Tail(r), m, o, v + w)
         /\ Len(q) <= Len(q \o Tail(r))
         /\ \A k \in 1..Len(q) : (q \o Tail(r))[k] = q[k]
  <1> DEFINE a == q \o Tail(r)
             L == Len(q)
             M == Len(r)
  <1>1. /\ q \in Seq(Node) /\ L \in Nat \ {0} /\ q[1] = m /\ q[L] = n
        /\ r \in Seq(Node) /\ M \in Nat \ {0} /\ r[1] = n /\ r[M] = o
    BY DEF IsWalk
  <1>2. /\ Tail(r) \in Seq(Node) /\ Len(Tail(r)) = M - 1
        /\ \A k \in 1..(M - 1) : Tail(r)[k] = r[k + 1]
    BY <1>1
  <1>3. /\ a \in Seq(Node) /\ Len(a) = L + (M - 1)
        /\ \A k \in 1..L : a[k] = q[k]
        /\ \A k \in 1..(M - 1) : a[L + k] = r[k + 1]
    BY <1>1, <1>2
  <1> HIDE DEF a, L, M
  <1>4. a[L] = r[1] /\ \A k \in 1..M : a[(L - 1) + k] = r[k]
    <2>1. a[L] = r[1]
      BY <1>1, <1>3
    <2> SUFFICES ASSUME NEW k \in 1..M, k # 1 PROVE a[(L - 1) + k] = r[k]
      BY <1>1, <2>1
    <2>2. k - 1 \in 1..(M - 1) /\ L + (k - 1) = (L - 1) + k /\ (k - 1) + 1 = k
      BY <1>1
    <2> QED BY <1>3, <2>2
  <1>5. \A k \in 1..(Len(a) - 1) :
          \/ k \in 1..(L - 1) /\ k + 1 \in 1..L /\ a[k] = q[k] /\ a[k + 1] = q[k + 1]
          \/ /\ k - (L - 1) \in 1..(M - 1) /\ k >= L
             /\ a[k] = r[k - (L - 1)] /\ a[k + 1] = r[(k - (L - 1)) + 1]
    <2> SUFFICES ASSUME NEW k \in 1..(Len(a) - 1)
                 PROVE  \/ k \in 1..(L - 1) /\ k + 1 \in 1..L /\ a[k] = q[k] /\ a[k + 1] = q[k + 1]
                        \/ /\ k - (L - 1) \in 1..(M - 1) /\ k >= L
                           /\ a[k] = r[k - (L - 1)] /\ a[k + 1] = r[(k - (L - 1)) + 1]
      OBVIOUS
    <2>1. CASE k < L
      BY <1>1, <1>3, <2>1
    <2>2. CASE k >= L
      <3> DEFINE j == k - (L - 1)
      <3>1. j \in 1..(M - 1) /\ j \in 1..M /\ j + 1 \in 1..M
        BY <1>1, <1>3, <2>2
      <3>2. (L - 1) + j = k /\ (L - 1) + (j + 1) = k + 1
        BY <1>1
      <3> HIDE DEF j
      <3>3. a[k] = r[j] /\ a[k + 1] = r[j + 1]
        BY <1>4, <3>1, <3>2
      <3> QED BY <2>2, <3>1, <3>3 DEF j
    <2> QED BY <1>1, <2>1, <2>2
  <1>6. PICK e : IsLength(e, g, q) /\ e[L] = v
    BY DEF IsWalk, L
  <1>7. PICK f : IsLength(f, g, r) /\ f[M] = w
    BY DEF IsWalk, M
  <1>8. /\ e \in [1..L -> Int] /\ e[1] = 0
        /\ \A k \in 1..(L - 1) : e[k + 1] = e[k] + g[{q[k], q[k + 1]}]
        /\ f \in [1..M -> Int] /\ f[1] = 0
        /\ \A k \in 1..(M - 1) : f[k + 1] = f[k] + g[{r[k], r[k + 1]}]
    BY <1>6, <1>7 DEF IsLength, L, M
  <1> DEFINE h == [k \in 1..(L + (M - 1)) |-> IF k <= L THEN e[k] ELSE v + f[k - (L - 1)]]
  <1>9. v \in Int /\ w \in Int
    BY <1>1, <1>6, <1>7, <1>8
  <1>10. \A k \in 1..L : h[k] = e[k]
    BY <1>1
  <1>11. \A k \in 1..M : h[(L - 1) + k] = v + f[k]
    <2> SUFFICES ASSUME NEW k \in 1..M PROVE h[(L - 1) + k] = v + f[k]
      OBVIOUS
    <2>1. CASE k = 1
      <3>1. (L - 1) + k = L /\ f[k] = 0
        BY <1>1, <1>8, <2>1
      <3> QED BY <1>1, <1>6, <1>9, <1>10, <3>1
    <2>2. CASE k # 1
      <3>1. /\ (L - 1) + k \in 1..(L + (M - 1)) /\ ~ (L - 1) + k <= L
            /\ ((L - 1) + k) - (L - 1) = k
        BY <1>1, <2>2
      <3> QED BY <3>1
    <2> QED BY <2>1, <2>2
  <1>12. h \in [1..(L + (M - 1)) -> Int]
    <2> SUFFICES ASSUME NEW k \in 1..(L + (M - 1))
                 PROVE  (IF k <= L THEN e[k] ELSE v + f[k - (L - 1)]) \in Int
      OBVIOUS
    <2>1. CASE k <= L
      BY <1>1, <1>8, <2>1
    <2>2. CASE ~ k <= L
      <3>1. k - (L - 1) \in 1..M
        BY <1>1, <2>2
      <3> QED BY <1>8, <1>9, <2>2, <3>1
    <2> QED BY <2>1, <2>2
  <1> HIDE DEF h
  <1>13. h[1] = 0 /\ h[Len(a)] = v + w
    <2>1. L - 1 + M = Len(a) /\ M \in 1..M /\ 1 \in 1..L
      BY <1>1, <1>3
    <2> QED BY <1>7, <1>8, <1>10, <1>11, <2>1
  <1>14. ASSUME NEW k \in 1..(Len(a) - 1)
         PROVE  {a[k], a[k + 1]} \in DOMAIN g /\ h[k + 1] = h[k] + g[{a[k], a[k + 1]}]
    <2>1. CASE k \in 1..(L - 1) /\ k + 1 \in 1..L /\ a[k] = q[k] /\ a[k + 1] = q[k + 1]
      <3>1. k \in 1..L
        BY <1>1, <2>1
      <3>2. {q[k], q[k + 1]} \in DOMAIN g
        BY <2>1 DEF IsWalk, L
      <3> QED BY <1>8, <1>10, <2>1, <3>1, <3>2
    <2>2. CASE /\ k - (L - 1) \in 1..(M - 1) /\ k >= L
               /\ a[k] = r[k - (L - 1)] /\ a[k + 1] = r[(k - (L - 1)) + 1]
      <3> DEFINE j == k - (L - 1)
      <3>1. j \in 1..(M - 1) /\ a[k] = r[j] /\ a[k + 1] = r[j + 1]
        BY <2>2
      <3>2. (L - 1) + j = k /\ (L - 1) + (j + 1) = k + 1
        BY <1>1
      <3> HIDE DEF j
      <3>3. j \in 1..M /\ j + 1 \in 1..M
        BY <1>1, <3>1
      <3>4. {r[j], r[j + 1]} \in DOMAIN g
        BY <3>1 DEF IsWalk, M
      <3>5. h[k] = v + f[j] /\ h[k + 1] = v + f[j + 1] /\ f[j + 1] = f[j] + g[{r[j], r[j + 1]}]
        BY <1>8, <1>11, <3>1, <3>2, <3>3
      <3>6. g[{r[j], r[j + 1]}] \in Nat /\ f[j] \in Int
        BY <1>8, <3>3, <3>4 DEF IsRoads
      <3> QED BY <1>9, <3>1, <3>4, <3>5, <3>6
    <2> QED BY <1>5, <2>1, <2>2
  <1>15. IsLength(h, g, a)
    BY <1>3, <1>12, <1>13, <1>14 DEF IsLength
  <1>16. a[1] = m /\ a[Len(a)] = o
    <2>1. 1 \in 1..L /\ M \in 1..M /\ (L - 1) + M = Len(a)
      BY <1>1, <1>3
    <2> QED BY <1>1, <1>3, <1>4, <2>1
  <1>17. IsWalk(g, a, m, o, v + w)
    <2>1. Len(a) \in Nat \ {0}
      BY <1>1, <1>3
    <2> QED BY <1>3, <1>13, <1>14, <1>15, <1>16, <2>1 DEF IsWalk
  <1>18. L <= Len(a)
    BY <1>1, <1>3
  <1> QED BY <1>3, <1>17, <1>18 DEF a, L


LEMMA WalkBack ==
  ASSUME NEW g, IsRoads(g), NEW q, NEW m, NEW n, NEW w, IsWalk(g, q, m, n, w)
  PROVE  IsWalk(g, Reverse(q), n, m, w)
  <1> DEFINE a == Reverse(q)
             L == Len(q)
  <1>1. /\ q \in Seq(Node) /\ L \in Nat \ {0} /\ q[1] = m /\ q[L] = n
        /\ \A k \in 1..(L - 1) : {q[k], q[k + 1]} \in DOMAIN g
    BY DEF IsWalk
  <1>2. a = [k \in 1..L |-> q[(L - k) + 1]]
    BY DEF Reverse
  <1>3. a \in Seq(Node) /\ Len(a) = L
    <2>1. \A k \in 1..L : q[(L - k) + 1] \in Node
      BY <1>1
    <2>2. L \in Nat
      BY <1>1
    <2> HIDE DEF a, L
    <2> QED BY <1>2, <2>1, <2>2
  <1>4. PICK f : IsLength(f, g, q) /\ f[L] = w
    BY DEF IsWalk, L
  <1>5. /\ f \in [1..L -> Int] /\ f[1] = 0
        /\ \A k \in 1..(L - 1) : f[k + 1] = f[k] + g[{q[k], q[k + 1]}]
    BY <1>4 DEF IsLength, L
  <1> DEFINE h == [k \in 1..L |-> w - f[(L - k) + 1]]
  <1> HIDE DEF a, L
  <1>6. w \in Int
    BY <1>1, <1>4, <1>5
  <1>7. \A k \in 1..L : (L - k) + 1 \in 1..L /\ a[k] = q[(L - k) + 1] /\ h[k] = w - f[(L - k) + 1]
    BY <1>1, <1>2
  <1>8. h \in [1..L -> Int]
    BY <1>5, <1>6, <1>7
  <1> HIDE DEF h
  <1>9. a[1] = n /\ a[L] = m /\ h[1] = 0 /\ h[L] = w
    <2>1. 1 \in 1..L /\ L \in 1..L /\ (L - 1) + 1 = L /\ (L - L) + 1 = 1
      BY <1>1
    <2>2. a[1] = q[L] /\ a[L] = q[1] /\ h[1] = w - f[L] /\ h[L] = w - f[1]
      BY <1>7, <2>1
    <2>3. w - w = 0 /\ w - 0 = w
      BY <1>6
    <2> QED BY <1>1, <1>4, <1>5, <2>2, <2>3
  <1>10. ASSUME NEW k \in 1..(L - 1)
         PROVE  {a[k], a[k + 1]} \in DOMAIN g /\ h[k + 1] = h[k] + g[{a[k], a[k + 1]}]
    <2> DEFINE j == L - k
    <2>1. /\ j \in 1..(L - 1) /\ (L - k) + 1 = j + 1 /\ (L - (k + 1)) + 1 = j
          /\ k \in 1..L /\ k + 1 \in 1..L /\ j \in 1..L /\ j + 1 \in 1..L
      BY <1>1
    <2> HIDE DEF j
    <2>2. /\ a[k] = q[j + 1] /\ a[k + 1] = q[j]
          /\ h[k] = w - f[j + 1] /\ h[k + 1] = w - f[j]
      BY <1>7, <2>1
    <2>3. {a[k], a[k + 1]} = {q[j], q[j + 1]}
      BY <2>2
    <2>4. {q[j], q[j + 1]} \in DOMAIN g /\ f[j + 1] = f[j] + g[{q[j], q[j + 1]}]
      BY <1>1, <1>5, <2>1
    <2>5. g[{q[j], q[j + 1]}] \in Nat /\ f[j] \in Int /\ f[j + 1] \in Int
      BY <1>5, <2>1, <2>4 DEF IsRoads
    <2>6. h[k + 1] = h[k] + g[{q[j], q[j + 1]}]
      BY <1>6, <2>2, <2>4, <2>5
    <2> QED BY <2>3, <2>4, <2>6
  <1>11. IsLength(h, g, a)
    BY <1>3, <1>8, <1>9, <1>10 DEF IsLength
  <1>12. IsWalk(g, a, n, m, w)
    BY <1>1, <1>3, <1>9, <1>10, <1>11 DEF IsWalk
  <1> QED BY <1>12 DEF a

LEMMA WalkFrom ==
  ASSUME NEW g, NEW n \in Node
  PROVE  IsWalk(g, <<n>>, n, n, 0)
  <1>1. /\ <<n>> \in Seq(Node) /\ Len(<<n>>) = 1 /\ <<n>>[1] = n
        /\ \A k \in 1..(1 - 1) : FALSE
    OBVIOUS
  <1> DEFINE f == [k \in 1..1 |-> 0]
  <1>2. IsLength(f, g, <<n>>) /\ f[1] = 0
    BY <1>1 DEF IsLength
  <1> HIDE DEF f
  <1> QED BY <1>1, <1>2 DEF IsWalk

LEMMA RoadIsWalk ==
  ASSUME NEW g, IsRoads(g), NEW m, NEW n, {m, n} \in DOMAIN g
  PROVE  IsWalk(g, <<m, n>>, m, n, g[{m, n}])
  <1>1. m \in Node /\ n \in Node /\ g[{m, n}] \in Nat
    BY TwoNodes
  <1> DEFINE q == <<m, n>>
             f == [k \in 1..2 |-> IF k = 1 THEN 0 ELSE g[{m, n}]]
  <1>2. /\ q \in Seq(Node) /\ Len(q) = 2 /\ q[1] = m /\ q[2] = n
        /\ \A k \in 1..(2 - 1) : k = 1 /\ k + 1 = 2
    BY <1>1
  <1>3. f \in [1..2 -> Int] /\ f[1] = 0 /\ f[2] = g[{m, n}]
    BY <1>1
  <1> HIDE DEF f, q
  <1>4. \A k \in 1..(Len(q) - 1) : /\ {q[k], q[k + 1]} = {m, n}
                                  /\ f[k + 1] = f[k] + g[{q[k], q[k + 1]}]
    <2> SUFFICES ASSUME NEW k \in 1..(Len(q) - 1)
                 PROVE  {q[k], q[k + 1]} = {m, n} /\ f[k + 1] = f[k] + g[{q[k], q[k + 1]}]
      OBVIOUS
    <2>1. k = 1 /\ q[k] = m /\ q[k + 1] = n /\ f[k] = 0 /\ f[k + 1] = g[{m, n}]
      BY <1>2, <1>3
    <2>2. {q[k], q[k + 1]} = {m, n}
      BY <2>1
    <2>3. g[{m, n}] = 0 + g[{m, n}]
      BY <1>1
    <2> QED BY <2>1, <2>2, <2>3
  <1>5. IsLength(f, g, q)
    BY <1>2, <1>3, <1>4 DEF IsLength
  <1>6. IsWalk(g, q, m, n, g[{m, n}])
    <2>1. Len(q) \in Nat \ {0} /\ q[Len(q)] = n /\ f[Len(q)] = g[{m, n}]
      BY <1>2, <1>3
    <2>2. \A k \in 1..(Len(q) - 1) : {q[k], q[k + 1]} \in DOMAIN g
      BY <1>4, Zenon
    <2> QED BY <1>2, <1>5, <2>1, <2>2 DEF IsWalk
  <1> QED BY <1>6 DEF q

\* The path from the root to a node weighs what the tree says it costs.
LEMMA RootPathIsWalk ==
  ASSUME NEW g, IsRoads(g), NEW t, IsTree(t, g)
  PROVE  \A n \in Visited(t) : IsWalk(g, RootPath(t, n), t.root, n, t.cost[n])
  <1> DEFINE Good == {n \in Visited(t) : IsWalk(g, RootPath(t, n), t.root, n, t.cost[n])}
  <1>1. /\ t.root \in Visited(t) /\ t.cost[t.root] = 0
        /\ \A n \in Visited(t) : n \in Node /\ t.cost[n] \in Nat /\ t.parent[n] \in Visited(t)
        /\ \A n \in Visited(t) \ {t.root} :
             /\ {n, t.parent[n]} \in DOMAIN g
             /\ t.cost[n] = t.cost[t.parent[n]] + g[{n, t.parent[n]}]
    BY TreeFacts DEF IsTree
  <1>2. /\ RootPath(t, t.root) = <<t.root>>
        /\ \A n \in Visited(t) : RootPath(t, n) \in Seq(Visited(t))
        /\ \A n \in Visited(t) \ {t.root} :
             RootPath(t, n) = Append(RootPath(t, t.parent[n]), n)
    BY RootPathStep
  <1>3. t.root \in Good
    BY <1>1, <1>2, WalkFrom
  <1>4. ASSUME NEW n \in Visited(t) \ {t.root}, t.parent[n] \in Good PROVE n \in Good
    <2> DEFINE p == t.parent[n]
    <2>1. IsWalk(g, RootPath(t, p), t.root, p, t.cost[p])
      BY <1>4
    <2>2. {p, n} = {n, p} /\ {n, p} \in DOMAIN g /\ t.cost[n] = t.cost[p] + g[{n, p}]
      BY <1>1
    <2>3. IsWalk(g, <<p, n>>, p, n, g[{p, n}])
      BY <2>2, RoadIsWalk
    <2> HIDE DEF p
    <2>4. IsWalk(g, RootPath(t, p) \o Tail(<<p, n>>), t.root, n, t.cost[p] + g[{p, n}])
      BY <2>1, <2>3, WalkOn
    <2>5. RootPath(t, p) \o Tail(<<p, n>>) = Append(RootPath(t, p), n)
      <3>1. Tail(<<p, n>>) = <<n>>
        OBVIOUS
      <3>2. RootPath(t, p) \in Seq(Visited(t))
        BY <1>1, <1>2 DEF p
      <3> QED BY <3>1, <3>2
    <2>6. RootPath(t, n) = Append(RootPath(t, p), n)
      BY <1>2 DEF p
    <2>7. IsWalk(g, RootPath(t, n), t.root, n, t.cost[n])
      BY <2>2, <2>4, <2>5, <2>6
    <2> QED BY <2>7
  <1> HIDE DEF Good
  <1>5. Visited(t) \subseteq Good
    BY <1>3, <1>4, TreeInduction
  <1> QED BY <1>5 DEF Good

-----------------------------------------------------------------------------
(* Parts of walks, and walks that pass no node twice                        *)

\* f measures the path q along roads of g.
Measures(f, g, q) ==
  /\ q \in Seq(Node) /\ Len(q) \in Nat \ {0}
  /\ \A k \in 1..(Len(q) - 1) : {q[k], q[k + 1]} \in DOMAIN g
  /\ IsLength(f, g, q)

\* A walk is a measured path with these ends and this length.
LEMMA WalkMeasured ==
  ASSUME NEW g, NEW q, NEW m, NEW n, NEW w
  PROVE  /\ IsWalk(g, q, m, n, w) =>
              q[1] = m /\ q[Len(q)] = n /\ \E f : Measures(f, g, q) /\ f[Len(q)] = w
         /\ \A f : Measures(f, g, q) => IsWalk(g, q, q[1], q[Len(q)], f[Len(q)])
  BY DEF IsWalk, Measures

\* Any path along roads has a length.
LEMMA PathHasLength ==
  ASSUME NEW g, IsRoads(g), NEW q \in Seq(Node), Len(q) \in Nat \ {0},
         \A k \in 1..(Len(q) - 1) : {q[k], q[k + 1]} \in DOMAIN g
  PROVE  \E f : Measures(f, g, q)
  <1> DEFINE N == Len(q) - 1
             v == [k \in 1..N |-> g[{q[k], q[k + 1]}]]
  <1>1. N \in Nat /\ IsFiniteSet(1..N) /\ Len(q) = N + 1
    BY FS_Interval
  <1>2. \A k \in 1..N : g[{q[k], q[k + 1]}] \in Nat
    BY DEF IsRoads
  <1>3. v \in [1..N -> Nat] /\ \A k \in 1..N : v[k] = g[{q[k], q[k + 1]}]
    BY <1>2
  <1>4. PICK F : IsSum(F, 1..N, v)
    <2> HIDE DEF v, N
    <2> QED BY <1>1, <1>3, ChoiceSumExists, ChoiceSumIsSum
  <1> DEFINE f == [k \in 1..(N + 1) |-> F[1..(k - 1)]]
  <1> HIDE DEF v, N
  <1>5. \A k \in 1..(N + 1) : F[1..(k - 1)] \in Nat
    <2> SUFFICES ASSUME NEW k \in 1..(N + 1) PROVE F[1..(k - 1)] \in Nat
      OBVIOUS
    <2>1. 1..(k - 1) \in SUBSET (1..N)
      BY <1>1
    <2> QED BY <1>4, <2>1 DEF IsSum
  <1>6. F[1..(1 - 1)] = 0
    <2>1. 1..(1 - 1) = {}
      OBVIOUS
    <2> QED BY <1>4, <2>1 DEF IsSum
  <1>7. ASSUME NEW k \in 1..N PROVE f[k + 1] = f[k] + g[{q[k], q[k + 1]}]
    <2>1. (k + 1) - 1 = k /\ 1..k \in SUBSET (1..N) /\ k \in 1..k /\ (1..k) \ {k} = 1..(k - 1)
      BY <1>1
    <2>2. F[1..k] = v[k] + F[(1..k) \ {k}]
      BY <1>4, <2>1 DEF IsSum
    <2>3. k \in 1..(N + 1) /\ k + 1 \in 1..(N + 1)
      BY <1>1
    <2>4. f[k + 1] = F[1..k] /\ f[k] = F[1..(k - 1)]
      BY <2>1, <2>3
    <2>5. F[1..(k - 1)] \in Nat /\ v[k] \in Nat
      BY <1>3, <1>5, <2>3
    <2>6. F[1..k] = v[k] + F[1..(k - 1)]
      BY <2>1, <2>2
    <2> HIDE DEF f
    <2>7. f[k + 1] = f[k] + v[k]
      BY <2>4, <2>5, <2>6
    <2> QED BY <1>3, <2>7
  <1>8. f \in [1..(N + 1) -> Int]
    BY <1>5
  <1>9. f[1] = 0
    BY <1>1, <1>6
  <1> HIDE DEF f
  <1>10. IsLength(f, g, q)
    <2>1. Len(q) - 1 = N
      BY <1>1
    <2> QED BY <1>1, <1>7, <1>8, <1>9, <2>1 DEF IsLength
  <1>11. Measures(f, g, q)
    BY <1>10 DEF Measures
  <1> QED BY <1>11

\* Lengths count up along a path.
LEMMA LengthGrows ==
  ASSUME NEW g, IsRoads(g), NEW q, NEW f, Measures(f, g, q)
  PROVE  \A j, k \in 1..Len(q) : f[k] \in Nat /\ (j <= k => f[j] <= f[k])
  <1> DEFINE L == Len(q)
  <1>1. L \in Nat \ {0} /\ f[1] = 0
        /\ \A k \in 1..(L - 1) : /\ f[k] \in Int /\ f[k + 1] \in Int
                                 /\ g[{q[k], q[k + 1]}] \in Nat
                                 /\ f[k + 1] = f[k] + g[{q[k], q[k + 1]}]
    <2>1. \A k \in 1..(L - 1) : k \in 1..L /\ k + 1 \in 1..L
      BY DEF Measures
    <2> QED BY <2>1 DEF Measures, IsLength, IsRoads
  <1> HIDE DEF L
  <1>2. \A k \in 1..(L - 1) : f[k] \in Int /\ f[k + 1] \in Int /\ f[k] <= f[k + 1]
    <2> SUFFICES ASSUME NEW k \in 1..(L - 1)
                 PROVE  f[k] \in Int /\ f[k + 1] \in Int /\ f[k] <= f[k + 1]
      OBVIOUS
    <2> DEFINE c == g[{q[k], q[k + 1]}]
    <2>1. f[k] \in Int /\ f[k + 1] \in Int /\ c \in Nat /\ f[k + 1] = f[k] + c
      BY <1>1
    <2> HIDE DEF c
    <2> QED BY <2>1
  <1>3. \A k \in 1..L : f[k] \in Int
    <2> SUFFICES ASSUME NEW k \in 1..L PROVE f[k] \in Int
      OBVIOUS
    <2>1. CASE k = 1
      BY <1>1, <2>1
    <2>2. CASE k # 1
      <3>1. k - 1 \in 1..(L - 1) /\ (k - 1) + 1 = k
        BY <1>1, <2>2
      <3> QED BY <1>2, <3>1
    <2> QED BY <2>1, <2>2
  <1> DEFINE Good == {i \in Nat : \A j \in 1..L : j + i <= L => f[j] <= f[j + i]}
  <1>4. 0 \in Good
    <2>1. \A j \in 1..L : j + 0 = j
      OBVIOUS
    <2> QED BY <1>3, <2>1
  <1>5. ASSUME NEW i \in Nat, i \in Good PROVE i + 1 \in Good
    <2> SUFFICES ASSUME NEW j \in 1..L, j + (i + 1) <= L PROVE f[j] <= f[j + (i + 1)]
      OBVIOUS
    <2>1. j + i <= L /\ j + i \in 1..(L - 1) /\ (j + i) + 1 = j + (i + 1)
      BY <1>1
    <2>2. f[j] <= f[j + i] /\ f[j] \in Int
      BY <1>3, <1>5, <2>1
    <2>3. f[j + i] \in Int /\ f[(j + i) + 1] \in Int /\ f[j + i] <= f[(j + i) + 1]
      BY <1>2, <2>1
    <2> QED BY <2>1, <2>2, <2>3
  <1>6. Nat \subseteq Good
    <2> HIDE DEF Good
    <2> QED BY <1>4, <1>5, NatSetInduction
  <1>7. \A j, k \in 1..L : j <= k => f[j] <= f[k]
    <2> SUFFICES ASSUME NEW j \in 1..L, NEW k \in 1..L, j <= k PROVE f[j] <= f[k]
      OBVIOUS
    <2>1. k - j \in Nat /\ j + (k - j) = k /\ k <= L
      BY <1>1
    <2> QED BY <1>6, <2>1
  <1>8. \A k \in 1..L : f[k] \in Nat
    <2> SUFFICES ASSUME NEW k \in 1..L PROVE f[k] \in Nat
      OBVIOUS
    <2>1. 1 \in 1..L /\ 1 <= k
      BY <1>1
    <2> QED BY <1>1, <1>3, <1>7, <2>1
  <1> QED BY <1>7, <1>8 DEF L

\* A part of a path is a walk, as long as the lengths at its ends are apart.
LEMMA WalkPart ==
  ASSUME NEW g, IsRoads(g), NEW q, NEW f, Measures(f, g, q),
         NEW a \in 1..Len(q), NEW b \in 1..Len(q), a <= b
  PROVE  /\ IsWalk(g, SubSeq(q, a, b), q[a], q[b], f[b] - f[a]) /\ f[b] - f[a] \in Nat
         /\ Len(SubSeq(q, a, b)) = (b - a) + 1
  <1> DEFINE L == Len(q)
             r == SubSeq(q, a, b)
             N == (b - a) + 1
             h == [k \in 1..N |-> f[(a - 1) + k] - f[a]]
  <1>1. /\ q \in Seq(Node) /\ L \in Nat \ {0}
        /\ \A k \in 1..(L - 1) : {q[k], q[k + 1]} \in DOMAIN g
        /\ f \in [1..L -> Int]
        /\ \A k \in 1..(L - 1) : f[k + 1] = f[k] + g[{q[k], q[k + 1]}]
    BY DEF Measures, IsLength
  <1>2. a \in Nat /\ b \in Nat /\ 1 <= a /\ a <= b /\ b <= L /\ N \in Nat \ {0}
    BY <1>1
  <1>3. r \in Seq(Node) /\ Len(r) = N /\ \A k \in 1..N : r[k] = q[(a - 1) + k]
    <2>1. a \in 1..(Len(q) + 1) /\ b \in (a - 1)..Len(q)
      BY <1>1, <1>2
    <2>2. \A k \in 1..N : (a + k) - 1 = (a - 1) + k
      BY <1>2
    <2> QED BY <1>1, <1>2, <2>1, <2>2
  <1>4. \A k \in 1..N : (a - 1) + k \in 1..L
    BY <1>1, <1>2
  <1>5. f[b] - f[a] \in Nat
    <2>1. f[a] \in Nat /\ f[b] \in Nat /\ f[a] <= f[b]
      BY LengthGrows
    <2> QED BY <2>1
  <1>6. h \in [1..N -> Int] /\ h[1] = 0 /\ h[N] = f[b] - f[a]
    <2>1. 1 \in 1..N /\ N \in 1..N /\ (a - 1) + 1 = a /\ (a - 1) + N = b
      BY <1>2
    <2>2. f[a] \in Int /\ \A k \in 1..N : f[(a - 1) + k] \in Int
      BY <1>1, <1>4
    <2>3. f[a] - f[a] = 0
      BY <2>2
    <2> HIDE DEF N
    <2> QED BY <2>1, <2>2, <2>3
  <1>7. \A k \in 1..N : h[k] = f[(a - 1) + k] - f[a]
    OBVIOUS
  <1> HIDE DEF r, N, h, L
  <1>8. ASSUME NEW k \in 1..(N - 1)
        PROVE  {r[k], r[k + 1]} \in DOMAIN g /\ h[k + 1] = h[k] + g[{r[k], r[k + 1]}]
    <2> DEFINE j == (a - 1) + k
    <2>1. /\ j \in 1..(L - 1) /\ k \in 1..N /\ k + 1 \in 1..N
          /\ (a - 1) + (k + 1) = j + 1
      BY <1>1, <1>2 DEF N
    <2> HIDE DEF j
    <2>2. r[k] = q[j] /\ r[k + 1] = q[j + 1] /\ h[k] = f[j] - f[a] /\ h[k + 1] = f[j + 1] - f[a]
      BY <1>3, <1>7, <2>1 DEF j
    <2>3. {q[j], q[j + 1]} \in DOMAIN g /\ f[j + 1] = f[j] + g[{q[j], q[j + 1]}]
      BY <1>1, <2>1
    <2>4. g[{q[j], q[j + 1]}] \in Nat /\ f[j] \in Int /\ f[a] \in Int
      <3>1. j \in 1..L
        BY <1>1, <2>1
      <3> QED BY <1>1, <2>3, <3>1 DEF IsRoads, L
    <2> QED BY <2>2, <2>3, <2>4
  <1>9. IsLength(h, g, r)
    BY <1>3, <1>6, <1>8 DEF IsLength
  <1>10. r[1] = q[a] /\ r[N] = q[b]
    <2>1. 1 \in 1..N /\ N \in 1..N /\ (a - 1) + 1 = a /\ (a - 1) + N = b
      BY <1>2 DEF N
    <2> QED BY <1>3, <2>1
  <1>11. IsWalk(g, r, q[a], q[b], f[b] - f[a])
    BY <1>2, <1>3, <1>6, <1>8, <1>9, <1>10 DEF IsWalk
  <1> QED BY <1>3, <1>5, <1>11 DEF r, N

\* q passes no node twice.
IsSimple(q) == \A j, k \in 1..Len(q) : q[j] = q[k] => j = k

\* A walk can be shortened to one that passes no node twice.
LEMMA SimpleWalk ==
  ASSUME NEW g, IsRoads(g), NEW q, NEW m, NEW n, NEW w, IsWalk(g, q, m, n, w)
  PROVE  \E r : \E v \in Nat : v <= w /\ IsWalk(g, r, m, n, v) /\ IsSimple(r)
  <1> DEFINE Way(r, v) == v \in Nat /\ v <= w /\ IsWalk(g, r, m, n, v)
             Lengths == {l \in Nat : \E r : \E v : Way(r, v) /\ Len(r) = l}
  <1>1. w \in Nat /\ Len(q) \in Nat
    <2>1. PICK f : Measures(f, g, q) /\ f[Len(q)] = w
      BY WalkMeasured
    <2>2. Len(q) \in 1..Len(q) /\ Len(q) \in Nat
      BY <2>1 DEF Measures
    <2> QED BY <2>1, <2>2, LengthGrows
  <1>2. Lengths \in SUBSET Nat /\ Lengths # {}
    BY <1>1
  <1>3. PICK l \in Lengths : \A k \in Lengths : l <= k
    <2> HIDE DEF Lengths
    <2> QED BY <1>2, LeastNatural
  <1>4. PICK r, v : Way(r, v) /\ Len(r) = l
    BY <1>3
  <1>5. PICK f : Measures(f, g, r) /\ f[Len(r)] = v /\ r[1] = m /\ r[Len(r)] = n
    BY <1>4, WalkMeasured
  <1>6. ASSUME NEW j \in 1..Len(r), NEW k \in 1..Len(r), r[j] = r[k], j < k PROVE FALSE
    <2>1. Len(r) \in Nat \ {0} /\ 1 \in 1..Len(r) /\ Len(r) \in 1..Len(r)
      BY <1>5 DEF Measures
    <2>2. 1 <= j /\ k <= Len(r)
      OBVIOUS
    <2>0. ASSUME NEW x \in 1..Len(r), NEW y \in 1..Len(r), x <= y
          PROVE  /\ IsWalk(g, SubSeq(r, x, y), r[x], r[y], f[y] - f[x])
                 /\ Len(SubSeq(r, x, y)) = (y - x) + 1
      BY <1>5, <2>0, WalkPart
    <2>3. /\ IsWalk(g, SubSeq(r, 1, j), r[1], r[j], f[j] - f[1])
          /\ Len(SubSeq(r, 1, j)) = (j - 1) + 1
      BY <2>0, <2>1, <2>2
    <2>4. /\ IsWalk(g, SubSeq(r, k, Len(r)), r[k], r[Len(r)], f[Len(r)] - f[k])
          /\ Len(SubSeq(r, k, Len(r))) = (Len(r) - k) + 1
      <3> DEFINE e == Len(r)
      <3>1. e \in 1..Len(r) /\ k <= e
        BY <2>1, <2>2
      <3> HIDE DEF e
      <3>2. IsWalk(g, SubSeq(r, k, e), r[k], r[e], f[e] - f[k]) /\ Len(SubSeq(r, k, e)) = (e - k) + 1
        BY <2>0, <3>1
      <3> QED BY <3>2 DEF e
    <2> DEFINE a == SubSeq(r, 1, j)
               b == SubSeq(r, k, Len(r))
               c == a \o Tail(b)
               s == f[j] - f[1]
               t == f[Len(r)] - f[k]
    <2>5. IsWalk(g, a, m, r[j], s) /\ IsWalk(g, b, r[j], n, t)
      BY <1>5, <1>6, <2>3, <2>4
    <2>6. s + t \in Nat /\ s + t <= v
      <3>1. \A i \in 1..Len(r) : f[i] \in Nat
        BY <1>5, LengthGrows
      <3>2. f[1] = 0
        BY <1>5 DEF Measures, IsLength
      <3>3. f[j] <= f[k] /\ f[k] <= f[Len(r)]
        BY <1>5, <1>6, <2>1, <2>2, LengthGrows
      <3> QED BY <1>5, <2>1, <3>1, <3>2, <3>3
    <2> HIDE DEF s, t
    <2>7. Len(a) \in Nat /\ Len(b) \in Nat \ {0} /\ a \in Seq(Node) /\ b \in Seq(Node)
      BY <2>5 DEF IsWalk
    <2>8. IsWalk(g, c, m, n, s + t)
      <3> HIDE DEF a, b
      <3> QED BY <2>5, WalkOn
    <2>9. Len(c) = j + (Len(r) - k)
      <3> HIDE DEF a, b
      <3>1. Tail(b) \in Seq(Node) /\ Len(Tail(b)) = Len(b) - 1
        BY <2>7
      <3>2. Len(c) = Len(a) + Len(Tail(b))
        BY <2>7, <3>1
      <3>3. Len(a) = (j - 1) + 1 /\ Len(b) = (Len(r) - k) + 1
        BY <2>3, <2>4 DEF a, b
      <3>4. Len(a) = j
        BY <3>3
      <3> QED BY <2>1, <3>1, <3>2, <3>3, <3>4
    <2> HIDE DEF c
    <2>10. Len(c) < Len(r) /\ Len(c) \in Nat
      BY <1>6, <2>1, <2>9
    <2>11. Way(c, s + t)
      BY <1>4, <2>6, <2>8, <1>1
    <2>12. Len(c) \in Lengths
      BY <2>10, <2>11
    <2> HIDE DEF Lengths
    <2> QED BY <1>3, <1>4, <2>10, <2>12
  <1>7. IsSimple(r)
    <2>1. Len(r) \in Nat
      BY <1>5 DEF Measures
    <2>2. \A j, k \in 1..Len(r) : j = k \/ j < k \/ k < j
      BY <2>1
    <2> QED BY <1>6, <2>2 DEF IsSimple
  <1> QED BY <1>4, <1>7

\* A walk that passes no node twice has no more nodes than there are.
LEMMA SimpleIsShort ==
  ASSUME NEW q \in Seq(Node), IsSimple(q)
  PROVE  Len(q) <= Cardinality(Node)
  <1> DEFINE S == 1..Len(q)
  <1>1. IsFiniteSet(S) /\ Cardinality(S) = Len(q) /\ q \in [S -> Node]
    <2>1. Len(q) \in Nat /\ q \in [S -> Node]
      OBVIOUS
    <2>2. IsFiniteSet(1..Len(q)) /\ Cardinality(1..Len(q)) = IF 1 > Len(q) THEN 0 ELSE Len(q) - 1 + 1
      BY <2>1, FS_Interval
    <2>3. Cardinality(S) = Len(q)
      BY <2>1, <2>2
    <2> QED BY <2>1, <2>2, <2>3
  <1>2. IsFiniteSet(Node) /\ Cardinality(Node) \in Nat
    BY NodeAssumption, NodesCounted
  <1> SUFFICES ASSUME Cardinality(Node) < Cardinality(S) PROVE FALSE
    <2>1. Cardinality(S) \in Nat
      BY <1>1
    <2> QED BY <1>1, <1>2, <2>1
  <1>3. \A x, y \in S : q[x] = q[y] => x = y
    BY DEF IsSimple
  <1>4. IsFiniteSet(S) /\ q \in [S -> Node]
    BY <1>1
  <1>5. Cardinality(Node) < Cardinality(S)
    OBVIOUS
  <1> HIDE DEF S
  <1>6. \E x, y \in S : x # y /\ q[x] = q[y]
    BY <1>2, <1>4, <1>5, FS_PigeonHole
  <1> QED BY <1>3, <1>6

\* Far is more than the sum of all weights.
LEMMA FarIsSum ==
  ASSUME NEW g, NEW S, S = DOMAIN g, IsFiniteSet(S), \A e \in S : g[e] \in Nat
  PROVE  \E F : IsSum(F, S, [e \in S |-> g[e]]) /\ Far(g) = F[S] + 1
  <1> DEFINE w == [e \in S |-> g[e]]
             step(h) == [s \in SUBSET S |->
                           IF s = {} THEN 0
                           ELSE LET x == CHOOSE x \in s : TRUE IN g[x] + h[s \ {x}]]
             iter == CHOOSE h : h = step(h)
  <1>1. w \in [S -> Nat]
    OBVIOUS
  <1>2. PICK f : IsChoiceSum(f, S, w)
    <2> HIDE DEF w
    <2> QED BY <1>1, ChoiceSumExists
  <1>3. \A s \in SUBSET S : s # {} => w[CHOOSE x \in s : TRUE] = g[CHOOSE x \in s : TRUE]
    OBVIOUS
  <1> HIDE DEF w
  <1>4. \A s \in SUBSET S : f[s] = step(f)[s]
    BY <1>2, <1>3 DEF IsChoiceSum
  <1>5. f = step(f)
    <2>1. DOMAIN f = SUBSET S /\ f = [s \in SUBSET S |-> f[s]]
      BY <1>2 DEF IsChoiceSum
    <2> QED BY <1>4, <2>1
  <1>6. iter = step(iter)
    <2> HIDE DEF step
    <2> QED BY <1>5
  <1>7. Far(g) = iter[S] + 1
    BY DEF Far, MapThenSumSet, MapThenFoldSet
  <1> HIDE DEF iter
  <1>8. IsChoiceSum(iter, S, w)
    <2>1. iter[{}] = 0
      BY <1>6
    <2>2. \E V : iter \in [SUBSET S -> V]
      <3>1. iter \in [SUBSET S -> {iter[s] : s \in SUBSET S}]
        BY <1>6
      <3> QED BY <3>1
    <2>3. ASSUME NEW s \in SUBSET S, s # {}
          PROVE  iter[s] = w[CHOOSE x \in s : TRUE] + iter[s \ {CHOOSE x \in s : TRUE}]
      BY <1>3, <1>6, <2>3
    <2> QED BY <2>1, <2>2, <2>3 DEF IsChoiceSum
  <1>9. IsSum(iter, S, w)
    BY <1>1, <1>8, ChoiceSumIsSum
  <1> QED BY <1>7, <1>9 DEF w

\* A walk that passes no node twice uses no road twice.
LEMMA SimpleIsLight ==
  ASSUME NEW g, IsRoads(g), NEW q, NEW m, NEW n, NEW w, IsWalk(g, q, m, n, w), IsSimple(q)
  PROVE  w < Far(g) /\ Far(g) \in Nat
  <1> DEFINE S == DOMAIN g
             v == [e \in S |-> g[e]]
             L == Len(q)
             Used(k) == {{q[j], q[j + 1]} : j \in 1..(k - 1)}
  <1>1. PICK f : Measures(f, g, q) /\ f[L] = w
    BY WalkMeasured
  <1>2. IsFiniteSet(S) /\ \A e \in S : g[e] \in Nat
    <2>1. IsFiniteSet(SUBSET Node)
      BY NodeAssumption, FS_SUBSET
    <2>2. S \in SUBSET (SUBSET Node)
      BY DEF IsRoads
    <2> QED BY <2>1, <2>2, FS_Subset DEF IsRoads
  <1>3. PICK F : IsSum(F, S, v) /\ Far(g) = F[S] + 1
    BY <1>2, FarIsSum
  <1>4. /\ L \in Nat \ {0} /\ f[1] = 0
        /\ \A k \in 1..(L - 1) : /\ {q[k], q[k + 1]} \in S /\ f[k] \in Int
                                 /\ f[k + 1] = f[k] + g[{q[k], q[k + 1]}]
        /\ \A j, k \in 1..L : q[j] = q[k] => j = k
    <2>1. \A k \in 1..L : f[k] \in Nat
      BY <1>1, LengthGrows
    <2>2. \A k \in 1..(L - 1) : k \in 1..L
      BY <1>1 DEF Measures
    <2> QED BY <1>1, <2>1, <2>2 DEF Measures, IsLength, IsSimple
  <1>5. \A e \in S : v[e] = g[e]
    OBVIOUS
  <1>6. v \in [S -> Nat]
    BY <1>2
  <1>7. /\ F[{}] = 0
        /\ \A s \in SUBSET S : F[s] \in Nat /\ \A e \in s : F[s] = v[e] + F[s \ {e}]
    BY <1>3 DEF IsSum
  <1> HIDE DEF L, S, v
  <1> DEFINE Good == {k \in Nat : k + 1 <= L => f[k + 1] = F[Used(k + 1)] /\ Used(k + 1) \in SUBSET S}
  <1>8. 0 \in Good
    <2>1. Used(1) = {} /\ 0 + 1 = 1
      OBVIOUS
    <2> HIDE DEF Used
    <2>2. f[1] = F[Used(1)] /\ Used(1) \in SUBSET S
      BY <1>4, <1>7, <2>1
    <2> QED BY <2>1, <2>2
  <1>9. ASSUME NEW i \in Nat, i \in Good PROVE i + 1 \in Good
    <2> DEFINE k == i + 1
               e == {q[k], q[k + 1]}
    <2> SUFFICES ASSUME k + 1 <= L PROVE f[k + 1] = F[Used(k + 1)] /\ Used(k + 1) \in SUBSET S
      OBVIOUS
    <2>1. k \in 1..(L - 1) /\ k \in 1..L /\ k + 1 \in 1..L /\ k <= L /\ k \in Nat
      BY <1>4
    <2>2. f[k] = F[Used(k)] /\ Used(k) \in SUBSET S
      BY <1>9, <2>1
    <2>3. e \notin Used(k)
      <3> SUFFICES ASSUME NEW j \in 1..(k - 1), {q[j], q[j + 1]} = {q[k], q[k + 1]} PROVE FALSE
        OBVIOUS
      <3>1. j \in 1..L /\ j + 1 \in 1..L /\ j # k + 1 /\ j + 1 # k + 1
        <4> HIDE DEF k
        <4> QED BY <1>4, <2>1
      <3>2. q[k + 1] = q[j] \/ q[k + 1] = q[j + 1]
        OBVIOUS
      <3> HIDE DEF k
      <3> QED BY <1>4, <2>1, <3>1, <3>2
    <2>4. Used(k + 1) = Used(k) \cup {e}
      <3>1. \A j : j \in 1..((k + 1) - 1) <=> j \in 1..(k - 1) \/ j = k
        BY <2>1
      <3> HIDE DEF k
      <3> QED BY <3>1
    <2>5. e \in S /\ f[k + 1] = f[k] + g[e] /\ g[e] \in Nat /\ f[k] \in Int
      <3> HIDE DEF k
      <3> QED BY <1>2, <1>4, <2>1
    <2> HIDE DEF Used, e, k
    <2>6. Used(k + 1) \in SUBSET S /\ Used(k + 1) \ {e} = Used(k) /\ e \in Used(k + 1)
      BY <2>2, <2>3, <2>4, <2>5
    <2>7. F[Used(k + 1)] = v[e] + F[Used(k + 1) \ {e}]
      BY <1>7, <2>6
    <2>8. F[Used(k + 1)] = g[e] + F[Used(k)]
      BY <1>5, <2>5, <2>6, <2>7
    <2>9. F[Used(k + 1)] = f[k + 1]
      BY <2>2, <2>5, <2>8
    <2> QED BY <2>6, <2>9
  <1>10. Nat \subseteq Good
    <2> HIDE DEF Good
    <2> QED BY <1>8, <1>9, NatSetInduction
  <1>11. f[L] = F[Used(L)] /\ Used(L) \in SUBSET S
    <2>1. L - 1 \in Good /\ (L - 1) + 1 = L /\ L <= L
      <3>1. L - 1 \in Nat
        BY <1>4
      <3> HIDE DEF Good
      <3> QED BY <1>4, <1>10, <3>1
    <2> HIDE DEF Used
    <2> QED BY <2>1
  <1>12. F[Used(L)] \in Nat /\ F[S] \in Nat /\ F[Used(L)] <= F[S]
    <2> DEFINE A == Used(L)
    <2>1. A \in SUBSET S
      BY <1>11
    <2> HIDE DEF A
    <2>2. F[A] \in Nat /\ F[S] \in Nat /\ F[A] <= F[S]
      BY <1>2, <1>3, <1>6, <2>1, SumMonotonic
    <2> QED BY <2>2 DEF A
  <1> HIDE DEF Used
  <1> QED BY <1>1, <1>3, <1>11, <1>12

-----------------------------------------------------------------------------
(* The table of shortest walks                                              *)

LEMMA LeastIsMin ==
  ASSUME NEW T \in SUBSET Nat, T # {}
  PROVE  Min(T) \in T /\ \A x \in T : Min(T) <= x
  <1>1. \E x \in T : \A y \in T : x <= y
    BY LeastNatural
  <1> QED BY <1>1 DEF Min

\* One more road may be used.
Extended(g, v) ==
  [m \in Node |-> [n \in Node |->
     Min({v[m][n]} \cup {v[m][h] + g[{h, n}] : h \in Neighbors(g, n)})]]

LEMMA ExtendedTable ==
  ASSUME NEW g, IsRoads(g), NEW v \in [Node -> [Node -> Nat]]
  PROVE  /\ Extended(g, v) \in [Node -> [Node -> Nat]]
         /\ \A m, n \in Node :
              /\ Extended(g, v)[m][n] <= v[m][n]
              /\ \A h \in Neighbors(g, n) : Extended(g, v)[m][n] <= v[m][h] + g[{h, n}]
  <1> DEFINE T(m, n) == {v[m][n]} \cup {v[m][h] + g[{h, n}] : h \in Neighbors(g, n)}
  <1>1. ASSUME NEW m \in Node, NEW n \in Node
        PROVE  /\ Min(T(m, n)) \in Nat /\ Min(T(m, n)) <= v[m][n]
               /\ \A h \in Neighbors(g, n) : Min(T(m, n)) <= v[m][h] + g[{h, n}]
    <2>1. v[m][n] \in Nat
      OBVIOUS
    <2>2. \A h \in Neighbors(g, n) : v[m][h] + g[{h, n}] \in Nat
      BY DEF Neighbors, IsRoads
    <2>3. T(m, n) \in SUBSET Nat /\ T(m, n) # {}
      BY <2>1, <2>2
    <2>4. Min(T(m, n)) \in T(m, n) /\ \A x \in T(m, n) : Min(T(m, n)) <= x
      <3> DEFINE U == T(m, n)
      <3>1. U \in SUBSET Nat /\ U # {}
        BY <2>3
      <3> HIDE DEF U
      <3>2. Min(U) \in U /\ \A x \in U : Min(U) <= x
        BY <3>1, LeastIsMin
      <3> QED BY <3>2 DEF U
    <2> QED BY <2>3, <2>4
  <1>2. \A m, n \in Node : Extended(g, v)[m][n] = Min(T(m, n))
    BY DEF Extended
  <1>3. Extended(g, v) = [m \in Node |-> [n \in Node |-> Min(T(m, n))]]
    BY DEF Extended
  <1> DEFINE E == Extended(g, v)
  <1> HIDE DEF T, E
  <1>4. E \in [Node -> [Node -> Nat]]
    BY <1>1, <1>3 DEF E
  <1>5. \A m, n \in Node : E[m][n] = Min(T(m, n))
    BY <1>2 DEF E
  <1>6. \A m, n \in Node : /\ E[m][n] <= v[m][n]
                           /\ \A h \in Neighbors(g, n) : E[m][n] <= v[m][h] + g[{h, n}]
    <2> SUFFICES ASSUME NEW m \in Node, NEW n \in Node
                 PROVE  /\ E[m][n] <= v[m][n]
                        /\ \A h \in Neighbors(g, n) : E[m][n] <= v[m][h] + g[{h, n}]
      OBVIOUS
    <2> DEFINE c == Min(T(m, n))
    <2>1. c <= v[m][n] /\ \A h \in Neighbors(g, n) : c <= v[m][h] + g[{h, n}]
      BY <1>1
    <2>2. E[m][n] = c
      BY <1>5
    <2> HIDE DEF c
    <2> QED BY <2>1, <2>2
  <1> QED BY <1>4, <1>6 DEF E

\* D[k] bounds the walks of at most k roads from below.
IsTable(D, g) ==
  /\ \A k \in 0..Cardinality(Node) : D[k] \in [Node -> [Node -> Nat]]
  /\ \A n \in Node : D[0][n][n] = 0
  /\ \A k \in 1..Cardinality(Node) : \A m, n \in Node :
       /\ D[k][m][n] <= D[k - 1][m][n]
       /\ \A h \in Neighbors(g, n) : D[k][m][n] <= D[k - 1][m][h] + g[{h, n}]

\* Shortest computes such a table.
LEMMA ShortestIsTable ==
  ASSUME NEW g, IsRoads(g), Far(g) \in Nat
  PROVE  \E D : IsTable(D, g) /\ Shortest(g) = D[Cardinality(Node)]
  <1> DEFINE C == Cardinality(Node)
             I == 0..C
             V == [Node -> [Node -> Nat]]
             zero == [m \in Node |-> [n \in Node |-> IF m = n THEN 0 ELSE Far(g)]]
             start == [k \in I |-> zero]
             stop == {0}
             p == [k \in I |-> k - 1]
             d == [k \in I |-> k]
             h == [x \in I \X V |-> Extended(g, x[2])]
             step(f) == [k \in I |-> [m \in Node |-> [n \in Node |->
                IF k = 0 THEN IF m = n THEN 0 ELSE Far(g)
                ELSE Min({f[k - 1][m][n]} \cup
                         {f[k - 1][m][l] + g[{l, n}] : l \in Neighbors(g, n)})]]]
             within == CHOOSE f : f = step(f)
  <1>1. C \in Nat
    BY NodesCounted
  <1>2. zero \in V
    OBVIOUS
  <1>3. start \in [I -> V] /\ d \in [I -> Nat] /\ h \in [I \X V -> V]
    <2>1. \A v \in V : Extended(g, v) \in V
      BY ExtendedTable
    <2>2. start \in [I -> V]
      <3> HIDE DEF zero, V
      <3> QED BY <1>2
    <2>3. d \in [I -> Nat]
      BY <1>1
    <2>4. h \in [I \X V -> V]
      <3> HIDE DEF V, I
      <3> QED BY <2>1
    <2> QED BY <2>2, <2>3, <2>4
  <1>4. \A k \in I \ stop : p[k] \in I /\ d[p[k]] < d[k]
    BY <1>1
  <1>5. PICK f : IsRecursion(f, I, V, start, stop, p, h)
    <2> HIDE DEF I, V, start, stop, p, h, d
    <2> QED BY <1>3, <1>4, RankedRecursion
  <1>6. /\ f \in [I -> V]
        /\ \A k \in I : f[k] = IF k = 0 THEN zero ELSE h[<<k, f[p[k]]>>]
    <2>1. \A k \in I : k \in stop <=> k = 0
      OBVIOUS
    <2>2. \A k \in I : start[k] = zero
      OBVIOUS
    <2> HIDE DEF I, V, start, stop, zero, p, h, d
    <2> QED BY <1>5, <2>1, <2>2 DEF IsRecursion
  <1>7. ASSUME NEW k \in I PROVE f[k] = step(f)[k]
    <2>1. CASE k = 0
      <3>1. f[k] = zero
        BY <1>6, <2>1
      <3>2. step(f)[k] = zero
        BY <2>1
      <3> QED BY <3>1, <3>2
    <2>2. CASE k # 0
      <3>1. k - 1 \in I /\ p[k] = k - 1
        BY <1>1, <2>2
      <3>2. f[k - 1] \in V
        <4> HIDE DEF I, V, p, h, zero
        <4> QED BY <1>6, <3>1
      <3>3. f[k] = h[<<k, f[k - 1]>>]
        <4> HIDE DEF I, V, p, h, zero
        <4> QED BY <1>6, <2>2, <3>1
      <3>4. h[<<k, f[k - 1]>>] = Extended(g, f[k - 1])
        <4> HIDE DEF I, V
        <4> QED BY <3>2
      <3>5. step(f)[k] = Extended(g, f[k - 1])
        BY <2>2 DEF Extended
      <3> QED BY <3>3, <3>4, <3>5
    <2> QED BY <2>1, <2>2
  <1>8. f = step(f)
    <2>1. DOMAIN f = I /\ f = [k \in I |-> f[k]]
      <3> HIDE DEF I, V, zero, h, p
      <3> QED BY <1>6
    <2>2. DOMAIN step(f) = I /\ step(f) = [k \in I |-> step(f)[k]]
      OBVIOUS
    <2> HIDE DEF I, step
    <2> QED BY <1>7, <2>1, <2>2
  <1>9. within = step(within)
    <2> HIDE DEF step
    <2> QED BY <1>8
  <1>10. Shortest(g) = within[C]
    BY DEF Shortest
  <1> HIDE DEF within
  <1>11. within[0] = zero
    <2>1. 0 \in I
      BY <1>1
    <2>2. within[0] = step(within)[0]
      BY <1>9
    <2> QED BY <2>1, <2>2
  <1>12. \A k \in 1..C : within[k] = Extended(g, within[k - 1])
    <2> SUFFICES ASSUME NEW k \in 1..C PROVE within[k] = Extended(g, within[k - 1])
      OBVIOUS
    <2>1. k \in I /\ k # 0
      BY <1>1
    <2>2. within[k] = step(within)[k]
      BY <1>9
    <2> QED BY <2>1, <2>2 DEF Extended
  <1> HIDE DEF step, h, zero, p, d, start, stop
  <1> DEFINE Good == {k \in Nat : k <= C => within[k] \in V}
  <1>13. Nat \subseteq Good
    <2>1. 0 \in Good
      BY <1>2, <1>11
    <2>2. ASSUME NEW k \in Nat, k \in Good PROVE k + 1 \in Good
      <3> SUFFICES ASSUME k + 1 <= C PROVE within[k + 1] \in V
        OBVIOUS
      <3>1. k + 1 \in 1..C /\ (k + 1) - 1 = k /\ k <= C
        BY <1>1
      <3>2. within[k] \in V
        BY <2>2, <3>1
      <3>3. within[k + 1] = Extended(g, within[k])
        BY <1>12, <3>1
      <3> QED BY <3>2, <3>3, ExtendedTable
    <2> HIDE DEF Good
    <2> QED BY <2>1, <2>2, NatSetInduction
  <1>14. \A k \in 0..C : within[k] \in V
    <2>1. \A k \in 0..C : k \in Nat /\ k <= C
      BY <1>1
    <2> HIDE DEF V
    <2> QED BY <1>13, <2>1
  <1>15. \A n \in Node : within[0][n][n] = 0
    BY <1>11 DEF zero
  <1>16. ASSUME NEW k \in 1..C, NEW m \in Node, NEW n \in Node
         PROVE  /\ within[k][m][n] <= within[k - 1][m][n]
                /\ \A l \in Neighbors(g, n) : within[k][m][n] <= within[k - 1][m][l] + g[{l, n}]
    <2>1. k - 1 \in 0..C
      BY <1>1
    <2> DEFINE v == within[k - 1]
    <2>2. v \in V
      BY <1>14, <2>1
    <2>3. within[k] = Extended(g, v)
      BY <1>12
    <2> HIDE DEF v
    <2>4. /\ Extended(g, v)[m][n] <= v[m][n]
          /\ \A l \in Neighbors(g, n) : Extended(g, v)[m][n] <= v[m][l] + g[{l, n}]
      BY <2>2, ExtendedTable
    <2> QED BY <2>3, <2>4 DEF v
  <1>17. IsTable(within, g)
    <2> HIDE DEF I
    <2> QED BY <1>14, <1>15, <1>16 DEF IsTable
  <1> QED BY <1>10, <1>17

\* By induction on its length: a walk of k roads is no shorter than D[k] says.
LEMMA TableIsBelow ==
  ASSUME NEW g, IsRoads(g), NEW D, IsTable(D, g), NEW k \in 0..Cardinality(Node),
         NEW q, NEW m, NEW n, NEW w, IsWalk(g, q, m, n, w), Len(q) <= k + 1
  PROVE  D[k][m][n] \in Nat /\ D[k][m][n] <= w
  <1> DEFINE C == Cardinality(Node)
             Bounds(i) == \A r, a, b, u : IsWalk(g, r, a, b, u) /\ Len(r) <= i + 1 =>
                            a \in Node /\ b \in Node /\ D[i][a][b] <= u
             Good == {i \in Nat : i <= C => Bounds(i)}
  <1>0. C \in Nat
    BY NodesCounted
  <1>1. \A i \in 0..C : \A a, b \in Node : D[i][a][b] \in Nat
    BY DEF IsTable
  <1>2. \A r, a, b, u : IsWalk(g, r, a, b, u) =>
          /\ a \in Node /\ b \in Node /\ Len(r) \in Nat \ {0}
          /\ \E f : Measures(f, g, r) /\ f[Len(r)] = u /\ r[1] = a /\ r[Len(r)] = b
    <2> SUFFICES ASSUME NEW r, NEW a, NEW b, NEW u, IsWalk(g, r, a, b, u)
                 PROVE  /\ a \in Node /\ b \in Node /\ Len(r) \in Nat \ {0}
                        /\ \E f : Measures(f, g, r) /\ f[Len(r)] = u /\ r[1] = a /\ r[Len(r)] = b
      OBVIOUS
    <2>1. \E f : Measures(f, g, r) /\ f[Len(r)] = u /\ r[1] = a /\ r[Len(r)] = b
      BY WalkMeasured
    <2>2. r \in Seq(Node) /\ Len(r) \in Nat \ {0} /\ r[1] = a /\ r[Len(r)] = b
      BY DEF IsWalk
    <2>3. a \in Node /\ b \in Node
      BY <2>2
    <2> QED BY <2>1, <2>2, <2>3
  <1>3. 0 \in Good
    <2> SUFFICES ASSUME NEW r, NEW a, NEW b, NEW u, IsWalk(g, r, a, b, u), Len(r) <= 0 + 1
                 PROVE  a \in Node /\ b \in Node /\ D[0][a][b] <= u
      OBVIOUS
    <2>1. PICK f : Measures(f, g, r) /\ f[Len(r)] = u /\ r[1] = a /\ r[Len(r)] = b
      BY <1>2
    <2>2. a \in Node /\ b \in Node /\ Len(r) = 1
      <3> DEFINE L == Len(r)
      <3>1. a \in Node /\ b \in Node /\ L \in Nat \ {0} /\ L <= 0 + 1
        BY <1>2
      <3> HIDE DEF L
      <3>2. L = 1
        BY <3>1
      <3> QED BY <3>1, <3>2 DEF L
    <2>3. f[1] = 0
      BY <2>1 DEF Measures, IsLength
    <2>4. a = b /\ u = 0
      BY <2>1, <2>2, <2>3
    <2>5. D[0][a][a] = 0
      BY <2>2 DEF IsTable
    <2> QED BY <2>2, <2>4, <2>5
  <1>4. ASSUME NEW j \in Nat, j \in Good PROVE j + 1 \in Good
    <2> DEFINE i == j + 1
    <2> SUFFICES ASSUME i <= C, NEW r, NEW a, NEW b, NEW u,
                        IsWalk(g, r, a, b, u), Len(r) <= i + 1
                 PROVE  a \in Node /\ b \in Node /\ D[i][a][b] <= u
      OBVIOUS
    <2>1. j <= C /\ i \in 1..C /\ i - 1 = j /\ i \in 0..C /\ j \in 0..C
      BY <1>0
    <2>2. Bounds(j)
      BY <1>4, <2>1
    <2>3. PICK f : Measures(f, g, r) /\ f[Len(r)] = u /\ r[1] = a /\ r[Len(r)] = b
      BY <1>2
    <2>4. a \in Node /\ b \in Node /\ Len(r) \in Nat \ {0}
      BY <1>2
    <2>5. D[i][a][b] \in Nat /\ D[j][a][b] \in Nat
      BY <1>1, <2>1, <2>4
    <2>6. /\ D[i][a][b] <= D[j][a][b]
          /\ \A h \in Neighbors(g, b) : D[i][a][b] <= D[j][a][h] + g[{h, b}]
      BY <2>1, <2>4 DEF IsTable
    <2>7. \A l \in 1..Len(r) : f[l] \in Nat
      BY <2>3, LengthGrows
    <2>8. f[Len(r)] \in Nat
      BY <2>4, <2>7
    <2> HIDE DEF i, Good
    <2>9. CASE Len(r) <= j + 1
      <3>1. D[j][a][b] <= u
        BY <2>2, <2>9
      <3> QED BY <2>3, <2>4, <2>5, <2>6, <2>8, <3>1
    <2>10. CASE ~(Len(r) <= j + 1)
      <3> DEFINE L == Len(r)
                 K == L - 1
                 h == r[K]
                 s == SubSeq(r, 1, K)
      <3>1. K \in Nat \ {0} /\ K \in 1..L /\ 1 \in 1..L /\ L = K + 1 /\ K <= j + 1 /\ 1 <= K
            /\ K \in 1..(L - 1)
        <4>1. L \in Nat \ {0} /\ ~(L <= j + 1) /\ L <= (j + 1) + 1
          BY <2>4, <2>10 DEF i
        <4> HIDE DEF L
        <4> QED BY <4>1
      <3>2. IsWalk(g, s, r[1], r[K], f[K] - f[1]) /\ Len(s) = (K - 1) + 1
        <4>1. K \in 1..Len(r) /\ 1 \in 1..Len(r) /\ 1 <= K
          BY <3>1
        <4> HIDE DEF K, L
        <4> QED BY <2>3, <4>1, WalkPart, Zenon
      <3>3. f[1] = 0 /\ f[K + 1] = f[K] + g[{r[K], r[K + 1]}] /\ {r[K], r[K + 1]} \in DOMAIN g
        BY <2>3, <3>1 DEF Measures, IsLength
      <3>4. f[K] \in Nat
        BY <2>7, <3>1
      <3>5. f[K] - f[1] = f[K] /\ Len(s) <= j + 1
        BY <3>1, <3>2, <3>3, <3>4
      <3>6. IsWalk(g, s, a, h, f[K])
        BY <2>3, <3>2, <3>5
      <3>7. r[K + 1] = b
        BY <2>3, <3>1
      <3> HIDE DEF s, h, K
      <3>8. h \in Node /\ D[j][a][h] <= f[K]
        BY <2>2, <3>5, <3>6
      <3>9. {h, b} \in DOMAIN g /\ u = f[K] + g[{h, b}] /\ g[{h, b}] \in Nat
        BY <2>3, <3>1, <3>3, <3>7 DEF h, IsRoads
      <3>10. h \in Neighbors(g, b)
        BY <3>8, <3>9 DEF Neighbors
      <3>11. D[i][a][b] <= D[j][a][h] + g[{h, b}] /\ D[j][a][h] \in Nat
        BY <1>1, <2>1, <2>4, <2>6, <3>8, <3>10
      <3>12. D[i][a][b] <= u
        <4> DEFINE x == D[i][a][b]
                   y == D[j][a][h]
                   z == g[{h, b}]
                   e == f[K]
        <4>1. x <= y + z /\ y <= e /\ u = e + z
          BY <3>8, <3>9, <3>11
        <4>2. x \in Nat /\ y \in Nat /\ z \in Nat /\ e \in Nat
          BY <1>1, <2>4, <2>5, <2>6, <3>4, <3>9, <3>11
        <4> HIDE DEF x, y, z, e
        <4>3. x <= u
          BY <4>1, <4>2
        <4> QED BY <4>3 DEF x
      <3> QED BY <2>4, <2>5, <3>12
    <2> QED BY <2>9, <2>10
  <1>5. Nat \subseteq Good
    <2> HIDE DEF Good
    <2> QED BY <1>3, <1>4, NatSetInduction
  <1>6. Bounds(k)
    <2>1. k \in Nat /\ k <= C
      BY <1>0
    <2> HIDE DEF Bounds
    <2> QED BY <1>5, <2>1
  <1>7. m \in Node /\ n \in Node
    BY <1>2
  <1> QED BY <1>1, <1>6, <1>7

\* No walk is shorter than the table says, and where there is one the table has it.
LEMMA ShortestIsBelow ==
  ASSUME NEW g, IsRoads(g), NEW q, NEW m, NEW n, NEW w, IsWalk(g, q, m, n, w)
  PROVE  /\ Shortest(g)[m][n] \in Nat /\ Shortest(g)[m][n] <= w
         /\ Shortest(g)[m][n] < Far(g)
  <1>1. PICK r, v : v \in Nat /\ v <= w /\ IsWalk(g, r, m, n, v) /\ IsSimple(r)
    BY SimpleWalk
  <1>2. v < Far(g) /\ Far(g) \in Nat
    BY <1>1, SimpleIsLight
  <1>3. PICK D : IsTable(D, g) /\ Shortest(g) = D[Cardinality(Node)]
    BY <1>2, ShortestIsTable
  <1>4. Len(r) <= Cardinality(Node) /\ Len(r) \in Nat
    <2>1. r \in Seq(Node) /\ Len(r) \in Nat
      BY <1>1 DEF IsWalk
    <2> QED BY <1>1, <2>1, SimpleIsShort
  <1>5. Cardinality(Node) \in Nat /\ Cardinality(Node) \in 0..Cardinality(Node)
        /\ Len(r) <= Cardinality(Node) + 1
    <2>1. Cardinality(Node) \in Nat
      BY NodesCounted
    <2> QED BY <1>4, <2>1
  <1>6. D[Cardinality(Node)][m][n] \in Nat /\ D[Cardinality(Node)][m][n] <= v
    BY <1>1, <1>3, <1>5, TableIsBelow
  <1>7. w \in Nat
    <2>1. PICK f : Measures(f, g, q) /\ f[Len(q)] = w
      BY WalkMeasured
    <2>2. Len(q) \in 1..Len(q)
      BY <2>1 DEF Measures
    <2> QED BY <2>1, <2>2, LengthGrows
  <1> QED BY <1>1, <1>2, <1>3, <1>6, <1>7

-----------------------------------------------------------------------------
(* The forest                                                               *)

\* Where step() stands.
Control ==
  /\ graph \in Road
  /\ phase \in {"expand", "steer", "rewire"} /\ turn \in 0..(Goal + 1)
  /\ phase # "expand" => turn <= Goal
  /\ new \in Node \cup {None} /\ (phase = "expand" <=> new = None)
  /\ wasConnected \in BOOLEAN /\ updates \in 0..MaxUpdates

\* Every tree is one of the present graph, also while it is rewired.
Grown ==
  /\ tree \in [Tree -> TreeType]
  /\ \A i \in Tree : IsTree(tree[i], graph) /\ tree[i].root = Root[i]

\* The node being steered to is the only one its tree may have lost from its frontier,
\* and in the middle of a corridor it has.
Ahead ==
  /\ \A i \in Tree : ~(phase = "steer" /\ i = turn) =>
       tree[i].expandables = Frontier(tree[i], graph)
  /\ phase = "steer" =>
       /\ new \in Frontier(tree[turn], graph)
       /\ tree[turn].expandables \cup {new} = Frontier(tree[turn], graph)
       /\ InCorridor => new \notin tree[turn].expandables

\* What rewiring has still to do concerns visited nodes and their neighbours.
Frames(t, g) ==
  {f \in [node : Node, near : (SUBSET Node) \cup {None}] :
     f.node \in Visited(t) /\ (f.near = None \/ f.near \subseteq Neighbors(g, f.node))}

Pending ==
  /\ phase # "rewire" => stack = <<>>
  /\ phase = "rewire" => new \in Visited(tree[turn]) /\ stack \in Seq(Frames(tree[turn], graph))

\* The pairs that share a node have met, but for those at the node just connected.
Meeting(ts) == {p \in Pair : Common(ts, p) # {}}

Met ==
  /\ met \subseteq Meeting(tree)
  /\ Meeting(tree) \subseteq met \cup (IF phase = "rewire" THEN PairsAt(tree, turn, new) ELSE {})
  /\ Partitions(sets, Tree, met)

\* The links ln are ways in the trees ts.
AreWays(ts, ln) ==
  /\ ln \in [Pair -> [node : Node, dist : Nat] \cup {None}]
  /\ \A p \in Pair : ln[p] # None =>
       /\ ln[p].node \in Common(ts, p)
       /\ LinkAt(ts, p, ln[p].node).dist <= ln[p].dist

ForestInv == Control /\ Grown /\ Ahead /\ Pending /\ Met /\ AreWays(tree, link)

-----------------------------------------------------------------------------
(* Pairs, links and meetings                                                *)

LEMMA TreesNumbered ==
  /\ Goal \in Nat \ {0} /\ Tree = 0..Goal /\ IsTrees(Tree) /\ IsFiniteSet(Tree)
  /\ \A i \in Tree : Root[i] \in Node
  <1>1. Goal \in Nat \ {0} /\ Tree = 0..Goal /\ \A i \in Tree : Root[i] \in Node
    BY RootAssumption
  <1> HIDE DEF Goal, Tree
  <1>2. IsFiniteSet(0..Goal)
    BY <1>1, FS_Interval
  <1> QED BY <1>1, <1>2 DEF IsTrees

LEMMA TwoElements ==
  ASSUME NEW S, IsFiniteSet(S), Cardinality(S) = 2, NEW i \in S
  PROVE  \E j \in S \ {i} : S = {i, j}
  <1>1. IsFiniteSet(S \ {i}) /\ Cardinality(S \ {i}) = 1
    BY FS_RemoveElement
  <1>2. S \ {i} # {}
    BY <1>1, FS_EmptySet
  <1>3. PICK j : j \in S \ {i}
    BY <1>2
  <1>4. IsFiniteSet((S \ {i}) \ {j}) /\ Cardinality((S \ {i}) \ {j}) = 0
    BY <1>1, <1>3, FS_RemoveElement
  <1>5. (S \ {i}) \ {j} = {}
    BY <1>4, FS_EmptySet
  <1> QED BY <1>3, <1>5

LEMMA PairsOfTrees ==
  /\ \A p : p \in Pair <=> IsPair(p, Tree)
  /\ IsFiniteSet(Pair)
  <1>1. IsFiniteSet(Tree)
    BY TreesNumbered
  <1>2. ASSUME NEW p \in Pair PROVE IsPair(p, Tree)
    <2>1. p \in SUBSET Tree /\ Cardinality(p) = 2
      BY DEF Pair
    <2>2. IsFiniteSet(p)
      BY <1>1, <2>1, FS_Subset
    <2>3. p # {}
      BY <2>1, FS_EmptySet
    <2>4. PICK i \in p : \E j \in p \ {i} : p = {i, j}
      BY <2>1, <2>2, <2>3, TwoElements
    <2> QED BY <2>1, <2>4 DEF IsPair
  <1>3. ASSUME NEW p, IsPair(p, Tree) PROVE p \in Pair
    <2>1. PICK i \in Tree, j \in Tree : i # j /\ p = {i, j}
      BY <1>3 DEF IsPair
    <2>2. IsFiniteSet({i}) /\ Cardinality({i}) = 1
      BY FS_Singleton
    <2>3. Cardinality({i} \cup {j}) = Cardinality({i}) + 1
      BY <2>1, <2>2, FS_AddElement
    <2>4. p = {i} \cup {j} /\ p \in SUBSET Tree
      BY <2>1
    <2>5. Cardinality(p) = 2
      BY <2>2, <2>3, <2>4
    <2> QED BY <2>4, <2>5 DEF Pair
  <1>4. IsFiniteSet(SUBSET Tree)
    BY <1>1, FS_SUBSET
  <1>5. Pair \subseteq SUBSET Tree
    BY DEF Pair
  <1>6. IsFiniteSet(Pair)
    BY <1>4, <1>5, FS_Subset
  <1> QED BY <1>2, <1>3, <1>6

\* The ends of a pair, whose costs at its node make a link's distance.
AreEnds(i, j, p) ==
  /\ p = {i, j} /\ i # j
  /\ \A ts, x : /\ LinkAt(ts, p, x).node = x
                /\ LinkAt(ts, p, x).dist = ts[i].cost[x] + ts[j].cost[x]
                /\ LinkAt(ts, p, x) = [node |-> x, dist |-> ts[i].cost[x] + ts[j].cost[x]]

LEMMA LinkEnds ==
  ASSUME NEW p \in Pair
  PROVE  \E i, j \in Tree : AreEnds(i, j, p)
  <1> DEFINE one == CHOOSE i \in p : TRUE
             other == CHOOSE j \in p : j # one
  <1>1. PICK k \in Tree, l \in Tree : k # l /\ p = {k, l}
    BY PairsOfTrees DEF IsPair
  <1>2. one \in p
    BY <1>1
  <1>3. other \in p /\ other # one
    <2> HIDE DEF one
    <2>1. \E m \in p : m # one
      BY <1>1, <1>2
    <2> QED BY <2>1
  <1>4. \A ts, x : LinkAt(ts, p, x) = [node |-> x, dist |-> ts[one].cost[x] + ts[other].cost[x]]
    BY DEF LinkAt
  <1>5. PICK i, j : i = one /\ j = other
    OBVIOUS
  <1> HIDE DEF one, other
  <1>6. p = {i, j} /\ i # j /\ i \in Tree /\ j \in Tree
    BY <1>1, <1>2, <1>3, <1>5
  <1>7. \A ts, x : LinkAt(ts, p, x) = [node |-> x, dist |-> ts[i].cost[x] + ts[j].cost[x]]
    BY <1>4, <1>5
  <1>8. \A ts, x : /\ LinkAt(ts, p, x).node = x
                   /\ LinkAt(ts, p, x).dist = ts[i].cost[x] + ts[j].cost[x]
                   /\ LinkAt(ts, p, x) = [node |-> x, dist |-> ts[i].cost[x] + ts[j].cost[x]]
    BY <1>7
  <1>9. AreEnds(i, j, p)
    BY <1>6, <1>8 DEF AreEnds
  <1> QED BY <1>6, <1>9

LEMMA CommonFacts ==
  ASSUME NEW ts, NEW p, NEW x \in Common(ts, p)
  PROVE  x \in Node /\ \A i \in p : x \in Visited(ts[i])
  BY DEF Common

\* A link at a common node has a distance.
LEMMA LinkType ==
  ASSUME NEW ts, \A i \in Tree : ts[i] \in TreeType, NEW p \in Pair, NEW x \in Common(ts, p)
  PROVE  LinkAt(ts, p, x) \in [node : Node, dist : Nat]
  <1>1. PICK i \in Tree, j \in Tree :
          p = {i, j}
          /\ LinkAt(ts, p, x) = [node |-> x, dist |-> ts[i].cost[x] + ts[j].cost[x]]
    BY LinkEnds DEF AreEnds
  <1>2. x \in Node
    BY CommonFacts
  <1>3. ts[i].cost \in [Node -> Nat] /\ ts[j].cost \in [Node -> Nat]
    BY TreeFields
  <1>4. ts[i].cost[x] \in Nat /\ ts[j].cost[x] \in Nat
    BY <1>2, <1>3
  <1>5. ts[i].cost[x] + ts[j].cost[x] \in Nat
    BY <1>4
  <1> QED BY <1>1, <1>2, <1>5

\* Links stay ways when trees grow and their costs fall.
LEMMA WaysStay ==
  ASSUME NEW ts, NEW us, NEW ln, AreWays(ts, ln),
         \A i \in Tree : ts[i] \in TreeType /\ us[i] \in TreeType,
         \A i \in Tree : /\ Visited(ts[i]) \subseteq Visited(us[i])
                         /\ \A n \in Visited(ts[i]) : us[i].cost[n] <= ts[i].cost[n]
  PROVE  AreWays(us, ln)
  <1> SUFFICES ASSUME NEW p \in Pair, ln[p] # None
               PROVE  /\ ln[p].node \in Common(us, p)
                      /\ LinkAt(us, p, ln[p].node).dist <= ln[p].dist
    BY DEF AreWays
  <1> DEFINE x == ln[p].node
  <1>1. x \in Common(ts, p) /\ LinkAt(ts, p, x).dist <= ln[p].dist /\ ln[p].dist \in Nat
    BY DEF AreWays
  <1>2. PICK i \in Tree, j \in Tree :
          p = {i, j} /\ \A vs, n : LinkAt(vs, p, n).dist = vs[i].cost[n] + vs[j].cost[n]
    BY LinkEnds DEF AreEnds
  <1> HIDE DEF x
  <1>3. x \in Node /\ x \in Visited(ts[i]) /\ x \in Visited(ts[j])
    BY <1>1, <1>2, CommonFacts
  <1>4. x \in Common(us, p)
    BY <1>2, <1>3 DEF Common
  <1>5. /\ ts[i].cost[x] \in Nat /\ ts[j].cost[x] \in Nat
        /\ us[i].cost[x] \in Nat /\ us[j].cost[x] \in Nat
    <2>1. /\ ts[i].cost \in [Node -> Nat] /\ ts[j].cost \in [Node -> Nat]
          /\ us[i].cost \in [Node -> Nat] /\ us[j].cost \in [Node -> Nat]
      BY TreeFields
    <2> QED BY <1>3, <2>1
  <1>6. us[i].cost[x] <= ts[i].cost[x] /\ us[j].cost[x] <= ts[j].cost[x]
    BY <1>3
  <1>7. LinkAt(us, p, x).dist <= ln[p].dist
    <2>1. LinkAt(us, p, x).dist = us[i].cost[x] + us[j].cost[x]
      BY <1>2
    <2>2. ts[i].cost[x] + ts[j].cost[x] <= ln[p].dist
      BY <1>1, <1>2
    <2> QED BY <1>1, <1>5, <1>6, <2>1, <2>2
  <1> QED BY <1>4, <1>7 DEF x

LEMMA PairsAtNode ==
  ASSUME NEW ts, NEW i \in Tree, NEW x \in Node, x \in Visited(ts[i])
  PROVE  /\ PairsAt(ts, i, x) \subseteq Meeting(ts)
         /\ \A p \in PairsAt(ts, i, x) : x \in Common(ts, p)
         /\ \A p \in Pair : i \in p /\ x \in Common(ts, p) => p \in PairsAt(ts, i, x)
  <1>1. ASSUME NEW p \in PairsAt(ts, i, x) PROVE p \in Pair /\ x \in Common(ts, p)
    <2>1. PICK j \in Tree \ {i} : x \in Visited(ts[j]) /\ p = {i, j}
      BY DEF PairsAt
    <2>2. p \in Pair
      BY <2>1, PairsOfTrees DEF IsPair
    <2> QED BY <2>1, <2>2 DEF Common
  <1>2. ASSUME NEW p \in Pair, i \in p, x \in Common(ts, p) PROVE p \in PairsAt(ts, i, x)
    <2>1. PICK k \in Tree, l \in Tree : k # l /\ p = {k, l}
      BY PairsOfTrees DEF IsPair
    <2>2. PICK j \in Tree \ {i} : p = {i, j}
      BY <1>2, <2>1
    <2>3. x \in Visited(ts[j])
      BY <1>2, <2>2 DEF Common
    <2> QED BY <2>2, <2>3 DEF PairsAt
  <1>3. PairsAt(ts, i, x) \subseteq Meeting(ts)
    BY <1>1 DEF Meeting
  <1> QED BY <1>1, <1>2, <1>3

\* update_connection_tree at a node the tree visits.
LEMMA MeetKeeps ==
  ASSUME NEW ts, \A i \in Tree : ts[i] \in TreeType, NEW i \in Tree,
         NEW x \in Visited(ts[i]),
         Partitions(sets, Tree, met), AreWays(ts, link), Meet(ts, i, x)
  PROVE  /\ met' = met \cup PairsAt(ts, i, x) /\ PairsAt(ts, i, x) \subseteq Meeting(ts)
         /\ Partitions(sets', Tree, met') /\ AreWays(ts, link')
  <1> DEFINE here == PairsAt(ts, i, x)
  <1>1. x \in Node
    BY TreeFields
  <1>2. here \subseteq Meeting(ts) /\ \A p \in here : x \in Common(ts, p)
    BY <1>1, PairsAtNode
  <1>3. here \subseteq Pair
    BY <1>2 DEF Meeting
  <1> HIDE DEF here
  <1>4. /\ met' = met \cup here
        /\ sets' = FoldSet(Connect, sets, here \ met)
        /\ link' = [p \in Pair |->
             IF p \in here /\ ( \/ link[p] = None
                                \/ LinkAt(ts, p, x).dist + Hysteresis < link[p].dist )
               THEN LinkAt(ts, p, x) ELSE link[p]]
    BY DEF Meet, here
  <1>5. Partitions(sets', Tree, met')
    <2>1. IsFiniteSet(here \ met)
      BY <1>3, PairsOfTrees, FS_Subset
    <2>2. \A p \in here \ met : IsPair(p, Tree)
      BY <1>3, PairsOfTrees
    <2>3. Partitions(FoldSet(Connect, sets, here \ met), Tree, met \cup (here \ met))
      BY <2>1, <2>2, TreesNumbered, FoldConnects
    <2>4. met \cup (here \ met) = met'
      BY <1>4
    <2> QED BY <1>4, <2>3, <2>4
  <1>6. \A p \in Pair : (link'[p] = LinkAt(ts, p, x) /\ p \in here) \/ link'[p] = link[p]
    BY <1>4
  <1>7. \A p \in Pair : link[p] \in [node : Node, dist : Nat] \cup {None}
    BY DEF AreWays
  <1>8. \A p \in here : /\ LinkAt(ts, p, x) \in [node : Node, dist : Nat]
                        /\ LinkAt(ts, p, x).node = x
    BY <1>2, <1>3, LinkType, LinkEnds DEF AreEnds
  <1>9. link' \in [Pair -> [node : Node, dist : Nat] \cup {None}]
    <2>1. \A p \in Pair : link'[p] \in [node : Node, dist : Nat] \cup {None}
      BY <1>6, <1>7, <1>8
    <2>2. link' = [p \in Pair |-> link'[p]]
      BY <1>4
    <2> QED BY <2>1, <2>2
  <1>10. ASSUME NEW p \in Pair, link'[p] # None
         PROVE  /\ link'[p].node \in Common(ts, p)
                /\ LinkAt(ts, p, link'[p].node).dist <= link'[p].dist
    <2>1. CASE link'[p] = LinkAt(ts, p, x) /\ p \in here
      <3>1. LinkAt(ts, p, x).dist \in Nat
        BY <1>8, <2>1
      <3> QED BY <1>2, <1>8, <2>1, <3>1
    <2>2. CASE link'[p] = link[p]
      BY <1>10, <2>2 DEF AreWays
    <2> QED BY <1>6, <2>1, <2>2
  <1>11. AreWays(ts, link')
    BY <1>9, <1>10 DEF AreWays
  <1> QED BY <1>2, <1>4, <1>5, <1>11 DEF here

\* rebuild_connections.
LEMMA RebuildKeeps ==
  ASSUME NEW ts, \A i \in Tree : ts[i] \in TreeType, Rebuild(ts)
  PROVE  /\ met' = Meeting(ts) /\ Partitions(sets', Tree, met') /\ AreWays(ts, link')
  <1> DEFINE meeting == {p \in Pair : Common(ts, p) # {}}
  <1>1. /\ met' = meeting /\ sets' = FoldSet(Connect, NewSets(Tree), meeting)
        /\ \E x \in [meeting -> Node] :
             /\ \A p \in meeting : x[p] \in Common(ts, p)
             /\ link' = [p \in Pair |-> IF p \in meeting THEN LinkAt(ts, p, x[p]) ELSE None]
    BY DEF Rebuild
  <1>2. Partitions(sets', Tree, met')
    <2>1. IsFiniteSet(meeting)
      BY PairsOfTrees, FS_Subset
    <2>2. \A p \in meeting : IsPair(p, Tree)
      BY PairsOfTrees
    <2>3. 1 \in Tree /\ 1 # 0 /\ IsTrees(Tree)
      BY TreesNumbered
    <2>4. Partitions(NewSets(Tree), Tree, {})
      BY <2>3, NewSetsPartition, Zenon
    <2> HIDE DEF meeting
    <2>5. Partitions(FoldSet(Connect, NewSets(Tree), meeting), Tree, {} \cup meeting)
      BY <2>1, <2>2, <2>4, TreesNumbered, FoldConnects
    <2>6. {} \cup meeting = meeting
      OBVIOUS
    <2> QED BY <1>1, <2>5, <2>6
  <1>3. PICK x \in [meeting -> Node] :
          /\ \A p \in meeting : x[p] \in Common(ts, p)
          /\ link' = [p \in Pair |-> IF p \in meeting THEN LinkAt(ts, p, x[p]) ELSE None]
    BY <1>1
  <1>4. \A p \in meeting : p \in Pair
    OBVIOUS
  <1> HIDE DEF meeting
  <1>5. \A p \in meeting : /\ LinkAt(ts, p, x[p]) \in [node : Node, dist : Nat]
                           /\ LinkAt(ts, p, x[p]).node = x[p]
    BY <1>3, <1>4, LinkType, LinkEnds DEF AreEnds
  <1>6. \A p \in Pair : /\ p \in meeting => link'[p] = LinkAt(ts, p, x[p])
                        /\ p \notin meeting => link'[p] = None
    BY <1>3
  <1>7. link' \in [Pair -> [node : Node, dist : Nat] \cup {None}]
    <2>1. \A p \in Pair : link'[p] \in [node : Node, dist : Nat] \cup {None}
      BY <1>5, <1>6
    <2>2. link' = [p \in Pair |-> link'[p]]
      BY <1>3
    <2> QED BY <2>1, <2>2
  <1>8. ASSUME NEW p \in Pair, link'[p] # None
        PROVE  /\ link'[p].node \in Common(ts, p)
               /\ LinkAt(ts, p, link'[p].node).dist <= link'[p].dist
    <2>1. p \in meeting /\ link'[p] = LinkAt(ts, p, x[p])
      BY <1>6, <1>8
    <2>2. LinkAt(ts, p, x[p]).dist \in Nat /\ LinkAt(ts, p, x[p]).node = x[p]
      BY <1>5, <2>1
    <2> QED BY <1>3, <2>1, <2>2
  <1>9. AreWays(ts, link')
    BY <1>7, <1>8 DEF AreWays
  <1> QED BY <1>1, <1>2, <1>9 DEF Meeting, meeting

LEMMA MoreMeetings ==
  ASSUME NEW ts, NEW us, \A i \in Tree : Visited(ts[i]) \subseteq Visited(us[i])
  PROVE  Meeting(ts) \subseteq Meeting(us)
  <1>1. \A p \in Pair : Common(ts, p) \subseteq Common(us, p)
    BY DEF Common, Pair
  <1> QED BY <1>1 DEF Meeting

\* Trees that gain a node meet the trees that are there.
LEMMA MeetingsGained ==
  ASSUME NEW ts, NEW us, NEW i \in Tree, NEW x \in Node,
         \A j \in Tree \ {i} : Visited(us[j]) = Visited(ts[j]),
         \A n : n \in Visited(us[i]) <=> n \in Visited(ts[i]) \/ n = x
  PROVE  Meeting(us) = Meeting(ts) \cup PairsAt(us, i, x)
  <1>1. PairsAt(us, i, x) \subseteq Meeting(us) /\ Meeting(ts) \subseteq Meeting(us)
    <2>1. \A j \in Tree : Visited(ts[j]) \subseteq Visited(us[j])
      OBVIOUS
    <2> QED BY <2>1, PairsAtNode, MoreMeetings
  <1>2. ASSUME NEW p \in Meeting(us), p \notin Meeting(ts) PROVE p \in PairsAt(us, i, x)
    <2>1. PICK n : n \in Common(us, p)
      BY DEF Meeting
    <2>2. p \in Pair /\ n \notin Common(ts, p)
      BY <1>2 DEF Meeting
    <2>3. n \in Node /\ \A j \in p : n \in Visited(us[j])
      BY <2>1, CommonFacts
    <2>4. PICK j \in p : n \notin Visited(ts[j])
      BY <2>2, <2>3 DEF Common
    <2>5. j \in Tree
      BY <2>2 DEF Pair
    <2>6. j = i /\ n = x
      BY <2>3, <2>4, <2>5
    <2> QED BY <2>1, <2>2, <2>6, PairsAtNode
  <1> QED BY <1>1, <1>2

-----------------------------------------------------------------------------
(* The inductive invariant                                                  *)

LEMMA RoadsOfGraphs == \A g \in Road : IsRoads(g)
  BY RoadAssumption DEF IsRoads

LEMMA ReplacedTree ==
  ASSUME NEW ts \in [Tree -> TreeType], NEW i \in Tree, NEW u \in TreeType
  PROVE  /\ [ts EXCEPT ![i] = u] \in [Tree -> TreeType] /\ [ts EXCEPT ![i] = u][i] = u
         /\ \A j \in Tree \ {i} : [ts EXCEPT ![i] = u][j] = ts[j]
  OBVIOUS

LEMMA InvFacts ==
  ASSUME ForestInv
  PROVE  /\ IsRoads(graph) /\ tree \in [Tree -> TreeType]
         /\ \A i \in Tree : tree[i] \in TreeType /\ IsTree(tree[i], graph)
         /\ phase # "expand" => turn \in Tree /\ new \in Node
         /\ turn <= Goal => turn \in Tree
         /\ turn \in Nat
         /\ Control /\ Grown /\ Ahead /\ Pending /\ Met /\ AreWays(tree, link)
  <1>1. Control /\ Grown /\ Ahead /\ Pending /\ Met /\ AreWays(tree, link)
    BY DEF ForestInv
  <1>2. IsRoads(graph)
    BY <1>1, RoadsOfGraphs DEF Control
  <1>3. /\ tree \in [Tree -> TreeType]
        /\ \A i \in Tree : tree[i] \in TreeType /\ IsTree(tree[i], graph)
    BY <1>1 DEF Grown
  <1>4. turn \in 0..(Goal + 1) /\ Goal \in Nat \ {0} /\ Tree = 0..Goal
    BY <1>1, TreesNumbered DEF Control
  <1> HIDE DEF Goal, Tree
  <1>5. turn \in Nat /\ (turn <= Goal => turn \in Tree)
    BY <1>4
  <1>6. phase # "expand" => turn \in Tree /\ new \in Node
    BY <1>1, <1>5 DEF Control
  <1> QED BY <1>1, <1>2, <1>3, <1>5, <1>6

\* What is ahead of a tree: the neighbours of its nodes that it does not visit.
LEMMA FrontierNodes ==
  ASSUME NEW g, NEW t
  PROVE  \A m : m \in Frontier(t, g) <=> /\ m \notin Visited(t)
                                        /\ \E n \in Visited(t) : m \in Neighbors(g, n)
  BY DEF Frontier

LEMMA SoleFrontier ==
  ASSUME NEW g, NEW t, NEW r, Visited(t) = {r}
  PROVE  Frontier(t, g) = Neighbors(g, r) \ {r}
  <1>1. \A m : m \in Frontier(t, g) <=> m \in Neighbors(g, r) \ {r}
    BY FrontierNodes
  <1> QED BY <1>1

LEMMA InitInv == Init => ForestInv
  <1> SUFFICES ASSUME Init PROVE ForestInv
    OBVIOUS
  <1>1. /\ graph \in Road
        /\ tree = [i \in Tree |-> Advance(graph, NewTree(Root[i]), Root[i])]
        /\ met = {} /\ link = [p \in Pair |-> None] /\ sets = NewSets(Tree)
        /\ phase = "expand" /\ turn = 0 /\ wasConnected = FALSE
        /\ new = None /\ stack = <<>> /\ updates = 0
    BY DEF Init
  <1>2. Control
    <2>1. Goal \in Nat \ {0} /\ MaxUpdates \in Nat
      BY TreesNumbered, BoundAssumption
    <2> HIDE DEF Goal
    <2>2. turn \in 0..(Goal + 1) /\ updates \in 0..MaxUpdates
      BY <1>1, <2>1
    <2>3. phase # "steer" /\ phase # "rewire"
      BY <1>1
    <2> QED BY <1>1, <2>1, <2>2, <2>3 DEF Control
  <1>3. ASSUME NEW i \in Tree
        PROVE  /\ IsTree(tree[i], graph) /\ tree[i] \in TreeType /\ tree[i].root = Root[i]
               /\ Visited(tree[i]) = {Root[i]}
               /\ tree[i].expandables = Frontier(tree[i], graph)
    <2> DEFINE r == Root[i]
               t == NewTree(r)
    <2>1. r \in Node
      BY TreesNumbered
    <2>2. /\ IsTree(t, graph) /\ Visited(t) = {r} /\ t.expandables = {} /\ t.root = r
      BY <2>1, StartTree
    <2>3. t \in TreeType
      BY <2>2 DEF IsTree
    <2>4. tree[i] = Advance(graph, t, r)
      BY <1>1
    <2> HIDE DEF r, t
    <2>5. /\ tree[i] \in TreeType /\ Visited(tree[i]) = {r} /\ tree[i].root = r
          /\ tree[i].parent = t.parent /\ tree[i].children = t.children
          /\ tree[i].cost = t.cost /\ tree[i].expandables = Neighbors(graph, r) \ {r}
      BY <2>2, <2>3, <2>4, AdvanceKeeps
    <2>6. IsTree(tree[i], graph)
      BY <2>2, <2>5, SameMaps
    <2>7. tree[i].expandables = Frontier(tree[i], graph)
      BY <2>5, SoleFrontier
    <2> QED BY <2>5, <2>6, <2>7 DEF r
  <1>4. Grown
    <2>1. tree = [i \in Tree |-> tree[i]]
      BY <1>1
    <2>2. tree \in [Tree -> TreeType]
      BY <1>3, <2>1
    <2> QED BY <1>3, <2>2 DEF Grown
  <1>5. Ahead
    BY <1>1, <1>3 DEF Ahead
  <1>6. Pending
    BY <1>1 DEF Pending
  <1>7. Met
    <2>1. ASSUME NEW p \in Pair PROVE Common(tree, p) = {}
      <3>1. PICK i \in Tree, j \in Tree : i # j /\ p = {i, j}
        BY PairsOfTrees DEF IsPair
      <3>2. Root[i] # Root[j]
        BY <3>1, RootAssumption
      <3>3. Visited(tree[i]) = {Root[i]} /\ Visited(tree[j]) = {Root[j]}
        BY <1>3
      <3> QED BY <3>1, <3>2, <3>3 DEF Common
    <2>2. Meeting(tree) = {}
      BY <2>1 DEF Meeting
    <2>3. 1 \in Tree /\ 1 # 0 /\ IsTrees(Tree)
      BY TreesNumbered
    <2>4. Partitions(NewSets(Tree), Tree, {})
      BY <2>3, NewSetsPartition, Zenon
    <2> QED BY <1>1, <2>2, <2>4 DEF Met
  <1>8. AreWays(tree, link)
    BY <1>1 DEF AreWays
  <1> QED BY <1>2, <1>4, <1>5, <1>6, <1>7, <1>8 DEF ForestInv

\* Steps that only move on.
LEMMA SkipTreeInv == ForestInv /\ SkipTree => ForestInv'
  <1> SUFFICES ASSUME ForestInv, SkipTree PROVE ForestInv'
    OBVIOUS
  <1>1. /\ phase = "expand" /\ turn <= Goal /\ turn' = turn + 1
        /\ graph' = graph /\ tree' = tree /\ met' = met /\ link' = link /\ sets' = sets
        /\ phase' = phase /\ wasConnected' = wasConnected /\ new' = new /\ stack' = stack
        /\ updates' = updates
    BY DEF SkipTree, searchVars
  <1>2. Control /\ Grown /\ Ahead /\ Pending /\ Met /\ AreWays(tree, link) /\ turn \in Nat
    BY InvFacts
  <1>3. Goal \in Nat
    BY TreesNumbered
  <1> HIDE DEF Goal
  <1>4. Control'
    BY <1>1, <1>2, <1>3 DEF Control
  <1>5. Grown' /\ AreWays(tree, link)'
    BY <1>1, <1>2 DEF Grown
  <1>6. Ahead'
    BY <1>1, <1>2 DEF Ahead
  <1>7. Pending' /\ Met'
    BY <1>1, <1>2 DEF Pending, Met
  <1> QED BY <1>4, <1>5, <1>6, <1>7 DEF ForestInv

LEMMA EndStepInv == ForestInv /\ EndStep => ForestInv'
  <1> SUFFICES ASSUME ForestInv, EndStep PROVE ForestInv'
    OBVIOUS
  <1>1. /\ phase = "expand" /\ turn' = 0 /\ wasConnected' = sets.connected
        /\ graph' = graph /\ tree' = tree /\ met' = met /\ link' = link /\ sets' = sets
        /\ phase' = phase /\ new' = new /\ stack' = stack /\ updates' = updates
    BY DEF EndStep, searchVars
  <1>2. Control /\ Grown /\ Ahead /\ Pending /\ Met /\ AreWays(tree, link)
    BY InvFacts
  <1>3. Goal \in Nat /\ sets.connected \in BOOLEAN
    BY <1>2, TreesNumbered DEF Met, Partitions, SetsType
  <1> HIDE DEF Goal
  <1>4. Control'
    BY <1>1, <1>2, <1>3 DEF Control
  <1>5. Grown' /\ AreWays(tree, link)'
    BY <1>1, <1>2 DEF Grown
  <1>6. Ahead'
    BY <1>1, <1>2 DEF Ahead
  <1>7. Pending' /\ Met'
    BY <1>1, <1>2 DEF Pending, Met
  <1> QED BY <1>4, <1>5, <1>6, <1>7 DEF ForestInv

\* Steps of the rewiring that only shorten what is left of it.
LEMMA RewiringGoesOn ==
  ASSUME ForestInv, phase = "rewire", phase' = phase, stack' \in Seq(Frames(tree[turn], graph)),
         graph' = graph, tree' = tree, met' = met, link' = link, sets' = sets,
         turn' = turn, wasConnected' = wasConnected, new' = new, updates' = updates
  PROVE  ForestInv'
  <1>1. Control /\ Grown /\ Ahead /\ Pending /\ Met /\ AreWays(tree, link)
    BY InvFacts
  <1>2. Control'
    BY <1>1 DEF Control
  <1>3. Grown' /\ AreWays(tree, link)'
    BY <1>1 DEF Grown
  <1>4. Ahead'
    BY <1>1 DEF Ahead
  <1>5. Pending' /\ Met'
    BY <1>1 DEF Pending, Met
  <1> QED BY <1>2, <1>3, <1>4, <1>5 DEF ForestInv

LEMMA CallIsFrame ==
  ASSUME ForestInv, phase = "rewire", stack # <<>>
  PROVE  /\ Call \in Frames(tree[turn], graph) /\ Tail(stack) \in Seq(Frames(tree[turn], graph))
         /\ turn \in Tree /\ Call.node \in Visited(tree[turn]) /\ Call.node \in Node
         /\ Call.near # None => Call.near \in SUBSET Node
                               /\ Call.near \subseteq Neighbors(graph, Call.node)
  <1>1. stack \in Seq(Frames(tree[turn], graph)) /\ turn \in Tree
    BY InvFacts DEF Pending
  <1>2. Head(stack) \in Frames(tree[turn], graph) /\ Tail(stack) \in Seq(Frames(tree[turn], graph))
    BY <1>1
  <1>3. Call \in Frames(tree[turn], graph)
    BY <1>2 DEF Call
  <1>4. /\ Call.node \in Visited(tree[turn]) /\ Call.node \in Node
        /\ Call.near \in (SUBSET Node) \cup {None}
        /\ Call.near = None \/ Call.near \subseteq Neighbors(graph, Call.node)
    BY <1>3 DEF Frames
  <1>5. Call.near # None => Call.near \in SUBSET Node
                            /\ Call.near \subseteq Neighbors(graph, Call.node)
    BY <1>4
  <1> QED BY <1>1, <1>2, <1>3, <1>4, <1>5, Zenon

LEMMA PassNeighborInv == ForestInv /\ PassNeighbor => ForestInv'
  <1> SUFFICES ASSUME ForestInv, PassNeighbor PROVE ForestInv'
    OBVIOUS
  <1> DEFINE F == Frames(tree[turn], graph)
  <1>1. PICK y \in Call.near : stack' = <<[Call EXCEPT !.near = @ \ {y}]>> \o Tail(stack)
    BY DEF PassNeighbor
  <1>2. /\ phase = "rewire" /\ stack # <<>> /\ Call.near # None
        /\ graph' = graph /\ tree' = tree /\ met' = met /\ link' = link /\ sets' = sets
        /\ phase' = phase /\ turn' = turn /\ wasConnected' = wasConnected /\ new' = new
        /\ updates' = updates
    BY DEF PassNeighbor, searchVars
  <1>3. /\ Call \in F /\ Tail(stack) \in Seq(F)
        /\ Call.near \in SUBSET Node /\ Call.near \subseteq Neighbors(graph, Call.node)
    BY <1>2, CallIsFrame
  <1>4. [Call EXCEPT !.near = @ \ {y}] \in F
    BY <1>3 DEF Frames
  <1> HIDE DEF F
  <1>5. stack' \in Seq(F)
    BY <1>1, <1>3, <1>4
  <1> QED BY <1>2, <1>5, RewiringGoesOn DEF F

LEMMA ReturnFromRewireInv == ForestInv /\ ReturnFromRewire => ForestInv'
  <1> SUFFICES ASSUME ForestInv, ReturnFromRewire PROVE ForestInv'
    OBVIOUS
  <1>1. /\ phase = "rewire" /\ stack # <<>> /\ stack' = Tail(stack)
        /\ graph' = graph /\ tree' = tree /\ met' = met /\ link' = link /\ sets' = sets
        /\ phase' = phase /\ turn' = turn /\ wasConnected' = wasConnected /\ new' = new
        /\ updates' = updates
    BY DEF ReturnFromRewire, searchVars
  <1>2. Tail(stack) \in Seq(Frames(tree[turn], graph))
    BY <1>1, CallIsFrame
  <1> QED BY <1>1, <1>2, RewiringGoesOn

\* A node already visited is offered as a link.
LEMMA OfferLinkInv == ForestInv /\ OfferLink => ForestInv'
  <1> SUFFICES ASSUME ForestInv, OfferLink PROVE ForestInv'
    OBVIOUS
  <1>1. /\ phase = "rewire" /\ stack # <<>> /\ stack' = Tail(stack)
        /\ graph' = graph /\ tree' = tree /\ Meet(tree, turn, Call.node)
        /\ phase' = phase /\ turn' = turn /\ wasConnected' = wasConnected /\ new' = new
        /\ updates' = updates
    BY DEF OfferLink
  <1>2. /\ Control /\ Grown /\ Ahead /\ Pending /\ Met /\ AreWays(tree, link)
        /\ \A i \in Tree : tree[i] \in TreeType
    BY InvFacts
  <1>3. /\ Tail(stack) \in Seq(Frames(tree[turn], graph)) /\ turn \in Tree
        /\ Call.node \in Visited(tree[turn])
    BY <1>1, CallIsFrame
  <1>4. /\ met' = met \cup PairsAt(tree, turn, Call.node)
        /\ PairsAt(tree, turn, Call.node) \subseteq Meeting(tree)
        /\ Partitions(sets', Tree, met') /\ AreWays(tree, link')
    <2>1. Partitions(sets, Tree, met)
      BY <1>2 DEF Met
    <2> QED BY <1>1, <1>2, <1>3, <2>1, MeetKeeps
  <1>5. Control'
    BY <1>1, <1>2 DEF Control
  <1>6. Grown' /\ AreWays(tree, link)'
    BY <1>1, <1>2, <1>4 DEF Grown
  <1>7. Ahead'
    BY <1>1, <1>2 DEF Ahead
  <1>8. Pending'
    BY <1>1, <1>2, <1>3 DEF Pending
  <1>9. Met'
    BY <1>1, <1>2, <1>4 DEF Met
  <1> QED BY <1>5, <1>6, <1>7, <1>8, <1>9 DEF ForestInv

LEMMA TreeExpandedInv == ForestInv /\ TreeExpanded => ForestInv'
  <1> SUFFICES ASSUME ForestInv, TreeExpanded PROVE ForestInv'
    OBVIOUS
  <1>1. /\ phase = "rewire" /\ stack = <<>> /\ stack' = stack
        /\ graph' = graph /\ tree' = tree /\ Meet(tree, turn, new)
        /\ phase' = "expand" /\ turn' = turn + 1 /\ wasConnected' = wasConnected
        /\ new' = None /\ updates' = updates
    BY DEF TreeExpanded
  <1>2. /\ Control /\ Grown /\ Ahead /\ Pending /\ Met /\ AreWays(tree, link)
        /\ turn \in Tree /\ turn \in Nat /\ \A i \in Tree : tree[i] \in TreeType
    BY <1>1, InvFacts
  <1>3. new \in Visited(tree[turn])
    BY <1>1, <1>2 DEF Pending
  <1>4. /\ met' = met \cup PairsAt(tree, turn, new)
        /\ PairsAt(tree, turn, new) \subseteq Meeting(tree)
        /\ Partitions(sets', Tree, met') /\ AreWays(tree, link')
    <2>1. Partitions(sets, Tree, met)
      BY <1>2 DEF Met
    <2> QED BY <1>1, <1>2, <1>3, <2>1, MeetKeeps
  <1>5. Goal \in Nat
    BY TreesNumbered
  <1> HIDE DEF Goal
  <1>6. Control'
    BY <1>1, <1>2, <1>5 DEF Control
  <1>7. Grown' /\ AreWays(tree, link)'
    BY <1>1, <1>2, <1>4 DEF Grown
  <1>8. Ahead'
    BY <1>1, <1>2 DEF Ahead
  <1>9. Pending'
    BY <1>1 DEF Pending
  <1>10. Met'
    BY <1>1, <1>2, <1>4 DEF Met
  <1> QED BY <1>6, <1>7, <1>8, <1>9, <1>10 DEF ForestInv

\* The nearest expandable is taken; in a corridor it is no longer ahead.
LEMMA SelectInv == ForestInv /\ Select => ForestInv'
  <1> SUFFICES ASSUME ForestInv, Select PROVE ForestInv'
    OBVIOUS
  <1> DEFINE t == tree[turn]
             u == tree'[turn]
  <1>1. PICK x \in t.expandables :
          /\ new' = x
          /\ tree' = IF Cardinality(Neighbors(graph, x)) = 2
                       THEN [tree EXCEPT ![turn].expandables = @ \ {x}] ELSE tree
    BY DEF Select
  <1>2. /\ phase = "expand" /\ turn <= Goal /\ phase' = "steer"
        /\ graph' = graph /\ met' = met /\ link' = link /\ sets' = sets
        /\ turn' = turn /\ wasConnected' = wasConnected /\ stack' = stack
        /\ updates' = updates
    BY DEF Select
  <1>3. /\ Control /\ Grown /\ Ahead /\ Pending /\ Met /\ AreWays(tree, link)
        /\ turn \in Tree /\ tree \in [Tree -> TreeType] /\ IsRoads(graph)
        /\ \A i \in Tree : tree[i] \in TreeType /\ IsTree(tree[i], graph)
    BY <1>2, InvFacts
  <1>4. /\ t \in TreeType /\ IsTree(t, graph) /\ t.root = Root[turn]
        /\ t.expandables = Frontier(t, graph)
    BY <1>2, <1>3 DEF Grown, Ahead
  <1>5. x \in Node /\ x \in Frontier(t, graph)
    BY <1>4, TreeFields
  <1>6. /\ tree' \in [Tree -> TreeType] /\ \A i \in Tree \ {turn} : tree'[i] = tree[i]
        /\ u \in TreeType /\ u.root = t.root /\ u.parent = t.parent /\ u.children = t.children
        /\ u.cost = t.cost
        /\ u.expandables = IF Cardinality(Neighbors(graph, x)) = 2
                             THEN t.expandables \ {x} ELSE t.expandables
    <2>1. CASE Cardinality(Neighbors(graph, x)) = 2
      <3> DEFINE v == [t EXCEPT !.expandables = @ \ {x}]
      <3>1. /\ v \in TreeType /\ v.root = t.root /\ v.parent = t.parent
            /\ v.children = t.children /\ v.cost = t.cost
            /\ v.expandables = t.expandables \ {x}
        BY <1>4 DEF TreeType
      <3>2. tree' = [tree EXCEPT ![turn] = v]
        BY <1>1, <2>1
      <3> HIDE DEF v
      <3>3. /\ tree' \in [Tree -> TreeType] /\ u = v
            /\ \A i \in Tree \ {turn} : tree'[i] = tree[i]
        BY <1>3, <3>1, <3>2, ReplacedTree
      <3> QED BY <2>1, <3>1, <3>3
    <2>2. CASE Cardinality(Neighbors(graph, x)) # 2
      BY <1>1, <1>3, <1>4, <2>2
    <2> QED BY <2>1, <2>2
  <1> HIDE DEF u
  <1>7. IsTree(u, graph) /\ Visited(u) = Visited(t)
    BY <1>4, <1>6, SameMaps DEF Visited
  <1>8. /\ Frontier(u, graph) = Frontier(t, graph)
        /\ \A i \in Tree : Visited(tree'[i]) = Visited(tree[i]) /\ tree'[i].cost = tree[i].cost
    <2>1. Frontier(u, graph) = Frontier(t, graph)
      BY <1>7, Zenon DEF Frontier
    <2> QED BY <1>6, <1>7, <2>1 DEF u
  <1>9. Control'
    BY <1>1, <1>2, <1>3, <1>5, NodeAssumption DEF Control
  <1>10. Grown'
    <2>1. \A i \in Tree : IsTree(tree'[i], graph) /\ tree'[i].root = Root[i]
      BY <1>3, <1>4, <1>6, <1>7 DEF Grown, u
    <2> QED BY <1>2, <1>6, <2>1 DEF Grown
  <1>11. Ahead'
    <2>1. \A i \in Tree : i # turn => tree'[i].expandables = Frontier(tree'[i], graph)
      BY <1>2, <1>3, <1>6 DEF Ahead
    <2>2. /\ x \in Frontier(u, graph) /\ u.expandables \cup {x} = Frontier(u, graph)
          /\ Cardinality(Neighbors(graph, x)) = 2 => x \notin u.expandables
      BY <1>4, <1>5, <1>6, <1>8
    <2>3. InCorridor' => Cardinality(Neighbors(graph, x)) = 2
      BY <1>1, <1>2 DEF InCorridor
    <2> QED BY <1>1, <1>2, <2>1, <2>2, <2>3 DEF Ahead, u
  <1>12. Pending'
    BY <1>2, <1>3 DEF Pending
  <1>13. Met'
    <2>1. Meeting(tree') \subseteq Meeting(tree) /\ Meeting(tree) \subseteq Meeting(tree')
      <3>1. /\ \A i \in Tree : Visited(tree'[i]) \subseteq Visited(tree[i])
            /\ \A i \in Tree : Visited(tree[i]) \subseteq Visited(tree'[i])
        BY <1>8
      <3> QED BY <3>1, MoreMeetings
    <2>2. Meeting(tree') = Meeting(tree)
      BY <2>1
    <2> QED BY <1>2, <1>3, <2>2 DEF Met
  <1>14. AreWays(tree, link)'
    <2>1. \A i \in Tree : \A n \in Visited(tree[i]) : tree'[i].cost[n] <= tree[i].cost[n]
      <3> SUFFICES ASSUME NEW i \in Tree, NEW n \in Visited(tree[i])
                   PROVE  tree'[i].cost[n] <= tree[i].cost[n]
        OBVIOUS
      <3>1. tree[i].cost[n] \in Nat /\ tree'[i].cost = tree[i].cost
        BY <1>3, <1>8, TreeFacts
      <3> QED BY <3>1
    <2>2. \A i \in Tree : tree'[i] \in TreeType
      BY <1>6
    <2>3. AreWays(tree', link)
      BY <1>3, <1>8, <2>1, <2>2, WaysStay
    <2> QED BY <1>2, <2>3
  <1> QED BY <1>9, <1>10, <1>11, <1>12, <1>13, <1>14 DEF ForestInv

\* In the middle of a corridor the way on leads to one unvisited node.
LEMMA WayOn ==
  ASSUME NEW g, IsRoads(g), NEW t, NEW n, NEW p, NEW q,
         Cardinality(Neighbors(g, n)) = 2, ~ Neighbors(g, n) \subseteq Visited(t),
         p \in Neighbors(g, n), p \in Visited(t), q \in Neighbors(g, n), q # p
  PROVE  Neighbors(g, n) = {p, q} /\ q \notin Visited(t)
  <1>1. IsFiniteSet(Neighbors(g, n))
    <2>1. Neighbors(g, n) \subseteq Node
      BY DEF Neighbors
    <2> QED BY <2>1, NodeAssumption, FS_Subset
  <1>2. PICK r \in Neighbors(g, n) \ {p} : Neighbors(g, n) = {p, r}
    BY <1>1, TwoElements
  <1>3. q = r
    BY <1>2
  <1> QED BY <1>2, <1>3

LEMMA NeighborRoads ==
  ASSUME NEW g, IsRoads(g), NEW n, NEW m \in Neighbors(g, n)
  PROVE  /\ {m, n} \in DOMAIN g /\ m \in Node /\ n \in Node /\ m # n
         /\ n \in Neighbors(g, m) /\ g[{m, n}] \in Nat
  <1>1. {m, n} \in DOMAIN g
    BY DEF Neighbors
  <1> QED BY <1>1, TwoNodes

\* What the trees have in common when one of them gains the node x.
LEMMA GainedNode ==
  ASSUME ForestInv, phase = "steer",
         NEW ts \in [Tree -> TreeType], \A i \in Tree \ {turn} : ts[i] = tree[i],
         IsTree(ts[turn], graph), ts[turn].root = tree[turn].root,
         \A n : n \in Visited(ts[turn]) <=> n \in Visited(tree[turn]) \/ n = new,
         \A n \in Visited(tree[turn]) : ts[turn].cost[n] = tree[turn].cost[n]
  PROVE  /\ \A i \in Tree : ts[i] \in TreeType /\ IsTree(ts[i], graph) /\ ts[i].root = Root[i]
         /\ Meeting(ts) = met \cup PairsAt(ts, turn, new)
         /\ AreWays(ts, link)
  <1>1. /\ turn \in Tree /\ new \in Node /\ tree \in [Tree -> TreeType]
        /\ \A i \in Tree : tree[i] \in TreeType /\ IsTree(tree[i], graph)
        /\ Control /\ Grown /\ Ahead /\ Pending /\ Met /\ AreWays(tree, link)
    BY InvFacts
  <1>2. \A i \in Tree : ts[i] \in TreeType /\ IsTree(ts[i], graph) /\ ts[i].root = Root[i]
    BY <1>1 DEF Grown
  <1>3. \A i \in Tree \ {turn} : Visited(ts[i]) = Visited(tree[i])
    OBVIOUS
  <1>4. Meeting(ts) = met \cup PairsAt(ts, turn, new)
    <2>1. met = Meeting(tree)
      BY <1>1 DEF Met
    <2>2. turn \in Tree /\ new \in Node
      BY <1>1
    <2>3. Meeting(ts) = Meeting(tree) \cup PairsAt(ts, turn, new)
      BY <1>3, <2>2, MeetingsGained
    <2> QED BY <2>1, <2>3
  <1>5. \A i \in Tree : /\ Visited(tree[i]) \subseteq Visited(ts[i])
                        /\ \A n \in Visited(tree[i]) : ts[i].cost[n] <= tree[i].cost[n]
    <2> SUFFICES ASSUME NEW i \in Tree
                 PROVE  /\ Visited(tree[i]) \subseteq Visited(ts[i])
                        /\ \A n \in Visited(tree[i]) : ts[i].cost[n] <= tree[i].cost[n]
      OBVIOUS
    <2>1. \A n \in Visited(tree[i]) : tree[i].cost[n] \in Nat
      <3>1. IsRoads(graph) /\ IsTree(tree[i], graph)
        BY InvFacts
      <3> QED BY <3>1, TreeFacts
    <2>2. \A n \in Visited(tree[i]) : ts[i].cost[n] = tree[i].cost[n]
      OBVIOUS
    <2> QED BY <1>3, <2>1, <2>2
  <1>6. AreWays(ts, link)
    BY <1>1, <1>2, <1>5, WaysStay
  <1> QED BY <1>2, <1>4, <1>6

\* The corridor jump.
LEMMA FollowCorridorInv == ForestInv /\ FollowCorridor => ForestInv'
  <1> SUFFICES ASSUME ForestInv, FollowCorridor PROVE ForestInv'
    OBVIOUS
  <1> DEFINE t == tree[turn]
             N == Neighbors(graph, new)
  <1>1. PICK p \in N \cap Visited(t) :
          /\ tree' = [tree EXCEPT ![turn] = Attach(graph, t, new, p)]
          /\ Meet(tree', turn, new)
          /\ new' \in N \ {p}
    BY DEF FollowCorridor
  <1>2. /\ phase = "steer" /\ InCorridor
        /\ graph' = graph /\ phase' = phase /\ turn' = turn /\ wasConnected' = wasConnected
        /\ stack' = stack /\ updates' = updates
    BY DEF FollowCorridor
  <1>3. /\ Control /\ Grown /\ Ahead /\ Pending /\ Met /\ AreWays(tree, link)
        /\ turn \in Tree /\ new \in Node /\ tree \in [Tree -> TreeType] /\ IsRoads(graph)
        /\ \A i \in Tree : tree[i] \in TreeType /\ IsTree(tree[i], graph)
    BY <1>2, InvFacts
  <1>4. /\ Cardinality(N) = 2 /\ ~ N \subseteq Visited(t)
        /\ new \in Frontier(t, graph) /\ t.expandables \cup {new} = Frontier(t, graph)
        /\ new \notin t.expandables /\ IsTree(t, graph)
    BY <1>2, <1>3 DEF InCorridor, Ahead
  <1>5. /\ new \notin Visited(t) /\ {p, new} \in DOMAIN graph
    BY <1>1, <1>3, <1>4, FrontierNodes, NeighborRoads
  <1> DEFINE u == Attach(graph, t, new, p)
             q == new'
  <1>6. /\ IsTree(u, graph) /\ Visited(u) = Visited(t) \cup {new} /\ u.root = t.root
        /\ u.expandables = t.expandables /\ \A n \in Visited(t) : u.cost[n] = t.cost[n]
    BY <1>1, <1>3, <1>4, <1>5, AttachTree
  <1>7. /\ tree' \in [Tree -> TreeType] /\ tree'[turn] = u
        /\ \A i \in Tree \ {turn} : tree'[i] = tree[i]
    <2>1. u \in TreeType
      BY <1>6 DEF IsTree
    <2> HIDE DEF u
    <2>2. tree' = [tree EXCEPT ![turn] = u]
      BY <1>1 DEF u
    <2> QED BY <1>3, <2>1, <2>2, ReplacedTree
  <1> HIDE DEF u
  <1>8. /\ \A i \in Tree : tree'[i] \in TreeType /\ IsTree(tree'[i], graph) /\ tree'[i].root = Root[i]
        /\ Meeting(tree') = met \cup PairsAt(tree', turn, new)
        /\ AreWays(tree', link)
    <2>1. /\ IsTree(tree'[turn], graph) /\ tree'[turn].root = tree[turn].root
          /\ \A n : n \in Visited(tree'[turn]) <=> n \in Visited(tree[turn]) \/ n = new
          /\ \A n \in Visited(tree[turn]) : tree'[turn].cost[n] = tree[turn].cost[n]
      BY <1>6, <1>7
    <2> HIDE DEF t
    <2> QED BY <1>2, <1>7, <2>1, GainedNode
  <1>9. /\ met' = met \cup PairsAt(tree', turn, new)
        /\ Partitions(sets', Tree, met') /\ AreWays(tree', link')
    <2>1. Partitions(sets, Tree, met) /\ new \in Visited(tree'[turn])
      BY <1>3, <1>6, <1>7 DEF Met
    <2> QED BY <1>1, <1>3, <1>8, <2>1, MeetKeeps
  <1>10. N = {p, q} /\ q \notin Visited(t) /\ q # new /\ q \in Node
    <2>1. N = {p, q} /\ q \notin Visited(t)
      BY <1>1, <1>3, <1>4, WayOn
    <2> QED BY <1>1, <1>3, <2>1, NeighborRoads
  <1>11. /\ q \in Frontier(u, graph) /\ u.expandables \cup {q} = Frontier(u, graph)
    <2>1. \A m : m \in Frontier(u, graph) <=> (m \in Frontier(t, graph) /\ m # new) \/ m = q
      <3>1. \A m : (\E n \in Visited(u) : m \in Neighbors(graph, n)) <=>
                     \/ \E n \in Visited(t) : m \in Neighbors(graph, n)
                     \/ m = p \/ m = q
        BY <1>6, <1>10
      <3> QED BY <1>1, <1>6, <1>10, <3>1, FrontierNodes
    <2>2. \A m : m \in u.expandables \cup {q} <=> m \in Frontier(u, graph)
      BY <1>4, <1>6, <2>1
    <2> QED BY <2>1, <2>2
  <1>12. Cardinality(Neighbors(graph, q)) = 2 /\ ~ Neighbors(graph, q) \subseteq Visited(u)
           => q \notin u.expandables
    <2> SUFFICES ASSUME Cardinality(Neighbors(graph, q)) = 2,
                        ~ Neighbors(graph, q) \subseteq Visited(u), q \in u.expandables
                 PROVE  FALSE
      OBVIOUS
    <2>1. PICK n \in Visited(t) : q \in Neighbors(graph, n)
      BY <1>4, <1>6, FrontierNodes
    <2>2. n \in Neighbors(graph, q) /\ n \in Visited(u) /\ n # new
      BY <1>3, <1>5, <1>6, <2>1, NeighborRoads
    <2>3. new \in Neighbors(graph, q) /\ new \in Visited(u)
      BY <1>1, <1>3, <1>6, NeighborRoads
    <2> QED BY <1>3, <2>2, <2>3, WayOn
  <1>13. Control'
    <2>1. q # None
      BY <1>10, NodeAssumption
    <2> QED BY <1>2, <1>3, <1>10, <2>1 DEF Control
  <1>14. Grown'
    BY <1>2, <1>7, <1>8 DEF Grown
  <1>15. Ahead'
    <2>1. \A i \in Tree : i # turn => tree'[i].expandables = Frontier(tree'[i], graph)
      BY <1>2, <1>3, <1>7 DEF Ahead
    <2>2. InCorridor' => Cardinality(Neighbors(graph, q)) = 2
                         /\ ~ Neighbors(graph, q) \subseteq Visited(u)
      BY <1>2, <1>7 DEF InCorridor
    <2> QED BY <1>2, <1>7, <1>11, <1>12, <2>1, <2>2 DEF Ahead
  <1>16. Pending'
    BY <1>2, <1>3 DEF Pending
  <1>17. Met'
    <2>1. met' = Meeting(tree')
      BY <1>8, <1>9
    <2>2. phase' # "rewire" /\ Partitions(sets', Tree, met')
      BY <1>2, <1>9
    <2>3. met' \subseteq Meeting(tree') /\ Meeting(tree') \subseteq met'
      BY <2>1
    <2> QED BY <2>2, <2>3 DEF Met, Meeting
  <1> QED BY <1>9, <1>13, <1>14, <1>15, <1>16, <1>17 DEF ForestInv

\* The new node joins its cheapest visited neighbour.
LEMMA ConnectNewInv == ForestInv /\ ConnectNew => ForestInv'
  <1> SUFFICES ASSUME ForestInv, ConnectNew PROVE ForestInv'
    OBVIOUS
  <1> DEFINE t == tree[turn]
             N == Neighbors(graph, new)
  <1>1. PICK p \in N \cap Visited(t) :
          tree' = [tree EXCEPT ![turn] = Advance(graph, Attach(graph, t, new, p), new)]
    BY DEF ConnectNew
  <1>2. /\ phase = "steer" /\ phase' = "rewire" /\ stack' = <<[node |-> new, near |-> N]>>
        /\ graph' = graph /\ met' = met /\ link' = link /\ sets' = sets
        /\ turn' = turn /\ wasConnected' = wasConnected /\ new' = new /\ updates' = updates
    BY DEF ConnectNew
  <1>3. /\ Control /\ Grown /\ Ahead /\ Pending /\ Met /\ AreWays(tree, link)
        /\ turn \in Tree /\ new \in Node /\ tree \in [Tree -> TreeType] /\ IsRoads(graph)
        /\ \A i \in Tree : tree[i] \in TreeType /\ IsTree(tree[i], graph)
    BY <1>2, InvFacts
  <1>4. /\ new \in Frontier(t, graph) /\ t.expandables \cup {new} = Frontier(t, graph)
        /\ IsTree(t, graph)
    BY <1>2, <1>3 DEF Ahead
  <1>5. /\ new \notin Visited(t) /\ {p, new} \in DOMAIN graph
    BY <1>1, <1>3, <1>4, FrontierNodes, NeighborRoads
  <1> DEFINE a == Attach(graph, t, new, p)
             u == Advance(graph, a, new)
  <1>6. /\ IsTree(a, graph) /\ Visited(a) = Visited(t) \cup {new} /\ a.root = t.root
        /\ a.expandables = t.expandables /\ \A n \in Visited(t) : a.cost[n] = t.cost[n]
    BY <1>1, <1>3, <1>4, <1>5, AttachTree
  <1> HIDE DEF a
  <1>7. /\ u \in TreeType /\ IsTree(u, graph) /\ Visited(u) = Visited(t) \cup {new}
        /\ u.root = t.root /\ \A n \in Visited(t) : u.cost[n] = t.cost[n]
        /\ u.expandables = (t.expandables \ {new}) \cup (N \ Visited(u))
    <2>1. a \in TreeType
      BY <1>6 DEF IsTree
    <2>2. /\ u \in TreeType /\ Visited(u) = Visited(a) /\ u.root = a.root
          /\ u.parent = a.parent /\ u.children = a.children /\ u.cost = a.cost
          /\ u.expandables = (a.expandables \ {new}) \cup (N \ Visited(a))
      BY <2>1, AdvanceKeeps
    <2> HIDE DEF u
    <2>3. IsTree(u, graph)
      BY <1>6, <2>2, SameMaps
    <2> QED BY <1>6, <2>2, <2>3
  <1>8. /\ tree' \in [Tree -> TreeType] /\ tree'[turn] = u
        /\ \A i \in Tree \ {turn} : tree'[i] = tree[i]
    <2> HIDE DEF u
    <2>1. tree' = [tree EXCEPT ![turn] = u]
      BY <1>1 DEF u, a
    <2> QED BY <1>3, <1>7, <2>1, ReplacedTree
  <1> HIDE DEF u
  <1>9. /\ \A i \in Tree : tree'[i] \in TreeType /\ IsTree(tree'[i], graph) /\ tree'[i].root = Root[i]
        /\ Meeting(tree') = met \cup PairsAt(tree', turn, new)
        /\ AreWays(tree', link)
    <2>1. /\ IsTree(tree'[turn], graph) /\ tree'[turn].root = tree[turn].root
          /\ \A n : n \in Visited(tree'[turn]) <=> n \in Visited(tree[turn]) \/ n = new
          /\ \A n \in Visited(tree[turn]) : tree'[turn].cost[n] = tree[turn].cost[n]
      BY <1>7, <1>8
    <2> HIDE DEF t
    <2> QED BY <1>2, <1>8, <2>1, GainedNode
  <1>10. Control'
    BY <1>2, <1>3, NodeAssumption DEF Control
  <1>11. Grown'
    BY <1>2, <1>8, <1>9 DEF Grown
  <1>12. Ahead'
    <2>1. u.expandables = Frontier(u, graph)
      <3>1. \A m : (\E n \in Visited(u) : m \in Neighbors(graph, n)) <=>
                     (\E n \in Visited(t) : m \in Neighbors(graph, n)) \/ m \in N
        BY <1>7
      <3>2. \A m : m \in Frontier(u, graph) <=>
                     m # new /\ (m \in Frontier(t, graph) \/ (m \in N /\ m \notin Visited(t)))
        BY <1>7, <3>1, FrontierNodes
      <3>3. \A m : m \in Frontier(t, graph) <=> m \in t.expandables \/ m = new
        BY <1>4
      <3>4. \A m : m \in u.expandables <=>
                     m # new /\ (m \in t.expandables \/ (m \in N /\ m \notin Visited(t)))
        BY <1>7
      <3>5. \A m : m \in u.expandables <=> m \in Frontier(u, graph)
        BY <3>2, <3>3, <3>4
      <3> QED BY <3>5
    <2>2. \A i \in Tree : i # turn => tree'[i].expandables = Frontier(tree'[i], graph)
      BY <1>2, <1>3, <1>8 DEF Ahead
    <2>3. \A i \in Tree : tree'[i].expandables = Frontier(tree'[i], graph)
      BY <1>8, <2>1, <2>2
    <2> QED BY <1>2, <2>3 DEF Ahead
  <1>13. Pending'
    <2>1. new \in Visited(tree'[turn])
      BY <1>7, <1>8
    <2>2. N \in SUBSET Node
      BY DEF Neighbors
    <2>3. [node |-> new, near |-> N] \in Frames(tree'[turn], graph)
      BY <1>3, <2>1, <2>2 DEF Frames
    <2>4. stack' \in Seq(Frames(tree'[turn], graph))
      BY <1>2, <2>3
    <2> QED BY <1>2, <2>1, <2>4 DEF Pending
  <1>14. Met'
    <2>1. Partitions(sets, Tree, met)
      BY <1>3 DEF Met
    <2> QED BY <1>2, <1>9, <2>1 DEF Met
  <1> QED BY <1>2, <1>9, <1>10, <1>11, <1>12, <1>13, <1>14 DEF ForestInv

\* The nodes below y, in any order.
LEMMA BreadthFirstFacts ==
  ASSUME NEW g, IsRoads(g), NEW t, IsTree(t, g), NEW y \in Visited(t),
         NEW s \in BreadthFirst(t, y)
  PROVE  /\ \E n \in Nat : DOMAIN s = 1..n /\ s \in [1..n -> Visited(t)]
         /\ \A k \in DOMAIN s : Reverse(s)[k] \in Visited(t)
  <1> DEFINE B == Below(t, y)
             n == Cardinality(B)
  <1>1. B \subseteq Visited(t)
    BY BelowFacts
  <1>2. n \in Nat
    <2>1. Visited(t) \subseteq Node
      BY DEF Visited
    <2>2. IsFiniteSet(B)
      BY <1>1, <2>1, NodeAssumption, FS_Subset
    <2> QED BY <2>2, FS_CardinalityType
  <1>3. s \in [1..n -> B]
    BY DEF BreadthFirst, SetToSeqs
  <1> HIDE DEF n, B
  <1>4. DOMAIN s = 1..n /\ s \in [1..n -> Visited(t)] /\ Len(s) = n
    BY <1>1, <1>2, <1>3
  <1>5. \A k \in DOMAIN s : Reverse(s)[k] \in Visited(t)
    <2> SUFFICES ASSUME NEW k \in 1..n PROVE Reverse(s)[k] \in Visited(t)
      BY <1>4
    <2>1. Reverse(s)[k] = s[(n - k) + 1] /\ (n - k) + 1 \in 1..n
      BY <1>2, <1>4 DEF Reverse
    <2> QED BY <1>4, <2>1
  <1> QED BY <1>2, <1>4, <1>5

\* A visited neighbour moves under the node being rewired.
LEMMA RewireNeighborInv == ForestInv /\ RewireNeighbor => ForestInv'
  <1> SUFFICES ASSUME ForestInv, RewireNeighbor PROVE ForestInv'
    OBVIOUS
  <1> DEFINE t == tree[turn]
             x == Call.node
  <1>1. PICK y \in Call.near :
          /\ Improves(y)
          /\ tree' = [tree EXCEPT ![turn] = Rewired(graph, @, Call.node, y)]
          /\ \E s \in BreadthFirst(tree'[turn], y) :
               stack' = [k \in DOMAIN s |->
                           [node |-> Reverse(s)[k], near |-> Neighbors(graph, Reverse(s)[k])]]
                        \o <<[node |-> y, near |-> None],
                             [Call EXCEPT !.near = @ \ {y}]>>
                        \o Tail(stack)
    BY DEF RewireNeighbor
  <1>2. /\ phase = "rewire" /\ stack # <<>> /\ Call.near # None
        /\ graph' = graph /\ met' = met /\ link' = link /\ sets' = sets
        /\ phase' = phase /\ turn' = turn /\ wasConnected' = wasConnected /\ new' = new
        /\ updates' = updates
    BY DEF RewireNeighbor
  <1>3. /\ Control /\ Grown /\ Ahead /\ Pending /\ Met /\ AreWays(tree, link)
        /\ turn \in Tree /\ new \in Node /\ tree \in [Tree -> TreeType] /\ IsRoads(graph)
        /\ \A i \in Tree : tree[i] \in TreeType /\ IsTree(tree[i], graph)
    BY <1>2, InvFacts
  <1>4. /\ Call \in Frames(t, graph) /\ Tail(stack) \in Seq(Frames(t, graph))
        /\ x \in Visited(t) /\ Call.near \subseteq Neighbors(graph, x) /\ Call.near \in SUBSET Node
    BY <1>2, CallIsFrame
  <1>5. /\ y \in Visited(t) /\ {x, y} \in DOMAIN graph /\ y \in Node
        /\ t.cost[x] + graph[{x, y}] < t.cost[y]
    <2>1. {y, x} \in DOMAIN graph /\ y \in Node
      BY <1>3, <1>4, NeighborRoads
    <2>2. {y, x} = {x, y}
      OBVIOUS
    <2> QED BY <1>1, <2>1, <2>2 DEF Improves
  <1> DEFINE u == Rewired(graph, t, x, y)
  <1>6. /\ IsTree(u, graph) /\ Visited(u) = Visited(t) /\ u.root = t.root
        /\ u.expandables = t.expandables /\ \A n \in Visited(t) : u.cost[n] <= t.cost[n]
    BY <1>3, <1>4, <1>5, RewiredTree
  <1>7. u \in TreeType
    BY <1>6 DEF IsTree
  <1>8. tree' = [tree EXCEPT ![turn] = u]
    BY <1>1
  <1> HIDE DEF u
  <1>9. /\ tree' \in [Tree -> TreeType] /\ tree'[turn] = u
        /\ \A i \in Tree \ {turn} : tree'[i] = tree[i]
    BY <1>3, <1>7, <1>8, ReplacedTree
  <1>10. /\ \A i \in Tree : tree'[i] \in TreeType /\ IsTree(tree'[i], graph) /\ tree'[i].root = Root[i]
         /\ \A i \in Tree : Visited(tree'[i]) = Visited(tree[i])
    BY <1>3, <1>6, <1>7, <1>9 DEF Grown
  <1>11. Control'
    BY <1>2, <1>3 DEF Control
  <1>12. Grown'
    BY <1>2, <1>9, <1>10 DEF Grown
  <1>13. Ahead'
    <2>1. Frontier(u, graph) = Frontier(t, graph)
      BY <1>6, Zenon DEF Frontier
    <2>2. \A i \in Tree : tree[i].expandables = Frontier(tree[i], graph)
      BY <1>2, <1>3 DEF Ahead
    <2>3. \A i \in Tree : tree'[i].expandables = Frontier(tree'[i], graph)
      BY <1>6, <1>9, <2>1, <2>2
    <2> QED BY <1>2, <2>3 DEF Ahead
  <1>14. Pending'
    <2> DEFINE F == Frames(u, graph)
    <2>1. F = Frames(t, graph)
      BY <1>6, Zenon DEF Frames
    <2>2. PICK s \in BreadthFirst(u, y) :
            stack' = [k \in DOMAIN s |->
                        [node |-> Reverse(s)[k], near |-> Neighbors(graph, Reverse(s)[k])]]
                     \o <<[node |-> y, near |-> None], [Call EXCEPT !.near = @ \ {y}]>>
                     \o Tail(stack)
      BY <1>1, <1>9
    <2>3. y \in Visited(u)
      BY <1>5, <1>6
    <2>4. PICK n \in Nat : DOMAIN s = 1..n
      BY <1>3, <1>6, <2>3, BreadthFirstFacts
    <2>5. \A k \in 1..n : Reverse(s)[k] \in Visited(u)
      BY <1>3, <1>6, <2>3, <2>4, BreadthFirstFacts
    <2>6. \A m \in Visited(u) : [node |-> m, near |-> Neighbors(graph, m)] \in F
      BY DEF Frames, Visited, Neighbors
    <2>7. [node |-> y, near |-> None] \in F
      BY <1>5, <2>3 DEF Frames
    <2>8. [Call EXCEPT !.near = @ \ {y}] \in F
      <3>1. Call \in F
        BY <1>4, <2>1
      <3> QED BY <1>4, <3>1 DEF Frames
    <2> DEFINE below == [k \in DOMAIN s |->
                          [node |-> Reverse(s)[k], near |-> Neighbors(graph, Reverse(s)[k])]]
    <2> HIDE DEF F
    <2>9. below \in Seq(F)
      BY <2>4, <2>5, <2>6
    <2>10. <<[node |-> y, near |-> None], [Call EXCEPT !.near = @ \ {y}]>> \in Seq(F)
      BY <2>7, <2>8
    <2>11. Tail(stack) \in Seq(F)
      BY <1>4, <2>1
    <2> HIDE DEF below
    <2>12. stack' \in Seq(F)
      <3>1. \A a, b \in Seq(F) : a \o b \in Seq(F)
        OBVIOUS
      <3>2. stack' = below \o <<[node |-> y, near |-> None], [Call EXCEPT !.near = @ \ {y}]>>
                      \o Tail(stack)
        BY <2>2 DEF below
      <3> QED BY <2>9, <2>10, <2>11, <3>1, <3>2
    <2>13. new \in Visited(u)
      BY <1>2, <1>3, <1>6 DEF Pending
    <2> QED BY <1>2, <1>9, <2>12, <2>13 DEF Pending, F
  <1>15. Met'
    <2>1. Meeting(tree') \subseteq Meeting(tree) /\ Meeting(tree) \subseteq Meeting(tree')
      <3>1. /\ \A i \in Tree : Visited(tree'[i]) \subseteq Visited(tree[i])
            /\ \A i \in Tree : Visited(tree[i]) \subseteq Visited(tree'[i])
        BY <1>10
      <3> QED BY <3>1, MoreMeetings
    <2>2. PairsAt(tree', turn, new) = PairsAt(tree, turn, new)
      BY <1>10 DEF PairsAt
    <2> QED BY <1>2, <1>3, <2>1, <2>2 DEF Met
  <1>16. AreWays(tree, link)'
    <2>1. \A i \in Tree : \A n \in Visited(tree[i]) : tree'[i].cost[n] <= tree[i].cost[n]
      <3> SUFFICES ASSUME NEW i \in Tree, NEW n \in Visited(tree[i])
                   PROVE  tree'[i].cost[n] <= tree[i].cost[n]
        OBVIOUS
      <3>1. tree[i].cost[n] \in Nat
        BY <1>3, TreeFacts
      <3> QED BY <1>6, <1>9, <3>1
    <2>2. \A i \in Tree : Visited(tree[i]) \subseteq Visited(tree'[i])
      BY <1>10
    <2>3. AreWays(tree', link)
      BY <1>3, <1>10, <2>1, <2>2, WaysStay
    <2> QED BY <1>2, <2>3
  <1> QED BY <1>11, <1>12, <1>13, <1>14, <1>15, <1>16 DEF ForestInv

\* update_graph: the trees are cut to the new graph and linked anew.
LEMMA UpdateGraphInv == ForestInv /\ (\E g \in Road : UpdateGraph(g)) => ForestInv'
  <1> SUFFICES ASSUME ForestInv, NEW g \in Road, UpdateGraph(g) PROVE ForestInv'
    OBVIOUS
  <1>1. /\ phase = "expand" /\ turn = 0 /\ updates < MaxUpdates
        /\ graph' = g /\ tree' = [i \in Tree |-> Retained(g, tree[i])] /\ Rebuild(tree')
        /\ wasConnected' = sets'.connected /\ updates' = updates + 1
        /\ phase' = phase /\ turn' = turn /\ new' = new /\ stack' = stack
    BY DEF UpdateGraph
  <1>2. /\ Control /\ Grown /\ Pending /\ IsRoads(graph) /\ IsRoads(g)
        /\ \A i \in Tree : IsTree(tree[i], graph) /\ tree[i].root = Root[i]
    BY InvFacts, RoadsOfGraphs DEF Grown
  <1>3. ASSUME NEW i \in Tree
        PROVE  /\ IsTree(tree'[i], g) /\ tree'[i] \in TreeType /\ tree'[i].root = Root[i]
               /\ tree'[i].expandables = Frontier(tree'[i], g)
    <2>1. tree'[i] = Retained(g, tree[i])
      BY <1>1
    <2>2. /\ IsTree(tree'[i], g) /\ tree'[i].root = tree[i].root
          /\ tree'[i].expandables = Frontier(tree'[i], g)
      BY <1>2, <2>1, RetainedTree
    <2> QED BY <1>2, <2>2 DEF IsTree
  <1>4. /\ met' = Meeting(tree') /\ Partitions(sets', Tree, met') /\ AreWays(tree', link')
    <2>1. \A i \in Tree : tree'[i] \in TreeType
      BY <1>3
    <2> QED BY <1>1, <2>1, RebuildKeeps
  <1>5. Control'
    <2>1. Goal \in Nat /\ MaxUpdates \in Nat /\ sets'.connected \in BOOLEAN
      BY <1>4, TreesNumbered, BoundAssumption DEF Partitions, SetsType
    <2> HIDE DEF Goal
    <2> QED BY <1>1, <1>2, <2>1 DEF Control
  <1>6. Grown'
    <2>1. tree' = [i \in Tree |-> tree'[i]]
      BY <1>1
    <2>2. tree' \in [Tree -> TreeType]
      BY <1>3, <2>1
    <2> QED BY <1>1, <1>3, <2>2 DEF Grown
  <1>7. Ahead'
    BY <1>1, <1>3 DEF Ahead
  <1>8. Pending'
    BY <1>1, <1>2 DEF Pending
  <1>9. Met'
    BY <1>1, <1>4 DEF Met
  <1> QED BY <1>4, <1>5, <1>6, <1>7, <1>8, <1>9 DEF ForestInv

\* The inductive invariant of the search.
THEOREM ForestHolds == Spec => []ForestInv
  <1>1. ForestInv /\ [Next]_vars => ForestInv'
    <2> SUFFICES ASSUME ForestInv, [Next]_vars PROVE ForestInv'
      OBVIOUS
    <2>1. CASE Step
      BY <2>1, SkipTreeInv, SelectInv, FollowCorridorInv, ConnectNewInv, PassNeighborInv,
         RewireNeighborInv, OfferLinkInv, ReturnFromRewireInv, TreeExpandedInv, EndStepInv
         DEF Step
    <2>2. CASE \E g \in Road : UpdateGraph(g)
      BY <2>2, UpdateGraphInv
    <2>3. CASE UNCHANGED vars
      <3>1. /\ graph' = graph /\ tree' = tree /\ met' = met /\ link' = link /\ sets' = sets
            /\ phase' = phase /\ turn' = turn /\ wasConnected' = wasConnected /\ new' = new
            /\ stack' = stack /\ updates' = updates
        BY <2>3 DEF vars, searchVars, stepVars
      <3> QED BY <3>1 DEF ForestInv, Control, Grown, Ahead, InCorridor, Pending, Met
    <2> QED BY <2>1, <2>2, <2>3 DEF Next
  <1> QED BY <1>1, InitInv, PTL DEF Spec

-----------------------------------------------------------------------------
(* What the invariant says                                                  *)

\* The connected components that Component follows step by step.
Near(T) == {j \in Tree : \E h \in T : {h, j} \in Meeting(tree)}

IsReach(f, i) ==
  /\ f \in [Nat -> SUBSET Tree] /\ f[0] = {i}
  /\ \A k \in Nat : f[k + 1] = f[k] \cup Near(f[k])
  /\ Component(i) = f[Goal]

LEMMA ReachExists ==
  ASSUME NEW i \in Tree
  PROVE  \E f : IsReach(f, i)
  <1> DEFINE V == SUBSET Tree
             h == [T \in V |-> T \cup Near(T)]
             near(T) == {j \in Tree : \E m \in T : {m, j} \in Pair /\ Common(tree, {m, j}) # {}}
  <1>1. Goal \in Nat
    BY TreesNumbered
  <1>2. \A T : near(T) = Near(T)
    BY DEF Near, Meeting
  <1>3. \A T \in V : T \cup Near(T) \in V
    BY DEF Near
  <1>4. h \in [V -> V] /\ {i} \in V
    BY <1>3
  <1>5. PICK f : IsIteration(f, V, {i}, h)
    <2> HIDE DEF V, h
    <2> QED BY <1>4, Iteration
  <1>6. /\ f \in [Nat -> V] /\ f[0] = {i}
        /\ \A k \in Nat : f[k] \in V /\ f[k + 1] = f[k] \cup Near(f[k])
    BY <1>5 DEF IsIteration
  <1> HIDE DEF h, Goal, near
  <1> DEFINE step(q) == [k \in 0..Goal |-> IF k = 0 THEN {i} ELSE q[k - 1] \cup near(q[k - 1])]
             reach == CHOOSE q : q = step(q)
             F == [k \in 0..Goal |-> f[k]]
  <1>7. F = step(F)
    <2>1. ASSUME NEW k \in 0..Goal PROVE F[k] = step(F)[k]
      <3>1. CASE k = 0
        BY <1>1, <1>6, <3>1
      <3>2. CASE k # 0
        <4>1. k - 1 \in 0..Goal /\ k - 1 \in Nat /\ (k - 1) + 1 = k
          BY <1>1, <3>2
        <4>2. f[k] = f[k - 1] \cup near(f[k - 1])
          BY <1>2, <1>6, <4>1
        <4> QED BY <3>2, <4>1, <4>2
      <3> QED BY <3>1, <3>2
    <2> QED BY <2>1
  <1>8. reach = step(reach)
    <2> HIDE DEF F, step
    <2> QED BY <1>7
  <1>9. Component(i) = reach[Goal]
    BY DEF Component, near
  <1> HIDE DEF reach
  <1>10. \A k \in 0..Goal :
           reach[k] = IF k = 0 THEN {i} ELSE reach[k - 1] \cup Near(reach[k - 1])
    BY <1>2, <1>8
  <1> DEFINE S == {k \in Nat : k <= Goal => reach[k] = f[k]}
  <1>11. 0 \in S
    <2>1. 0 \in 0..Goal
      BY <1>1
    <2> QED BY <1>6, <1>10, <2>1
  <1>12. ASSUME NEW k \in Nat, k \in S PROVE k + 1 \in S
    <2> SUFFICES ASSUME k + 1 <= Goal PROVE reach[k + 1] = f[k + 1]
      OBVIOUS
    <2>1. k + 1 \in 0..Goal /\ k + 1 # 0 /\ (k + 1) - 1 = k /\ reach[k] = f[k]
      BY <1>1, <1>12
    <2>2. reach[k + 1] = reach[k] \cup Near(reach[k])
      BY <1>10, <2>1
    <2> QED BY <1>6, <2>1, <2>2
  <1>13. Nat \subseteq S
    <2> HIDE DEF S
    <2> QED BY <1>11, <1>12, NatSetInduction
  <1>14. Component(i) = f[Goal]
    BY <1>1, <1>9, <1>13
  <1> QED BY <1>6, <1>14 DEF IsReach

LEMMA ComponentsAreClasses ==
  ASSUME Partitions(sets, Tree, Meeting(tree)), NEW i \in Tree
  PROVE  /\ Component(i) \subseteq Tree
         /\ \A j \in Tree : sets.parent[i] = sets.parent[j] <=> j \in Component(i)
  <1> DEFINE M == Meeting(tree)
             C == Component(i)
  <1>1. Goal \in Nat /\ Cardinality(Tree) = Goal + 1 /\ IsFiniteSet(Tree)
    <2>1. IsFiniteSet(Tree) /\ Goal \in Nat
      BY TreesNumbered
    <2>2. Cardinality(Tree) \in Nat
      BY <2>1, FS_CardinalityType
    <2> QED BY <2>1, <2>2 DEF Goal
  <1>2. PICK f : IsReach(f, i)
    BY ReachExists
  <1>3. /\ f \in [Nat -> SUBSET Tree] /\ f[0] = {i} /\ C = f[Goal]
        /\ \A k \in Nat : f[k + 1] = f[k] \cup Near(f[k])
    BY <1>2 DEF IsReach
  <1> HIDE DEF C, M, Goal
  <1>4. /\ \A p \in M : IsPair(p, Tree) /\ \A k, l \in p : sets.parent[k] = sets.parent[l]
        /\ \A D \in SUBSET Tree : Closed(D, M) =>
             \A k, l \in Tree : sets.parent[k] = sets.parent[l] => (k \in D <=> l \in D)
    BY DEF Partitions, M
  <1>5. \A T : Near(T) = {j \in Tree : \E h \in T : {h, j} \in M}
    BY DEF Near, M
  <1> DEFINE Same == {k \in Nat : \A j \in f[k] : sets.parent[j] = sets.parent[i]}
             Grows == {k \in Nat : Closed(f[k], M) \/ Cardinality(f[k]) > k}
  <1>6. Nat \subseteq Same
    <2>1. 0 \in Same
      BY <1>3
    <2>2. ASSUME NEW k \in Nat, k \in Same PROVE k + 1 \in Same
      <3>1. \A j \in Near(f[k]) : \E h \in f[k] : sets.parent[h] = sets.parent[j]
        BY <1>4, <1>5
      <3> QED BY <1>3, <2>2, <3>1
    <2> HIDE DEF Same
    <2> QED BY <2>1, <2>2, NatSetInduction
  <1>7. \A k \in Nat : IsFiniteSet(f[k]) /\ Cardinality(f[k]) \in Nat
    BY <1>1, <1>3, FS_Subset, FS_CardinalityType
  <1>8. Nat \subseteq Grows
    <2>1. 0 \in Grows
      <3>1. Cardinality({i}) = 1
        BY FS_Singleton
      <3>2. Cardinality(f[0]) > 0
        BY <1>3, <3>1
      <3> QED BY <3>2
    <2>2. ASSUME NEW k \in Nat, k \in Grows PROVE k + 1 \in Grows
      <3>1. CASE Closed(f[k], M)
        <4>1. Near(f[k]) \subseteq f[k]
          BY <1>5, <3>1 DEF Closed
        <4>2. f[k + 1] = f[k]
          BY <1>3, <4>1
        <4> QED BY <3>1, <4>2
      <3>2. CASE ~ Closed(f[k], M)
        <4>1. PICK p \in M : ~ p \subseteq f[k] /\ p \cap f[k] # {}
          BY <3>2 DEF Closed
        <4>2. PICK h \in f[k], j \in Tree : j \notin f[k] /\ p = {h, j}
          BY <1>4, <4>1 DEF IsPair
        <4>3. j \in f[k + 1] /\ f[k] \subseteq f[k + 1]
          BY <1>3, <1>5, <4>1, <4>2
        <4>4. k + 1 \in Nat
          OBVIOUS
        <4>5. Cardinality(f[k]) < Cardinality(f[k + 1])
          BY <1>7, <4>2, <4>3, <4>4, FS_Subset
        <4>6. Cardinality(f[k]) > k
          BY <2>2, <3>2
        <4> QED BY <1>7, <4>4, <4>5, <4>6
      <3> QED BY <3>1, <3>2
    <2> HIDE DEF Grows
    <2> QED BY <2>1, <2>2, NatSetInduction
  <1>9. C \in SUBSET Tree /\ i \in C /\ \A j \in C : sets.parent[j] = sets.parent[i]
    <2> DEFINE Has == {k \in Nat : i \in f[k]}
    <2>1. Nat \subseteq Has
      <3>1. 0 \in Has
        BY <1>3
      <3>2. ASSUME NEW k \in Nat, k \in Has PROVE k + 1 \in Has
        BY <1>3, <3>2
      <3> HIDE DEF Has
      <3> QED BY <3>1, <3>2, NatSetInduction
    <2> QED BY <1>1, <1>3, <1>6, <2>1
  <1>10. Closed(C, M)
    <2>1. CASE Closed(f[Goal], M)
      BY <1>3, <2>1
    <2>2. CASE ~ Closed(f[Goal], M)
      <3>1. Cardinality(C) > Goal /\ Cardinality(C) \in Nat
        BY <1>1, <1>3, <1>7, <1>8, <2>2
      <3>2. Cardinality(C) <= Cardinality(Tree) /\ (Cardinality(Tree) = Cardinality(C) => Tree = C)
        BY <1>1, <1>9, FS_Subset
      <3>3. C = Tree
        BY <1>1, <3>1, <3>2
      <3> QED BY <1>4, <3>3 DEF Closed, IsPair
    <2> QED BY <2>1, <2>2
  <1>11. \A j \in Tree : sets.parent[i] = sets.parent[j] <=> j \in C
    BY <1>4, <1>9, <1>10
  <1> QED BY <1>9, <1>11 DEF C

LEMMA InvImplies ==
  ForestInv => TreesSound /\ FrontierExact /\ LinksAreWays /\ ClassesAreComponents
  <1> SUFFICES ASSUME ForestInv
               PROVE  TreesSound /\ FrontierExact /\ LinksAreWays /\ ClassesAreComponents
    OBVIOUS
  <1>1. /\ IsRoads(graph) /\ \A i \in Tree : IsTree(tree[i], graph)
        /\ Ahead /\ Met /\ AreWays(tree, link)
    BY InvFacts
  <1>2. TreesSound
    BY <1>1, TreeIsSound DEF TreesSound
  <1>3. FrontierExact
    BY <1>1 DEF FrontierExact, Resting, Ahead, Frontier
  <1>4. LinksAreWays
    BY <1>1 DEF LinksAreWays, AreWays
  <1>5. ClassesAreComponents
    <2> SUFFICES ASSUME phase = "expand"
                 PROVE  /\ met = {p \in Pair : Common(tree, p) # {}}
                        /\ \A i, j \in Tree : sets.parent[i] = sets.parent[j] <=> j \in Component(i)
                        /\ sets.connected <=> Component(0) = Tree
      BY DEF ClassesAreComponents, Resting
    <2>1. met = Meeting(tree) /\ Partitions(sets, Tree, Meeting(tree))
      <3>1. phase # "rewire"
        OBVIOUS
      <3>2. met \subseteq Meeting(tree) /\ Meeting(tree) \subseteq met
        BY <1>1, <3>1 DEF Met
      <3>3. met = Meeting(tree)
        BY <3>2
      <3> QED BY <1>1, <3>3 DEF Met
    <2>2. \A i \in Tree :
            /\ Component(i) \subseteq Tree
            /\ \A j \in Tree : sets.parent[i] = sets.parent[j] <=> j \in Component(i)
      BY <2>1, ComponentsAreClasses
    <2>3. 0 \in Tree /\ (sets.connected <=> \A i \in Tree : sets.parent[i] = sets.parent[0])
      BY <2>1, TreesNumbered DEF Partitions
    <2>4. sets.connected <=> Component(0) = Tree
      BY <2>2, <2>3
    <2> QED BY <2>1, <2>2, <2>4 DEF Meeting
  <1> QED BY <1>2, <1>3, <1>4, <1>5

\* Between any two changes of a tree, its parent, children and cost maps tell one
\* tree of the present road graph (rrt/tree.rs; rewire_tree, update_cost and
\* retain_tree_on_graph write them one at a time).
THEOREM TreesAlwaysSound == Spec => []TreesSound
  <1> QED BY ForestHolds, InvImplies, PTL

\* Between two expansions, exactly the unvisited neighbours of a tree are ahead of
\* it (update_expandables, the corridor jump, retain_tree_on_graph).
THEOREM FrontierAlwaysExact == Spec => []FrontierExact
  <1> QED BY ForestHolds, InvImplies, PTL

\* A link always names a node both trees reach, for no more than its distance
\* (update_connection_tree, rebuild_connections).
THEOREM LinksAlwaysWays == Spec => []LinksAreWays
  <1> QED BY ForestHolds, InvImplies, PTL

\* The classes of the disjoint set are always the components of the trees that
\* share a node, and the forest counts as connected when there is one of them.
THEOREM ClassesAlwaysComponents == Spec => []ClassesAreComponents
  <1> QED BY ForestHolds, InvImplies, PTL

-----------------------------------------------------------------------------
(* Routes                                                                   *)

\* The legs of a sequence are numbered up to its last but one place.
LEMMA LegsOf ==
  ASSUME NEW s, Len(s) \in Nat \ {0}
  PROVE  Legs(s) = 1..(Len(s) - 1) /\ IsFiniteSet(Legs(s))
  <1>1. Legs(s) = 1..(Len(s) - 1)
    BY DEF Legs
  <1>2. IsFiniteSet(1..(Len(s) - 1))
    BY FS_Interval
  <1> QED BY <1>1, <1>2

\* Weight and TourCost are sums over the legs, in whatever order they are added up.
LEMMA WeightIsSum ==
  ASSUME NEW g, NEW q, NEW S, S = Legs(q), IsFiniteSet(S), \A k \in S : g[Leg(q, k)] \in Nat
  PROVE  \E F : IsSum(F, S, [k \in S |-> g[Leg(q, k)]]) /\ Weight(g, q) = F[S]
  <1> DEFINE w == [k \in S |-> g[Leg(q, k)]]
             step(h) == [s \in SUBSET S |->
                           IF s = {} THEN 0
                           ELSE LET x == CHOOSE x \in s : TRUE IN g[Leg(q, x)] + h[s \ {x}]]
             iter == CHOOSE h : h = step(h)
  <1>1. w \in [S -> Nat]
    OBVIOUS
  <1>2. PICK f : IsChoiceSum(f, S, w)
    <2> HIDE DEF w
    <2> QED BY <1>1, ChoiceSumExists
  <1>3. \A s \in SUBSET S : s # {} => w[CHOOSE x \in s : TRUE] = g[Leg(q, CHOOSE x \in s : TRUE)]
    OBVIOUS
  <1> HIDE DEF w
  <1>4. \A s \in SUBSET S : f[s] = step(f)[s]
    BY <1>2, <1>3 DEF IsChoiceSum
  <1>5. f = step(f)
    <2>1. DOMAIN f = SUBSET S /\ f = [s \in SUBSET S |-> f[s]]
      BY <1>2 DEF IsChoiceSum
    <2> QED BY <1>4, <2>1
  <1>6. iter = step(iter)
    <2> HIDE DEF step
    <2> QED BY <1>5
  <1>7. Weight(g, q) = iter[S]
    BY DEF Weight, MapThenSumSet, MapThenFoldSet
  <1> HIDE DEF iter
  <1>8. IsChoiceSum(iter, S, w)
    <2>1. iter[{}] = 0
      BY <1>6
    <2>2. \E V : iter \in [SUBSET S -> V]
      <3>1. iter \in [SUBSET S -> {iter[s] : s \in SUBSET S}]
        BY <1>6
      <3> QED BY <3>1
    <2>3. ASSUME NEW s \in SUBSET S, s # {}
          PROVE  iter[s] = w[CHOOSE x \in s : TRUE] + iter[s \ {CHOOSE x \in s : TRUE}]
      BY <1>3, <1>6, <2>3
    <2> QED BY <2>1, <2>2, <2>3 DEF IsChoiceSum
  <1>9. IsSum(iter, S, w)
    BY <1>1, <1>8, ChoiceSumIsSum
  <1> QED BY <1>7, <1>9 DEF w

\* The weight of a walk is the length it has step by step.
LEMMA WeightOfWalk ==
  ASSUME NEW g, IsRoads(g), NEW q, NEW m, NEW n, NEW w, IsWalk(g, q, m, n, w)
  PROVE  Weight(g, q) = w
  <1> DEFINE N == Len(q) - 1
             S == Legs(q)
             v == [k \in S |-> g[Leg(q, k)]]
  <1>1. /\ q \in Seq(Node) /\ Len(q) \in Nat \ {0}
        /\ \A k \in 1..N : {q[k], q[k + 1]} \in DOMAIN g
    BY DEF IsWalk
  <1>2. S = 1..N /\ IsFiniteSet(S) /\ N \in Nat
    BY <1>1, LegsOf
  <1>3. \A k \in 1..N : g[Leg(q, k)] \in Nat
    BY <1>1 DEF IsRoads, Leg
  <1>4. PICK F : IsSum(F, S, v) /\ Weight(g, q) = F[S]
    BY <1>2, <1>3, WeightIsSum
  <1>5. PICK f : IsLength(f, g, q) /\ f[Len(q)] = w
    BY DEF IsWalk
  <1>6. /\ f \in [1..Len(q) -> Int] /\ f[1] = 0
        /\ \A k \in 1..N : f[k + 1] = f[k] + g[{q[k], q[k + 1]}]
    BY <1>5 DEF IsLength
  <1>7. v \in [1..N -> Nat] /\ \A k \in 1..N : v[k] = g[{q[k], q[k + 1]}]
    BY <1>2, <1>3 DEF Leg
  <1>8. IsSum(F, 1..N, v)
    BY <1>2, <1>4
  <1>9. Len(q) = N + 1
    BY <1>1
  <1> HIDE DEF v, S, N
  <1>10. \A k \in 1..N : f[k] \in Int
    BY <1>2, <1>6, <1>9
  <1>11. \A k \in 1..N : f[k] \in Int /\ f[k + 1] = f[k] + v[k]
    BY <1>6, <1>7, <1>10, Zenon
  <1>12. F[1..N] = f[N + 1]
    <2>1. N \in Nat /\ v \in [1..N -> Nat] /\ f[1] = 0
      BY <1>2, <1>6, <1>7
    <2>2. IsPartialSums(f, N, v)
      BY <1>11, <2>1 DEF IsPartialSums
    <2> QED BY <1>8, <2>1, <2>2, SumOfSteps
  <1> QED BY <1>2, <1>4, <1>5, <1>9, <1>12

LEMMA TourCostIsSum ==
  ASSUME NEW ln, NEW q, NEW S, S = Legs(q), IsFiniteSet(S), \A k \in S : ln[Leg(q, k)].dist \in Nat
  PROVE  \E F : IsSum(F, S, [k \in S |-> ln[Leg(q, k)].dist]) /\ TourCost(ln, q) = F[S]
  <1> DEFINE w == [k \in S |-> ln[Leg(q, k)].dist]
             step(h) == [s \in SUBSET S |->
                           IF s = {} THEN 0
                           ELSE LET x == CHOOSE x \in s : TRUE
                                IN  ln[Leg(q, x)].dist + h[s \ {x}]]
             iter == CHOOSE h : h = step(h)
  <1>1. w \in [S -> Nat]
    OBVIOUS
  <1>2. PICK f : IsChoiceSum(f, S, w)
    <2> HIDE DEF w
    <2> QED BY <1>1, ChoiceSumExists
  <1>3. \A s \in SUBSET S : s # {} =>
          w[CHOOSE x \in s : TRUE] = ln[Leg(q, CHOOSE x \in s : TRUE)].dist
    OBVIOUS
  <1> HIDE DEF w
  <1>4. \A s \in SUBSET S : f[s] = step(f)[s]
    BY <1>2, <1>3 DEF IsChoiceSum
  <1>5. f = step(f)
    <2>1. DOMAIN f = SUBSET S /\ f = [s \in SUBSET S |-> f[s]]
      BY <1>2 DEF IsChoiceSum
    <2> QED BY <1>4, <2>1
  <1>6. iter = step(iter)
    <2> HIDE DEF step
    <2> QED BY <1>5
  <1>7. TourCost(ln, q) = iter[S]
    BY DEF TourCost, MapThenSumSet, MapThenFoldSet
  <1> HIDE DEF iter
  <1>8. IsChoiceSum(iter, S, w)
    <2>1. iter[{}] = 0
      BY <1>6
    <2>2. \E V : iter \in [SUBSET S -> V]
      <3>1. iter \in [SUBSET S -> {iter[s] : s \in SUBSET S}]
        BY <1>6
      <3> QED BY <3>1
    <2>3. ASSUME NEW s \in SUBSET S, s # {}
          PROVE  iter[s] = w[CHOOSE x \in s : TRUE] + iter[s \ {CHOOSE x \in s : TRUE}]
      BY <1>3, <1>6, <2>3
    <2> QED BY <2>1, <2>2, <2>3 DEF IsChoiceSum
  <1>9. IsSum(iter, S, w)
    BY <1>1, <1>8, ChoiceSumIsSum
  <1> QED BY <1>7, <1>9 DEF w

\* The k-th leg of s crosses a link between two trees.
CrossesLink(ln, s, k) ==
  s[k] # s[k + 1] /\ {s[k], s[k + 1]} \in Pair /\ ln[{s[k], s[k + 1]}] # None

LEMMA TourFacts ==
  ASSUME NEW ln, NEW s \in LinkedTours(ln)
  PROVE  /\ s \in Seq(Tree) /\ Len(s) \in Nat /\ Len(s) >= 2
         /\ s[1] = 0 /\ s[Len(s)] = Goal /\ \A i \in Tree : \E k \in 1..Len(s) : s[k] = i
         /\ \A k \in 1..Len(s) : s[k] \in Tree
         /\ \A k \in 1..(Len(s) - 1) : CrossesLink(ln, s, k)
  <1>1. PICK n \in 2..MaxTour : s \in [1..n -> Tree]
    BY DEF LinkedTours, Tours
  <1>2. /\ s[1] = 0 /\ s[Len(s)] = Goal /\ {s[k] : k \in DOMAIN s} = Tree
        /\ \A k \in Legs(s) : s[k] # s[k + 1]
        /\ \A k \in Legs(s) : ln[Leg(s, k)] # None
    BY DEF LinkedTours, Tours
  <1>3. n \in Nat /\ n >= 2
    BY BoundAssumption
  <1>4. s \in Seq(Tree) /\ Len(s) = n
    BY <1>1, <1>3
  <1>5. \A i \in Tree : \E k \in 1..Len(s) : s[k] = i
    BY <1>1, <1>2, <1>4
  <1>6. Legs(s) = 1..(Len(s) - 1)
    BY <1>3, <1>4, LegsOf
  <1>7. \A k \in 1..(Len(s) - 1) : s[k] \in Tree /\ s[k + 1] \in Tree
    BY <1>1, <1>3, <1>4
  <1>8. ASSUME NEW k \in 1..(Len(s) - 1) PROVE CrossesLink(ln, s, k)
    <2>1. s[k] # s[k + 1] /\ ln[{s[k], s[k + 1]}] # None
      BY <1>2, <1>6 DEF Leg
    <2>2. IsPair({s[k], s[k + 1]}, Tree)
      BY <1>7, <2>1 DEF IsPair
    <2> QED BY <2>1, <2>2, PairsOfTrees DEF CrossesLink
  <1> QED BY <1>1, <1>2, <1>3, <1>4, <1>5, <1>8

\* The trees of the search, on the graph g.
AreTrees(ts, g) == \A i \in Tree : IsTree(ts[i], g) /\ ts[i].root = Root[i]

\* From root to root across a link there is a walk no longer than the link.
LEMMA LegIsWalk ==
  ASSUME NEW g, IsRoads(g), NEW ts, AreTrees(ts, g), NEW ln, AreWays(ts, ln),
         NEW i \in Tree, NEW j \in Tree, i # j, {i, j} \in Pair, ln[{i, j}] # None,
         NEW x, x = ln[{i, j}].node
  PROVE  /\ ln[{i, j}].dist \in Nat
         /\ \E w \in Nat : /\ w <= ln[{i, j}].dist
                           /\ IsWalk(g, RootPath(ts[i], x) \o Tail(Reverse(RootPath(ts[j], x))),
                                     Root[i], Root[j], w)
  <1> DEFINE p == {i, j}
             d == ln[p].dist
  <1>1. d \in Nat /\ x \in Common(ts, p) /\ LinkAt(ts, p, x).dist <= d
    BY DEF AreWays
  <1>2. PICK k \in Tree, l \in Tree :
          p = {k, l} /\ \A vs, n : LinkAt(vs, p, n).dist = vs[k].cost[n] + vs[l].cost[n]
    <2> HIDE DEF p
    <2>1. p \in Pair
      BY DEF p
    <2> QED BY <2>1, LinkEnds DEF AreEnds
  <1>3. x \in Visited(ts[i]) /\ x \in Visited(ts[j])
    BY <1>1 DEF Common
  <1>4. /\ IsTree(ts[i], g) /\ ts[i].root = Root[i]
        /\ IsTree(ts[j], g) /\ ts[j].root = Root[j]
    BY DEF AreTrees
  <1> DEFINE v == ts[i].cost[x]
             w == ts[j].cost[x]
  <1>5. v \in Nat /\ w \in Nat
    BY <1>3, <1>4, TreeFacts
  <1>6. v + w <= d
    <2>1. (k = i /\ l = j) \/ (k = j /\ l = i)
      BY <1>2
    <2>2. ts[k].cost[x] + ts[l].cost[x] <= d
      BY <1>1, <1>2
    <2> HIDE DEF d
    <2> QED BY <1>5, <2>1, <2>2
  <1>7. IsWalk(g, RootPath(ts[i], x), Root[i], x, v)
    BY <1>3, <1>4, RootPathIsWalk
  <1>8. IsWalk(g, Reverse(RootPath(ts[j], x)), x, Root[j], w)
    <2>1. IsWalk(g, RootPath(ts[j], x), Root[j], x, w)
      BY <1>3, <1>4, RootPathIsWalk
    <2> QED BY <2>1, WalkBack
  <1>9. IsWalk(g, RootPath(ts[i], x) \o Tail(Reverse(RootPath(ts[j], x))), Root[i], Root[j], v + w)
    BY <1>7, <1>8, WalkOn
  <1>10. v + w \in Nat
    BY <1>5
  <1> HIDE DEF v, w
  <1> QED BY <1>1, <1>6, <1>9, <1>10

\* The way update_path takes for the k-th leg of a tour.
LegPath(ts, ln, s, k) ==
  RootPath(ts[s[k]], ln[Leg(s, k)].node) \o Tail(Reverse(RootPath(ts[s[k + 1]], ln[Leg(s, k)].node)))

\* path[k] is the path up to the k-th destination of the tour.
PathSteps(path, ts, ln, s) ==
  /\ path[1] = <<Root[0]>> /\ PathOf(ts, ln, s) = path[Len(s)]
  /\ \A k \in 1..(Len(s) - 1) : path[k + 1] = path[k] \o Tail(LegPath(ts, ln, s, k))

HasLegs(ts, ln, s) ==
  \A k \in 1..(Len(s) - 1) : Tail(LegPath(ts, ln, s, k)) \in Seq(Node)

LEMMA PathOfSteps ==
  ASSUME NEW ts, NEW ln, NEW s, Len(s) \in Nat \ {0}, Root[0] \in Node, HasLegs(ts, ln, s)
  PROVE  \E path : PathSteps(path, ts, ln, s)
  <1> DEFINE L == Len(s)
             D == 1..L
             V == Seq(Node)
             leg(k) == LegPath(ts, ln, s, k)
             start == [k \in D |-> <<Root[0]>>]
             stop == {1}
             p == [k \in D |-> k - 1]
             d == [k \in D |-> k]
             h == [x \in D \X V |-> IF x[1] = 1 THEN x[2] ELSE x[2] \o Tail(leg(x[1] - 1))]
             step(q) == [k \in D |-> IF k = 1 THEN <<Root[0]>>
                                     ELSE q[k - 1] \o Tail(leg(k - 1))]
             path == CHOOSE q : q = step(q)
  <1>1. L \in Nat \ {0}
    OBVIOUS
  <1>2. start \in [D -> V]
    OBVIOUS
  <1>0. \A k \in 1..(L - 1) : Tail(leg(k)) \in V
    BY DEF HasLegs
  <1>3. d \in [D -> Nat] /\ \A n \in D \ stop : p[n] \in D /\ d[p[n]] < d[n]
    BY <1>1
  <1>4. \A k \in D : k # 1 => Tail(leg(k - 1)) \in V
    <2> SUFFICES ASSUME NEW k \in D, k # 1 PROVE Tail(leg(k - 1)) \in V
      OBVIOUS
    <2>1. k - 1 \in 1..(L - 1)
      BY <1>1
    <2> HIDE DEF leg
    <2> QED BY <1>0, <2>1
  <1> HIDE DEF leg
  <1>5. h \in [D \X V -> V]
    <2> SUFFICES ASSUME NEW k \in D, NEW q \in V
                 PROVE  (IF k = 1 THEN q ELSE q \o Tail(leg(k - 1))) \in V
      OBVIOUS
    <2> QED BY <1>4
  <1>6. PICK f : IsRecursion(f, D, V, start, stop, p, h)
    <2>1. \A n \in D \ stop : p[n] \in D /\ d[p[n]] < d[n]
      BY <1>3
    <2> HIDE DEF D, V, start, stop, p, h, d
    <2> QED BY <1>2, <1>3, <1>5, <2>1, RankedRecursion
  <1>7. /\ f \in [D -> V]
        /\ \A n \in D : f[n] = IF n \in stop THEN start[n] ELSE h[<<n, f[p[n]]>>]
    BY <1>6 DEF IsRecursion
  <1>8. \A k \in D : f[k] = IF k = 1 THEN <<Root[0]>> ELSE f[k - 1] \o Tail(leg(k - 1))
    <2> SUFFICES ASSUME NEW k \in D
                 PROVE  f[k] = IF k = 1 THEN <<Root[0]>> ELSE f[k - 1] \o Tail(leg(k - 1))
      OBVIOUS
    <2>1. CASE k = 1
      BY <1>7, <2>1
    <2>2. CASE k # 1
      <3>1. k - 1 \in D /\ p[k] = k - 1
        BY <1>1, <2>2
      <3>2. f[k - 1] \in V
        BY <1>7, <3>1
      <3>3. <<k, f[k - 1]>> \in D \X V
        BY <3>2
      <3>4. f[k] = h[<<k, f[k - 1]>>]
        BY <1>7, <2>2, <3>1
      <3> QED BY <2>2, <3>3, <3>4
    <2> QED BY <2>1, <2>2
  <1>9. f = step(f)
    <2>1. \A k \in D : f[k] = step(f)[k]
      BY <1>8
    <2>2. DOMAIN f = D /\ f = [k \in D |-> f[k]]
      BY <1>7
    <2> HIDE DEF D
    <2> QED BY <2>1, <2>2
  <1>10. path = step(path)
    <2> HIDE DEF step
    <2> QED BY <1>9
  <1>11. PathOf(ts, ln, s) = path[L]
    BY DEF PathOf, leg, LegPath
  <1> HIDE DEF path
  <1>12. path[1] = <<Root[0]>>
    <2>1. 1 \in D
      BY <1>1
    <2> QED BY <1>10, <2>1
  <1>13. ASSUME NEW k \in 1..(L - 1) PROVE path[k + 1] = path[k] \o Tail(leg(k))
    <2>1. k + 1 \in D /\ k + 1 # 1 /\ (k + 1) - 1 = k
      BY <1>1
    <2>2. path[k + 1] = step(path)[k + 1]
      BY <1>10
    <2> QED BY <2>1, <2>2
  <1> QED BY <1>11, <1>12, <1>13 DEF leg, PathSteps

\* The positions at give the first k destinations of s on p, one after the other.
Passes(at, p, s, k) ==
  /\ at \in [1..k -> 1..Len(p)]
  /\ \A j \in 1..k : p[at[j]] = Root[s[j]] /\ (j > 1 => at[j - 1] < at[j])

\* A longer path with the next destination at its end passes one more.
LEMMA PassOn ==
  ASSUME NEW s, NEW k \in Nat \ {0}, NEW p, NEW q, Len(p) \in Nat, Len(q) \in Nat,
         Len(p) < Len(q), \A a \in 1..Len(p) : q[a] = p[a], q[Len(q)] = Root[s[k + 1]],
         NEW at, Passes(at, p, s, k)
  PROVE  \E bt : Passes(bt, q, s, k + 1)
  <1> DEFINE bt == [j \in 1..(k + 1) |-> IF j = k + 1 THEN Len(q) ELSE at[j]]
  <1>1. /\ at \in [1..k -> 1..Len(p)]
        /\ \A j \in 1..k : p[at[j]] = Root[s[j]] /\ (j > 1 => at[j - 1] < at[j])
    BY DEF Passes
  <1>2. \A j \in 1..k : j \in 1..(k + 1) /\ j # k + 1 /\ bt[j] = at[j]
    OBVIOUS
  <1>3. k + 1 \in 1..(k + 1) /\ bt[k + 1] = Len(q)
    OBVIOUS
  <1>4. \A j \in 1..(k + 1) : j \in 1..k \/ j = k + 1
    OBVIOUS
  <1>5. \A j \in 1..k : at[j] \in 1..Len(p) /\ at[j] \in 1..Len(q) /\ at[j] < Len(q)
    BY <1>1
  <1>6. bt \in [1..(k + 1) -> 1..Len(q)]
    <2>1. \A j \in 1..(k + 1) : (IF j = k + 1 THEN Len(q) ELSE at[j]) \in 1..Len(q)
      <3>1. Len(q) \in 1..Len(q)
        OBVIOUS
      <3> QED BY <1>4, <1>5, <3>1
    <2> QED BY <2>1
  <1> HIDE DEF bt
  <1>7. ASSUME NEW j \in 1..(k + 1)
        PROVE  q[bt[j]] = Root[s[j]] /\ (j > 1 => bt[j - 1] < bt[j])
    <2>1. CASE j \in 1..k
      <3>1. q[bt[j]] = Root[s[j]]
        BY <1>1, <1>2, <1>5, <2>1
      <3>2. ASSUME j > 1 PROVE bt[j - 1] < bt[j]
        <4>1. j - 1 \in 1..k
          BY <2>1, <3>2
        <4> QED BY <1>1, <1>2, <2>1, <3>2, <4>1
      <3> QED BY <3>1, <3>2
    <2>2. CASE j = k + 1
      <3>1. k \in 1..k /\ j - 1 = k
        BY <2>2
      <3>2. bt[k] < Len(q)
        BY <1>2, <1>5, <3>1
      <3> QED BY <1>3, <2>2, <3>1, <3>2
    <2> QED BY <1>4, <2>1, <2>2
  <1>8. Passes(bt, q, s, k + 1)
    BY <1>6, <1>7 DEF Passes
  <1> QED BY <1>8

\* p passes the destinations in the order s.
InOrder(p, s) ==
  \E at \in [DOMAIN s -> DOMAIN p] :
    \A k \in DOMAIN s : p[at[k]] = Root[s[k]] /\ (k > 1 => at[k - 1] < at[k])

\* A path and a cost it keeps within: b.path leads from the source to the target, past
\* all objectives.
IsRoute(g, b) ==
  /\ b \in [cost : Nat, path : Seq(Node)]
  /\ b.path[1] = Root[0] /\ b.path[Len(b.path)] = Root[Goal]
  /\ {Root[i] : i \in Tree} \subseteq {b.path[k] : k \in DOMAIN b.path}
  /\ \A k \in Legs(b.path) : Leg(b.path, k) \in DOMAIN g
  /\ Weight(g, b.path) <= b.cost

\* What solve_rtsp makes of a tour over links that are ways is a route in its order.
LEMMA TourIsRoute ==
  ASSUME NEW g, IsRoads(g), NEW ts, AreTrees(ts, g), NEW ln, AreWays(ts, ln),
         NEW s \in LinkedTours(ln)
  PROVE  /\ IsRoute(g, [cost |-> TourCost(ln, s), path |-> PathOf(ts, ln, s)])
         /\ InOrder(PathOf(ts, ln, s), s)
  <1> DEFINE N == Len(s) - 1
             w == [k \in Legs(s) |-> ln[Leg(s, k)].dist]
  <1>1. /\ Len(s) \in Nat \ {0} /\ N \in Nat /\ N >= 1 /\ Len(s) = N + 1
        /\ s[1] = 0 /\ s[N + 1] = Goal
        /\ \A k \in 1..(N + 1) : s[k] \in Tree
        /\ \A i \in Tree : \E k \in 1..(N + 1) : s[k] = i
    BY TourFacts
  <1>2. \A k \in 1..N : /\ s[k] \in Tree /\ s[k + 1] \in Tree /\ s[k] # s[k + 1]
                        /\ {s[k], s[k + 1]} \in Pair /\ ln[{s[k], s[k + 1]}] # None
    <2>1. \A k \in 1..N : CrossesLink(ln, s, k)
      BY TourFacts
    <2>2. \A k \in 1..N : k \in 1..(N + 1) /\ k + 1 \in 1..(N + 1)
      BY <1>1
    <2> QED BY <1>1, <2>1, <2>2 DEF CrossesLink
  <1>3. Legs(s) = 1..N /\ IsFiniteSet(Legs(s))
    BY <1>1, LegsOf
  <1>4. ASSUME NEW k \in 1..N
        PROVE  /\ ln[Leg(s, k)].dist \in Nat
               /\ \E u \in Nat : /\ u <= ln[Leg(s, k)].dist
                                 /\ IsWalk(g, LegPath(ts, ln, s, k), Root[s[k]], Root[s[k + 1]], u)
    <2>1. Leg(s, k) = {s[k], s[k + 1]}
      BY DEF Leg
    <2> QED BY <1>2, <2>1, LegIsWalk DEF LegPath
  <1>5. \A k \in 1..N : Tail(LegPath(ts, ln, s, k)) \in Seq(Node)
    <2> SUFFICES ASSUME NEW k \in 1..N PROVE Tail(LegPath(ts, ln, s, k)) \in Seq(Node)
      OBVIOUS
    <2>1. LegPath(ts, ln, s, k) \in Seq(Node) /\ Len(LegPath(ts, ln, s, k)) \in Nat \ {0}
      BY <1>4 DEF IsWalk
    <2> QED BY <2>1
  <1>6. Root[0] \in Node
    BY TreesNumbered, RootAssumption
  <1>7. PICK path : /\ path[1] = <<Root[0]>> /\ PathOf(ts, ln, s) = path[Len(s)]
                    /\ \A k \in 1..N : path[k + 1] = path[k] \o Tail(LegPath(ts, ln, s, k))
    <2>1. Len(s) \in Nat \ {0}
      BY <1>1
    <2>2. HasLegs(ts, ln, s)
      BY <1>5 DEF HasLegs
    <2>3. \E path : PathSteps(path, ts, ln, s)
      BY <1>6, <2>1, <2>2, PathOfSteps
    <2> QED BY <2>3 DEF PathSteps
  <1>8. PICK F : IsSum(F, Legs(s), w) /\ TourCost(ln, s) = F[Legs(s)]
    BY <1>3, <1>4, TourCostIsSum
  <1>9. \A k \in 1..N : w[k] = ln[Leg(s, k)].dist
    BY <1>3
  <1> HIDE DEF w, N
  <1>10. /\ F[{}] = 0
         /\ \A r \in SUBSET (1..N) : F[r] \in Nat /\ \A k \in r : F[r] = w[k] + F[r \ {k}]
    BY <1>3, <1>8 DEF IsSum
  <1> DEFINE Reaches(k, v) ==
               /\ v \in Nat /\ v <= F[1..(k - 1)]
               /\ IsWalk(g, path[k], Root[0], Root[s[k]], v)
               /\ \E at : Passes(at, path[k], s, k)
             Good == {k \in Nat : k + 1 <= N + 1 => \E v \in Nat : Reaches(k + 1, v)}
  <1>11. 0 \in Good
    <2>1. 1..((0 + 1) - 1) = {} /\ 0 + 1 = 1 /\ \A j \in 1..1 : j = 1
      OBVIOUS
    <2>2. IsWalk(g, path[1], Root[0], Root[s[1]], 0)
      BY <1>1, <1>6, <1>7, WalkFrom
    <2>3. \E at : Passes(at, path[1], s, 1)
      <3> DEFINE at == [j \in 1..1 |-> 1]
      <3>1. 1 \in 1..Len(path[1]) /\ path[1][1] = Root[s[1]]
        BY <1>1, <1>7
      <3>2. at \in [1..1 -> 1..Len(path[1])] /\ at[1] = 1
        BY <3>1
      <3> HIDE DEF at
      <3>3. \A j \in 1..1 : j = 1
        OBVIOUS
      <3>4. Passes(at, path[1], s, 1)
        BY <3>1, <3>2, <3>3 DEF Passes
      <3> QED BY <3>4
    <2>4. Reaches(1, 0)
      BY <1>10, <2>1, <2>2, <2>3
    <2> QED BY <2>1, <2>4
  <1>12. ASSUME NEW k \in Nat, k \in Good PROVE k + 1 \in Good
    <2> DEFINE m == k + 1
    <2> SUFFICES ASSUME m + 1 <= N + 1 PROVE \E v \in Nat : Reaches(m + 1, v)
      OBVIOUS
    <2>1. m \in 1..N /\ m <= N + 1 /\ m \in Nat
      BY <1>1
    <2>2. PICK v \in Nat : Reaches(m, v)
      BY <1>12, <2>1
    <2>3. PICK u \in Nat : /\ u <= ln[Leg(s, m)].dist
                           /\ IsWalk(g, LegPath(ts, ln, s, m), Root[s[m]], Root[s[m + 1]], u)
      BY <1>4, <2>1
    <2> HIDE DEF m, Good
    <2>4. path[m + 1] = path[m] \o Tail(LegPath(ts, ln, s, m))
      BY <1>7, <2>1
    <2>5. /\ IsWalk(g, path[m], Root[0], Root[s[m]], v)
          /\ v <= F[1..(m - 1)]
          /\ \E at : Passes(at, path[m], s, m)
      BY <2>2
    <2> HIDE DEF Reaches
    <2>6. /\ IsWalk(g, path[m + 1], Root[0], Root[s[m + 1]], v + u)
          /\ Len(path[m]) < Len(path[m + 1])
          /\ \A a \in 1..Len(path[m]) : path[m + 1][a] = path[m][a]
      <3> DEFINE q == path[m]
                 l == LegPath(ts, ln, s, m)
      <3>1. IsWalk(g, q, Root[0], Root[s[m]], v) /\ IsWalk(g, l, Root[s[m]], Root[s[m + 1]], u)
        BY <2>3, <2>5
      <3> HIDE DEF q, l
      <3>2. /\ IsWalk(g, q \o Tail(l), Root[0], Root[s[m + 1]], v + u)
            /\ \A a \in 1..Len(q) : (q \o Tail(l))[a] = q[a]
        <4> DEFINE a == Root[0]
                   b == Root[s[m]]
                   c == Root[s[m + 1]]
        <4>1. IsWalk(g, q, a, b, v) /\ IsWalk(g, l, b, c, u) /\ IsRoads(g)
          BY <3>1
        <4> HIDE DEF a, b, c
        <4> QED BY <4>1, WalkOn DEF a, b, c
      <3>3. path[m + 1] = q \o Tail(l)
        BY <2>4 DEF q, l
      <3>4. Len(q) < Len(q \o Tail(l))
        <4>1. Root[s[m]] # Root[s[m + 1]]
          BY <1>2, <2>1, RootAssumption
        <4>2. /\ q \in Seq(Node) /\ Len(q) \in Nat
              /\ l \in Seq(Node) /\ Len(l) \in Nat \ {0} /\ l[1] # l[Len(l)]
          BY <3>1, <4>1 DEF IsWalk
        <4>3. Len(l) # 1
          BY <4>2
        <4>4. Tail(l) \in Seq(Node) /\ Len(Tail(l)) = Len(l) - 1
          BY <4>2, <4>3
        <4>5. Len(q \o Tail(l)) = Len(q) + Len(Tail(l))
          BY <4>2, <4>4
        <4> QED BY <4>2, <4>3, <4>4, <4>5
      <3> QED BY <3>2, <3>3, <3>4 DEF q
    <2>7. v + u <= F[1..((m + 1) - 1)] /\ v + u \in Nat
      <3>1. (m + 1) - 1 = m /\ 1..m \in SUBSET (1..N) /\ m \in 1..m /\ (1..m) \ {m} = 1..(m - 1)
        BY <1>1, <2>1
      <3>2. F[1..m] = w[m] + F[1..(m - 1)]
        <4>1. F[1..m] = w[m] + F[(1..m) \ {m}]
          BY <1>10, <3>1
        <4> QED BY <3>1, <4>1
      <3>3. w[m] \in Nat /\ u <= w[m]
        BY <1>4, <1>9, <2>1, <2>3
      <3>4. F[1..(m - 1)] \in Nat
        <4>1. 1..(m - 1) \in SUBSET (1..N)
          BY <1>1, <2>1
        <4> QED BY <1>10, <4>1
      <3> QED BY <2>5, <3>1, <3>2, <3>3, <3>4
    <2>8. \E bt : Passes(bt, path[m + 1], s, m + 1)
      <3>1. /\ Len(path[m]) \in Nat /\ Len(path[m + 1]) \in Nat
            /\ path[m + 1][Len(path[m + 1])] = Root[s[m + 1]]
        BY <2>5, <2>6 DEF IsWalk
      <3>2. PICK at : Passes(at, path[m], s, m)
        BY <2>5
      <3>3. m \in Nat \ {0}
        BY <2>1
      <3> QED BY <2>6, <3>1, <3>2, <3>3, PassOn
    <2> QED BY <2>6, <2>7, <2>8 DEF Reaches
  <1>13. Nat \subseteq Good
    <2> HIDE DEF Good
    <2> QED BY <1>11, <1>12, NatSetInduction
  <1>14. PICK v \in Nat : Reaches(N + 1, v)
    <2>1. N + 1 <= N + 1
      BY <1>1
    <2>2. N \in Good
      <3> HIDE DEF Good
      <3> QED BY <1>1, <1>13
    <2> HIDE DEF Reaches
    <2> QED BY <2>1, <2>2
  <1> DEFINE q == path[N + 1]
             c == TourCost(ln, s)
  <1>15. /\ IsWalk(g, q, Root[0], Root[Goal], v) /\ v <= F[1..N]
         /\ \E at : Passes(at, q, s, N + 1)
    <2>1. (N + 1) - 1 = N
      BY <1>1
    <2> QED BY <1>1, <1>14, <2>1
  <1>16. c = F[1..N] /\ c \in Nat
    <2>1. 1..N \in SUBSET (1..N)
      OBVIOUS
    <2> QED BY <1>3, <1>8, <1>10, <2>1
  <1>17. q = PathOf(ts, ln, s)
    BY <1>1, <1>7
  <1> HIDE DEF q, c, Reaches, Good
  <1>18. /\ q \in Seq(Node) /\ Len(q) \in Nat \ {0} /\ q[1] = Root[0] /\ q[Len(q)] = Root[Goal]
         /\ \A k \in 1..(Len(q) - 1) : {q[k], q[k + 1]} \in DOMAIN g
    BY <1>15 DEF IsWalk
  <1>19. Weight(g, q) <= c
    BY <1>15, <1>16, WeightOfWalk
  <1>20. {Root[i] : i \in Tree} \subseteq {q[k] : k \in DOMAIN q}
    <2> SUFFICES ASSUME NEW i \in Tree PROVE \E k \in DOMAIN q : q[k] = Root[i]
      OBVIOUS
    <2>1. PICK j \in 1..(N + 1) : s[j] = i
      BY <1>1
    <2>2. PICK at : Passes(at, q, s, N + 1)
      BY <1>15
    <2>3. at[j] \in 1..Len(q) /\ q[at[j]] = Root[s[j]]
      BY <2>2 DEF Passes
    <2>4. DOMAIN q = 1..Len(q)
      BY <1>18
    <2> QED BY <2>1, <2>3, <2>4
  <1>21. \A k \in Legs(q) : Leg(q, k) \in DOMAIN g
    BY <1>18, LegsOf DEF Leg
  <1> DEFINE b == [cost |-> c, path |-> q]
  <1>22. b \in [cost : Nat, path : Seq(Node)] /\ b.cost = c /\ b.path = q
    BY <1>16, <1>18
  <1> HIDE DEF b
  <1>23. IsRoute(g, b)
    BY <1>18, <1>19, <1>20, <1>21, <1>22 DEF IsRoute
  <1>24. InOrder(q, s)
    <2>1. PICK at : Passes(at, q, s, N + 1)
      BY <1>15
    <2>2. DOMAIN q = 1..Len(q) /\ DOMAIN s = 1..(N + 1)
      <3>1. s \in Seq(Tree)
        BY TourFacts
      <3> QED BY <1>1, <1>18, <3>1
    <2>3. /\ at \in [DOMAIN s -> DOMAIN q]
          /\ \A k \in DOMAIN s : q[at[k]] = Root[s[k]] /\ (k > 1 => at[k - 1] < at[k])
      BY <2>1, <2>2 DEF Passes
    <2> QED BY <2>3 DEF InOrder
  <1> QED BY <1>17, <1>23, <1>24 DEF b, c

\* b is a result as solve_rtsp stores it: its path is a route in its order, its cost is
\* within reach of some route, not always of this one.
IsPublished(g, b) ==
  /\ b \in [cost : Nat, order : Seq(Tree), path : Seq(Node)]
  /\ \E p : IsRoute(g, [cost |-> b.cost, path |-> p])
  /\ \E c : IsRoute(g, [cost |-> c, path |-> b.path])
  /\ \A i \in Tree : \E k \in DOMAIN b.order : b.order[k] = i
  /\ InOrder(b.path, b.order)

\* What the planner stores of an answer of the solver.
LEMMA AnswerIsPublished ==
  ASSUME NEW g, IsRoads(g), NEW ts, AreTrees(ts, g), NEW ln, AreWays(ts, ln),
         NEW a \in Answers(ln)
  PROVE  /\ IsPublished(g, Route(ts, ln, a))
         /\ Route(ts, ln, a).cost = a.cost
         /\ Weight(g, Route(ts, ln, a).path) <= TourCost(ln, Route(ts, ln, a).order)
  <1>1. PICK r \in LinkedTours(ln), s \in LinkedTours(ln) :
          a = [cost |-> TourCost(ln, r), order |-> s]
    BY DEF Answers
  <1> DEFINE q == PathOf(ts, ln, s)
             p == PathOf(ts, ln, r)
             c == TourCost(ln, r)
             d == TourCost(ln, s)
  <1>2. IsRoute(g, [cost |-> d, path |-> q]) /\ InOrder(q, s)
    BY TourIsRoute
  <1>3. IsRoute(g, [cost |-> c, path |-> p])
    BY TourIsRoute
  <1>4. s \in Seq(Tree) /\ \A i \in Tree : \E k \in DOMAIN s : s[k] = i
    <2>1. /\ s \in Seq(Tree) /\ Len(s) \in Nat
          /\ \A i \in Tree : \E k \in 1..Len(s) : s[k] = i
      BY TourFacts
    <2> QED BY <2>1
  <1>5. Route(ts, ln, a) = [cost |-> c, order |-> s, path |-> q]
    BY <1>1 DEF Route
  <1> HIDE DEF q, p, c, d
  <1>6. c \in Nat /\ q \in Seq(Node) /\ Weight(g, q) <= d
    BY <1>2, <1>3 DEF IsRoute
  <1> DEFINE b == [cost |-> c, order |-> s, path |-> q]
  <1>7. /\ b \in [cost : Nat, order : Seq(Tree), path : Seq(Node)]
        /\ b.cost = c /\ b.order = s /\ b.path = q
    BY <1>4, <1>6
  <1> HIDE DEF b
  <1>8. IsPublished(g, b)
    BY <1>2, <1>3, <1>4, <1>7 DEF IsPublished
  <1>9. a.cost = c
    BY <1>1 DEF c
  <1> QED BY <1>5, <1>6, <1>7, <1>8, <1>9 DEF b, d

-----------------------------------------------------------------------------
(* The published route                                                      *)

\* The published route is one of the present graph.
RouteInv == best = None \/ IsPublished(graph, best)

\* Only the solver and a new graph change the best route; a new graph forgets it first.
LEMMA SolveKeepsRoute ==
  ASSUME NEW g, IsRoads(g), NEW ts, AreTrees(ts, g), NEW ln, AreWays(ts, ln), NEW ds,
         NEW b, b = None \/ IsPublished(g, b), Solve(b, ts, ln, ds)
  PROVE  /\ best' = None \/ IsPublished(g, best')
         /\ \/ best' = b
            \/ /\ best' # None /\ (b = None \/ best'.cost < b.cost)
               /\ Weight(g, best'.path) <= TourCost(ln, best'.order)
  <1>1. CASE best' = b
    BY <1>1
  <1>2. CASE best' # b
    <2>1. PICK a \in Answers(ln) : best' = Route(ts, ln, a) /\ (b = None \/ a.cost < b.cost)
      BY <1>2 DEF Solve
    <2>2. /\ IsPublished(g, best') /\ best'.cost = a.cost
          /\ Weight(g, best'.path) <= TourCost(ln, best'.order)
      BY <2>1, AnswerIsPublished
    <2>3. best' # None
      BY <2>2, NoneAssumption DEF IsPublished
    <2> QED BY <2>1, <2>2, <2>3
  <1> QED BY <1>1, <1>2

LEMMA RouteStep ==
  ForestInv /\ ForestInv' /\ RouteInv /\ [Next]_vars =>
    /\ RouteInv'
    /\ best' # best /\ best' # None =>
         Weight(graph', best'.path) <= TourCost(link', best'.order)
  <1> DEFINE Within == best' # best /\ best' # None =>
                         Weight(graph', best'.path) <= TourCost(link', best'.order)
  <1> SUFFICES ASSUME ForestInv, ForestInv', RouteInv, [Next]_vars PROVE RouteInv' /\ Within
    OBVIOUS
  <1>1. IsRoads(graph) /\ AreTrees(tree, graph) /\ AreWays(tree, link)
    BY RoadsOfGraphs DEF ForestInv, Control, Grown, AreTrees
  <1>2. graph' \in Road /\ (\A i \in Tree : IsTree(tree'[i], graph') /\ tree'[i].root = Root[i])
        /\ AreWays(tree', link')
    BY DEF ForestInv, Control, Grown
  <1>3. IsRoads(graph') /\ AreTrees(tree', graph')
    BY <1>2, RoadsOfGraphs DEF AreTrees
  <1>4. CASE UNCHANGED <<graph, best>>
    BY <1>4 DEF RouteInv
  <1>5. CASE EndStep
    <2>1. graph' = graph /\ link' = link /\ (Solve(best, tree, link, sets) \/ best' = best)
      BY <1>5 DEF EndStep, searchVars
    <2>2. CASE best' = best
      BY <2>1, <2>2 DEF RouteInv
    <2>3. CASE Solve(best, tree, link, sets)
      <3>1. /\ best' = None \/ IsPublished(graph, best')
            /\ best' = best \/ Weight(graph, best'.path) <= TourCost(link, best'.order)
        BY <1>1, <2>3, SolveKeepsRoute DEF RouteInv
      <3> QED BY <2>1, <3>1 DEF RouteInv
    <2> QED BY <2>1, <2>2, <2>3
  <1>6. ASSUME NEW g \in Road, UpdateGraph(g) PROVE RouteInv' /\ Within
    <2>1. Solve(None, tree', link', sets')
      BY <1>6 DEF UpdateGraph
    <2>2. /\ best' = None \/ IsPublished(graph', best')
          /\ best' = None \/ Weight(graph', best'.path) <= TourCost(link', best'.order)
      BY <1>2, <1>3, <2>1, SolveKeepsRoute
    <2> QED BY <2>2 DEF RouteInv
  <1>7. CASE UNCHANGED vars
    BY <1>4, <1>7 DEF vars
  <1>8. CASE Step
    <2>1. EndStep \/ UNCHANGED <<graph, best>>
      BY <1>8 DEF Step, SkipTree, Select, FollowCorridor, ConnectNew, PassNeighbor, RewireNeighbor,
                  OfferLink, ReturnFromRewire, TreeExpanded
    <2> QED BY <1>4, <1>5, <2>1
  <1> QED BY <1>6, <1>7, <1>8 DEF Next

\* The best route is a route of the present graph in every reachable state: solve_rtsp
\* takes it from links that are ways, update_graph drops it before it seeks another.
THEOREM RouteHolds == Spec => []RouteInv
  <1>1. Init => RouteInv
    BY DEF Init, RouteInv
  <1> QED BY <1>1, ForestHolds, RouteStep, PTL DEF Spec

LEMMA RouteImplies == ForestInv /\ RouteInv => RouteIsWalk
  <1> SUFFICES ASSUME RouteInv, best # None PROVE RouteIsWalk
    BY DEF RouteIsWalk
  <1>1. IsPublished(graph, best)
    BY DEF RouteInv
  <1>2. PICK c : IsRoute(graph, [cost |-> c, path |-> best.path])
    BY <1>1 DEF IsPublished
  <1> DEFINE path == best.path
  <1>3. [cost |-> c, path |-> path].path = path
    OBVIOUS
  <1>4. /\ path[1] = Root[0] /\ path[Len(path)] = Root[Goal]
        /\ \A k \in Legs(path) : Leg(path, k) \in DOMAIN graph
    BY <1>2, <1>3 DEF IsRoute
  <1> HIDE DEF path
  <1>5. /\ InOrder(path, best.order)
        /\ \A i \in Tree : \E k \in DOMAIN best.order : best.order[k] = i
    BY <1>1 DEF IsPublished, path
  <1> QED BY <1>4, <1>5 DEF RouteIsWalk, InOrder, path

\* A published path walks the present graph from the source to the target, past all
\* objectives in the order published with it (solve_rtsp, update_path).
THEOREM RouteAlwaysWalk == Spec => []RouteIsWalk
  <1> QED BY ForestHolds, RouteHolds, RouteImplies, PTL

\* When a path is published it is no longer than its order by the distances of the
\* links, whatever rewiring or a new graph did to the trees (update_path).
THEOREM RouteAlwaysWithinOrder == Spec => RouteWithinOrder
  <1> QED BY ForestHolds, RouteHolds, RouteStep, PTL DEF Spec, RouteWithinOrder

LEMMA TypeImplied == ForestInv /\ RouteInv => TypeOK
  <1> SUFFICES ASSUME ForestInv, RouteInv PROVE TypeOK
    OBVIOUS
  <1>1. /\ \A i \in Tree : IsTree(tree[i], graph) /\ tree[i].root = Root[i]
        /\ \A i \in Tree : tree[i] \in TreeType
    BY DEF ForestInv, Grown, IsTree
  <1>2. \A i \in Tree :
          /\ tree[i].root = Root[i]
          /\ tree[i].parent \in [Node -> Node \cup {None}]
          /\ tree[i].children \in [Node -> SUBSET Node]
          /\ tree[i].cost \in [Node -> Nat]
          /\ tree[i].expandables \subseteq Node
    BY <1>1, TreeFields
  <1>3. met \subseteq Pair
    BY DEF ForestInv, Met, Meeting
  <1>4. link \in [Pair -> [node : Node, dist : Nat] \cup {None}]
    BY DEF ForestInv, AreWays
  <1>5. sets \in [parent : [Tree -> Tree], children : [Tree -> SUBSET Tree], connected : BOOLEAN]
    BY DEF ForestInv, Met, Partitions, SetsType
  <1>6. best \in [cost : Nat, order : Seq(Tree), path : Seq(Node)] \cup {None}
    BY DEF RouteInv, IsPublished
  <1>7. stack \in Seq([node : Node, near : (SUBSET Node) \cup {None}])
    <2>1. CASE phase = "rewire"
      <3> DEFINE A == Frames(tree[turn], graph)
                 B == [node : Node, near : (SUBSET Node) \cup {None}]
      <3>1. stack \in Seq(A)
        BY <2>1 DEF ForestInv, Pending
      <3>2. \A f \in A : f \in B
        BY DEF Frames
      <3> HIDE DEF A, B
      <3>3. stack \in Seq(B)
        BY <3>1, <3>2
      <3> QED BY <3>3 DEF B
    <2>2. CASE phase # "rewire"
      BY <2>2 DEF ForestInv, Pending
    <2> QED BY <2>1, <2>2
  <1> QED BY <1>2, <1>3, <1>4, <1>5, <1>6, <1>7 DEF TypeOK, ForestInv, Control

\* Type correctness of the search state, of the step's control and of the route.
THEOREM TypesAlwaysCorrect == Spec => []TypeOK
  <1> QED BY ForestHolds, RouteHolds, TypeImplied, PTL

-----------------------------------------------------------------------------
(* The optimum                                                              *)

\* The orders of the destinations, from the source to the target.
Orders == {s \in [0..Goal -> Tree] : s[0] = 0 /\ s[Goal] = Goal /\ IsInjective(s)}

\* The least cost of passing the destinations in the order s.
OrderCost(g, s) == MapThenSumSet(LAMBDA k : Shortest(g)[Root[s[k - 1]]][Root[s[k]]], 1..Goal)

LEMMA OptimumOf ==
  ASSUME NEW g \in Road
  PROVE  Optimum[g] = IF \E i \in Tree : Shortest(g)[Root[0]][Root[i]] = Far(g) THEN None
                      ELSE Min({OrderCost(g, s) : s \in Orders})
  BY DEF Optimum, Orders, OrderCost

LEMMA OrderCostIsSum ==
  ASSUME NEW g, NEW s, NEW S, S = 1..Goal, IsFiniteSet(S),
         \A k \in S : Shortest(g)[Root[s[k - 1]]][Root[s[k]]] \in Nat
  PROVE  \E F : /\ IsSum(F, S, [k \in S |-> Shortest(g)[Root[s[k - 1]]][Root[s[k]]]])
                /\ OrderCost(g, s) = F[S]
  <1> DEFINE c(k) == Shortest(g)[Root[s[k - 1]]][Root[s[k]]]
             w == [k \in S |-> c(k)]
             step(h) == [t \in SUBSET S |->
                           IF t = {} THEN 0
                           ELSE LET x == CHOOSE x \in t : TRUE IN c(x) + h[t \ {x}]]
             iter == CHOOSE h : h = step(h)
  <1>7. OrderCost(g, s) = iter[S]
    BY DEF OrderCost, MapThenSumSet, MapThenFoldSet
  <1> HIDE DEF c
  <1>1. w \in [S -> Nat]
    BY DEF c
  <1>2. PICK f : IsChoiceSum(f, S, w)
    <2> HIDE DEF w
    <2> QED BY <1>1, ChoiceSumExists
  <1>3. \A t \in SUBSET S : t # {} => w[CHOOSE x \in t : TRUE] = c(CHOOSE x \in t : TRUE)
    OBVIOUS
  <1> HIDE DEF w
  <1>4. \A t \in SUBSET S : f[t] = step(f)[t]
    BY <1>2, <1>3 DEF IsChoiceSum
  <1>5. f = step(f)
    <2>1. DOMAIN f = SUBSET S /\ f = [t \in SUBSET S |-> f[t]]
      BY <1>2 DEF IsChoiceSum
    <2> QED BY <1>4, <2>1
  <1>6. iter = step(iter)
    <2> HIDE DEF step
    <2> QED BY <1>5
  <1> HIDE DEF iter
  <1>8. IsChoiceSum(iter, S, w)
    <2>1. iter[{}] = 0
      BY <1>6
    <2>2. \E V : iter \in [SUBSET S -> V]
      <3>1. iter \in [SUBSET S -> {iter[t] : t \in SUBSET S}]
        BY <1>6
      <3> QED BY <3>1
    <2>3. ASSUME NEW t \in SUBSET S, t # {}
          PROVE  iter[t] = w[CHOOSE x \in t : TRUE] + iter[t \ {CHOOSE x \in t : TRUE}]
      BY <1>3, <1>6, <2>3
    <2> QED BY <2>1, <2>2, <2>3 DEF IsChoiceSum
  <1>9. IsSum(iter, S, w)
    BY <1>1, <1>8, ChoiceSumIsSum
  <1> QED BY <1>7, <1>9 DEF w, c

LEMMA OrderCostsCount ==
  ASSUME NEW g \in Road, NEW s \in Orders
  PROVE  /\ OrderCost(g, s) \in Nat
         /\ \A k \in 1..Goal : Shortest(g)[Root[s[k - 1]]][Root[s[k]]] \in Nat
  <1>1. IsRoads(g)
    BY RoadsOfGraphs
  <1>2. Far(g) \in Nat
    <2> DEFINE S == DOMAIN g
    <2>1. IsFiniteSet(SUBSET Node)
      BY NodeAssumption, FS_SUBSET
    <2>2. IsFiniteSet(S) /\ \A e \in S : g[e] \in Nat
      <3>1. S \in SUBSET (SUBSET Node)
        BY <1>1 DEF IsRoads
      <3> QED BY <1>1, <2>1, <3>1, FS_Subset DEF IsRoads
    <2>3. PICK F : IsSum(F, S, [e \in S |-> g[e]]) /\ Far(g) = F[S] + 1
      BY <2>2, FarIsSum
    <2>4. F[S] \in Nat
      <3> HIDE DEF S
      <3> QED BY <2>3 DEF IsSum
    <2> QED BY <2>3, <2>4
  <1>3. PICK D : IsTable(D, g) /\ Shortest(g) = D[Cardinality(Node)]
    BY <1>1, <1>2, ShortestIsTable
  <1>4. \A m, n \in Node : Shortest(g)[m][n] \in Nat
    <2>1. Cardinality(Node) \in 0..Cardinality(Node)
      BY NodesCounted
    <2> QED BY <1>3, <2>1 DEF IsTable
  <1>5. \A k \in 1..Goal : Root[s[k - 1]] \in Node /\ Root[s[k]] \in Node
    <2>1. Goal \in Nat \ {0} /\ \A i \in Tree : Root[i] \in Node
      BY TreesNumbered
    <2>2. s \in [0..Goal -> Tree]
      BY DEF Orders
    <2> HIDE DEF Goal
    <2>3. \A k \in 1..Goal : k - 1 \in 0..Goal /\ k \in 0..Goal
      BY <2>1
    <2> QED BY <2>1, <2>2, <2>3
  <1>6. \A k \in 1..Goal : Shortest(g)[Root[s[k - 1]]][Root[s[k]]] \in Nat
    BY <1>4, <1>5
  <1>7. OrderCost(g, s) \in Nat
    <2> DEFINE S == 1..Goal
    <2>1. IsFiniteSet(S)
      <3>1. Goal \in Nat
        BY TreesNumbered
      <3> HIDE DEF Goal
      <3> QED BY <3>1, FS_Interval
    <2>2. PICK F : /\ IsSum(F, S, [k \in S |-> Shortest(g)[Root[s[k - 1]]][Root[s[k]]]])
                   /\ OrderCost(g, s) = F[S]
      BY <1>6, <2>1, OrderCostIsSum
    <2>3. F[S] \in Nat
      <3> HIDE DEF S
      <3> QED BY <2>2 DEF IsSum
    <2> QED BY <2>2, <2>3
  <1> QED BY <1>6, <1>7

\* A route meets the destinations in some order, and takes no shorter walk from one to
\* the next than there is.
LEMMA RoutePossible ==
  ASSUME NEW g \in Road, NEW b, IsRoute(g, b)
  PROVE  b.cost \in Nat /\ Optimum[g] # None /\ b.cost >= Optimum[g]
  <1> DEFINE q == b.path
             L == Len(q)
             N == Goal
  <1>1. IsRoads(g)
    BY RoadsOfGraphs
  <1>2. /\ N \in Nat \ {0} /\ Tree = 0..N /\ IsFiniteSet(Tree) /\ Cardinality(Tree) = N + 1
        /\ 0 \in Tree /\ N \in Tree
        /\ \A i, j \in Tree : Root[i] \in Node /\ (Root[i] = Root[j] => i = j)
    <2>1. Cardinality(Tree) \in Nat
      BY TreesNumbered, FS_CardinalityType
    <2>2. N + 1 = Cardinality(Tree)
      BY <2>1 DEF Goal
    <2>3. N \in Nat \ {0} /\ Tree = 0..N /\ IsFiniteSet(Tree)
      BY TreesNumbered
    <2>4. \A i, j \in Tree : Root[i] \in Node /\ (Root[i] = Root[j] => i = j)
      BY RootAssumption
    <2> HIDE DEF N, Tree
    <2> QED BY <2>2, <2>3, <2>4
  <1>3. /\ q \in Seq(Node) /\ b.cost \in Nat /\ q[1] = Root[0] /\ q[L] = Root[N]
        /\ \A i \in Tree : \E k \in DOMAIN q : q[k] = Root[i]
        /\ \A k \in Legs(q) : Leg(q, k) \in DOMAIN g
        /\ Weight(g, q) <= b.cost
    BY DEF IsRoute
  <1> HIDE DEF N, q
  <1>4. L \in Nat \ {0} /\ DOMAIN q = 1..L
    <2>1. DOMAIN q = 1..L /\ L \in Nat
      BY <1>3
    <2>2. \E k \in DOMAIN q : q[k] = Root[0]
      BY <1>2, <1>3
    <2> HIDE DEF L
    <2> QED BY <2>1, <2>2
  <1>5. PICK f : Measures(f, g, q)
    <2>1. \A k \in 1..(Len(q) - 1) : {q[k], q[k + 1]} \in DOMAIN g
      BY <1>3, <1>4, LegsOf DEF Leg
    <2> QED BY <1>1, <1>3, <1>4, <2>1, PathHasLength
  <1>6. f[L] <= b.cost
    <2>1. IsWalk(g, q, q[1], q[L], f[L])
      BY <1>5, WalkMeasured
    <2>2. Weight(g, q) = f[L]
      BY <1>1, <2>1, WeightOfWalk
    <2> QED BY <1>3, <2>2
  <1>7. \A k \in 1..L : f[k] \in Nat
    BY <1>1, <1>5, LengthGrows
  <1>8. f[1] = 0
    BY <1>5 DEF Measures, IsLength
  <1> HIDE DEF L
  <1> DEFINE pos == [i \in Tree |-> IF i = 0 THEN 1 ELSE IF i = N THEN L
                                    ELSE CHOOSE k \in 1..L : q[k] = Root[i]]
  <1>9. pos[0] = 1 /\ pos[N] = L /\ \A i \in Tree : pos[i] \in 1..L /\ q[pos[i]] = Root[i]
    <2>1. pos[0] = 1 /\ pos[N] = L
      BY <1>2
    <2> SUFFICES ASSUME NEW i \in Tree PROVE pos[i] \in 1..L /\ q[pos[i]] = Root[i]
      BY <2>1
    <2>2. CASE i = 0 \/ i = N
      BY <1>3, <1>4, <2>1, <2>2
    <2>3. CASE i # 0 /\ i # N
      <3>1. \E k \in 1..L : q[k] = Root[i]
        BY <1>3, <1>4
      <3>2. pos[i] = CHOOSE k \in 1..L : q[k] = Root[i]
        BY <2>3
      <3> QED BY <3>1, <3>2
    <2> QED BY <2>2, <2>3
  <1> HIDE DEF pos
  <1>10. /\ \A i \in Tree : pos[i] \in Nat
         /\ \A i, j \in Tree : pos[i] = pos[j] => i = j
    BY <1>2, <1>4, <1>9
  <1>11. PICK r : Lists(r, Tree, N + 1, pos)
    <2>1. Tree \in SUBSET Tree
      OBVIOUS
    <2>2. \E r : Lists(r, Tree, Cardinality(Tree), pos)
      <3> HIDE DEF Tree
      <3> QED BY <1>2, <1>10, <2>1, ListedInOrder
    <2> QED BY <1>2, <2>2
  <1>12. /\ r \in [1..(N + 1) -> Tree]
         /\ \A i \in Tree : \E k \in 1..(N + 1) : r[k] = i
         /\ \A j, k \in 1..(N + 1) : j < k => pos[r[j]] < pos[r[k]]
    BY <1>11 DEF Lists
  <1>13. r[1] = 0 /\ r[N + 1] = N
    <2>1. 1 \in 1..(N + 1) /\ N + 1 \in 1..(N + 1) /\ r[1] \in Tree /\ r[N + 1] \in Tree
      BY <1>2, <1>12
    <2>2. PICK j \in 1..(N + 1) : r[j] = 0
      BY <1>2, <1>12
    <2>3. PICK k \in 1..(N + 1) : r[k] = N
      BY <1>2, <1>12
    <2>4. ~(1 < j)
      <3>1. pos[r[1]] \in 1..L
        BY <1>9, <2>1
      <3>2. 1 < j => pos[r[1]] < 1
        BY <1>9, <1>12, <2>1, <2>2
      <3> QED BY <1>4, <3>1, <3>2
    <2>5. ~(k < N + 1)
      <3>1. pos[r[N + 1]] \in 1..L
        BY <1>9, <2>1
      <3>2. k < N + 1 => L < pos[r[N + 1]]
        BY <1>9, <1>12, <2>1, <2>3
      <3> QED BY <1>4, <3>1, <3>2
    <2>6. j = 1 /\ k = N + 1
      BY <1>2, <2>4, <2>5
    <2> QED BY <2>2, <2>3, <2>6
  <1> DEFINE s == [k \in 0..N |-> r[k + 1]]
  <1>14. s \in Orders
    <2>1. \A k \in 0..N : k + 1 \in 1..(N + 1)
      BY <1>2
    <2>2. s \in [0..N -> Tree]
      BY <1>12, <2>1
    <2>3. s[0] = 0 /\ s[N] = N
      BY <1>2, <1>13
    <2>4. ASSUME NEW j \in 0..N, NEW k \in 0..N, s[j] = s[k] PROVE j = k
      <3>1. j + 1 \in 1..(N + 1) /\ k + 1 \in 1..(N + 1) /\ r[j + 1] = r[k + 1]
        BY <2>1, <2>4
      <3>2. pos[r[j + 1]] \in Nat /\ pos[r[k + 1]] \in Nat /\ pos[r[j + 1]] = pos[r[k + 1]]
        BY <1>10, <1>12, <3>1
      <3>3. ~(j + 1 < k + 1) /\ ~(k + 1 < j + 1)
        BY <1>12, <3>1, <3>2
      <3> QED BY <1>2, <3>3
    <2> HIDE DEF s
    <2>5. DOMAIN s = 0..N
      BY <2>2
    <2>6. IsInjective(s)
      BY <2>4, <2>5 DEF IsInjective
    <2> QED BY <2>2, <2>3, <2>6 DEF Orders, N
  <1>15. \A k \in 1..N : s[k - 1] = r[k] /\ s[k] = r[k + 1]
    <2> SUFFICES ASSUME NEW k \in 1..N PROVE s[k - 1] = r[k] /\ s[k] = r[k + 1]
      OBVIOUS
    <2>1. k - 1 \in 0..N /\ k \in 0..N /\ (k - 1) + 1 = k
      BY <1>2
    <2> QED BY <2>1
  <1> HIDE DEF s
  <1> DEFINE c(k) == Shortest(g)[Root[s[k - 1]]][Root[s[k]]]
             S == 1..N
             w == [k \in S |-> c(k)]
             x == [k \in 1..(N + 1) |-> f[pos[r[k]]]]
  <1>16. \A k \in S : c(k) \in Nat
    BY <1>14, OrderCostsCount DEF N
  <1>17. PICK F : IsSum(F, S, w) /\ OrderCost(g, s) = F[S]
    <2>1. S = 1..Goal /\ IsFiniteSet(S)
      BY <1>2, FS_Interval DEF N
    <2> QED BY <1>16, <2>1, OrderCostIsSum
  <1>18. ASSUME NEW k \in S
         PROVE  x[k] \in Nat /\ x[k + 1] \in Nat /\ x[k] + c(k) <= x[k + 1]
    <2> DEFINE i == r[k]
               j == r[k + 1]
               a == pos[i]
               z == pos[j]
    <2>1. k \in 1..(N + 1) /\ k + 1 \in 1..(N + 1) /\ k < k + 1
      BY <1>2
    <2>2. i \in Tree /\ j \in Tree /\ a < z
      BY <1>12, <2>1
    <2>3. x[k] = f[a] /\ x[k + 1] = f[z]
      BY <2>1
    <2>4. c(k) = Shortest(g)[Root[i]][Root[j]]
      BY <1>15
    <2> HIDE DEF i, j, c, x
    <2>5. a \in 1..L /\ z \in 1..L /\ q[a] = Root[i] /\ q[z] = Root[j]
      BY <1>9, <2>2
    <2> HIDE DEF a, z
    <2>6. a <= z
      BY <1>4, <2>2, <2>5
    <2>7. IsWalk(g, SubSeq(q, a, z), q[a], q[z], f[z] - f[a])
      BY <1>1, <1>5, <2>5, <2>6, WalkPart DEF L
    <2>8. IsWalk(g, SubSeq(q, a, z), Root[i], Root[j], f[z] - f[a])
      BY <2>5, <2>7
    <2>9. Shortest(g)[Root[i]][Root[j]] \in Nat /\ Shortest(g)[Root[i]][Root[j]] <= f[z] - f[a]
      BY <1>1, <2>8, ShortestIsBelow
    <2>10. f[a] \in Nat /\ f[z] \in Nat
      BY <1>7, <2>5
    <2> QED BY <2>3, <2>4, <2>9, <2>10
  <1>19. x[1] = 0 /\ x[N + 1] = f[L]
    <2>1. 1 \in 1..(N + 1) /\ N + 1 \in 1..(N + 1)
      BY <1>2
    <2> QED BY <1>8, <1>9, <1>13, <2>1
  <1>20. x[1] + F[1..N] <= x[N + 1] /\ F[S] \in Nat
    <2>1. w \in [1..N -> Nat] /\ \A k \in 1..N : w[k] = c(k)
      BY <1>16
    <2>2. \A k \in 1..N : x[k + 1] \in Int /\ x[k] + w[k] <= x[k + 1]
      BY <1>18, <2>1
    <2>3. x[1] \in Int
      BY <1>19
    <2>4. IsSum(F, 1..N, w)
      BY <1>17
    <2> HIDE DEF w, x, c
    <2>5. N \in Nat
      BY <1>2
    <2>6. x[1] + F[1..N] <= x[N + 1]
      BY <2>1, <2>2, <2>3, <2>4, <2>5, SumWithinSteps
    <2>7. F[S] \in Nat
      <3> HIDE DEF S
      <3> QED BY <1>17 DEF IsSum
    <2> QED BY <2>6, <2>7
  <1>21. OrderCost(g, s) \in Nat /\ OrderCost(g, s) <= b.cost
    <2>1. 0 + F[S] <= f[L] /\ f[L] \in Nat
      <3>1. L \in 1..L
        BY <1>4
      <3> HIDE DEF x
      <3> QED BY <1>7, <1>19, <1>20, <3>1
    <2> QED BY <1>3, <1>6, <1>17, <1>20, <2>1
  <1>22. ASSUME NEW i \in Tree PROVE Shortest(g)[Root[0]][Root[i]] # Far(g)
    <2>1. pos[i] \in 1..Len(q) /\ q[pos[i]] = Root[i] /\ 1 \in 1..Len(q) /\ 1 <= pos[i]
      BY <1>4, <1>9 DEF L
    <2>2. IsWalk(g, SubSeq(q, 1, pos[i]), q[1], q[pos[i]], f[pos[i]] - f[1])
      BY <1>1, <1>5, <2>1, WalkPart
    <2>3. IsWalk(g, SubSeq(q, 1, pos[i]), Root[0], Root[i], f[pos[i]] - f[1])
      BY <1>3, <2>1, <2>2
    <2>4. Shortest(g)[Root[0]][Root[i]] \in Nat /\ Shortest(g)[Root[0]][Root[i]] < Far(g)
      BY <1>1, <2>3, ShortestIsBelow
    <2> DEFINE e == Shortest(g)[Root[0]][Root[i]]
    <2> HIDE DEF e
    <2>5. e \in Nat /\ e < Far(g)
      BY <2>4 DEF e
    <2>6. e # Far(g)
      BY <2>5
    <2> QED BY <2>6 DEF e
  <1> DEFINE T == {OrderCost(g, o) : o \in Orders}
  <1>23. T \in SUBSET Nat /\ OrderCost(g, s) \in T
    BY <1>14, OrderCostsCount
  <1>24. Optimum[g] = Min(T)
    BY <1>22, OptimumOf
  <1>25. Min(T) \in Nat /\ Min(T) <= OrderCost(g, s)
    <2> HIDE DEF T
    <2>1. Min(T) \in T /\ \A y \in T : Min(T) <= y
      BY <1>23, LeastIsMin
    <2> QED BY <1>23, <2>1
  <1> HIDE DEF T
  <1> QED BY <1>3, <1>21, <1>24, <1>25, NoneAssumption

-----------------------------------------------------------------------------
(* The anytime promise                                                      *)

\* The cost a client is told.
Told == IF best = None THEN None ELSE best.cost

\* A published cost is one that AnytimeRoute admits.
LEMMA RouteCost ==
  ASSUME NEW g \in Road, NEW b, IsPublished(g, b)
  PROVE  b # None /\ b.cost # None /\ b.cost \in Anytime!Possible(g)
  <1>1. PICK p : IsRoute(g, [cost |-> b.cost, path |-> p])
    BY DEF IsPublished
  <1> DEFINE c == [cost |-> b.cost, path |-> p]
  <1>2. c.cost = b.cost /\ IsRoute(g, c)
    BY <1>1
  <1> HIDE DEF c
  <1>3. c.cost \in Nat /\ Optimum[g] # None /\ c.cost >= Optimum[g]
    BY <1>2, RoutePossible
  <1>4. b \in [cost : Nat, order : Seq(Tree), path : Seq(Node)]
    BY DEF IsPublished
  <1> QED BY <1>2, <1>3, <1>4, NoneAssumption DEF Anytime!Possible

\* A step publishes a cheaper route, plans anew on a new graph, or leaves the cost alone.
LEMMA StepIsAnytime ==
  ASSUME ForestInv, ForestInv', RouteInv, RouteInv', [Next]_vars
  PROVE  \/ Anytime!Improve \/ Anytime!Replan
         \/ UNCHANGED <<graph, updates, Told>>
  <1>1. graph \in Road /\ graph' \in Road
    BY DEF ForestInv, Control
  <1>2. best = None \/ IsPublished(graph, best)
    BY DEF RouteInv
  <1>3. best' = None \/ IsPublished(graph', best')
    BY DEF RouteInv
  <1>4. ASSUME UNCHANGED <<graph, updates, best>> PROVE UNCHANGED <<graph, updates, Told>>
    BY <1>4 DEF Told
  <1>5. CASE UNCHANGED vars
    BY <1>4, <1>5 DEF vars
  <1>6. CASE EndStep
    <2>1. UNCHANGED <<graph, updates>> /\ (best' = best \/ Solve(best, tree, link, sets))
      BY <1>6 DEF EndStep
    <2>2. CASE best' = best
      BY <1>4, <2>1, <2>2
    <2>3. CASE best' # best
      <3>1. IsRoads(graph) /\ AreTrees(tree, graph) /\ AreWays(tree, link)
        BY RoadsOfGraphs DEF ForestInv, Control, Grown, AreTrees
      <3>2. Solve(best, tree, link, sets)
        BY <2>1, <2>3
      <3>3. best' # None /\ (best = None \/ best'.cost < best.cost)
        BY <1>2, <2>3, <3>1, <3>2, SolveKeepsRoute
      <3>4. IsPublished(graph, best')
        BY <1>3, <2>1, <3>3
      <3>5. best'.cost \in Anytime!Possible(graph)
        BY <1>1, <3>4, RouteCost
      <3>6. Told' = best'.cost /\ (Told = None \/ best'.cost < Told)
        BY <3>3 DEF Told
      <3> QED BY <2>1, <3>5, <3>6 DEF Told, Anytime!Improve
    <2> QED BY <2>2, <2>3
  <1>7. ASSUME NEW g \in Road, UpdateGraph(g) PROVE Anytime!Replan
    <2>1. updates' = updates + 1
      BY <1>7 DEF UpdateGraph
    <2>2. Told' = None \/ Told' \in Anytime!Possible(graph')
      <3>1. CASE best' = None
        BY <3>1 DEF Told
      <3>2. CASE best' # None
        <4>1. IsPublished(graph', best')
          BY <1>3, <3>2
        <4>2. best'.cost \in Anytime!Possible(graph')
          BY <1>1, <4>1, RouteCost
        <4>3. Told' = best'.cost
          BY <3>2 DEF Told
        <4> QED BY <4>2, <4>3
      <3> QED BY <3>1, <3>2
    <2> QED BY <1>1, <2>1, <2>2 DEF Told, Anytime!Replan
  <1>8. CASE Step
    <2>1. EndStep \/ UNCHANGED <<graph, updates, best>>
      BY <1>8 DEF Step, SkipTree, Select, FollowCorridor, ConnectNew, PassNeighbor, RewireNeighbor,
                  OfferLink, ReturnFromRewire, TreeExpanded
    <2> QED BY <1>4, <1>6, <2>1
  <1> QED BY <1>5, <1>7, <1>8 DEF Next

\* Every behaviour of the search is one AnytimeRoute allows: the cost that step, run_until
\* and update_graph publish is never below the optimum of the present graph, and it only
\* falls until a new graph arrives.
THEOREM SearchImplementsAnytime == Spec => ImplementsAnytime
  <1>1. Init => Anytime!AnytimeInit
    BY DEF Init, Anytime!AnytimeInit
  <1>2. ForestInv /\ ForestInv' /\ RouteInv /\ RouteInv' /\ [Next]_vars =>
          [Anytime!Improve \/ Anytime!Replan]_<<graph, updates, IF best = None THEN None ELSE best.cost>>
    BY StepIsAnytime DEF Told
  <1> QED BY <1>1, <1>2, ForestHolds, RouteHolds, PTL
          DEF Spec, ImplementsAnytime, Anytime!AnytimeSpec

=============================================================================
