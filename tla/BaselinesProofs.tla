--------------------------- MODULE BaselinesProofs ---------------------------
(***************************************************************************)
(* The baseline planners, for any networks and destinations: their trees   *)
(* are ways of the network, the entries and the disjoint sets say what the *)
(* trees have found, the solver is asked when the entries have a tour, and *)
(* BiAstar answers as the network connects.  For up to three destinations, *)
(* where the trees are found at their places, entries and answers are      *)
(* walks.  A distance is what Distances computes, shown to be the least.   *)
(***************************************************************************)
EXTENDS Baselines, ShortestProofs

-----------------------------------------------------------------------------
(* Pairs and their places                                                   *)

\* Destinations and trees are numbered from the source on.
LEMMA TreesNumbered ==
  Goal \in Nat /\ Goal > 0 /\ Tree = 0..Goal /\ IsTrees(Tree) /\ IsFiniteSet(Tree)
  <1>1. Goal \in Nat
    <2>1. Cardinality(DOMAIN Stop) \in Nat
      BY StopAssumption, FS_CardinalityType
    <2>2. Goal > 0
      BY StopAssumption
    <2> QED BY <2>1, <2>2 DEF Goal
  <1>2. Goal > 0 /\ Tree = 0..Goal
    BY StopAssumption DEF Tree
  <1>3. IsFiniteSet(0..Goal)
    BY <1>1, FS_Interval
  <1> QED BY <1>1, <1>2, <1>3 DEF IsTrees

\* The pairs with both destinations below n are this many.
Triangle(n) == (n * (n - 1)) \div 2

\* The next column of the triangle has one pair more.
LEMMA TriangleStep ==
  ASSUME NEW n \in Nat
  PROVE  Triangle(0) = 0 /\ Triangle(n) \in Nat /\ Triangle(n + 1) = Triangle(n) + n
  <1> DEFINE p == n * (n - 1)
             q == (n + 1) * ((n + 1) - 1)
  <1>1. q = p + 2 * n
    OBVIOUS
  <1>2. p \in Nat
    <2>1. CASE n = 0
      BY <2>1
    <2>2. CASE n # 0
      <3>1. n - 1 \in Nat
        BY <2>2
      <3> QED BY <3>1
    <2> QED BY <2>1, <2>2
  <1>3. 0 * (0 - 1) = 0
    OBVIOUS
  <1>4. Triangle(0) = 0 \div 2
    BY <1>3 DEF Triangle
  <1>5. Triangle(n) = p \div 2 /\ Triangle(n + 1) = q \div 2
    BY DEF Triangle
  <1> HIDE DEF p, q
  <1> QED BY <1>1, <1>2, <1>4, <1>5

\* Each column lies behind the ones before.
LEMMA TriangleGrows ==
  ASSUME NEW m \in Nat, NEW n \in Nat, m <= n
  PROVE  Triangle(m) \in Nat /\ Triangle(n) \in Nat /\ Triangle(m) <= Triangle(n)
  <1> DEFINE Good == {k \in Nat : Triangle(m) <= Triangle(m + k)}
  <1>1. \A k \in Nat : Triangle(k) \in Nat /\ Triangle(k + 1) = Triangle(k) + k
    BY TriangleStep
  <1>2. 0 \in Good
    <2>1. m + 0 = m
      OBVIOUS
    <2> QED BY <1>1, <2>1
  <1>3. ASSUME NEW k \in Nat, k \in Good PROVE k + 1 \in Good
    <2>1. m + k \in Nat /\ m + (k + 1) = (m + k) + 1
      OBVIOUS
    <2>2. Triangle((m + k) + 1) = Triangle(m + k) + (m + k)
      BY <1>1, <2>1
    <2>3. Triangle(m) <= Triangle(m + k) /\ Triangle(m) \in Nat /\ Triangle(m + k) \in Nat
      BY <1>1, <1>3, <2>1
    <2> QED BY <2>1, <2>2, <2>3
  <1>4. Nat \subseteq Good
    <2> HIDE DEF Good
    <2> QED BY <1>2, <1>3, NatSetInduction
  <1>5. n - m \in Nat /\ m + (n - m) = n
    OBVIOUS
  <1> QED BY <1>1, <1>4, <1>5

\* A pair is of two destinations in order.
LEMMA PairFacts ==
  /\ IsFiniteSet(Pair)
  /\ \A p \in Pair : /\ p = <<p[1], p[2]>> /\ p[1] \in Tree /\ p[2] \in Tree
                     /\ p[1] \in Nat /\ p[2] \in Nat /\ p[1] < p[2] /\ p[2] <= Goal
                     /\ PairTreeIdx(p[1], p[2]) = Triangle(p[2]) + p[1]
  /\ \A i, j \in Tree : i < j => <<i, j>> \in Pair
  /\ \A i, j \in Tree : PairTreeIdx(i, j) = PairTreeIdx(j, i)
  <1>1. IsFiniteSet(Tree \X Tree) /\ Pair \in SUBSET (Tree \X Tree)
    BY TreesNumbered, FS_Product DEF Pair
  <1>2. IsFiniteSet(Pair)
    BY <1>1, FS_Subset
  <1>3. ASSUME NEW p \in Pair
        PROVE  /\ p = <<p[1], p[2]>> /\ p[1] \in Tree /\ p[2] \in Tree
               /\ p[1] \in Nat /\ p[2] \in Nat /\ p[1] < p[2] /\ p[2] <= Goal
    BY TreesNumbered DEF Pair
  <1>4. ASSUME NEW p \in Pair
        PROVE  PairTreeIdx(p[1], p[2]) = Triangle(p[2]) + p[1]
    <2>1. ~ p[1] > p[2]
      BY <1>3
    <2> QED BY <2>1 DEF PairTreeIdx, Triangle
  <1>5. \A i, j \in Tree : i < j => <<i, j>> \in Pair
    BY DEF Pair
  <1>6. \A i, j \in Tree : PairTreeIdx(i, j) = PairTreeIdx(j, i)
    <2>1. \A i, j \in Nat : PairTreeIdx(i, j) = PairTreeIdx(j, i)
      BY DEF PairTreeIdx
    <2> QED BY <2>1, TreesNumbered DEF IsTrees
  <1> QED BY <1>2, <1>3, <1>4, <1>5, <1>6

\* pair_tree_idx numbers the pairs from 0, each with a number of its own.
LEMMA PlacesOfPairs ==
  /\ Cardinality(Pair) = Triangle(Goal + 1) /\ Triangle(Goal + 1) \in Nat
  /\ \A p \in Pair : PairTreeIdx(p[1], p[2]) \in Layer
  /\ \A k \in Layer : \E p \in Pair : PairTreeIdx(p[1], p[2]) = k
  <1> DEFINE N == Triangle(Goal + 1)
             f == [p \in Pair |-> PairTreeIdx(p[1], p[2])]
  <1>1. N \in Nat /\ Goal \in Nat
    BY TreesNumbered, TriangleStep
  <1>2. ASSUME NEW p \in Pair PROVE f[p] \in 0..(N - 1)
    <2>1. Triangle(p[2] + 1) = Triangle(p[2]) + p[2] /\ Triangle(p[2]) \in Nat
      BY PairFacts, TriangleStep
    <2>2. p[2] + 1 <= Goal + 1 /\ p[2] + 1 \in Nat /\ Goal + 1 \in Nat
      BY PairFacts, TreesNumbered
    <2>3. Triangle(p[2] + 1) <= N
      BY <2>2, TriangleGrows
    <2>4. f[p] = Triangle(p[2]) + p[1] /\ p[1] < p[2] /\ p[1] \in Nat /\ p[2] \in Nat
      BY PairFacts
    <2> HIDE DEF f, N
    <2> QED BY <1>1, <2>1, <2>3, <2>4
  <1>3. ASSUME NEW p \in Pair, NEW q \in Pair, p[2] < q[2] PROVE f[p] < f[q]
    <2>1. /\ Triangle(p[2] + 1) = Triangle(p[2]) + p[2] /\ Triangle(p[2]) \in Nat
          /\ Triangle(q[2]) \in Nat
      BY PairFacts, TriangleStep
    <2>2. p[2] + 1 <= q[2] /\ p[2] + 1 \in Nat /\ q[2] \in Nat
      BY PairFacts, <1>3
    <2>3. Triangle(p[2] + 1) <= Triangle(q[2])
      BY <2>2, TriangleGrows
    <2>4. /\ f[p] = Triangle(p[2]) + p[1] /\ p[1] < p[2] /\ p[1] \in Nat /\ p[2] \in Nat
          /\ f[q] = Triangle(q[2]) + q[1] /\ q[1] \in Nat
      BY PairFacts
    <2> HIDE DEF f
    <2> QED BY <2>1, <2>3, <2>4
  <1>4. ASSUME NEW p \in Pair, NEW q \in Pair, f[p] = f[q] PROVE p = q
    <2>1. f[p] \in Nat /\ f[q] \in Nat /\ ~ f[p] < f[q] /\ ~ f[q] < f[p]
      BY <1>2, <1>4
    <2>2. ~ p[2] < q[2] /\ ~ q[2] < p[2]
      BY <1>3, <2>1
    <2>3. p[2] = q[2]
      BY <2>2, PairFacts
    <2>4. Triangle(p[2]) + p[1] = Triangle(p[2]) + q[1]
      BY <1>4, <2>3, PairFacts
    <2>5. Triangle(p[2]) \in Nat /\ p[1] \in Nat /\ q[1] \in Nat
      BY PairFacts, TriangleStep
    <2>6. p[1] = q[1]
      BY <2>4, <2>5
    <2> QED BY <2>3, <2>6, PairFacts
  <1>5. ASSUME NEW k \in 0..(N - 1) PROVE \E p \in Pair : f[p] = k
    <2> DEFINE J == {j \in 0..Goal : Triangle(j) <= k}
    <2>1. 0 \in J /\ J \in SUBSET Nat /\ \A j \in J : j <= Goal
      BY <1>1, TriangleStep
    <2>2. PICK j \in J : \A i \in J : i <= j
      <3> HIDE DEF J
      <3> QED BY <1>1, <2>1, GreatestNatural
    <2>3. /\ j \in Nat /\ j <= Goal /\ Triangle(j) <= k /\ Triangle(j) \in Nat
          /\ Triangle(j + 1) = Triangle(j) + j
      BY <1>1, TriangleStep
    <2>4. k < Triangle(j + 1)
      <3>1. CASE j = Goal
        BY <1>1, <3>1
      <3>2. CASE j # Goal
        <4>1. j + 1 \in 0..Goal /\ ~ j + 1 <= j
          BY <1>1, <2>3, <3>2
        <4>2. j + 1 \notin J
          BY <2>2, <4>1
        <4>3. ~ Triangle(j + 1) <= k
          BY <4>1, <4>2
        <4> QED BY <2>3, <4>3
      <3> QED BY <3>1, <3>2
    <2> DEFINE i == k - Triangle(j)
    <2>5. i \in Nat /\ i < j /\ Triangle(j) + i = k
      BY <1>1, <2>3, <2>4
    <2> HIDE DEF i, f
    <2>6. i \in Tree /\ j \in Tree
      BY <1>1, <2>3, <2>5 DEF Tree
    <2>7. <<i, j>> \in Pair
      BY <2>5, <2>6, PairFacts
    <2>8. f[<<i, j>>] = Triangle(j) + i
      BY <2>7, PairFacts DEF f
    <2> QED BY <2>5, <2>7, <2>8
  <1>6. f \in Injection(Pair, 0..(N - 1)) /\ f \in Surjection(Pair, 0..(N - 1))
    <2>1. f \in [Pair -> 0..(N - 1)]
      BY <1>2
    <2> HIDE DEF f
    <2> QED BY <1>4, <1>5, <2>1 DEF Injection, Surjection, IsInjective
  <1>7. Cardinality(0..(N - 1)) = N
    BY <1>1, FS_Interval
  <1>8. ExistsBijection(Pair, 0..(N - 1))
    BY <1>6 DEF ExistsBijection, Bijection
  <1>9. Cardinality(Pair) = N
    BY <1>7, <1>8, PairFacts, FS_Bijection
  <1>10. Layer = 0..(N - 1)
    BY <1>9 DEF Layer
  <1> QED BY <1>1, <1>2, <1>5, <1>9, <1>10

\* The pairs that the constructors push before p.
Ahead(p) == {q \in Pair : q[1] < p[1] \/ (q[1] = p[1] /\ q[2] < p[2])}

\* The trees at the positions 0, 1, ... are those of the pairs, each at a place of its own.
LEMMA IdsOfLayers ==
  /\ \A k \in Layer : Ids(k) \in Pair /\ Cardinality(Ahead(Ids(k))) = k
  /\ \A j, k \in Layer : Ids(j) = Ids(k) => j = k
  /\ \A p \in Pair : \E k \in Layer : Ids(k) = p
  <1> DEFINE n == Cardinality(Pair)
             r == [p \in Pair |-> Cardinality(Ahead(p))]
  <1>1. IsFiniteSet(Pair) /\ n \in Nat
    BY PairFacts, FS_CardinalityType
  <1>2. ASSUME NEW p \in Pair
        PROVE  IsFiniteSet(Ahead(p)) /\ r[p] \in Nat /\ r[p] < n
    <2>1. Ahead(p) \in SUBSET Pair /\ p \notin Ahead(p)
      BY PairFacts DEF Ahead
    <2>2. IsFiniteSet(Ahead(p)) /\ Cardinality(Ahead(p)) <= n /\ Cardinality(Ahead(p)) # n
      BY <1>1, <2>1, FS_Subset
    <2>3. Cardinality(Ahead(p)) \in Nat
      BY <2>2, FS_CardinalityType
    <2> QED BY <1>1, <2>2, <2>3
  <1>3. ASSUME NEW p \in Pair, NEW q \in Pair, p \in Ahead(q) PROVE r[p] # r[q]
    <2>1. Ahead(p) \in SUBSET Ahead(q) /\ p \in Ahead(q) /\ p \notin Ahead(p)
      BY <1>3, PairFacts DEF Ahead
    <2>2. Cardinality(Ahead(p)) # Cardinality(Ahead(q))
      BY <1>2, <2>1, FS_Subset
    <2> QED BY <2>2
  <1>4. ASSUME NEW p \in Pair, NEW q \in Pair, p # q PROVE r[p] # r[q]
    <2>1. p \in Ahead(q) \/ q \in Ahead(p)
      BY <1>4, PairFacts DEF Ahead
    <2> QED BY <1>3, <2>1
  <1>5. r \in Injection(Pair, Layer)
    <2>1. \A p \in Pair : r[p] \in 0..(n - 1)
      BY <1>1, <1>2
    <2>2. r \in [Pair -> Layer]
      BY <2>1 DEF Layer
    <2> HIDE DEF r
    <2> QED BY <1>4, <2>2 DEF Injection, IsInjective
  <1>6. IsFiniteSet(Layer) /\ Cardinality(Layer) = n
    <2>1. 0 \in Int /\ n - 1 \in Int /\ Layer = 0..(n - 1)
      BY <1>1 DEF Layer
    <2> HIDE DEF n
    <2> QED BY <1>1, <2>1, FS_Interval
  <1>7. r \in Surjection(Pair, Layer)
    <2> HIDE DEF r
    <2> QED BY <1>1, <1>5, <1>6, FS_Injection
  <1>8. \A k \in Layer : \E p \in Pair : Cardinality(Ahead(p)) = k
    <2>1. \A k \in Layer : \E p \in Pair : r[p] = k
      <3> HIDE DEF r
      <3> QED BY <1>7 DEF Surjection
    <2> QED BY <2>1
  <1>9. \A k : Ids(k) = CHOOSE p \in Pair : Cardinality(Ahead(p)) = k
    BY DEF Ids, Ahead
  <1>10. \A k \in Layer : Ids(k) \in Pair /\ Cardinality(Ahead(Ids(k))) = k
    BY <1>8, <1>9
  <1>11. ASSUME NEW p \in Pair PROVE \E k \in Layer : Ids(k) = p
    <2>1. r[p] \in Layer
      <3> HIDE DEF r
      <3> QED BY <1>5 DEF Injection
    <2>2. r[Ids(r[p])] = r[p] /\ Ids(r[p]) \in Pair
      BY <1>10, <2>1
    <2>3. Ids(r[p]) = p
      <3> HIDE DEF r
      <3> QED BY <1>4, <2>2
    <2> QED BY <2>1, <2>3
  <1> QED BY <1>10, <1>11

-----------------------------------------------------------------------------
(* Types                                                                    *)

\* The entry and the joint node of a pair are the same in both directions.
Symmetric(f) == \A q \in Tree \X Tree : f[q] = f[<<q[2], q[1]>>]

Square == Tree \X Tree

BothWays(f, p, d) == [f EXCEPT ![p] = d, ![<<p[2], p[1]>>] = d]

\* A matrix written in both directions stays alike in both.
LEMMA WritingBothWays ==
  ASSUME NEW V, NEW f \in [Square -> V], NEW p \in Pair, NEW d \in V
  PROVE  /\ BothWays(f, p, d) \in [Square -> V]
         /\ \A q \in Square : BothWays(f, p, d)[q] =
              IF q = p \/ q = <<p[2], p[1]>> THEN d ELSE f[q]
         /\ Symmetric(f) => Symmetric(BothWays(f, p, d))
         /\ \A q \in Pair \ {p} : BothWays(f, p, d)[q] = f[q]
         /\ BothWays(f, p, d)[p] = d
  <1>1. p \in Square /\ <<p[2], p[1]>> \in Square /\ p = <<p[1], p[2]>>
    BY PairFacts DEF Square
  <1>2. \A q \in Square : q = <<q[1], q[2]>> /\ <<q[2], q[1]>> \in Square
    BY DEF Square
  <1>3. BothWays(f, p, d) \in [Square -> V]
    BY <1>1 DEF BothWays
  <1>4. \A q \in Square : BothWays(f, p, d)[q] = IF q = p \/ q = <<p[2], p[1]>> THEN d ELSE f[q]
    BY <1>1 DEF BothWays
  <1>5. ASSUME Symmetric(f), NEW q \in Square
        PROVE  BothWays(f, p, d)[q] = BothWays(f, p, d)[<<q[2], q[1]>>]
    <2>1. f[q] = f[<<q[2], q[1]>>]
      BY <1>5 DEF Symmetric, Square
    <2>2. (q = p \/ q = <<p[2], p[1]>>) <=> (<<q[2], q[1]>> = p \/ <<q[2], q[1]>> = <<p[2], p[1]>>)
      BY <1>1, <1>2
    <2> QED BY <1>2, <1>4, <2>1, <2>2
  <1>6. \A q \in Pair \ {p} : BothWays(f, p, d)[q] = f[q]
    <2> SUFFICES ASSUME NEW q \in Pair \ {p} PROVE BothWays(f, p, d)[q] = f[q]
      OBVIOUS
    <2>1. q \in Square /\ q # <<p[2], p[1]>>
      BY PairFacts DEF Square
    <2> QED BY <1>4, <2>1
  <1> QED BY <1>1, <1>3, <1>4, <1>5, <1>6 DEF Symmetric, Square

Entry == [Square -> Nat \cup {None}]

-----------------------------------------------------------------------------
(* Maps                                                                     *)

\* Roads between different nodes, of positive length, both ways.
IsNetwork(size, w) ==
  /\ size \in Nat
  /\ \A e \in DOMAIN w : /\ e \in Cells(size) /\ e[1] # e[2] /\ w[e] \in Nat /\ w[e] > 0
                         /\ <<e[2], e[1]>> \in DOMAIN w /\ w[<<e[2], e[1]>>] = w[e]


Place == Int \X Int

\* The straight distance is one.
LEMMA StraightIsMetric ==
  ASSUME NEW a \in Place, NEW b \in Place, NEW c \in Place
  PROVE  /\ Straight(a, b) \in Nat /\ Straight(a, a) = 0 /\ Straight(a, b) = Straight(b, a)
         /\ Straight(a, c) <= Straight(a, b) + Straight(b, c)
  <1> DEFINE gap(x, y) == IF x > y THEN x - y ELSE y - x
  <1>1. \A x, y \in Int : gap(x, y) \in Nat /\ gap(x, x) = 0 /\ gap(x, y) = gap(y, x)
    OBVIOUS
  <1>2. \A x, y, z \in Int : gap(x, z) <= gap(x, y) + gap(y, z)
    OBVIOUS
  <1>3. \A x, y : Straight(x, y) = gap(x[1], y[1]) + gap(x[2], y[2])
    BY DEF Straight
  <1> HIDE DEF gap
  <1>4. /\ a[1] \in Int /\ a[2] \in Int /\ b[1] \in Int /\ b[2] \in Int
        /\ c[1] \in Int /\ c[2] \in Int
    BY DEF Place
  <1>5. /\ gap(a[1], b[1]) \in Nat /\ gap(a[2], b[2]) \in Nat
        /\ gap(b[1], c[1]) \in Nat /\ gap(b[2], c[2]) \in Nat
        /\ gap(a[1], c[1]) \in Nat /\ gap(a[2], c[2]) \in Nat
        /\ gap(a[1], a[1]) = 0 /\ gap(a[2], a[2]) = 0
        /\ gap(a[1], b[1]) = gap(b[1], a[1]) /\ gap(a[2], b[2]) = gap(b[2], a[2])
        /\ gap(a[1], c[1]) <= gap(a[1], b[1]) + gap(b[1], c[1])
        /\ gap(a[2], c[2]) <= gap(a[2], b[2]) + gap(b[2], c[2])
    BY <1>1, <1>2, <1>4
  <1> QED BY <1>3, <1>5

\* A map is a network; its roads are straight.
LEMMA MapFacts ==
  ASSUME NEW m \in Map
  PROVE  /\ m.size \in Nat /\ IsNetwork(m.size, m.weight) /\ IsWeighted(m.size, m.weight)
         /\ m.place \in [Vertices(m.size) -> Place]
         /\ \A i \in Tree : Stop[i] \in Vertices(m.size)
         /\ \A e \in DOMAIN m.weight : m.weight[e] = Straight(m.place[e[1]], m.place[e[2]])
  <1>1. /\ m.size \in Nat /\ m.place \in [Vertices(m.size) -> Place]
        /\ \A i \in Tree : Stop[i] \in Vertices(m.size)
        /\ \A e \in DOMAIN m.weight :
             /\ e \in Cells(m.size) /\ e[1] # e[2]
             /\ m.weight[e] = Straight(m.place[e[1]], m.place[e[2]])
             /\ m.weight[e] > 0 /\ <<e[2], e[1]>> \in DOMAIN m.weight
    BY MapAssumption DEF Vertices, Cells, Place
  <1>2. ASSUME NEW e \in DOMAIN m.weight
        PROVE  m.weight[e] \in Nat /\ m.weight[<<e[2], e[1]>>] = m.weight[e]
    <2>1. e[1] \in Vertices(m.size) /\ e[2] \in Vertices(m.size)
      BY <1>1 DEF Cells
    <2> DEFINE x == m.place[e[1]]
               y == m.place[e[2]]
    <2>2. x \in Place /\ y \in Place
      BY <1>1, <2>1
    <2>3. m.weight[e] = Straight(x, y)
      BY <1>1
    <2>4. m.weight[<<e[2], e[1]>>] = Straight(y, x)
      <3>1. <<e[2], e[1]>> \in DOMAIN m.weight
        BY <1>1
      <3>2. <<e[2], e[1]>>[1] = e[2] /\ <<e[2], e[1]>>[2] = e[1]
        OBVIOUS
      <3> QED BY <1>1, <3>1, <3>2
    <2> HIDE DEF x, y
    <2> QED BY <2>2, <2>3, <2>4, StraightIsMetric
  <1>3. IsNetwork(m.size, m.weight)
    BY <1>1, <1>2 DEF IsNetwork
  <1>4. IsWeighted(m.size, m.weight)
    BY <1>3 DEF IsNetwork, IsWeighted
  <1> QED BY <1>1, <1>3, <1>4

-----------------------------------------------------------------------------
(* Trees                                                                    *)

\* The costs and the parents of the side s lead every reached node to the root; a node
\* costs its parent and their road, or more since the parent became cheaper.
Ways(m, root, s) ==
  /\ root \in Vertices(m.size)
  /\ s.cost \in [Vertices(m.size) -> Nat \cup {None}]
  /\ s.parent \in [Vertices(m.size) -> Vertices(m.size) \cup {None}]
  /\ s.cost[root] = 0 /\ s.parent[root] = root
  /\ \A n \in Vertices(m.size) : s.cost[n] # None <=> s.parent[n] # None
  /\ \A n \in Vertices(m.size) \ {root} : s.parent[n] # None =>
       /\ s.cost[s.parent[n]] # None /\ <<s.parent[n], n>> \in DOMAIN m.weight
       /\ s.cost[s.parent[n]] + m.weight[<<s.parent[n], n>>] <= s.cost[n]

\* Every neighbour of n is reached, at the cost of its way by n or less.
Settled(m, s, n) ==
  \A k \in Vertices(m.size) : <<n, k>> \in DOMAIN m.weight =>
    s.cost[k] # None /\ s.cost[k] <= s.cost[n] + m.weight[<<n, k>>]

\* A tree with its root only.
LEMMA NewWays ==
  ASSUME map \in Map, NEW root \in Vertices(map.size),
         NEW s, s.cost = Costs(root), s.parent = Rooted(root)
  PROVE  /\ Ways(map, root, s)
         /\ \A n \in Vertices(map.size) : s.cost[n] # None <=> n = root
  <1>1. None \notin Nat /\ 0 \in Nat /\ \A n \in Vertices(map.size) : n # None
    BY NoneAssumption, MapFacts DEF Vertices
  <1>2. Nodes = Vertices(map.size)
    BY DEF Nodes, Vertices
  <1>3. /\ \A n \in Vertices(map.size) : s.cost[n] = IF n = root THEN 0 ELSE None
        /\ \A n \in Vertices(map.size) : s.parent[n] = IF n = root THEN root ELSE None
        /\ s.cost \in [Vertices(map.size) -> Nat \cup {None}]
        /\ s.parent \in [Vertices(map.size) -> Vertices(map.size) \cup {None}]
    BY <1>1, <1>2 DEF Costs, Rooted
  <1> QED BY <1>1, <1>3 DEF Ways

\* u is the side s after the node p was expanded.
Grows(s, p, u) == u.cost = CostsVia(s, p) /\ u.parent = ParentsVia(s, p)

\* A tree that a reached node is expanded in is one, and the node is settled.
LEMMA GrownWays ==
  ASSUME map \in Map, NEW root, NEW s, Ways(map, root, s), NEW p \in Reached(s),
         NEW u, Grows(s, p, u)
  PROVE  /\ Ways(map, root, u)
         /\ Better(s, p) \in SUBSET Vertices(map.size) /\ p \notin Better(s, p)
         /\ \A n \in Vertices(map.size) : s.cost[n] # None =>
              /\ u.cost[n] # None /\ u.cost[n] <= s.cost[n]
              /\ n \in Better(s, p) => u.cost[n] < s.cost[n]
         /\ \A n \in Vertices(map.size) \ Better(s, p) :
              u.cost[n] = s.cost[n] /\ u.parent[n] = s.parent[n]
         /\ \A n \in Better(s, p) : u.cost[n] # None
         /\ Settled(map, u, p)
  <1> DEFINE V == Vertices(map.size)
             W == map.weight
             B == Better(s, p)
  <1>1. None \notin Nat /\ Nodes = V
    BY NoneAssumption DEF Nodes, Vertices
  <1>2. /\ root \in V
        /\ s.cost \in [V -> Nat \cup {None}] /\ s.parent \in [V -> V \cup {None}]
        /\ s.cost[root] = 0 /\ s.parent[root] = root
        /\ \A n \in V : s.cost[n] # None <=> s.parent[n] # None
        /\ \A n \in V \ {root} : s.parent[n] # None =>
             /\ s.cost[s.parent[n]] # None /\ <<s.parent[n], n>> \in DOMAIN W
             /\ s.cost[s.parent[n]] + W[<<s.parent[n], n>>] <= s.cost[n]
    BY DEF Ways
  <1>3. \A e \in DOMAIN W : W[e] \in Nat /\ W[e] > 0 /\ e[1] # e[2]
    BY MapFacts DEF IsNetwork
  <1>4. p \in V /\ s.parent[p] # None /\ s.cost[p] \in Nat
    BY <1>1, <1>2 DEF Reached
  <1>5. B = {n \in V : <<p, n>> \in DOMAIN W /\
               (s.cost[n] # None => s.cost[p] + W[<<p, n>>] < s.cost[n])}
    BY <1>1 DEF Better, Neighbors
  <1>6. /\ u.cost = [n \in V |-> IF n \in B THEN s.cost[p] + W[<<p, n>>] ELSE s.cost[n]]
        /\ u.parent = [n \in V |-> IF n \in B THEN p ELSE s.parent[n]]
    BY <1>1 DEF Grows, CostsVia, ParentsVia
  <1>7. B \in SUBSET V /\ p \notin B
    <2>1. <<p, p>> \notin DOMAIN W
      <3>1. <<p, p>>[1] = <<p, p>>[2]
        OBVIOUS
      <3> QED BY <1>3, <3>1
    <2> QED BY <1>5, <2>1
  <1> HIDE DEF V, W, B
  <1>8. \A n \in B : /\ n \in V /\ u.cost[n] = s.cost[p] + W[<<p, n>>] /\ u.parent[n] = p
                     /\ <<p, n>> \in DOMAIN W /\ W[<<p, n>>] \in Nat /\ W[<<p, n>>] > 0
                     /\ u.cost[n] \in Nat
                     /\ s.cost[n] # None => u.cost[n] < s.cost[n]
    <2> SUFFICES ASSUME NEW n \in B
                 PROVE  /\ n \in V /\ u.cost[n] = s.cost[p] + W[<<p, n>>] /\ u.parent[n] = p
                        /\ <<p, n>> \in DOMAIN W /\ W[<<p, n>>] \in Nat /\ W[<<p, n>>] > 0
                        /\ u.cost[n] \in Nat
                        /\ s.cost[n] # None => u.cost[n] < s.cost[n]
      OBVIOUS
    <2>1. n \in V /\ <<p, n>> \in DOMAIN W
          /\ (s.cost[n] # None => s.cost[p] + W[<<p, n>>] < s.cost[n])
      BY <1>5
    <2>2. u.cost[n] = s.cost[p] + W[<<p, n>>] /\ u.parent[n] = p
      BY <1>6, <2>1
    <2>3. W[<<p, n>>] \in Nat /\ W[<<p, n>>] > 0
      BY <1>3, <2>1
    <2> QED BY <1>4, <2>1, <2>2, <2>3
  <1>9. \A n \in V \ B : u.cost[n] = s.cost[n] /\ u.parent[n] = s.parent[n]
    BY <1>6
  <1>10. root \notin B
    <2> SUFFICES ASSUME root \in B PROVE FALSE
      OBVIOUS
    <2>1. s.cost[root] # None
      BY <1>1, <1>2
    <2>2. u.cost[root] < 0 /\ u.cost[root] \in Nat
      BY <1>2, <1>8, <2>1
    <2> QED BY <2>2
  <1>11. \A n \in V : s.cost[n] # None =>
           /\ u.cost[n] # None /\ u.cost[n] \in Nat /\ s.cost[n] \in Nat
           /\ u.cost[n] <= s.cost[n] /\ (n \in B => u.cost[n] < s.cost[n])
    <2> SUFFICES ASSUME NEW n \in V, s.cost[n] # None
                 PROVE  /\ u.cost[n] # None /\ u.cost[n] \in Nat /\ s.cost[n] \in Nat
                        /\ u.cost[n] <= s.cost[n] /\ (n \in B => u.cost[n] < s.cost[n])
      OBVIOUS
    <2>1. s.cost[n] \in Nat
      BY <1>2
    <2>2. CASE n \in B
      <3>1. u.cost[n] \in Nat /\ u.cost[n] < s.cost[n]
        BY <1>8, <2>2
      <3> DEFINE a == u.cost[n]
                 b == s.cost[n]
      <3>2. a \in Nat /\ b \in Nat /\ a < b
        BY <2>1, <3>1
      <3> HIDE DEF a, b
      <3>3. a # None /\ a <= b
        BY <1>1, <3>2
      <3> QED BY <3>2, <3>3 DEF a, b
    <2>3. CASE n \notin B
      BY <1>1, <1>9, <2>1, <2>3
    <2> QED BY <2>2, <2>3
  <1>12. u.cost \in [V -> Nat \cup {None}] /\ u.parent \in [V -> V \cup {None}]
    <2>1. \A n \in V : u.cost[n] \in Nat \cup {None} /\ u.parent[n] \in V \cup {None}
      <3> SUFFICES ASSUME NEW n \in V
                   PROVE  u.cost[n] \in Nat \cup {None} /\ u.parent[n] \in V \cup {None}
        OBVIOUS
      <3>1. CASE n \in B
        BY <1>4, <1>8, <3>1
      <3>2. CASE n \notin B
        BY <1>2, <1>9, <3>2
      <3> QED BY <3>1, <3>2
    <2> QED BY <1>6, <2>1
  <1>13. \A n \in V : u.cost[n] # None <=> u.parent[n] # None
    <2> SUFFICES ASSUME NEW n \in V PROVE u.cost[n] # None <=> u.parent[n] # None
      OBVIOUS
    <2>1. CASE n \in B
      <3>1. p # None
        BY <1>1, <1>4, MapFacts DEF V, Vertices
      <3> QED BY <1>1, <1>8, <2>1, <3>1
    <2>2. CASE n \notin B
      BY <1>2, <1>9, <2>2
    <2> QED BY <2>1, <2>2
  <1>14. ASSUME NEW n \in V \ {root}, u.parent[n] # None
         PROVE  /\ u.cost[u.parent[n]] # None /\ <<u.parent[n], n>> \in DOMAIN W
                /\ u.cost[u.parent[n]] + W[<<u.parent[n], n>>] <= u.cost[n]
    <2>1. CASE n \in B
      <3>1. u.parent[n] = p /\ u.cost[p] = s.cost[p] /\ s.cost[p] # None
        BY <1>1, <1>4, <1>7, <1>8, <1>9, <2>1
      <3>2. u.cost[n] = s.cost[p] + W[<<p, n>>] /\ <<p, n>> \in DOMAIN W /\ u.cost[n] \in Nat
        BY <1>8, <2>1
      <3> QED BY <3>1, <3>2
    <2>2. CASE n \notin B
      <3> DEFINE q == s.parent[n]
      <3>1. u.parent[n] = q /\ q # None /\ u.cost[n] = s.cost[n] /\ q \in V
        BY <1>2, <1>9, <1>14, <2>2
      <3>2. s.cost[q] # None /\ <<q, n>> \in DOMAIN W /\ s.cost[q] + W[<<q, n>>] <= s.cost[n]
        BY <1>2, <1>14, <3>1
      <3>3. /\ u.cost[q] # None /\ u.cost[q] \in Nat /\ s.cost[q] \in Nat
            /\ u.cost[q] <= s.cost[q] /\ W[<<q, n>>] \in Nat
        BY <1>3, <1>11, <3>1, <3>2
      <3>4. s.cost[n] \in Nat
        BY <1>2, <1>14, <3>1
      <3> HIDE DEF q
      <3>5. u.cost[q] + W[<<q, n>>] <= u.cost[n]
        BY <3>1, <3>2, <3>3, <3>4
      <3> QED BY <3>1, <3>2, <3>3, <3>5
    <2> QED BY <2>1, <2>2
  <1>15. Ways(map, root, u)
    <2>1. u.cost[root] = 0 /\ u.parent[root] = root
      BY <1>2, <1>9, <1>10
    <2> QED BY <1>2, <1>12, <1>13, <1>14, <2>1 DEF Ways, V, W
  <1>16. Settled(map, u, p)
    <2> SUFFICES ASSUME NEW k \in V, <<p, k>> \in DOMAIN W
                 PROVE  u.cost[k] # None /\ u.cost[k] <= u.cost[p] + W[<<p, k>>]
      BY DEF Settled, V, W
    <2>1. u.cost[p] = s.cost[p] /\ W[<<p, k>>] \in Nat
      BY <1>3, <1>4, <1>7, <1>9
    <2>2. CASE k \in B
      <3>1. u.cost[k] = s.cost[p] + W[<<p, k>>] /\ u.cost[k] \in Nat
        BY <1>8, <2>2
      <3> QED BY <1>1, <2>1, <3>1
    <2>3. CASE k \notin B
      <3>1. s.cost[k] # None /\ ~ s.cost[p] + W[<<p, k>>] < s.cost[k]
        BY <1>5, <2>3
      <3>2. u.cost[k] = s.cost[k] /\ s.cost[k] \in Nat
        BY <1>2, <1>9, <2>3, <3>1
      <3> QED BY <1>4, <2>1, <3>1, <3>2
    <2> QED BY <2>2, <2>3
  <1> QED BY <1>1, <1>7, <1>8, <1>9, <1>11, <1>15, <1>16 DEF V, B

\* What holds at the root and passes from parent to child holds of all reached nodes.
LEMMA WaysInduction ==
  ASSUME NEW m \in Map, NEW root, NEW s, Ways(m, root, s),
         NEW G, root \in G,
         \A n \in Vertices(m.size) \ {root} :
           s.cost[n] # None /\ s.parent[n] \in Vertices(m.size) /\ s.parent[n] \in G => n \in G
  PROVE  \A n \in Vertices(m.size) : s.cost[n] # None => n \in G
  <1> DEFINE V == Vertices(m.size)
             Good == {k \in Nat : \A n \in V : s.cost[n] # None /\ s.cost[n] < k => n \in G}
  <1>1. \A n \in V : s.cost[n] # None => s.cost[n] \in Nat
    BY DEF Ways
  <1>2. 0 \in Good
    <2>1. \A k \in Nat : ~ k < 0
      OBVIOUS
    <2> QED BY <1>1, <2>1
  <1>3. ASSUME NEW k \in Nat, k \in Good PROVE k + 1 \in Good
    <2> SUFFICES ASSUME NEW n \in V, s.cost[n] # None, s.cost[n] < k + 1 PROVE n \in G
      OBVIOUS
    <2>1. CASE n = root
      BY <2>1
    <2>2. CASE n # root
      <3> DEFINE q == s.parent[n]
      <3>1. /\ s.parent[n] # None /\ q \in V /\ s.cost[q] # None /\ <<q, n>> \in DOMAIN m.weight
            /\ s.cost[q] + m.weight[<<q, n>>] <= s.cost[n]
        BY <2>2 DEF Ways
      <3>2. m.weight[<<q, n>>] \in Nat /\ m.weight[<<q, n>>] > 0
        BY <3>1, MapFacts DEF IsNetwork
      <3>3. s.cost[q] \in Nat /\ s.cost[n] \in Nat
        BY <1>1, <3>1
      <3>4. s.cost[q] < k
        BY <3>1, <3>2, <3>3
      <3>5. q \in G
        BY <1>3, <3>1, <3>4
      <3> QED BY <2>2, <3>1, <3>5
    <2> QED BY <2>1, <2>2
  <1>4. Nat \subseteq Good
    <2> HIDE DEF Good
    <2> QED BY <1>2, <1>3, NatSetInduction
  <1>5. ASSUME NEW n \in V, s.cost[n] # None PROVE n \in G
    <2>1. s.cost[n] \in Nat
      BY <1>1, <1>5
    <2>2. s.cost[n] + 1 \in Nat /\ s.cost[n] < s.cost[n] + 1
      BY <2>1
    <2>3. s.cost[n] + 1 \in Good
      <3> HIDE DEF Good
      <3> QED BY <1>4, <2>2
    <2> QED BY <1>5, <2>2, <2>3
  <1> QED BY <1>5 DEF V

Shorts(m) == Distances(m.size, m.weight)

\* The distances of a map.
LEMMA DistanceFacts ==
  ASSUME NEW m \in Map
  PROVE  AreShortest(Shorts(m), m.size, m.size, m.weight)
  BY MapFacts, DistancesShortest DEF Shorts

\* A distance is a natural, none to itself, and no longer than by way of a node or a road.
LEMMA DistanceRules ==
  ASSUME NEW m \in Map, NEW a \in Vertices(m.size), NEW b \in Vertices(m.size),
         NEW c \in Vertices(m.size)
  PROVE  /\ Shorts(m)[<<a, b>>] \in Nat /\ Shorts(m)[<<a, a>>] = 0
         /\ Shorts(m)[<<a, c>>] <= Shorts(m)[<<a, b>>] + Shorts(m)[<<b, c>>]
         /\ <<a, b>> \in DOMAIN m.weight => Shorts(m)[<<a, b>>] <= m.weight[<<a, b>>]
  <1>1. AreShortest(Shorts(m), m.size, m.size, m.weight)
    BY DistanceFacts
  <1>2. b < m.size
    BY MapFacts DEF Vertices
  <1>3. Shorts(m)[<<a, b>>] \in Nat
    BY <1>1 DEF AreShortest, Cells
  <1>4. ShorterBy(Shorts(m), b, m.size)
    BY <1>1, <1>2 DEF AreShortest
  <1> QED BY <1>1, <1>3, <1>4 DEF AreShortest, ShorterBy

\* No node costs less than its distance from the root.
LEMMA CostsAreDistances ==
  ASSUME NEW m \in Map, NEW root, NEW s, Ways(m, root, s)
  PROVE  \A n \in Vertices(m.size) : s.cost[n] # None =>
           s.cost[n] \in Nat /\ Shorts(m)[<<root, n>>] <= s.cost[n]
  <1> DEFINE V == Vertices(m.size)
             G == {n \in V : s.cost[n] # None => Shorts(m)[<<root, n>>] <= s.cost[n]}
  <1>1. \A n \in V : s.cost[n] # None => s.cost[n] \in Nat
    BY DEF Ways
  <1>2. root \in G
    <2>1. root \in V /\ s.cost[root] = 0
      BY DEF Ways
    <2>2. Shorts(m)[<<root, root>>] = 0
      BY <2>1, DistanceRules
    <2> QED BY <2>1, <2>2
  <1>3. ASSUME NEW n \in V \ {root}, s.cost[n] # None, s.parent[n] \in V, s.parent[n] \in G
        PROVE  n \in G
    <2> DEFINE q == s.parent[n]
               d == Shorts(m)[<<root, q>>]
               e == Shorts(m)[<<q, n>>]
               f == Shorts(m)[<<root, n>>]
               w == m.weight[<<q, n>>]
    <2>1. /\ q # None /\ s.cost[q] # None /\ <<q, n>> \in DOMAIN m.weight
          /\ s.cost[q] + w <= s.cost[n] /\ root \in V
      BY <1>3 DEF Ways
    <2>2. d \in Nat /\ e \in Nat /\ f \in Nat /\ f <= d + e /\ e <= w
      BY <1>3, <2>1, DistanceRules
    <2>3. w \in Nat
      BY <2>1, MapFacts DEF IsNetwork
    <2>4. d <= s.cost[q]
      BY <1>3, <2>1
    <2>5. s.cost[q] \in Nat /\ s.cost[n] \in Nat
      BY <1>1, <1>3, <2>1
    <2> HIDE DEF d, e, w, q
    <2>6. f <= s.cost[n]
      <3> HIDE DEF f
      <3> QED BY <2>1, <2>2, <2>3, <2>4, <2>5
    <2> QED BY <2>6
  <1>4. \A n \in V : s.cost[n] # None => n \in G
    <2> HIDE DEF G
    <2> QED BY <1>2, <1>3, WaysInduction
  <1> QED BY <1>1, <1>4

\* When all that is reached leads to what is reached, everything in reach is.
LEMMA ReachedIsClosed ==
  ASSUME NEW m \in Map, NEW root, NEW s, Ways(m, root, s),
         \A n, k \in Vertices(m.size) :
           s.cost[n] # None /\ <<n, k>> \in DOMAIN m.weight => s.cost[k] # None,
         NEW b \in Vertices(m.size), Shorts(m)[<<root, b>>] < Far
  PROVE  s.cost[b] # None
  <1> DEFINE V == Vertices(m.size)
             C == {n \in V : s.cost[n] # None}
             c == [n \in V |-> 0]
  <1>1. IsPotential(C, c, m.size, m.weight)
    <2>1. \A e \in DOMAIN m.weight : /\ e[1] \in V /\ e[2] \in V /\ e = <<e[1], e[2]>>
                                     /\ m.weight[e] \in Nat
      <3>1. \A e \in Cells(m.size) : e[1] \in V /\ e[2] \in V /\ e = <<e[1], e[2]>>
        BY DEF Cells
      <3> QED BY <3>1, MapFacts DEF IsNetwork
    <2>2. \A e \in DOMAIN m.weight : e[1] \in C => e[2] \in C
      BY <2>1
    <2>3. \A e \in DOMAIN m.weight : c[e[2]] <= c[e[1]] + m.weight[e]
      BY <2>1
    <2> QED BY <2>2, <2>3 DEF IsPotential
  <1>2. root \in C
    <2>1. None \notin Nat /\ 0 \in Nat
      BY NoneAssumption
    <2> QED BY <2>1 DEF Ways
  <1>3. Bounds(C, c, Shorts(m), m.size)
    <2> HIDE DEF C, c
    <2> QED BY <1>1, DistanceFacts DEF AreShortest
  <1>4. b \in C
    <2> HIDE DEF c
    <2> QED BY <1>2, <1>3 DEF Bounds
  <1> QED BY <1>4

\* Once no node that is not settled can bring the goal nearer, the goal is at its distance.
LEMMA BoundIsDistance ==
  ASSUME NEW m \in Map, NEW root, NEW s, Ways(m, root, s),
         NEW goal \in Vertices(m.size), s.cost[goal] # None,
         \A n \in Vertices(m.size) : s.cost[n] # None =>
           \/ s.cost[goal] <= s.cost[n] + Straight(m.place[n], m.place[goal])
           \/ Settled(m, s, n),
         Shorts(m)[<<root, goal>>] < Far
  PROVE  s.cost[goal] = Shorts(m)[<<root, goal>>]
  <1> DEFINE V == Vertices(m.size)
             air == [n \in V |-> Straight(m.place[n], m.place[goal])]
             D == Shorts(m)[<<root, goal>>]
             B == s.cost[goal]
             near(n) == s.cost[n] # None /\ s.cost[n] + air[n] < B
             c == [n \in V |-> IF near(n) THEN s.cost[n] ELSE B - air[n]]
  <1>1. /\ root \in V /\ s.cost[root] = 0 /\ s.cost[root] # None
        /\ \A n \in V : s.cost[n] # None => s.cost[n] \in Nat
        /\ B \in Nat
    <2>1. None \notin Nat /\ 0 \in Nat
      BY NoneAssumption
    <2> QED BY <2>1 DEF Ways
  <1>2. \A n \in V : air[n] \in Nat /\ m.place[n] \in Place
    BY MapFacts, StraightIsMetric
  <1>3. air[goal] = 0
    BY MapFacts, StraightIsMetric
  <1>4. ASSUME NEW e \in DOMAIN m.weight
        PROVE  /\ e[1] \in V /\ e[2] \in V /\ e = <<e[1], e[2]>> /\ m.weight[e] \in Nat
               /\ air[e[1]] <= m.weight[e] + air[e[2]]
    <2>1. /\ e \in Cells(m.size) /\ m.weight[e] \in Nat
          /\ m.weight[e] = Straight(m.place[e[1]], m.place[e[2]])
      BY MapFacts DEF IsNetwork
    <2>2. e[1] \in V /\ e[2] \in V /\ e = <<e[1], e[2]>>
      BY <2>1 DEF Cells
    <2> DEFINE x == m.place[e[1]]
               y == m.place[e[2]]
               z == m.place[goal]
    <2>3. x \in Place /\ y \in Place /\ z \in Place
      BY <1>2, <2>2
    <2>4. air[e[1]] = Straight(x, z) /\ air[e[2]] = Straight(y, z)
      BY <2>2
    <2>5. m.weight[e] = Straight(x, y)
      BY <2>1
    <2> HIDE DEF x, y, z, air
    <2> QED BY <2>1, <2>2, <2>3, <2>4, <2>5, StraightIsMetric
  <1> HIDE DEF air
  <1>5. \A n \in V : /\ c[n] \in Int /\ c[n] <= B - air[n]
                     /\ s.cost[n] # None => c[n] <= s.cost[n]
                     /\ near(n) => c[n] = s.cost[n]
                     /\ ~near(n) => c[n] = B - air[n]
    BY <1>1, <1>2
  <1>6. \A n \in V : near(n) => Settled(m, s, n)
    <2> SUFFICES ASSUME NEW n \in V, near(n) PROVE Settled(m, s, n)
      OBVIOUS
    <2>1. s.cost[n] \in Nat /\ air[n] \in Nat /\ B \in Nat /\ s.cost[n] # None
      BY <1>1, <1>2
    <2>2. air[n] = Straight(m.place[n], m.place[goal])
      BY DEF air
    <2>3. ~ B <= s.cost[n] + air[n]
      BY <2>1
    <2> QED BY <2>1, <2>2, <2>3
  <1> HIDE DEF c, near
  <1>7. IsPotential(V, c, m.size, m.weight)
    <2>1. ASSUME NEW e \in DOMAIN m.weight PROVE c[e[2]] <= c[e[1]] + m.weight[e]
      <3> DEFINE i == e[1]
                 k == e[2]
                 w == m.weight[e]
      <3>1. i \in V /\ k \in V /\ e = <<i, k>> /\ w \in Nat /\ air[i] <= w + air[k]
        BY <1>4
      <3>2. air[i] \in Nat /\ air[k] \in Nat /\ c[i] \in Int /\ c[k] \in Int /\ c[k] <= B - air[k]
        BY <1>2, <1>5, <3>1
      <3>3. CASE near(i)
        <4>1. Settled(m, s, i) /\ c[i] = s.cost[i]
          BY <1>5, <1>6, <3>1, <3>3
        <4>2. s.cost[k] # None /\ s.cost[k] <= s.cost[i] + w
          <5>1. <<i, k>> \in DOMAIN m.weight /\ m.weight[<<i, k>>] = w
            BY <3>1
          <5> HIDE DEF i, k, w
          <5> QED BY <3>1, <4>1, <5>1 DEF Settled
        <4>3. c[k] <= s.cost[k] /\ s.cost[k] \in Nat /\ s.cost[i] \in Int
          BY <1>1, <1>5, <3>1, <3>2, <4>1, <4>2
        <4> HIDE DEF i, k, w
        <4>4. c[k] <= c[i] + w
          BY <3>1, <3>2, <4>1, <4>2, <4>3
        <4> QED BY <4>4 DEF i, k, w
      <3>4. CASE ~near(i)
        <4>1. c[i] = B - air[i]
          BY <1>5, <3>1, <3>4
        <4> HIDE DEF i, k, w, B
        <4>2. B \in Int
          BY <1>1 DEF B
        <4>3. c[k] <= c[i] + w
          BY <3>1, <3>2, <4>1, <4>2
        <4> QED BY <4>3 DEF i, k, w
      <3> QED BY <3>3, <3>4
    <2>2. c \in [V -> Int]
      BY <1>5 DEF c
    <2>3. \A e \in DOMAIN m.weight : e[2] \in V
      BY <1>4
    <2> QED BY <2>1, <2>2, <2>3 DEF IsPotential
  <1>8. Bounds(V, c, Shorts(m), m.size)
    BY <1>7, DistanceFacts DEF AreShortest
  <1>9. c[goal] <= c[root] + D
    BY <1>1, <1>8 DEF Bounds
  <1>10. c[goal] = B
    <2>1. ~near(goal)
      BY <1>1, <1>3 DEF near
    <2> QED BY <1>1, <1>3, <1>5, <2>1
  <1>11. c[root] <= 0 /\ c[root] \in Int
    BY <1>1, <1>5
  <1>12. D \in Nat /\ D <= B
    BY <1>1, DistanceRules, CostsAreDistances
  <1> HIDE DEF D, B
  <1>13. B = D
    <2>1. B \in Nat
      BY <1>1 DEF B
    <2> QED BY <1>9, <1>10, <1>11, <1>12, <2>1
  <1> QED BY <1>13 DEF B, D

-----------------------------------------------------------------------------
(* Climbing to the root                                                     *)

Up(parent, root, p) ==
  IF p = Panic \/ Last(p) = root THEN p
  ELSE IF parent[Last(p)] # None THEN Append(p, parent[Last(p)]) ELSE Panic

\* up[k] is how far the climb from n came in k steps.
IsClimb(up, parent, n, root, size) ==
  /\ up[0] = <<n>>
  /\ \A k \in 0..size : up[k] \in Seq(Vertices(size))
  /\ \A k \in 1..size : up[k] = Up(parent, root, up[k - 1])

\* The next step stays among the nodes.
LEMMA UpType ==
  ASSUME NEW V, NEW parent \in [V -> V \cup {None}], NEW root, NEW p \in Seq(V)
  PROVE  Up(parent, root, p) \in Seq(V)
  <1>1. CASE p = Panic \/ Last(p) = root
    BY <1>1 DEF Up
  <1>2. CASE ~(p = Panic \/ Last(p) = root)
    <2>1. Len(p) \in Nat \ {0}
      BY <1>2 DEF Panic
    <2>2. Last(p) \in V
      BY <2>1 DEF Last
    <2>3. CASE parent[Last(p)] # None
      <3>1. parent[Last(p)] \in V
        BY <2>2, <2>3
      <3> QED BY <1>2, <2>3, <3>1 DEF Up
    <2>4. CASE parent[Last(p)] = None
      BY <1>2, <2>4 DEF Up, Panic
    <2> QED BY <2>3, <2>4
  <1> QED BY <1>1, <1>2

\* Climb is the last of the tables it says it is made of.
LEMMA ClimbIsTable ==
  ASSUME map \in Map, NEW n \in Vertices(map.size), NEW root,
         NEW parent \in [Vertices(map.size) -> Vertices(map.size) \cup {None}]
  PROVE  \E up : /\ IsClimb(up, parent, n, root, map.size)
                 /\ Climb(parent, n, root) = up[map.size]
  <1> DEFINE size == map.size
             I == 0..size
             V == Seq(Vertices(size))
             start == [k \in I |-> <<n>>]
             stop == {0}
             p == [k \in I |-> k - 1]
             d == [k \in I |-> k]
             h == [x \in I \X V |-> Up(parent, root, x[2])]
             step(f) == [k \in I |->
               IF k = 0 THEN <<n>>
               ELSE LET q == f[k - 1]
                    IN  IF q = Panic \/ Last(q) = root THEN q
                        ELSE IF parent[Last(q)] # None THEN Append(q, parent[Last(q)]) ELSE Panic]
             up == CHOOSE f : f = step(f)
  <1>1. size \in Nat
    BY MapFacts
  <1>2. <<n>> \in V /\ \A q \in V : Up(parent, root, q) \in V
    BY UpType
  <1>3. \A k \in I : k # 0 => k - 1 \in I /\ k - 1 < k
    BY <1>1
  <1>4. start \in [I -> V] /\ d \in [I -> Nat] /\ h \in [I \X V -> V]
    <2>1. start \in [I -> V]
      <3> HIDE DEF V
      <3> QED BY <1>2
    <2>2. d \in [I -> Nat]
      BY <1>1
    <2>3. h \in [I \X V -> V]
      <3> HIDE DEF V, I
      <3> QED BY <1>2
    <2> QED BY <2>1, <2>2, <2>3
  <1>5. \A k \in I \ stop : p[k] \in I /\ d[p[k]] < d[k]
    BY <1>3
  <1>6. PICK f : IsRecursion(f, I, V, start, stop, p, h)
    <2> HIDE DEF I, V, start, stop, p, h, d
    <2> QED BY <1>4, <1>5, RankedRecursion
  <1>7. /\ f \in [I -> V]
        /\ \A k \in I : f[k] = IF k = 0 THEN <<n>> ELSE h[<<k, f[p[k]]>>]
    <2>1. \A k \in I : (k \in stop <=> k = 0) /\ start[k] = <<n>>
      OBVIOUS
    <2> HIDE DEF I, V, start, stop, p, h, d
    <2> QED BY <1>6, <2>1 DEF IsRecursion
  <1>8. \A g : \A k \in I : step(g)[k] = IF k = 0 THEN <<n>> ELSE Up(parent, root, g[k - 1])
    BY DEF Up
  <1>9. ASSUME NEW k \in I PROVE f[k] = step(f)[k]
    <2>1. CASE k = 0
      <3> HIDE DEF step, h, V
      <3> QED BY <1>7, <1>8, <2>1
    <2>2. CASE k # 0
      <3>1. k - 1 \in I /\ p[k] = k - 1
        BY <1>3, <2>2
      <3>2. f[k - 1] \in V /\ f[k] = h[<<k, f[k - 1]>>]
        <4> HIDE DEF I, V, p, h
        <4> QED BY <1>7, <2>2, <3>1
      <3>3. h[<<k, f[k - 1]>>] = Up(parent, root, f[k - 1])
        <4> HIDE DEF I, V
        <4> QED BY <3>2
      <3> HIDE DEF step, h, V, I
      <3> QED BY <1>8, <2>2, <3>2, <3>3
    <2> QED BY <2>1, <2>2
  <1>10. f = step(f)
    <2>1. DOMAIN f = I /\ f = [k \in I |-> f[k]]
      <3> HIDE DEF I, V, h, p
      <3> QED BY <1>7
    <2>2. DOMAIN step(f) = I /\ step(f) = [k \in I |-> step(f)[k]]
      OBVIOUS
    <2> HIDE DEF I, step
    <2> QED BY <1>9, <2>1, <2>2
  <1>11. up = step(up)
    <2> HIDE DEF step
    <2> QED BY <1>10
  <1>12. Climb(parent, n, root) = up[map.size]
    BY DEF Climb
  <1> HIDE DEF up
  <1>13. \A k \in I : up[k] = IF k = 0 THEN <<n>> ELSE Up(parent, root, up[k - 1])
    <2> HIDE DEF step, I
    <2> QED BY <1>8, <1>11
  <1> HIDE DEF step, h, p, d, start, stop
  <1> DEFINE Good == {k \in Nat : k <= size => up[k] \in V}
  <1>14. Nat \subseteq Good
    <2>1. 0 \in Good
      <3>1. 0 \in I
        BY <1>1
      <3> QED BY <1>2, <1>13, <3>1
    <2>2. ASSUME NEW k \in Nat, k \in Good PROVE k + 1 \in Good
      <3> SUFFICES ASSUME k + 1 <= size PROVE up[k + 1] \in V
        OBVIOUS
      <3>1. k + 1 \in I /\ k + 1 # 0 /\ (k + 1) - 1 = k /\ k <= size
        BY <1>1
      <3>2. up[k] \in V
        BY <2>2, <3>1
      <3>3. up[k + 1] = Up(parent, root, up[k])
        BY <1>13, <3>1
      <3> HIDE DEF V
      <3> QED BY <1>2, <3>2, <3>3
    <2> HIDE DEF Good
    <2> QED BY <2>1, <2>2, NatSetInduction
  <1>15. \A k \in 0..size : up[k] \in V
    <2>1. \A k \in 0..size : k \in Nat /\ k <= size
      BY <1>1
    <2> HIDE DEF V
    <2> QED BY <1>14, <2>1
  <1>16. \A k \in 1..size : up[k] = Up(parent, root, up[k - 1])
    <2>1. \A k \in 1..size : k \in I /\ k # 0
      BY <1>1
    <2> QED BY <1>13, <2>1
  <1>17. up[0] = <<n>>
    <2>1. 0 \in I
      BY <1>1
    <2> QED BY <1>13, <2>1
  <1>18. IsClimb(up, parent, n, root, map.size)
    BY <1>15, <1>16, <1>17 DEF IsClimb
  <1> QED BY <1>12, <1>18

\* A climb is a list of nodes.
LEMMA ClimbType ==
  ASSUME map \in Map, NEW n \in Vertices(map.size), NEW root,
         NEW parent \in [Vertices(map.size) -> Vertices(map.size) \cup {None}]
  PROVE  Climb(parent, n, root) \in Seq(Vertices(map.size))
  <1>1. PICK up : IsClimb(up, parent, n, root, map.size) /\ Climb(parent, n, root) = up[map.size]
    BY ClimbIsTable
  <1>2. map.size \in Nat
    BY MapFacts
  <1>3. map.size \in 0..map.size
    BY <1>2
  <1> QED BY <1>1, <1>3 DEF IsClimb

-----------------------------------------------------------------------------
(* The inductive invariant                                                  *)

Linked(m, i, j) == Shorts(m)[<<Stop[i], Stop[j]>>] < Far

\* The pairs whose distance is known.
LinkPairs(en) == {{p[1], p[2]} : p \in {p \in Pair : en[p] # None}}

\* The matrices are alike in both directions; the sets are the classes of the known pairs.
Matrices(en, jn, st) ==
  /\ en \in Entry /\ Symmetric(en) /\ \A i \in Tree : en[<<i, i>>] = 0
  /\ jn \in Entry /\ Symmetric(jn)
  /\ Partitions(st, Tree, LinkPairs(en))

\* Both sides of a pair's tree lead to their roots, and what is open is reached.
Side(m, root, s) ==
  Ways(m, root, s) /\ \A o \in s.open : o.node \in Vertices(m.size) /\ s.cost[o.node] # None
BiSound(m, k, t) ==
  t.side \in {"fwd", "bwd"} /\ Side(m, StartOf(k), t.fwd) /\ Side(m, GoalOf(k), t.bwd)

\* What the side has reached is open, or it is not the goal and leads to what is reached.
Ripe(m, goal, s) ==
  \A n \in Vertices(m.size) : s.cost[n] # None =>
    \/ \E o \in s.open : o.node = n
    \/ n # goal /\ \A k \in Vertices(m.size) : <<n, k>> \in DOMAIN m.weight => s.cost[k] # None

\* The sides meet at x, and are no longer together than d.
Joins(m, t, x, d) ==
  /\ x \in Vertices(m.size) /\ t.fwd.cost[x] # None /\ t.bwd.cost[x] # None
  /\ t.fwd.cost[x] + t.bwd.cost[x] <= d

BiInv(m, ts, en, jn, un) ==
  /\ DOMAIN ts = Layer /\ \A k \in Layer : BiSound(m, k, ts[k])
  /\ \A k \in un : /\ Ripe(m, GoalOf(k), ts[k].fwd) /\ Ripe(m, StartOf(k), ts[k].bwd)
                   /\ en[Ids(k)] = None
  /\ \A k \in Layer \ un : en[Ids(k)] # None \/ ~Linked(m, Ids(k)[1], Ids(k)[2])
                                                   \/ ~Linked(m, Ids(k)[2], Ids(k)[1])
  /\ \A k \in Layer : en[Ids(k)] # None => Joins(m, ts[k], jn[Ids(k)], en[Ids(k)])

\* What the tree of ANA* has reached is open, or too far to bring the goal nearer, or settled.
Explored(m, goal, t) ==
  \A n \in Vertices(m.size) : t.cost[n] # None =>
    \/ n \in t.open
    \/ t.bound # None /\ t.bound <= t.cost[n] + Straight(m.place[n], m.place[goal])
    \/ Settled(m, t, n)

\* The bound is what the goal costs, but while a nearer way to it is open.
Bounded(goal, t) ==
  /\ t.bound \in Nat \cup {None}
  /\ t.bound # None => t.cost[goal] # None /\ t.cost[goal] <= t.bound
  /\ t.cost[goal] # None => goal \in t.open \/ t.cost[goal] = t.bound

IsAnaTree(t) ==
  t = [cost |-> t.cost, parent |-> t.parent, open |-> t.open, bound |-> t.bound]
AnaSound(m, k, t) ==
  /\ IsAnaTree(t)
  /\ Ways(m, StartOf(k), t)
  /\ \A n \in t.open : n \in Vertices(m.size) /\ t.cost[n] # None
  /\ Explored(m, GoalOf(k), t) /\ Bounded(GoalOf(k), t)

AnaInv(m, ts, en) ==
  /\ DOMAIN ts = Layer
  /\ \A k \in Layer : AnaSound(m, k, ts[k]) /\ en[Ids(k)] = ts[k].bound
  /\ \A i, j \in Tree : Linked(m, i, j)

Scheduled ==
  /\ unexplored \subseteq Layer /\ busy \in Layer \cup {None} /\ updated \in BOOLEAN
  /\ phase \in {"search", "solve", "force", "done"}
  /\ phase # "search" => busy = None
  /\ busy # None => busy \in unexplored

\* Of connected destinations there is an answer at the end, and only of those.
Answered ==
  /\ best # None => sets.connected
  /\ phase = "done" /\ sets.connected => best # None

SearchInv ==
  /\ map \in Map /\ system \in {"BiAstar", "AnaStar"}
  /\ Matrices(entry, joint, sets) /\ Scheduled /\ Answered
  /\ system = "BiAstar" => BiInv(map, trees, entry, joint, unexplored)
  /\ system = "AnaStar" => AnaInv(map, trees, entry)

\* The pairs are pairs of trees, and there are two trees.
LEMMA SetsOfTrees ==
  /\ \A p \in Pair : IsPair({p[1], p[2]}, Tree)
  /\ 1 \in Tree /\ 1 # 0
  <1>1. \A p \in Pair : p[1] \in Tree /\ p[2] \in Tree /\ p[1] # p[2]
    BY PairFacts
  <1>2. 1 \in Tree
    BY TreesNumbered
  <1> QED BY <1>1, <1>2 DEF IsPair

\* The stops of a pair are two nodes of the map.
LEMMA StopsOfLayers ==
  ASSUME NEW m \in Map, NEW k \in Layer
  PROVE  /\ StartOf(k) \in Vertices(m.size) /\ GoalOf(k) \in Vertices(m.size)
         /\ StartOf(k) # GoalOf(k)
         /\ Ids(k) \in Pair /\ Ids(k)[1] \in Tree /\ Ids(k)[2] \in Tree /\ Ids(k)[1] # Ids(k)[2]
  <1>1. Ids(k) \in Pair
    BY IdsOfLayers
  <1>2. Ids(k)[1] \in Tree /\ Ids(k)[2] \in Tree /\ Ids(k)[1] # Ids(k)[2]
    BY <1>1, PairFacts
  <1>3. Stop[Ids(k)[1]] # Stop[Ids(k)[2]]
    BY <1>2, StopAssumption
  <1> QED BY <1>1, <1>2, <1>3, MapFacts DEF StartOf, GoalOf

\* What the constructors make of matrices and sets.
LEMMA InitMatrices ==
  CoreInit => /\ Matrices(entry, joint, sets) /\ Scheduled /\ best = None
              /\ sets.connected = FALSE /\ phase = "search" /\ unexplored = Layer
              /\ \A k \in Layer : entry[Ids(k)] = None
  <1> SUFFICES ASSUME CoreInit
               PROVE  /\ Matrices(entry, joint, sets) /\ Scheduled /\ best = None
                      /\ sets.connected = FALSE /\ phase = "search" /\ unexplored = Layer
                      /\ \A k \in Layer : entry[Ids(k)] = None
    OBVIOUS
  <1>1. /\ entry = [q \in Square |-> IF q[1] = q[2] THEN 0 ELSE None]
        /\ joint = [q \in Square |-> None]
        /\ sets = NewSets(Tree) /\ updated = FALSE /\ best = None
        /\ unexplored = {PairTreeIdx(p[1], p[2]) : p \in Pair}
        /\ busy = None /\ phase = "search"
    BY DEF CoreInit, Square
  <1>2. entry \in Entry /\ joint \in Entry
    BY <1>1 DEF Entry
  <1>3. /\ \A i, j \in Tree : entry[<<i, j>>] = IF i = j THEN 0 ELSE None
        /\ \A i, j \in Tree : joint[<<i, j>>] = None
    BY <1>1 DEF Square
  <1>4. Symmetric(entry) /\ Symmetric(joint) /\ \A i \in Tree : entry[<<i, i>>] = 0
    <2>1. \A q \in Tree \X Tree : \E i, j \in Tree : q = <<i, j>> /\ <<q[2], q[1]>> = <<j, i>>
      OBVIOUS
    <2> QED BY <1>3, <2>1 DEF Symmetric
  <1>5. \A p \in Pair : entry[p] = None
    <2> SUFFICES ASSUME NEW p \in Pair PROVE entry[p] = None
      OBVIOUS
    <2>1. p = <<p[1], p[2]>> /\ p[1] \in Tree /\ p[2] \in Tree /\ p[1] # p[2]
      BY PairFacts
    <2>2. entry[<<p[1], p[2]>>] = None
      BY <1>3, <2>1
    <2> QED BY <2>1, <2>2
  <1>6. LinkPairs(entry) = {}
    BY <1>5 DEF LinkPairs
  <1>7. Partitions(sets, Tree, {})
    BY <1>1, TreesNumbered, SetsOfTrees, NewSetsPartition
  <1>8. Matrices(entry, joint, sets)
    BY <1>2, <1>4, <1>6, <1>7 DEF Matrices
  <1>9. unexplored = Layer
    <2>1. \A k \in unexplored : k \in Layer
      BY <1>1, PlacesOfPairs
    <2>2. \A k \in Layer : k \in unexplored
      <3> SUFFICES ASSUME NEW k \in Layer PROVE k \in unexplored
        OBVIOUS
      <3>1. PICK p \in Pair : PairTreeIdx(p[1], p[2]) = k
        BY PlacesOfPairs
      <3> QED BY <1>1, <3>1
    <2> QED BY <2>1, <2>2
  <1>10. Scheduled
    BY <1>1, <1>9 DEF Scheduled
  <1>11. sets.connected = FALSE
    BY <1>1 DEF NewSets
  <1>12. \A k \in Layer : entry[Ids(k)] = None
    BY <1>5, IdsOfLayers
  <1> QED BY <1>1, <1>8, <1>9, <1>10, <1>11, <1>12

\* The constructors establish the invariant.
LEMMA InitInv == Init => SearchInv
  <1> SUFFICES ASSUME Init PROVE SearchInv
    OBVIOUS
  <1>1. /\ CoreInit /\ map \in Map /\ system \in {"BiAstar", "AnaStar"}
        /\ system = "BiAstar" => BiInit
        /\ system = "AnaStar" => AnaInit /\ \A i, j \in Tree : MapLinks(i, j)
    BY DEF Init, CoreInit
  <1>2. /\ Matrices(entry, joint, sets) /\ Scheduled /\ best = None
        /\ sets.connected = FALSE /\ phase = "search" /\ unexplored = Layer
        /\ \A k \in Layer : entry[Ids(k)] = None
    BY <1>1, InitMatrices
  <1>3. Answered
    BY <1>2 DEF Answered
  <1> DEFINE V == Vertices(map.size)
  <1>4. \A k \in Layer : StartOf(k) \in V /\ GoalOf(k) \in V /\ StartOf(k) # GoalOf(k)
    BY <1>1, StopsOfLayers
  <1>5. ASSUME system = "BiAstar" PROVE BiInv(map, trees, entry, joint, unexplored)
    <2>1. DOMAIN trees = Layer /\ \A k \in Layer : trees[k] = BiTree(k)
      BY <1>1, <1>5 DEF BiInit
    <2>2. ASSUME NEW root \in V, NEW goal \in V, root # goal
          PROVE  Side(map, root, BiSide(root)) /\ Ripe(map, goal, BiSide(root))
      <3> DEFINE s == BiSide(root)
      <3>1. s.cost = Costs(root) /\ s.parent = Rooted(root) /\ s.open = {[f |-> 0, node |-> root]}
        BY DEF BiSide
      <3> HIDE DEF s
      <3>2. Ways(map, root, s) /\ \A n \in V : s.cost[n] # None <=> n = root
        BY <1>1, <2>2, <3>1, NewWays
      <3>3. \A o \in s.open : o.node = root
        BY <3>1
      <3>4. \E o \in s.open : o.node = root
        BY <3>1
      <3> QED BY <2>2, <3>2, <3>3, <3>4 DEF Side, Ripe, s
    <2>3. \A k \in Layer : /\ BiSound(map, k, trees[k])
                           /\ Ripe(map, GoalOf(k), trees[k].fwd)
                           /\ Ripe(map, StartOf(k), trees[k].bwd)
      <3> SUFFICES ASSUME NEW k \in Layer
                   PROVE  /\ BiSound(map, k, trees[k])
                          /\ Ripe(map, GoalOf(k), trees[k].fwd)
                          /\ Ripe(map, StartOf(k), trees[k].bwd)
        OBVIOUS
      <3>1. /\ trees[k].fwd = BiSide(StartOf(k)) /\ trees[k].bwd = BiSide(GoalOf(k))
            /\ trees[k].side = "fwd"
        BY <2>1 DEF BiTree
      <3> QED BY <1>4, <2>2, <3>1 DEF BiSound
    <2> QED BY <1>2, <2>1, <2>3 DEF BiInv
  <1>6. ASSUME system = "AnaStar" PROVE AnaInv(map, trees, entry)
    <2>1. DOMAIN trees = Layer /\ \A k \in Layer : trees[k] = AnaTree(k)
      BY <1>1, <1>6 DEF AnaInit
    <2>2. ASSUME NEW k \in Layer PROVE AnaSound(map, k, trees[k]) /\ entry[Ids(k)] = trees[k].bound
      <3> DEFINE s == trees[k]
                 root == StartOf(k)
      <3>1. /\ s.cost = Costs(root) /\ s.parent = Rooted(root) /\ s.open = {root} /\ s.bound = None
            /\ IsAnaTree(s)
        BY <2>1 DEF AnaTree, IsAnaTree
      <3>2. root \in V /\ GoalOf(k) \in V /\ root # GoalOf(k)
        BY <1>4
      <3> HIDE DEF s, root
      <3>3. Ways(map, root, s) /\ \A n \in V : s.cost[n] # None <=> n = root
        BY <1>1, <3>1, <3>2, NewWays
      <3>4. Explored(map, GoalOf(k), s) /\ Bounded(GoalOf(k), s)
        BY <3>1, <3>2, <3>3 DEF Explored, Bounded
      <3>5. AnaSound(map, k, s)
        BY <3>1, <3>2, <3>3, <3>4 DEF AnaSound, root
      <3>6. entry[Ids(k)] = s.bound
        BY <1>2, <3>1
      <3> QED BY <3>5, <3>6 DEF s
    <2>3. \A i, j \in Tree : Linked(map, i, j)
      BY <1>1, <1>6 DEF MapLinks, Distance, Linked, Shorts
    <2> QED BY <2>1, <2>2, <2>3 DEF AnaInv
  <1> QED BY <1>1, <1>2, <1>3, <1>5, <1>6 DEF SearchInv

\* The end of an expansion that found the pair of k to be d apart.
LEMMA RecordKeeps ==
  ASSUME NEW k \in Layer, NEW d \in Nat, Matrices(entry, joint, sets), updated \in BOOLEAN,
         Record(k, d), sets' = Connect({Ids(k)[1], Ids(k)[2]}, sets),
         joint' \in Entry, Symmetric(joint')
  PROVE  /\ Matrices(entry', joint', sets') /\ updated' \in BOOLEAN
         /\ entry'[Ids(k)] \in Nat /\ entry'[Ids(k)] <= d
         /\ entry'[Ids(k)] = IF Shorter(k, d) THEN d ELSE entry[Ids(k)]
         /\ entry[Ids(k)] \in Nat => entry'[Ids(k)] <= entry[Ids(k)]
         /\ \A j \in Layer \ {k} : entry'[Ids(j)] = entry[Ids(j)]
  <1> DEFINE p == Ids(k)
             W == Nat \cup {None}
  <1>1. p \in Pair /\ p \in Square /\ None \notin Nat /\ d # None
    BY IdsOfLayers, NoneAssumption, PairFacts DEF Square
  <1>2. /\ entry \in [Square -> W] /\ Symmetric(entry) /\ \A i \in Tree : entry[<<i, i>>] = 0
        /\ Partitions(sets, Tree, LinkPairs(entry))
    BY DEF Matrices, Entry
  <1>3. entry[p] \in Nat \/ entry[p] = None
    BY <1>1, <1>2
  <1>4. Shorter(k, d) <=> (entry[p] = None \/ d < entry[p])
    BY <1>1 DEF Shorter
  <1>5. Shorter(k, d) => entry' = BothWays(entry, p, d) /\ updated' = TRUE
    BY DEF Record, BothWays
  <1>6. ~Shorter(k, d) => entry' = entry /\ updated' = updated /\ entry[p] \in Nat /\ entry[p] <= d
    BY <1>1, <1>3, <1>4 DEF Record
  <1> HIDE DEF p
  <1>7. /\ BothWays(entry, p, d) \in [Square -> W]
        /\ \A q \in Square : BothWays(entry, p, d)[q] =
             IF q = p \/ q = <<p[2], p[1]>> THEN d ELSE entry[q]
        /\ Symmetric(BothWays(entry, p, d))
        /\ \A q \in Pair \ {p} : BothWays(entry, p, d)[q] = entry[q]
        /\ BothWays(entry, p, d)[p] = d
    <2>1. d \in W
      OBVIOUS
    <2> HIDE DEF W
    <2>2. /\ entry \in [Square -> W] /\ p \in Pair /\ Symmetric(entry)
      BY <1>1, <1>2
    <2>3. BothWays(entry, p, d) \in [Square -> W]
      BY <2>1, <2>2, WritingBothWays
    <2>4. \A q \in Pair : q \in Square
      BY PairFacts DEF Square
    <2> QED BY <1>1, <2>1, <2>2, <2>3, <2>4, WritingBothWays
  <1>8. /\ entry' \in [Square -> W] /\ Symmetric(entry') /\ updated' \in BOOLEAN
        /\ \A q \in Pair \ {p} : entry'[q] = entry[q]
        /\ entry'[p] = IF Shorter(k, d) THEN d ELSE entry[p]
    <2> HIDE DEF W
    <2> QED BY <1>2, <1>5, <1>6, <1>7
  <1>9. \A i \in Tree : entry'[<<i, i>>] = 0
    <2> SUFFICES ASSUME NEW i \in Tree PROVE entry'[<<i, i>>] = 0
      OBVIOUS
    <2>1. <<i, i>> \in Square /\ <<i, i>> # p /\ <<i, i>> # <<p[2], p[1]>>
      BY <1>1, PairFacts DEF Square
    <2>2. entry'[<<i, i>>] = entry[<<i, i>>]
      BY <1>5, <1>6, <1>7, <2>1
    <2> QED BY <1>2, <2>2
  <1>10. entry'[p] \in Nat /\ entry'[p] <= d /\ (entry[p] \in Nat => entry'[p] <= entry[p])
    <2>1. CASE Shorter(k, d)
      <3>1. entry'[p] = d
        BY <1>8, <2>1
      <3>2. entry[p] \in Nat => d < entry[p]
        BY <1>1, <1>4, <2>1
      <3> QED BY <3>1, <3>2
    <2>2. CASE ~Shorter(k, d)
      BY <1>6, <2>2
    <2> QED BY <2>1, <2>2
  <1>11. LinkPairs(entry') = LinkPairs(entry) \cup {{p[1], p[2]}}
    <2>1. \A q \in Pair : entry'[q] # None <=> (entry[q] # None \/ q = p)
      <3> SUFFICES ASSUME NEW q \in Pair PROVE entry'[q] # None <=> (entry[q] # None \/ q = p)
        OBVIOUS
      <3>1. CASE q = p
        BY <1>1, <1>10, <3>1
      <3>2. CASE q # p
        BY <1>8, <3>2
      <3> QED BY <3>1, <3>2
    <2> QED BY <1>1, <2>1 DEF LinkPairs
  <1>12. Partitions(sets', Tree, LinkPairs(entry'))
    <2>1. IsPair({p[1], p[2]}, Tree)
      BY <1>1, SetsOfTrees
    <2>2. sets' = Connect({p[1], p[2]}, sets)
      BY DEF p
    <2>3. IsTrees(Tree) /\ Partitions(sets, Tree, LinkPairs(entry))
      BY <1>2, TreesNumbered
    <2>4. Partitions(Connect({p[1], p[2]}, sets), Tree, LinkPairs(entry) \cup {{p[1], p[2]}})
      BY <2>1, <2>3, ConnectPartitions
    <2> QED BY <1>11, <2>2, <2>4
  <1>13. Matrices(entry', joint', sets')
    BY <1>8, <1>9, <1>12 DEF Matrices, Entry
  <1>14. \A j \in Layer \ {k} : entry'[Ids(j)] = entry[Ids(j)]
    <2>1. \A j \in Layer \ {k} : Ids(j) \in Pair \ {p}
      BY IdsOfLayers DEF p
    <2> QED BY <1>8, <2>1
  <1> QED BY <1>8, <1>10, <1>13, <1>14 DEF p

\* The sets stay connected once they are.
LEMMA ConnectedStays ==
  ASSUME NEW p, NEW ds, ds.connected PROVE Connect(p, ds) = ds
  BY DEF Connect

-----------------------------------------------------------------------------
(* Steps of both planners                                                   *)

\* A step that changes nothing keeps the invariant.
LEMMA StutterInv == SearchInv /\ UNCHANGED vars => SearchInv'
  <1> SUFFICES ASSUME SearchInv, UNCHANGED vars PROVE SearchInv'
    OBVIOUS
  <1>1. /\ map' = map /\ system' = system /\ entry' = entry /\ joint' = joint /\ sets' = sets
        /\ trees' = trees /\ unexplored' = unexplored /\ best' = best /\ phase' = phase
        /\ busy' = busy /\ updated' = updated
    BY DEF vars, coreVars, core
  <1>2. Scheduled' /\ Answered'
    BY <1>1 DEF SearchInv, Scheduled, Answered
  <1> QED BY <1>1, <1>2 DEF SearchInv

\* A step that changes neither matrices nor trees, and looks at no further tree.
LEMMA QuietStep ==
  ASSUME SearchInv, map' = map, system' = system, entry' = entry, joint' = joint,
         sets' = sets, trees' = trees,
         unexplored' = unexplored \/ system = "AnaStar",
         Scheduled', Answered'
  PROVE  SearchInv'
  BY DEF SearchInv

\* The end of the loop keeps the invariant.
LEMMA EndSearchInv == SearchInv /\ EndSearch /\ UNCHANGED system => SearchInv'
  <1> SUFFICES ASSUME SearchInv, EndSearch, UNCHANGED system PROVE SearchInv'
    OBVIOUS
  <1>1. /\ map' = map /\ system' = system /\ entry' = entry /\ joint' = joint /\ sets' = sets
        /\ trees' = trees /\ unexplored' = unexplored /\ best' = best /\ phase' = "force"
        /\ busy' = busy /\ updated' = updated /\ busy = None
    BY DEF EndSearch, core
  <1>2. Scheduled /\ Answered
    BY DEF SearchInv
  <1>3. Scheduled' /\ Answered'
    BY <1>1, <1>2 DEF Scheduled, Answered
  <1> QED BY <1>1, <1>3, QuietStep

-----------------------------------------------------------------------------
(* The legs joined                                                          *)

\* rest[k] is the road from the start of leg k on.
IsJoin(rest, legs, N, V) ==
  /\ rest[N + 1] = <<Stop[Goal]>>
  /\ \A k \in 1..N : rest[k] = Front(legs[k]) \o rest[k + 1]
  /\ \A k \in 1..(N + 1) : rest[k] \in Seq(V)

\* A list without its last is a list.
LEMMA FrontType ==
  ASSUME NEW V, NEW q \in Seq(V) PROVE Front(q) \in Seq(V)
  <1>1. CASE q = <<>>
    <2>1. Front(q) = <<>>
      BY <1>1 DEF Front
    <2> QED BY <2>1
  <1>2. CASE q # <<>>
    <2>1. Len(q) \in Nat \ {0}
      BY <1>2
    <2>2. Len(q) - 1 \in Nat /\ Len(q) - 1 <= Len(q) /\ q \in [1..Len(q) -> V]
      BY <2>1
    <2>3. SubSeq(q, 1, Len(q) - 1) \in Seq(V)
      BY <2>1, <2>2
    <2> QED BY <2>3 DEF Front
  <1> QED BY <1>1, <1>2

\* JoinedPath is the first of the tables of its rests.
LEMMA JoinIsTable ==
  ASSUME NEW V, Stop[Goal] \in V, NEW N \in Nat \ {0}, NEW legs \in [1..N -> Seq(V) \ {Panic}]
  PROVE  \E rest : IsJoin(rest, legs, N, V) /\ JoinedPath(legs) = rest[1]
  <1> DEFINE S == 1..N
             W == Seq(V)
             base == <<Stop[Goal]>>
             pick == [s \in SUBSET S |-> Min(s)]
             h == [x \in S \X W |-> Front(legs[x[1]]) \o x[2]]
             step(f) == [s \in SUBSET S |->
                           IF s = {} THEN base
                           ELSE LET x == Min(s) IN Front(legs[x]) \o f[s \ {x}]]
             iter == CHOOSE f : f = step(f)
             rest == [k \in 1..(N + 1) |-> iter[k..N]]
  <1>1. IsFiniteSet(S) /\ base \in W
    <2>1. IsFiniteSet(S)
      BY FS_Interval
    <2> QED BY <2>1
  <1>2. ASSUME NEW s \in SUBSET S, s # {} PROVE Min(s) \in s /\ \A y \in s : Min(s) <= y
    <2>1. s \in SUBSET Nat
      OBVIOUS
    <2>2. \E x \in s : \A y \in s : x <= y
      BY <1>2, <2>1, LeastNatural
    <2> QED BY <2>2 DEF Min
  <1>3. \A x \in S : Front(legs[x]) \in W
    BY FrontType
  <1>4. h \in [S \X W -> W]
    <2>1. ASSUME NEW x \in S \X W PROVE Front(legs[x[1]]) \o x[2] \in W
      <3>1. Front(legs[x[1]]) \in W /\ x[2] \in W
        BY <1>3
      <3> QED BY <3>1
    <2> HIDE DEF W, S
    <2> QED BY <2>1
  <1>5. \A s \in SUBSET S : s # {} => pick[s] \in s /\ pick[s] = Min(s)
    BY <1>2
  <1>6. PICK f : IsFold(f, S, W, base, pick, h)
    <2>1. \A s \in SUBSET S : s # {} => pick[s] \in s
      BY <1>5
    <2> HIDE DEF S, W, base, pick, h
    <2> QED BY <1>1, <1>4, <2>1, FoldRecursion
  <1>7. f = step(f)
    <2>1. DOMAIN f = SUBSET S /\ f = [s \in SUBSET S |-> f[s]]
      <3> HIDE DEF S, W, h, base, pick
      <3> QED BY <1>6 DEF IsFold
    <2>2. ASSUME NEW s \in SUBSET S PROVE f[s] = step(f)[s]
      <3>1. CASE s = {}
        <4>1. f[s] = base
          <5> HIDE DEF S, W, h, base, pick
          <5> QED BY <1>6, <3>1 DEF IsFold
        <4> QED BY <3>1, <4>1
      <3>2. CASE s # {}
        <4> DEFINE x == Min(s)
        <4>1. x \in s /\ pick[s] = x
          BY <1>2, <1>5, <3>2
        <4>2. s \ {x} \in SUBSET S
          OBVIOUS
        <4> HIDE DEF x
        <4>3. f[s] = h[<<x, f[s \ {x}]>>] /\ f[s \ {x}] \in W
          <5> HIDE DEF S, W, h, base, pick
          <5> QED BY <1>6, <3>2, <4>1, <4>2 DEF IsFold
        <4>4. h[<<x, f[s \ {x}]>>] = Front(legs[x]) \o f[s \ {x}]
          <5>1. <<x, f[s \ {x}]>> \in S \X W
            BY <4>1, <4>3
          <5> HIDE DEF S, W
          <5> QED BY <5>1
        <4>5. step(f)[s] = Front(legs[x]) \o f[s \ {x}]
          <5> HIDE DEF S, W, h, base, pick
          <5> QED BY <3>2 DEF x
        <4> QED BY <4>3, <4>4, <4>5
      <3> QED BY <3>1, <3>2
    <2> HIDE DEF step
    <2>3. DOMAIN step(f) = SUBSET S /\ step(f) = [s \in SUBSET S |-> step(f)[s]]
      BY DEF step
    <2> HIDE DEF S
    <2> QED BY <2>1, <2>2, <2>3
  <1>8. iter = step(iter)
    <2> HIDE DEF step
    <2> QED BY <1>7
  <1>9. JoinedPath(legs) = iter[S]
    <2>1. ~ \E k \in DOMAIN legs : legs[k] = Panic
      OBVIOUS
    <2>2. DOMAIN legs = S
      OBVIOUS
    <2> QED BY <2>1, <2>2 DEF JoinedPath, FoldRight, MapThenFoldSet
  <1> HIDE DEF iter
  <1>10. /\ iter[{}] = base
         /\ \A s \in SUBSET S : s # {} => iter[s] = Front(legs[Min(s)]) \o iter[s \ {Min(s)}]
    <2>1. {} \in SUBSET S
      OBVIOUS
    <2>2. \A s \in SUBSET S : iter[s] = step(iter)[s]
      BY <1>8
    <2>3. \A s \in SUBSET S : step(iter)[s] =
            IF s = {} THEN base ELSE Front(legs[Min(s)]) \o iter[s \ {Min(s)}]
      OBVIOUS
    <2> HIDE DEF step, S, base
    <2> QED BY <2>1, <2>2, <2>3
  <1>11. rest[N + 1] = base
    <2>1. (N + 1)..N = {} /\ N + 1 \in 1..(N + 1)
      OBVIOUS
    <2> QED BY <1>10, <2>1
  <1>12. ASSUME NEW k \in 1..N PROVE rest[k] = Front(legs[k]) \o rest[k + 1]
    <2> DEFINE s == k..N
    <2>1. s \in SUBSET S /\ k \in s /\ s \ {k} = (k + 1)..N /\ \A y \in s : k <= y
      OBVIOUS
    <2>2. k \in 1..(N + 1) /\ k + 1 \in 1..(N + 1)
      OBVIOUS
    <2>3. rest[k] = iter[s] /\ rest[k + 1] = iter[(k + 1)..N]
      BY <2>2
    <2> HIDE DEF s
    <2>4. Min(s) \in s /\ Min(s) <= k
      BY <1>2, <2>1
    <2>5. Min(s) = k
      <3>1. k <= Min(s) /\ Min(s) \in Int
        BY <2>1, <2>4
      <3> QED BY <2>4, <3>1
    <2>6. iter[s] = Front(legs[k]) \o iter[s \ {k}]
      BY <1>10, <2>1, <2>5
    <2> QED BY <2>1, <2>3, <2>6
  <1>13. rest[1] = iter[S]
    BY DEF S
  <1> HIDE DEF rest, iter, step, h, pick
  <1> DEFINE Good == {j \in Nat : j <= N => rest[(N + 1) - j] \in W}
  <1>14. Nat \subseteq Good
    <2>1. 0 \in Good
      <3>1. (N + 1) - 0 = N + 1
        OBVIOUS
      <3> HIDE DEF W
      <3> QED BY <1>1, <1>11, <3>1
    <2>2. ASSUME NEW j \in Nat, j \in Good PROVE j + 1 \in Good
      <3> SUFFICES ASSUME j + 1 <= N PROVE rest[(N + 1) - (j + 1)] \in W
        OBVIOUS
      <3> DEFINE k == N - j
      <3>1. k \in 1..N /\ k + 1 = (N + 1) - j /\ k = (N + 1) - (j + 1) /\ j <= N
        OBVIOUS
      <3> HIDE DEF k
      <3>2. rest[k + 1] \in W
        BY <2>2, <3>1
      <3>3. Front(legs[k]) \in W
        BY <1>3, <3>1 DEF S
      <3>4. rest[k] = Front(legs[k]) \o rest[k + 1]
        BY <1>12, <3>1
      <3>5. rest[k] \in W
        BY <3>2, <3>3, <3>4
      <3> QED BY <3>1, <3>5
    <2> HIDE DEF Good
    <2> QED BY <2>1, <2>2, NatSetInduction
  <1>15. ASSUME NEW k \in 1..(N + 1) PROVE rest[k] \in W
    <2>1. (N + 1) - k \in Nat /\ (N + 1) - k <= N /\ (N + 1) - ((N + 1) - k) = k
      OBVIOUS
    <2>2. (N + 1) - k \in Good
      <3> HIDE DEF Good
      <3> QED BY <1>14, <2>1
    <2> DEFINE j == (N + 1) - k
    <2>3. rest[(N + 1) - j] \in W
      BY <2>1, <2>2
    <2> QED BY <2>1, <2>3
  <1>16. IsJoin(rest, legs, N, V)
    BY <1>11, <1>12, <1>15 DEF IsJoin
  <1> QED BY <1>9, <1>13, <1>16

-----------------------------------------------------------------------------
(* Tours and answers                                                        *)

\* What a tour of finite length is.
LEMMA TourFacts ==
  ASSUME entry \in Entry, NEW s \in LinkedTours
  PROVE  /\ s \in Seq(Tree) /\ Len(s) \in Nat /\ Len(s) >= 2 /\ Len(s) <= MaxTour
         /\ s[1] = 0 /\ s[Len(s)] = Goal
         /\ \A i \in Tree : \E k \in 1..Len(s) : s[k] = i
         /\ \A k \in 1..Len(s) : s[k] \in Tree
         /\ \A k \in 1..(Len(s) - 1) :
              /\ s[k] # s[k + 1] /\ <<s[k], s[k + 1]>> \in Square
              /\ entry[<<s[k], s[k + 1]>>] \in Nat
         /\ Length(entry, s) \in Nat
  <1>1. /\ s \in UNION {[1..n -> Tree] : n \in 2..MaxTour}
        /\ s[1] = 0 /\ s[Len(s)] = Goal /\ ToSet(s) = Tree
        /\ \A k \in DOMAIN Legs(s) : Legs(s)[k][1] # Legs(s)[k][2]
        /\ \A k \in DOMAIN Legs(s) : entry[Legs(s)[k]] # None
    BY DEF LinkedTours, Tours
  <1>2. PICK n \in 2..MaxTour : s \in [1..n -> Tree]
    BY <1>1
  <1>3. MaxTour \in Nat
    BY StopAssumption
  <1>4. s \in Seq(Tree) /\ Len(s) = n /\ n \in Nat /\ n >= 2 /\ n <= MaxTour
    <2>1. n \in Nat /\ n >= 2 /\ n <= MaxTour
      BY <1>3
    <2> QED BY <1>2, <2>1
  <1>5. \A i \in Tree : \E k \in 1..Len(s) : s[k] = i
    <2>1. DOMAIN s = 1..Len(s)
      BY <1>4
    <2> QED BY <1>1, <2>1 DEF ToSet
  <1>6. \A k \in 1..Len(s) : s[k] \in Tree
    BY <1>2, <1>4
  <1>7. ASSUME NEW k \in 1..(Len(s) - 1)
        PROVE  /\ s[k] # s[k + 1] /\ <<s[k], s[k + 1]>> \in Square
               /\ entry[<<s[k], s[k + 1]>>] \in Nat
    <2>1. k \in 1..Len(s) /\ k + 1 \in 1..Len(s)
      BY <1>4
    <2>2. s[k] \in Tree /\ s[k + 1] \in Tree
      BY <1>6, <2>1
    <2>3. k \in DOMAIN Legs(s) /\ Legs(s)[k] = <<s[k], s[k + 1]>>
      BY DEF Legs
    <2>4. s[k] # s[k + 1] /\ entry[<<s[k], s[k + 1]>>] # None
      BY <1>1, <2>3
    <2>5. <<s[k], s[k + 1]>> \in Square
      BY <2>2 DEF Square
    <2> QED BY <2>4, <2>5 DEF Entry
  <1>8. Length(entry, s) \in Nat
    <2>1. Len(s) \in Nat \ {0}
      BY <1>4
    <2> QED BY <1>7, <2>1, LengthOfSteps
  <1> QED BY <1>1, <1>4, <1>5, <1>6, <1>7, <1>8

Answer == [cost : Nat, tour : Seq(Nat), path : Seq(Nat)]

\* What asking the solver changes.
LEMMA SolveFrame ==
  ASSUME NEW force \in BOOLEAN, NEW paths, entry \in Entry, Solve(force, paths),
         \A s \in LinkedTours : paths[s] \in Seq(Nat)
  PROVE  /\ map' = map /\ entry' = entry /\ joint' = joint /\ sets' = sets /\ trees' = trees
         /\ unexplored' = unexplored /\ busy' = busy
         /\ updated' = updated \/ updated' = FALSE
         /\ best' = best \/ (sets.connected /\ best' # None)
         /\ force /\ sets.connected => best' # None
  <1>1. /\ map' = map /\ entry' = entry /\ joint' = joint /\ sets' = sets /\ trees' = trees
        /\ unexplored' = unexplored /\ busy' = busy
    BY DEF Solve
  <1>2. \/ /\ ~(sets.connected /\ (force \/ updated))
           /\ best' = best /\ updated' = updated
        \/ /\ sets.connected
           /\ \E a \in Answers :
                \/ /\ best' = [cost |-> a.cost, tour |-> a.tour, path |-> paths[a.tour]]
                   /\ updated' = FALSE
                \/ /\ best # None
                   /\ best' = best /\ updated' = updated
    BY DEF Solve
  <1>3. ASSUME NEW a \in Answers
        PROVE  [cost |-> a.cost, tour |-> a.tour, path |-> paths[a.tour]] # None
    <2>1. PICK r \in LinkedTours, s \in LinkedTours :
            a = [cost |-> Length(entry, r), tour |-> s]
      BY DEF Answers
    <2>2. a.cost = Length(entry, r) /\ a.tour = s
      BY <2>1
    <2>3. Length(entry, r) \in Nat
      BY TourFacts
    <2>4. s \in Seq(Nat)
      <3>1. s \in Seq(Tree) /\ \A i \in Tree : i \in Nat
        BY TourFacts, TreesNumbered
      <3>2. Len(s) \in Nat /\ s \in [1..Len(s) -> Tree]
        BY <3>1
      <3>3. s \in [1..Len(s) -> Nat]
        <4> HIDE DEF Tree
        <4> QED BY <3>1, <3>2
      <3> QED BY <3>2, <3>3
    <2>5. paths[s] \in Seq(Nat)
      OBVIOUS
    <2>6. [cost |-> a.cost, tour |-> a.tour, path |-> paths[a.tour]] \in Answer
      BY <2>2, <2>3, <2>4, <2>5 DEF Answer
    <2> QED BY <2>6, AnswerAssumption DEF Answer
  <1> QED BY <1>1, <1>2, <1>3

\* A list turned round is as long.
LEMMA ReverseType ==
  ASSUME NEW V, NEW q \in Seq(V)
  PROVE  Reverse(q) \in Seq(V) /\ Len(Reverse(q)) = Len(q)
  <1>1. Len(q) \in Nat /\ q \in [1..Len(q) -> V]
    OBVIOUS
  <1>2. \A i \in 1..Len(q) : (Len(q) - i) + 1 \in 1..Len(q)
    BY <1>1
  <1>3. Reverse(q) \in [1..Len(q) -> V]
    BY <1>1, <1>2 DEF Reverse
  <1> QED BY <1>1, <1>3

\* The place of a tree is the same for a pair and its reverse; and one for all pairs.
LEMMA PlaceOfLeg ==
  ASSUME NEW i \in Tree, NEW j \in Tree, i # j
  PROVE  /\ PairTreeIdx(i, j) \in Layer /\ PairTreeIdx(i, j) = PairTreeIdx(j, i)
         /\ \E p \in Pair : <<i, j>> = p \/ <<i, j>> = <<p[2], p[1]>>
  <1>1. i \in Nat /\ j \in Nat
    BY TreesNumbered
  <1>2. PairTreeIdx(i, j) = PairTreeIdx(j, i)
    BY PairFacts
  <1>3. CASE i < j
    <2>1. <<i, j>> \in Pair
      BY <1>3, PairFacts
    <2> DEFINE p == <<i, j>>
    <2>2. PairTreeIdx(p[1], p[2]) \in Layer
      BY <2>1, PlacesOfPairs
    <2> QED BY <1>2, <2>1, <2>2
  <1>4. CASE j < i
    <2>1. <<j, i>> \in Pair
      BY <1>4, PairFacts
    <2> DEFINE p == <<j, i>>
    <2>2. PairTreeIdx(p[1], p[2]) \in Layer
      BY <2>1, PlacesOfPairs
    <2>3. <<i, j>> = <<p[2], p[1]>>
      OBVIOUS
    <2> QED BY <1>2, <2>1, <2>2, <2>3
  <1> QED BY <1>1, <1>3, <1>4

\* A leg of finite length is a list of nodes, in whichever tree it is looked for.
LEMMA LegType ==
  ASSUME SearchInv, NEW i \in Tree, NEW j \in Tree, i # j, entry[<<i, j>>] # None
  PROVE  /\ system = "BiAstar" => BiLeg(i, j) \in Seq(Vertices(map.size))
         /\ system = "AnaStar" => AnaLeg(i, j) \in Seq(Vertices(map.size))
  <1> DEFINE V == Vertices(map.size)
             k == PairTreeIdx(i, j)
  <1>1. map \in Map /\ Matrices(entry, joint, sets)
    BY DEF SearchInv
  <1>2. k \in Layer
    BY PlaceOfLeg
  <1>3. StartOf(k) \in V /\ GoalOf(k) \in V
    BY <1>1, <1>2, StopsOfLayers
  <1>4. <<>> \in Seq(V)
    OBVIOUS
  <1> HIDE DEF k
  <1>5. ASSUME system = "BiAstar" PROVE BiLeg(i, j) \in Seq(V)
    <2>1. BiInv(map, trees, entry, joint, unexplored)
      BY <1>5 DEF SearchInv
    <2>2. BiSound(map, k, trees[k])
      BY <1>2, <2>1 DEF BiInv
    <2> DEFINE x == IF joint[<<i, j>>] = None THEN Stop[i] ELSE joint[<<i, j>>]
               up == Climb(trees[k].fwd.parent, x, StartOf(k))
               down == Climb(trees[k].bwd.parent, x, GoalOf(k))
    <2>3. /\ trees[k].fwd.parent \in [V -> V \cup {None}]
          /\ trees[k].bwd.parent \in [V -> V \cup {None}]
      BY <2>2 DEF BiSound, Side, Ways
    <2>4. joint[<<i, j>>] \in V
      <3>1. PICK p \in Pair : <<i, j>> = p \/ <<i, j>> = <<p[2], p[1]>>
        BY PlaceOfLeg
      <3>2. PICK h \in Layer : Ids(h) = p
        BY IdsOfLayers
      <3>3. p \in Square
        BY PairFacts DEF Square
      <3>4. entry[<<i, j>>] = entry[p] /\ joint[<<i, j>>] = joint[p]
        BY <1>1, <3>1, <3>3 DEF Matrices, Symmetric, Square
      <3>5. Joins(map, trees[h], joint[p], entry[p])
        BY <2>1, <3>2, <3>4 DEF BiInv
      <3> QED BY <3>4, <3>5 DEF Joins
    <2>5. x \in V
      <3>1. Stop[i] \in V
        BY <1>1, MapFacts
      <3> QED BY <2>4, <3>1
    <2>6. up \in Seq(V) /\ down \in Seq(V)
      <3> HIDE DEF x
      <3> QED BY <1>1, <2>3, <2>5, ClimbType
    <2>7. BiLeg(i, j) = IF up = Panic \/ down = Panic THEN Panic
                        ELSE IF Ids(k)[1] = i THEN Reverse(up) \o Tail(down)
                             ELSE Reverse(down) \o Tail(up)
      BY DEF BiLeg, k
    <2> HIDE DEF up, down, V
    <2>8. CASE up = Panic \/ down = Panic
      BY <1>4, <2>7, <2>8 DEF Panic
    <2>9. CASE ~(up = Panic \/ down = Panic)
      <3>1. Reverse(up) \in Seq(V) /\ Reverse(down) \in Seq(V)
        BY <2>6, ReverseType
      <3>2. Tail(up) \in Seq(V) /\ Tail(down) \in Seq(V)
        BY <2>6, <2>9 DEF Panic
      <3>3. Reverse(up) \o Tail(down) \in Seq(V) /\ Reverse(down) \o Tail(up) \in Seq(V)
        BY <3>1, <3>2
      <3> QED BY <2>7, <2>9, <3>3
    <2> QED BY <2>8, <2>9
  <1>6. ASSUME system = "AnaStar" PROVE AnaLeg(i, j) \in Seq(V)
    <2>1. AnaInv(map, trees, entry)
      BY <1>6 DEF SearchInv
    <2>2. AnaSound(map, k, trees[k])
      BY <1>2, <2>1 DEF AnaInv
    <2> DEFINE up == Climb(trees[k].parent, GoalOf(k), StartOf(k))
    <2>3. trees[k].parent \in [V -> V \cup {None}]
      BY <2>2 DEF AnaSound, Ways
    <2>4. up \in Seq(V)
      BY <1>1, <1>3, <2>3, ClimbType
    <2>5. AnaLeg(i, j) = IF up = Panic THEN Panic
                         ELSE IF Ids(k)[1] = i THEN Reverse(up) ELSE up
      BY DEF AnaLeg, k
    <2> HIDE DEF up, V
    <2>6. Reverse(up) \in Seq(V)
      BY <2>4, ReverseType
    <2> QED BY <1>4, <2>4, <2>5, <2>6 DEF Panic
  <1> QED BY <1>5, <1>6

\* What update_path makes of a tour of finite length is a list of nodes.
LEMMA PathType ==
  ASSUME SearchInv, NEW s \in LinkedTours
  PROVE  PathOf[s] \in Seq(Nat)
  <1> DEFINE V == Vertices(map.size)
             N == Len(s) - 1
             bi == [k \in DOMAIN Legs(s) |-> BiLeg(Legs(s)[k][1], Legs(s)[k][2])]
             ana == [k \in DOMAIN Legs(s) |-> AnaLeg(Legs(s)[k][1], Legs(s)[k][2])]
             legs == IF system = "BiAstar" THEN bi ELSE ana
  <1>1. map \in Map /\ entry \in Entry /\ system \in {"BiAstar", "AnaStar"}
    BY DEF SearchInv, Matrices
  <1>2. /\ N \in Nat \ {0}
        /\ \A k \in 1..N : /\ s[k] \in Tree /\ s[k + 1] \in Tree /\ s[k] # s[k + 1]
                           /\ entry[<<s[k], s[k + 1]>>] # None
    <2>1. /\ Len(s) \in Nat /\ Len(s) >= 2
          /\ \A k \in 1..Len(s) : s[k] \in Tree
          /\ \A k \in 1..(Len(s) - 1) : s[k] # s[k + 1]
                                        /\ entry[<<s[k], s[k + 1]>>] \in Nat
      BY <1>1, TourFacts
    <2>2. \A k \in 1..N : k \in 1..Len(s) /\ k + 1 \in 1..Len(s)
      BY <2>1
    <2> QED BY <2>1, <2>2, NoneAssumption
  <1>3. DOMAIN Legs(s) = 1..N /\ \A k \in 1..N : Legs(s)[k] = <<s[k], s[k + 1]>>
    BY DEF Legs
  <1>4. PathOf[s] = JoinedPath(legs)
    BY <1>1 DEF PathOf, BiPath, AnaPath
  <1>5. DOMAIN legs = 1..N /\ legs = [k \in 1..N |-> legs[k]]
    BY <1>3
  <1>6. \A k \in 1..N : legs[k] \in Seq(V)
    <2> SUFFICES ASSUME NEW k \in 1..N PROVE legs[k] \in Seq(V)
      OBVIOUS
    <2>1. /\ bi[k] = BiLeg(s[k], s[k + 1])
          /\ ana[k] = AnaLeg(s[k], s[k + 1])
      BY <1>3
    <2>2. /\ system = "BiAstar" => BiLeg(s[k], s[k + 1]) \in Seq(V)
          /\ system = "AnaStar" => AnaLeg(s[k], s[k + 1]) \in Seq(V)
      BY <1>2, LegType
    <2> HIDE DEF bi, ana
    <2> QED BY <1>1, <2>1, <2>2
  <1> HIDE DEF legs, N
  <1>7. V \subseteq Nat /\ Stop[Goal] \in V
    <2>1. Goal \in Tree /\ map.size \in Nat
      BY <1>1, MapFacts, TreesNumbered
    <2> QED BY <1>1, <2>1, MapFacts DEF Vertices
  <1>8. JoinedPath(legs) \in Seq(V)
    <2>1. CASE \E k \in 1..N : legs[k] = Panic
      <3>1. JoinedPath(legs) = <<>>
        BY <1>5, <2>1 DEF JoinedPath, Panic
      <3> QED BY <3>1
    <2>2. CASE ~ \E k \in 1..N : legs[k] = Panic
      <3>1. legs \in [1..N -> Seq(V) \ {Panic}]
        <4> HIDE DEF V
        <4> QED BY <1>5, <1>6, <2>2
      <3>2. PICK rest : IsJoin(rest, legs, N, V) /\ JoinedPath(legs) = rest[1]
        BY <1>2, <1>7, <3>1, JoinIsTable
      <3>3. 1 \in 1..(N + 1)
        BY <1>2
      <3> QED BY <3>2, <3>3 DEF IsJoin
    <2> QED BY <2>1, <2>2
  <1> DEFINE path == JoinedPath(legs)
  <1> HIDE DEF path, V
  <1>9. path \in Seq(Nat)
    <2>1. Len(path) \in Nat /\ path \in [1..Len(path) -> V]
      BY <1>8 DEF path
    <2>2. path \in [1..Len(path) -> Nat]
      BY <1>7, <2>1
    <2> QED BY <2>1, <2>2
  <1> QED BY <1>4, <1>9 DEF path

\* The solver asked after an expansion keeps the invariant.
LEMMA SolveTurnInv == SearchInv /\ SolveTurn(PathOf) /\ UNCHANGED system => SearchInv'
  <1> SUFFICES ASSUME SearchInv, SolveTurn(PathOf), UNCHANGED system PROVE SearchInv'
    OBVIOUS
  <1>1. phase = "solve" /\ Solve(FALSE, PathOf) /\ phase' = "search" /\ system' = system
    BY DEF SolveTurn
  <1>2. entry \in Entry /\ Scheduled /\ Answered
    BY DEF SearchInv, Matrices
  <1>3. \A s \in LinkedTours : PathOf[s] \in Seq(Nat)
    BY PathType
  <1>4. /\ map' = map /\ entry' = entry /\ joint' = joint /\ sets' = sets /\ trees' = trees
        /\ unexplored' = unexplored /\ busy' = busy
        /\ updated' = updated \/ updated' = FALSE
        /\ best' = best \/ (sets.connected /\ best' # None)
    BY <1>1, <1>2, <1>3, SolveFrame
  <1>5. Scheduled' /\ Answered'
    BY <1>1, <1>2, <1>4 DEF Scheduled, Answered
  <1> QED BY <1>1, <1>4, <1>5, QuietStep

\* The solver asked at the end keeps the invariant, and answers if it can.
LEMMA SolveAtEndInv == SearchInv /\ SolveAtEnd(PathOf) /\ UNCHANGED system => SearchInv'
  <1> SUFFICES ASSUME SearchInv, SolveAtEnd(PathOf), UNCHANGED system PROVE SearchInv'
    OBVIOUS
  <1>1. /\ phase = "force" /\ Solve(TRUE, PathOf) /\ phase' \in {"force", "done"}
        /\ system' = system
    BY DEF SolveAtEnd
  <1>2. entry \in Entry /\ Scheduled /\ Answered
    BY DEF SearchInv, Matrices
  <1>3. \A s \in LinkedTours : PathOf[s] \in Seq(Nat)
    BY PathType
  <1>4. /\ map' = map /\ entry' = entry /\ joint' = joint /\ sets' = sets /\ trees' = trees
        /\ unexplored' = unexplored /\ busy' = busy
        /\ updated' = updated \/ updated' = FALSE
        /\ best' = best \/ (sets.connected /\ best' # None)
        /\ sets.connected => best' # None
    BY <1>1, <1>2, <1>3, SolveFrame
  <1>5. Scheduled' /\ Answered'
    BY <1>1, <1>2, <1>4 DEF Scheduled, Answered
  <1> QED BY <1>1, <1>4, <1>5, QuietStep

-----------------------------------------------------------------------------
(* Steps of bidirectional A*                                                *)

\* Taking a tree keeps the invariant.
LEMMA BiTakeInv ==
  ASSUME SearchInv, NEW k \in Layer, BiTake(k), system = "BiAstar", UNCHANGED system
  PROVE  SearchInv'
  <1>1. /\ phase = "search" /\ busy = None /\ k \in unexplored /\ busy' = k
        /\ map' = map /\ entry' = entry /\ joint' = joint /\ sets' = sets /\ updated' = updated
        /\ best' = best /\ trees' = trees /\ unexplored' = unexplored /\ phase' = phase
        /\ system' = system
    BY DEF BiTake, core
  <1>2. Scheduled /\ Answered
    BY DEF SearchInv
  <1>3. Scheduled' /\ Answered'
    BY <1>1, <1>2 DEF Scheduled, Answered
  <1> QED BY <1>1, <1>3, QuietStep

\* A side that grew is a side, and it is ripe if it did not grow from its goal.
LEMMA GrownSide ==
  ASSUME map \in Map, NEW root, NEW s, Side(map, root, s), NEW o \in s.open,
         NEW goal, Ripe(map, goal, s), o.node # goal,
         NEW to, NEW u, u = BiGrown(s, o, to)
  PROVE  Side(map, root, u) /\ Ripe(map, goal, u)
  <1> DEFINE V == Vertices(map.size)
             p == o.node
             B == Better(s, p)
             new == {[f |-> CostsVia(s, p)[n] + Air(n, to), node |-> n] : n \in B}
  <1>1. /\ Ways(map, root, s) /\ \A q \in s.open : q.node \in V /\ s.cost[q.node] # None
    BY DEF Side
  <1>2. p \in Reached(s)
    <2>1. p \in V /\ s.cost[p] # None
      BY <1>1
    <2> QED BY <1>1, <2>1 DEF Ways, Reached, Nodes, Vertices
  <1>3. Grows(s, p, u) /\ u.open = (s.open \ {o}) \cup new
    BY DEF BiGrown, Grows
  <1>4. /\ Ways(map, root, u) /\ B \in SUBSET V
        /\ \A n \in V : s.cost[n] # None => u.cost[n] # None
        /\ \A n \in V \ B : u.cost[n] = s.cost[n]
        /\ \A n \in B : u.cost[n] # None
        /\ Settled(map, u, p)
    BY <1>1, <1>2, <1>3, GrownWays
  <1>5. /\ \A q \in new : q.node \in B
        /\ \A n \in B : \E q \in new : q.node = n
    <2> DEFINE entryOf(n) == [f |-> CostsVia(s, p)[n] + Air(n, to), node |-> n]
    <2>1. new = {entryOf(n) : n \in B} /\ \A n : entryOf(n).node = n
      OBVIOUS
    <2> HIDE DEF entryOf, new, B
    <2> QED BY <2>1
  <1> HIDE DEF B, new
  <1>6. Side(map, root, u)
    <2>1. ASSUME NEW q \in u.open PROVE q.node \in V /\ u.cost[q.node] # None
      <3>1. q \in s.open \/ q.node \in B
        BY <1>3, <1>5
      <3> QED BY <1>1, <1>4, <3>1
    <2> QED BY <1>4, <2>1 DEF Side
  <1>7. ASSUME NEW n \in V, u.cost[n] # None
        PROVE  \/ \E q \in u.open : q.node = n
               \/ n # goal /\ \A k \in V : <<n, k>> \in DOMAIN map.weight => u.cost[k] # None
    <2>1. CASE n \in B
      BY <1>3, <1>5, <2>1
    <2>2. CASE n \notin B /\ n = p
      BY <1>4, <2>2 DEF Settled
    <2>3. CASE n \notin B /\ n # p
      <3>1. s.cost[n] # None
        BY <1>4, <1>7, <2>3
      <3>2. CASE \E q \in s.open : q.node = n
        BY <1>3, <2>3, <3>2
      <3>3. CASE n # goal /\ \A k \in V : <<n, k>> \in DOMAIN map.weight => s.cost[k] # None
        BY <1>4, <3>3
      <3> QED BY <3>1, <3>2, <3>3 DEF Ripe
    <2> QED BY <2>1, <2>2, <2>3
  <1> QED BY <1>6, <1>7 DEF Ripe

\* What the tree taken is like, and what the turn's side and the other are.
Turn(k, here, there, from, to) ==
  /\ Side(map, from, here) /\ Side(map, to, there)
  /\ Ripe(map, to, here) /\ Ripe(map, from, there)

\* The sides of a sound tree, by their turn.
LEMMA TurnFacts ==
  ASSUME SearchInv, system = "BiAstar", busy \in Layer, NEW t, t = trees[busy]
  PROVE  /\ map \in Map /\ BiInv(map, trees, entry, joint, unexplored)
         /\ Matrices(entry, joint, sets) /\ Scheduled /\ Answered
         /\ busy \in unexplored /\ entry[Ids(busy)] = None /\ t.side \in {"fwd", "bwd"}
         /\ Turn(busy, t.fwd, t.bwd, StartOf(busy), GoalOf(busy))
         /\ t.side = "fwd" => Here(t) = t.fwd /\ There(t) = t.bwd
         /\ t.side = "bwd" => Here(t) = t.bwd /\ There(t) = t.fwd
  <1>1. /\ map \in Map /\ BiInv(map, trees, entry, joint, unexplored)
        /\ Matrices(entry, joint, sets) /\ Scheduled /\ Answered
    BY DEF SearchInv
  <1>2. busy # None
    <2>1. \A k \in Layer : k \in Nat
      BY PlacesOfPairs DEF Layer
    <2> QED BY <2>1, NoneAssumption
  <1>3. busy \in unexplored
    BY <1>1, <1>2 DEF Scheduled
  <1>4. /\ BiSound(map, busy, t) /\ entry[Ids(busy)] = None
        /\ Ripe(map, GoalOf(busy), t.fwd) /\ Ripe(map, StartOf(busy), t.bwd)
    BY <1>1, <1>3 DEF BiInv
  <1> QED BY <1>1, <1>3, <1>4 DEF BiSound, Turn, Here, There

\* A root is reached.
LEMMA RootReached ==
  ASSUME map \in Map, NEW root, NEW s, Side(map, root, s)
  PROVE  root \in Reached(s)
  <1>1. None \notin Nat /\ map.size \in Nat
    BY NoneAssumption, MapFacts
  <1>2. Ways(map, root, s)
    BY DEF Side
  <1>3. root \in Vertices(map.size) /\ s.parent[root] = root
    BY <1>2 DEF Ways
  <1>4. root \in Nat
    BY <1>1, <1>3 DEF Vertices
  <1> QED BY <1>1, <1>3, <1>4 DEF Reached, Nodes, Vertices

\* An expansion on one side keeps the invariant.
LEMMA BiExpandInv ==
  ASSUME SearchInv, system = "BiAstar", UNCHANGED system, phase = "search", busy \in Layer,
         NEW t, t = trees[busy], NEW o \in First(Here(t).open), BiExpand(o)
  PROVE  SearchInv'
  <1> DEFINE S == StartOf(busy)
             G == GoalOf(busy)
             other == IF t.side = "fwd" THEN "bwd" ELSE "fwd"
             to == IF t.side = "fwd" THEN G ELSE S
             u == BiGrown(Here(t), o, to)
             v == Holding(t, u, other)
  <1>1. /\ map \in Map /\ BiInv(map, trees, entry, joint, unexplored)
        /\ Matrices(entry, joint, sets) /\ Scheduled /\ Answered
        /\ busy \in unexplored /\ entry[Ids(busy)] = None /\ t.side \in {"fwd", "bwd"}
        /\ Turn(busy, t.fwd, t.bwd, S, G)
        /\ t.side = "fwd" => Here(t) = t.fwd /\ There(t) = t.bwd
        /\ t.side = "bwd" => Here(t) = t.bwd /\ There(t) = t.fwd
    BY TurnFacts
  <1>2. /\ ~Meets(t, o) /\ trees' = [trees EXCEPT ![busy] = v]
        /\ map' = map /\ entry' = entry /\ joint' = joint /\ sets' = sets /\ updated' = updated
        /\ best' = best /\ unexplored' = unexplored /\ busy' = busy /\ phase' = phase
        /\ system' = system
    BY DEF BiExpand, core
  <1>3. o \in Here(t).open
    BY DEF First
  <1>4. Turn(busy, v.fwd, v.bwd, S, G) /\ v.side \in {"fwd", "bwd"}
    <2>1. CASE t.side = "fwd"
      <3>1. /\ Side(map, S, t.fwd) /\ Side(map, G, t.bwd) /\ Ripe(map, G, t.fwd)
            /\ Ripe(map, S, t.bwd)
        BY <1>1 DEF Turn
      <3>2. o \in t.fwd.open /\ o.node \notin Reached(t.bwd) /\ u = BiGrown(t.fwd, o, G)
        BY <1>1, <1>2, <1>3, <2>1 DEF Meets
      <3>3. o.node # G
        BY <1>1, <3>1, <3>2, RootReached
      <3> HIDE DEF u, S, G
      <3>4. Side(map, S, u) /\ Ripe(map, G, u)
        BY <1>1, <3>1, <3>2, <3>3, GrownSide
      <3>5. v.fwd = u /\ v.bwd = t.bwd /\ v.side = "bwd"
        BY <2>1 DEF Holding
      <3> QED BY <3>1, <3>4, <3>5 DEF Turn
    <2>2. CASE t.side = "bwd"
      <3>1. /\ Side(map, S, t.fwd) /\ Side(map, G, t.bwd) /\ Ripe(map, G, t.fwd)
            /\ Ripe(map, S, t.bwd)
        BY <1>1 DEF Turn
      <3>2. o \in t.bwd.open /\ o.node \notin Reached(t.fwd) /\ u = BiGrown(t.bwd, o, S)
        BY <1>1, <1>2, <1>3, <2>2 DEF Meets
      <3>3. o.node # S
        BY <1>1, <3>1, <3>2, RootReached
      <3> HIDE DEF u, S, G
      <3>4. Side(map, G, u) /\ Ripe(map, S, u)
        BY <1>1, <3>1, <3>2, <3>3, GrownSide
      <3>5. v.fwd = t.fwd /\ v.bwd = u /\ v.side = "fwd"
        BY <2>2 DEF Holding
      <3> QED BY <3>1, <3>4, <3>5 DEF Turn
    <2> QED BY <1>1, <2>1, <2>2
  <1> HIDE DEF v
  <1>5. DOMAIN trees' = Layer /\ \A k \in Layer : trees'[k] = IF k = busy THEN v ELSE trees[k]
    <2>1. DOMAIN trees = Layer
      BY <1>1 DEF BiInv
    <2> QED BY <1>2, <2>1
  <1>6. BiSound(map, busy, v) /\ Ripe(map, G, v.fwd) /\ Ripe(map, S, v.bwd)
    BY <1>4 DEF Turn, BiSound
  <1>7. BiInv(map, trees', entry, joint, unexplored)
    <2>1. \A k \in Layer : BiSound(map, k, trees'[k])
      BY <1>1, <1>5, <1>6 DEF BiInv
    <2>2. \A k \in unexplored : k \in Layer
      BY <1>1 DEF Scheduled
    <2>3. \A k \in unexplored : /\ Ripe(map, GoalOf(k), trees'[k].fwd)
                                /\ Ripe(map, StartOf(k), trees'[k].bwd)
                                /\ entry[Ids(k)] = None
      BY <1>1, <1>5, <1>6, <2>2 DEF BiInv
    <2>4. \A k \in Layer : entry[Ids(k)] # None =>
            Joins(map, trees'[k], joint[Ids(k)], entry[Ids(k)])
      BY <1>1, <1>5 DEF BiInv
    <2> QED BY <1>1, <1>5, <2>1, <2>3, <2>4 DEF BiInv
  <1>8. Scheduled' /\ Answered'
    BY <1>1, <1>2 DEF Scheduled, Answered
  <1>9. system' \in {"BiAstar", "AnaStar"} /\ system' # "AnaStar"
    BY <1>2
  <1> QED BY <1>1, <1>2, <1>7, <1>8, <1>9 DEF SearchInv

\* A destination is not found when a side's queue is empty, for no road leads to it.
LEMMA EmptyQueue ==
  ASSUME map \in Map, NEW root, NEW s, Side(map, root, s), s.open = {},
         NEW goal \in Vertices(map.size), Ripe(map, goal, s)
  PROVE  ~(Shorts(map)[<<root, goal>>] < Far)
  <1> SUFFICES ASSUME Shorts(map)[<<root, goal>>] < Far PROVE FALSE
    OBVIOUS
  <1> DEFINE V == Vertices(map.size)
  <1>1. Ways(map, root, s)
    BY DEF Side
  <1>2. \A n \in V : s.cost[n] # None =>
          n # goal /\ \A k \in V : <<n, k>> \in DOMAIN map.weight => s.cost[k] # None
    BY DEF Ripe
  <1>3. \A n, k \in V : s.cost[n] # None /\ <<n, k>> \in DOMAIN map.weight => s.cost[k] # None
    BY <1>2
  <1>4. s.cost[goal] # None
    BY <1>1, <1>3, ReachedIsClosed
  <1> QED BY <1>2, <1>4

\* Giving a pair up keeps the invariant: its destinations are apart.
LEMMA BiGiveUpInv ==
  ASSUME SearchInv, system = "BiAstar", UNCHANGED system, phase = "search", busy \in Layer,
         NEW t, t = trees[busy], {} \in {t.fwd.open, t.bwd.open}, BiGiveUp
  PROVE  SearchInv'
  <1> DEFINE S == StartOf(busy)
             G == GoalOf(busy)
             p == Ids(busy)
  <1>1. /\ map \in Map /\ BiInv(map, trees, entry, joint, unexplored)
        /\ Matrices(entry, joint, sets) /\ Scheduled /\ Answered
        /\ busy \in unexplored /\ Turn(busy, t.fwd, t.bwd, S, G)
    BY TurnFacts
  <1>2. /\ unexplored' = unexplored \ {busy} /\ busy' = None /\ phase' = "solve"
        /\ map' = map /\ entry' = entry /\ joint' = joint /\ sets' = sets /\ updated' = updated
        /\ best' = best /\ trees' = trees /\ system' = system
    BY DEF BiGiveUp, core
  <1>3. S \in Vertices(map.size) /\ G \in Vertices(map.size)
    BY <1>1, StopsOfLayers
  <1>4. ~Linked(map, p[1], p[2]) \/ ~Linked(map, p[2], p[1])
    <2>1. S = Stop[p[1]] /\ G = Stop[p[2]]
      BY DEF StartOf, GoalOf
    <2> HIDE DEF S, G, p
    <2>2. /\ Side(map, S, t.fwd) /\ Side(map, G, t.bwd)
          /\ Ripe(map, G, t.fwd) /\ Ripe(map, S, t.bwd)
      BY <1>1 DEF Turn
    <2>3. CASE t.fwd.open = {}
      <3>1. ~(Shorts(map)[<<S, G>>] < Far)
        BY <1>1, <1>3, <2>2, <2>3, EmptyQueue
      <3> QED BY <2>1, <3>1 DEF Linked
    <2>4. CASE t.bwd.open = {}
      <3>1. ~(Shorts(map)[<<G, S>>] < Far)
        BY <1>1, <1>3, <2>2, <2>4, EmptyQueue
      <3> QED BY <2>1, <3>1 DEF Linked
    <2> QED BY <2>3, <2>4
  <1>5. BiInv(map, trees, entry, joint, unexplored')
    BY <1>1, <1>2, <1>4 DEF BiInv
  <1>6. Scheduled' /\ Answered'
    BY <1>1, <1>2 DEF Scheduled, Answered
  <1>7. system' \in {"BiAstar", "AnaStar"} /\ system' # "AnaStar"
    BY <1>2
  <1> QED BY <1>1, <1>2, <1>5, <1>6, <1>7 DEF SearchInv

\* A meeting keeps the invariant: the entry is backed by both sides.
LEMMA BiMeetInv ==
  ASSUME SearchInv, system = "BiAstar", UNCHANGED system, phase = "search", busy \in Layer,
         NEW t, t = trees[busy], NEW o \in First(Here(t).open), BiMeet(o)
  PROVE  SearchInv'
  <1> DEFINE V == Vertices(map.size)
             S == StartOf(busy)
             G == GoalOf(busy)
             p == Ids(busy)
             x == o.node
             d == t.fwd.cost[x] + t.bwd.cost[x]
             u == [Here(t) EXCEPT !.open = @ \ {o}]
             v == Holding(t, u, t.side)
  <1>1. /\ map \in Map /\ BiInv(map, trees, entry, joint, unexplored)
        /\ Matrices(entry, joint, sets) /\ Scheduled /\ Answered
        /\ busy \in unexplored /\ entry[p] = None /\ t.side \in {"fwd", "bwd"}
        /\ Turn(busy, t.fwd, t.bwd, S, G)
        /\ t.side = "fwd" => Here(t) = t.fwd /\ There(t) = t.bwd
        /\ t.side = "bwd" => Here(t) = t.bwd /\ There(t) = t.fwd
    BY TurnFacts
  <1>2. /\ Meets(t, o) /\ trees' = [trees EXCEPT ![busy] = v] /\ Record(busy, d)
        /\ joint' = IF Shorter(busy, d) THEN BothWays(joint, p, x) ELSE joint
        /\ sets' = Connect({p[1], p[2]}, sets)
        /\ unexplored' = unexplored \ {busy} /\ busy' = None /\ phase' = "solve"
        /\ map' = map /\ best' = best /\ system' = system
    BY DEF BiMeet, BothWays
  <1>3. o \in Here(t).open /\ p \in Pair
    BY IdsOfLayers DEF First
  <1> HIDE DEF p
  <1>4. /\ x \in V /\ t.fwd.cost[x] \in Nat /\ t.bwd.cost[x] \in Nat
        /\ t.fwd.cost[x] # None /\ t.bwd.cost[x] # None
    <2>1. Side(map, S, t.fwd) /\ Side(map, G, t.bwd)
      BY <1>1 DEF Turn
    <2>2. x \in V /\ Here(t).cost[x] # None
      BY <1>1, <1>3, <2>1 DEF Side
    <2>3. x \in Reached(There(t))
      BY <1>2 DEF Meets
    <2>4. There(t).parent[x] # None
      BY <2>3 DEF Reached
    <2>5. There(t).cost[x] # None
      BY <1>1, <2>1, <2>2, <2>4 DEF Side, Ways
    <2>6. t.fwd.cost[x] # None /\ t.bwd.cost[x] # None
      BY <1>1, <2>2, <2>5
    <2>7. t.fwd.cost[x] \in Nat \cup {None} /\ t.bwd.cost[x] \in Nat \cup {None}
      BY <2>1, <2>2 DEF Side, Ways
    <2> QED BY <2>2, <2>6, <2>7
  <1>5. d \in Nat
    BY <1>4
  <1>6. /\ v.fwd.cost = t.fwd.cost /\ v.bwd.cost = t.bwd.cost /\ v.side = t.side
        /\ BiSound(map, busy, v)
    <2>1. u.cost = Here(t).cost /\ u.parent = Here(t).parent /\ u.open \subseteq Here(t).open
      <3>1. t.fwd.cost = t.fwd.cost
        OBVIOUS
      <3> QED BY DEF u
    <2>2. ASSUME NEW root, Side(map, root, Here(t)) PROVE Side(map, root, u)
      <3> HIDE DEF u
      <3> QED BY <2>1, <2>2 DEF Side, Ways
    <2> HIDE DEF u
    <2>3. CASE t.side = "fwd"
      <3>1. v.fwd = u /\ v.bwd = t.bwd /\ v.side = "fwd"
        BY <2>3 DEF Holding
      <3> HIDE DEF v
      <3> QED BY <1>1, <2>1, <2>2, <2>3, <3>1 DEF BiSound, Turn
    <2>4. CASE t.side = "bwd"
      <3>1. v.fwd = t.fwd /\ v.bwd = u /\ v.side = "bwd"
        BY <2>4 DEF Holding
      <3> HIDE DEF v
      <3> QED BY <1>1, <2>1, <2>2, <2>4, <3>1 DEF BiSound, Turn
    <2> QED BY <1>1, <2>3, <2>4
  <1> HIDE DEF v, u
  <1>7. Shorter(busy, d)
    BY <1>1, <1>5, NoneAssumption DEF Shorter, p
  <1>8. joint' = BothWays(joint, p, x)
    BY <1>2, <1>7
  <1>9. /\ joint' \in Entry /\ Symmetric(joint') /\ joint'[p] = x
        /\ \A q \in Pair \ {p} : joint'[q] = joint[q]
    <2> DEFINE W == Nat \cup {None}
    <2>1. joint \in [Square -> W] /\ Symmetric(joint)
      BY <1>1 DEF Matrices, Entry
    <2>2. x \in W
      <3>1. map.size \in Nat
        BY <1>1, MapFacts
      <3> QED BY <1>4, <3>1 DEF Vertices
    <2> HIDE DEF W, x
    <2>3. BothWays(joint, p, x) \in [Square -> W]
      BY <1>3, <2>1, <2>2, WritingBothWays
    <2>4. \A q \in Pair : q \in Square
      BY PairFacts DEF Square
    <2>5. /\ Symmetric(BothWays(joint, p, x)) /\ BothWays(joint, p, x)[p] = x
          /\ \A q \in Pair \ {p} : BothWays(joint, p, x)[q] = joint[q]
      BY <1>3, <2>1, <2>2, <2>3, <2>4, WritingBothWays
    <2> QED BY <1>8, <2>3, <2>5 DEF Entry, W
  <1>10. /\ Matrices(entry', joint', sets') /\ updated' \in BOOLEAN
         /\ entry'[p] = d /\ entry'[p] \in Nat
         /\ \A j \in Layer \ {busy} : entry'[Ids(j)] = entry[Ids(j)]
    <2>1. updated \in BOOLEAN
      BY <1>1 DEF Scheduled
    <2>2. sets' = Connect({Ids(busy)[1], Ids(busy)[2]}, sets)
      BY <1>2 DEF p
    <2> HIDE DEF d
    <2>3. Record(busy, d)
      BY <1>2 DEF d
    <2>4. Shorter(busy, d)
      BY <1>7
    <2> QED BY <1>1, <1>5, <1>9, <2>1, <2>2, <2>3, <2>4, RecordKeeps DEF p
  <1>11. \A j \in Layer \ {busy} : joint'[Ids(j)] = joint[Ids(j)]
    <2>1. \A j \in Layer \ {busy} : Ids(j) \in Pair \ {p}
      BY IdsOfLayers DEF p
    <2> QED BY <1>9, <2>1
  <1>12. DOMAIN trees' = Layer /\ \A k \in Layer : trees'[k] = IF k = busy THEN v ELSE trees[k]
    <2>1. DOMAIN trees = Layer
      BY <1>1 DEF BiInv
    <2> QED BY <1>2, <2>1
  <1>13. Joins(map, v, joint'[p], entry'[p])
    <2>1. v.fwd.cost[x] = t.fwd.cost[x] /\ v.bwd.cost[x] = t.bwd.cost[x]
      BY <1>6
    <2> HIDE DEF x
    <2> QED BY <1>4, <1>9, <1>10, <2>1 DEF Joins, d
  <1>14. BiInv(map, trees', entry', joint', unexplored')
    <2>1. \A k \in Layer : BiSound(map, k, trees'[k])
      BY <1>1, <1>6, <1>12 DEF BiInv
    <2>2. \A k \in unexplored' : k \in Layer \ {busy} /\ k \in unexplored
      BY <1>1, <1>2 DEF Scheduled
    <2>3. \A k \in unexplored' : /\ Ripe(map, GoalOf(k), trees'[k].fwd)
                                 /\ Ripe(map, StartOf(k), trees'[k].bwd)
                                 /\ entry'[Ids(k)] = None
      BY <1>1, <1>10, <1>12, <2>2 DEF BiInv
    <2>4. entry'[Ids(busy)] # None
      BY <1>10, NoneAssumption DEF p
    <2>5. \A k \in Layer \ unexplored' :
            entry'[Ids(k)] # None \/ ~Linked(map, Ids(k)[1], Ids(k)[2])
                                  \/ ~Linked(map, Ids(k)[2], Ids(k)[1])
      <3> SUFFICES ASSUME NEW k \in Layer \ unexplored', k # busy
                   PROVE  \/ entry'[Ids(k)] # None
                          \/ ~Linked(map, Ids(k)[1], Ids(k)[2])
                          \/ ~Linked(map, Ids(k)[2], Ids(k)[1])
        BY <2>4
      <3>1. k \in Layer \ unexplored /\ entry'[Ids(k)] = entry[Ids(k)]
        BY <1>2, <1>10
      <3> QED BY <1>1, <3>1 DEF BiInv
    <2>6. \A k \in Layer : entry'[Ids(k)] # None =>
            Joins(map, trees'[k], joint'[Ids(k)], entry'[Ids(k)])
      <3> SUFFICES ASSUME NEW k \in Layer, entry'[Ids(k)] # None
                   PROVE  Joins(map, trees'[k], joint'[Ids(k)], entry'[Ids(k)])
        OBVIOUS
      <3>1. CASE k = busy
        BY <1>12, <1>13, <3>1 DEF p
      <3>2. CASE k # busy
        <4>1. /\ entry'[Ids(k)] = entry[Ids(k)] /\ joint'[Ids(k)] = joint[Ids(k)]
              /\ trees'[k] = trees[k]
          BY <1>10, <1>11, <1>12, <3>2
        <4> QED BY <1>1, <4>1 DEF BiInv
      <3> QED BY <3>1, <3>2
    <2> QED BY <1>12, <2>1, <2>3, <2>5, <2>6 DEF BiInv
  <1>15. best # None => sets'.connected
    <2>1. best # None => sets.connected
      BY <1>1 DEF Answered
    <2> QED BY <1>2, <2>1, ConnectedStays
  <1>16. Scheduled'
    BY <1>1, <1>2, <1>10 DEF Scheduled
  <1>17. Answered'
    BY <1>2, <1>15 DEF Answered
  <1>18. system' \in {"BiAstar", "AnaStar"} /\ system' # "AnaStar"
    BY <1>2
  <1> QED BY <1>1, <1>2, <1>10, <1>14, <1>16, <1>17, <1>18 DEF SearchInv

\* Each step of BiAstar keeps the invariant.
LEMMA BiNextInv == SearchInv /\ system = "BiAstar" /\ BiNext /\ UNCHANGED system => SearchInv'
  <1> SUFFICES ASSUME SearchInv, system = "BiAstar", BiNext, UNCHANGED system PROVE SearchInv'
    OBVIOUS
  <1>1. CASE \E k \in Layer : BiTake(k)
    BY <1>1, BiTakeInv
  <1>2. CASE ~ \E k \in Layer : BiTake(k)
    <2> DEFINE t == trees[busy]
    <2>1. phase = "search" /\ busy \in Layer
      BY <1>2 DEF BiNext
    <2>2. \/ {} \in {t.fwd.open, t.bwd.open} /\ BiGiveUp
          \/ \E o \in First(Here(t).open) : BiExpand(o) \/ BiMeet(o)
      BY <1>2 DEF BiNext
    <2> HIDE DEF t
    <2>3. t = trees[busy]
      BY DEF t
    <2> QED BY <2>1, <2>2, <2>3, BiGiveUpInv, BiExpandInv, BiMeetInv
  <1> QED BY <1>1, <1>2

-----------------------------------------------------------------------------
(* Steps of ANA*                                                            *)

\* Taking a tree keeps the invariant.
LEMMA AnaTakeInv ==
  ASSUME SearchInv, NEW k \in Layer, AnaTake(k), system = "AnaStar", UNCHANGED system
  PROVE  SearchInv'
  <1> DEFINE left == IF unexplored = {} THEN Layer ELSE unexplored
  <1>1. /\ phase = "search" /\ busy = None /\ k \in left /\ busy' = k /\ unexplored' = left
        /\ map' = map /\ entry' = entry /\ joint' = joint /\ sets' = sets /\ updated' = updated
        /\ best' = best /\ trees' = trees /\ phase' = phase /\ system' = system
    BY DEF AnaTake, core
  <1>2. Scheduled /\ Answered
    BY DEF SearchInv
  <1>3. Scheduled' /\ Answered'
    BY <1>1, <1>2 DEF Scheduled, Answered
  <1> QED BY <1>1, <1>3, QuietStep

\* What the tree taken is like.
LEMMA AnaFacts ==
  ASSUME SearchInv, system = "AnaStar", busy \in Layer, NEW t, t = trees[busy]
  PROVE  /\ map \in Map /\ AnaInv(map, trees, entry)
         /\ Matrices(entry, joint, sets) /\ Scheduled /\ Answered
         /\ AnaSound(map, busy, t) /\ entry[Ids(busy)] = t.bound
         /\ Linked(map, Ids(busy)[1], Ids(busy)[2])
         /\ GoalOf(busy) \in Vertices(map.size)
  <1>1. /\ map \in Map /\ AnaInv(map, trees, entry)
        /\ Matrices(entry, joint, sets) /\ Scheduled /\ Answered
    BY DEF SearchInv
  <1>2. Ids(busy)[1] \in Tree /\ Ids(busy)[2] \in Tree /\ GoalOf(busy) \in Vertices(map.size)
    BY <1>1, StopsOfLayers
  <1> QED BY <1>1, <1>2 DEF AnaInv

\* A node is not worth it when it is too far to bring the goal nearer.
LEMMA WorthFacts ==
  ASSUME map \in Map, NEW k \in Layer, NEW t, t.bound \in Nat \cup {None},
         NEW n \in Vertices(map.size), t.cost[n] \in Nat
  PROVE  /\ ~Worth(k, t, n) =>
              t.bound # None /\ t.bound <= t.cost[n] + Straight(map.place[n], map.place[GoalOf(k)])
         /\ ~Worth(k, t, n) /\ n = GoalOf(k) => t.bound <= t.cost[n]
  <1> DEFINE a == Straight(map.place[n], map.place[GoalOf(k)])
  <1>1. GoalOf(k) \in Vertices(map.size)
    BY StopsOfLayers
  <1>2. a \in Nat /\ (n = GoalOf(k) => a = 0)
    BY <1>1, MapFacts, StraightIsMetric
  <1>3. Worth(k, t, n) <=> (t.bound = None \/ t.bound - t.cost[n] > a)
    BY DEF Worth, Air
  <1> HIDE DEF a
  <1>4. ASSUME ~Worth(k, t, n) PROVE t.bound # None /\ t.bound \in Nat /\ t.bound <= t.cost[n] + a
    <2>1. t.bound # None /\ t.bound \in Nat /\ ~ t.bound - t.cost[n] > a
      BY <1>3, <1>4
    <2> QED BY <1>2, <2>1
  <1>5. ASSUME ~Worth(k, t, n), n = GoalOf(k) PROVE t.bound <= t.cost[n]
    BY <1>2, <1>4, <1>5
  <1> QED BY <1>4, <1>5 DEF a

\* The fields of a tree that changes.
WithWays(t, x, y) == [t EXCEPT !.cost = x, !.parent = y]
WithOpen(t, x) == [t EXCEPT !.open = x]
WithBound(t, x, y) == [t EXCEPT !.open = x, !.bound = y]

\* The fields of a tree one or two of which were replaced.
LEMMA TreeFields ==
  ASSUME NEW t, IsAnaTree(t), NEW x, NEW y
  PROVE  /\ WithWays(t, x, y) =
              [cost |-> x, parent |-> y, open |-> t.open, bound |-> t.bound]
         /\ WithOpen(t, x) =
              [cost |-> t.cost, parent |-> t.parent, open |-> x, bound |-> t.bound]
         /\ WithBound(t, x, y) =
              [cost |-> t.cost, parent |-> t.parent, open |-> x, bound |-> y]
  <1> DEFINE c == t.cost
             p == t.parent
             o == t.open
             b == t.bound
  <1>0. t = [cost |-> c, parent |-> p, open |-> o, bound |-> b]
    BY DEF IsAnaTree
  <1> SUFFICES /\ [t EXCEPT !.cost = x, !.parent = y] =
                    [cost |-> x, parent |-> y, open |-> o, bound |-> b]
               /\ [t EXCEPT !.open = x] =
                    [cost |-> c, parent |-> p, open |-> x, bound |-> b]
               /\ [t EXCEPT !.open = x, !.bound = y] =
                    [cost |-> c, parent |-> p, open |-> x, bound |-> y]
    BY DEF WithWays, WithOpen, WithBound
  <1> HIDE DEF c, p, o, b
  <1>1. /\ [t EXCEPT !.cost = x] = [cost |-> x, parent |-> p, open |-> o, bound |-> b]
        /\ [t EXCEPT !.open = x] = [cost |-> c, parent |-> p, open |-> x, bound |-> b]
    BY <1>0
  <1>2. [[cost |-> x, parent |-> p, open |-> o, bound |-> b] EXCEPT !.parent = y] =
          [cost |-> x, parent |-> y, open |-> o, bound |-> b]
    OBVIOUS
  <1>3. [[cost |-> c, parent |-> p, open |-> x, bound |-> b] EXCEPT !.bound = y] =
          [cost |-> c, parent |-> p, open |-> x, bound |-> y]
    OBVIOUS
  <1>4. /\ [t EXCEPT !.cost = x, !.parent = y] = [[t EXCEPT !.cost = x] EXCEPT !.parent = y]
        /\ [t EXCEPT !.open = x, !.bound = y] = [[t EXCEPT !.open = x] EXCEPT !.bound = y]
    OBVIOUS
  <1> QED BY <1>1, <1>2, <1>3, <1>4

\* A tree that grew from a node that is not the goal.
LEMMA GrownTree ==
  ASSUME map \in Map, NEW k \in Layer, NEW t, AnaSound(map, k, t),
         NEW n \in t.open, n # GoalOf(k), NEW u, u = AnaGrown(k, t, n)
  PROVE  AnaSound(map, k, u) /\ u.bound = t.bound
  <1> DEFINE V == Vertices(map.size)
             B == Better(t, n)
             G == GoalOf(k)
             grown == [t EXCEPT !.cost = CostsVia(t, n), !.parent = ParentsVia(t, n)]
             W == {m \in B : Worth(k, grown, m)}
             cost == CostsVia(t, n)
             air(j) == Straight(map.place[j], map.place[G])
  <1>1. /\ IsAnaTree(t)
        /\ Ways(map, StartOf(k), t)
        /\ \A j \in t.open : j \in V /\ t.cost[j] # None
        /\ Explored(map, G, t) /\ Bounded(G, t)
    BY DEF AnaSound
  <1>2. n \in Reached(t)
    <2>1. n \in V /\ t.cost[n] # None
      BY <1>1
    <2> QED BY <1>1, <2>1 DEF Ways, Reached, Nodes, Vertices
  <1>3. /\ u = [cost |-> CostsVia(t, n), parent |-> ParentsVia(t, n),
                open |-> (t.open \ {n}) \cup W, bound |-> t.bound]
        /\ grown.cost = CostsVia(t, n) /\ grown.bound = t.bound
    <2>1. grown = [cost |-> CostsVia(t, n), parent |-> ParentsVia(t, n),
                   open |-> t.open, bound |-> t.bound]
      <3>1. grown = WithWays(t, CostsVia(t, n), ParentsVia(t, n))
        BY DEF WithWays
      <3> HIDE DEF grown
      <3> QED BY <1>1, <3>1, TreeFields
    <2>2. u = [grown EXCEPT !.open = (grown.open \ {n}) \cup W]
      BY DEF AnaGrown
    <2> HIDE DEF grown, W
    <2> QED BY <2>1, <2>2
  <1> HIDE DEF grown
  <1>4. /\ IsAnaTree(u)
        /\ u.bound = t.bound /\ u.open = (t.open \ {n}) \cup W /\ Grows(t, n, u)
        /\ u.cost = grown.cost /\ u.bound = grown.bound
    <2> HIDE DEF W
    <2> QED BY <1>3 DEF Grows, IsAnaTree
  <1>5. /\ Ways(map, StartOf(k), u) /\ B \in SUBSET V /\ n \notin B
        /\ \A j \in V : t.cost[j] # None => u.cost[j] # None /\ u.cost[j] <= t.cost[j]
        /\ \A j \in V \ B : u.cost[j] = t.cost[j]
        /\ \A j \in B : u.cost[j] # None
        /\ Settled(map, u, n)
    BY <1>1, <1>2, <1>4, GrownWays
  <1>6. /\ t.bound \in Nat \cup {None} /\ None \notin Nat
        /\ \A j \in V : u.cost[j] # None => u.cost[j] \in Nat
        /\ \A j \in V : t.cost[j] # None => t.cost[j] \in Nat
    BY <1>1, <1>5, NoneAssumption DEF Ways, Bounded
  <1>7. ASSUME NEW j \in B, j \notin W
        PROVE  /\ u.bound # None /\ u.bound <= u.cost[j] + air(j)
               /\ j = G => u.bound <= u.cost[j]
    <2>1. ~Worth(k, grown, j) /\ j \in V
      BY <1>5, <1>7
    <2>2. grown.bound \in Nat \cup {None} /\ grown.cost[j] \in Nat
      BY <1>4, <1>5, <1>6, <1>7
    <2>3. /\ grown.bound # None /\ grown.bound <= grown.cost[j] + air(j)
          /\ j = G => grown.bound <= grown.cost[j]
      BY <2>1, <2>2, WorthFacts
    <2> QED BY <1>4, <2>3
  <1>8. \A j \in W : j \in B
    OBVIOUS
  <1> HIDE DEF W, B
  <1>9. \A j \in u.open : j \in V /\ u.cost[j] # None
    BY <1>1, <1>4, <1>5, <1>8
  <1>10. Explored(map, G, u)
    <2> SUFFICES ASSUME NEW j \in V, u.cost[j] # None
                 PROVE  \/ j \in u.open
                        \/ u.bound # None /\ u.bound <= u.cost[j] + air(j)
                        \/ Settled(map, u, j)
      BY DEF Explored
    <2>1. CASE j \in B
      BY <1>4, <1>7, <2>1
    <2>2. CASE j = n
      BY <1>5, <2>2
    <2>3. CASE j \notin B /\ j # n
      <3>1. u.cost[j] = t.cost[j] /\ t.cost[j] # None
        BY <1>5, <2>3
      <3>2. CASE j \in t.open
        BY <1>4, <2>3, <3>2
      <3>3. CASE t.bound # None /\ t.bound <= t.cost[j] + air(j)
        BY <1>4, <3>1, <3>3
      <3>4. CASE Settled(map, t, j)
        <4>1. ASSUME NEW i \in V, <<j, i>> \in DOMAIN map.weight
              PROVE  u.cost[i] # None /\ u.cost[i] <= u.cost[j] + map.weight[<<j, i>>]
          <5> DEFINE w == map.weight[<<j, i>>]
          <5>1. t.cost[i] # None /\ t.cost[i] <= t.cost[j] + w
            BY <3>4, <4>1 DEF Settled
          <5>2. w \in Nat
            BY <4>1, MapFacts DEF IsNetwork
          <5>3. u.cost[i] # None /\ u.cost[i] <= t.cost[i] /\ u.cost[i] \in Nat
                /\ t.cost[i] \in Nat /\ t.cost[j] \in Nat
            BY <1>5, <1>6, <3>1, <5>1
          <5> HIDE DEF w
          <5> QED BY <3>1, <5>1, <5>2, <5>3 DEF w
        <4> QED BY <4>1 DEF Settled
      <3> QED BY <1>1, <3>1, <3>2, <3>3, <3>4 DEF Explored
    <2> QED BY <2>1, <2>2, <2>3
  <1>11. Bounded(G, u)
    <2>1. G \in V
      BY StopsOfLayers
    <2>2. /\ t.bound # None => t.cost[G] # None /\ t.cost[G] <= t.bound
          /\ t.cost[G] # None => G \in t.open \/ t.cost[G] = t.bound
      BY <1>1 DEF Bounded
    <2>3. ASSUME u.bound # None PROVE u.cost[G] # None /\ u.cost[G] <= u.bound
      <3>1. t.bound \in Nat /\ t.cost[G] # None /\ t.cost[G] <= t.bound /\ t.cost[G] \in Nat
        BY <1>4, <1>6, <2>1, <2>2, <2>3
      <3>2. u.cost[G] # None /\ u.cost[G] <= t.cost[G] /\ u.cost[G] \in Nat
        BY <1>5, <1>6, <2>1, <3>1
      <3> QED BY <1>4, <3>1, <3>2
    <2>4. ASSUME u.cost[G] # None PROVE G \in u.open \/ u.cost[G] = u.bound
      <3>1. CASE G \in B /\ G \in W
        BY <1>4, <3>1
      <3>2. CASE G \in B /\ G \notin W
        <4>1. u.bound # None /\ u.bound <= u.cost[G]
          BY <1>7, <3>2
        <4>2. u.cost[G] <= u.bound /\ u.bound \in Nat /\ u.cost[G] \in Nat
          BY <1>4, <1>6, <2>1, <2>3, <2>4, <4>1
        <4> QED BY <4>1, <4>2
      <3>3. CASE G \notin B
        BY <1>4, <1>5, <2>1, <2>2, <2>4, <3>3
      <3> QED BY <3>1, <3>2, <3>3
    <2> QED BY <1>4, <1>6, <2>3, <2>4 DEF Bounded
  <1> QED BY <1>4, <1>5, <1>9, <1>10, <1>11 DEF AnaSound

\* An expansion keeps the invariant.
LEMMA AnaExpandInv ==
  ASSUME SearchInv, system = "AnaStar", UNCHANGED system, phase = "search", busy \in Layer,
         NEW t, t = trees[busy], NEW n \in Leading(busy, t), AnaExpand(n)
  PROVE  SearchInv'
  <1> DEFINE u == AnaGrown(busy, t, n)
  <1>1. /\ map \in Map /\ AnaInv(map, trees, entry)
        /\ Matrices(entry, joint, sets) /\ Scheduled /\ Answered
        /\ AnaSound(map, busy, t) /\ entry[Ids(busy)] = t.bound
    BY AnaFacts
  <1>2. /\ n # GoalOf(busy) /\ trees' = [trees EXCEPT ![busy] = u]
        /\ map' = map /\ entry' = entry /\ joint' = joint /\ sets' = sets /\ updated' = updated
        /\ best' = best /\ unexplored' = unexplored /\ busy' = busy /\ phase' = phase
        /\ system' = system
    BY DEF AnaExpand, core
  <1>3. n \in t.open
    BY DEF Leading
  <1>4. AnaSound(map, busy, u) /\ u.bound = t.bound
    BY <1>1, <1>2, <1>3, GrownTree
  <1> HIDE DEF u
  <1>5. DOMAIN trees' = Layer /\ \A k \in Layer : trees'[k] = IF k = busy THEN u ELSE trees[k]
    <2>1. DOMAIN trees = Layer
      BY <1>1 DEF AnaInv
    <2> QED BY <1>2, <2>1
  <1>6. AnaInv(map, trees', entry)
    BY <1>1, <1>4, <1>5 DEF AnaInv
  <1>7. Scheduled' /\ Answered'
    BY <1>1, <1>2 DEF Scheduled, Answered
  <1>8. system' \in {"BiAstar", "AnaStar"} /\ system' # "BiAstar"
    BY <1>2
  <1> QED BY <1>1, <1>2, <1>6, <1>7, <1>8 DEF SearchInv

\* The tree at the end of a pass.
Kept(k, t) == WithOpen(t, {n \in t.open : Worth(k, t, n)})

\* A pass that took the goal.
LEMMA GoalTaken ==
  ASSUME map \in Map, NEW k \in Layer, NEW t, AnaSound(map, k, t),
         GoalOf(k) \in t.open,
         NEW u, u = WithBound(t, t.open \ {GoalOf(k)}, t.cost[GoalOf(k)])
  PROVE  /\ AnaSound(map, k, Kept(k, u)) /\ Kept(k, u).bound = u.bound
         /\ u.bound \in Nat /\ (t.bound = None \/ u.bound <= t.bound)
  <1> DEFINE V == Vertices(map.size)
             G == GoalOf(k)
             v == Kept(k, u)
             air(j) == Straight(map.place[j], map.place[G])
  <1>1. /\ IsAnaTree(t) /\ Ways(map, StartOf(k), t)
        /\ \A j \in t.open : j \in V /\ t.cost[j] # None
        /\ Explored(map, G, t) /\ Bounded(G, t)
    BY DEF AnaSound
  <1>2. u = [cost |-> t.cost, parent |-> t.parent, open |-> t.open \ {G}, bound |-> t.cost[G]]
    BY <1>1, TreeFields
  <1>3. /\ IsAnaTree(u) /\ u.cost = t.cost /\ u.parent = t.parent /\ u.open = t.open \ {G}
        /\ u.bound = t.cost[G]
    BY <1>2 DEF IsAnaTree
  <1> DEFINE W == {n \in u.open : Worth(k, u, n)}
  <1>4. v = [cost |-> u.cost, parent |-> u.parent, open |-> W, bound |-> u.bound]
    <2>1. v = WithOpen(u, W)
      BY DEF Kept
    <2> HIDE DEF W, v
    <2> QED BY <1>3, <2>1, TreeFields
  <1>5. /\ IsAnaTree(v) /\ v.cost = t.cost /\ v.parent = t.parent /\ v.open = W
        /\ v.bound = u.bound
    <2> HIDE DEF W, v
    <2> QED BY <1>3, <1>4 DEF IsAnaTree
  <1>6. G \in V /\ u.bound \in Nat /\ t.cost[G] # None /\ None \notin Nat
        /\ \A j \in V : t.cost[j] # None => t.cost[j] \in Nat
    <2>1. G \in V /\ t.cost[G] # None /\ None \notin Nat
      BY <1>1, NoneAssumption
    <2>2. \A j \in V : t.cost[j] # None => t.cost[j] \in Nat
      BY <1>1 DEF Ways
    <2> QED BY <1>3, <2>1, <2>2
  <1>7. t.bound \in Nat \cup {None} /\ (t.bound = None \/ u.bound <= t.bound)
    BY <1>1, <1>3 DEF Bounded
  <1>8. \A j \in V : air(j) \in Nat
    BY <1>6, MapFacts, StraightIsMetric
  <1>9. ASSUME NEW j \in V, t.cost[j] # None, j \in u.open, j \notin W
        PROVE  u.bound <= t.cost[j] + air(j)
    <2>1. ~Worth(k, u, j)
      BY <1>9
    <2>2. u.bound \in Nat \cup {None} /\ u.cost[j] \in Nat
      BY <1>3, <1>6, <1>9
    <2>3. u.bound <= u.cost[j] + air(j)
      BY <2>1, <2>2, WorthFacts
    <2> QED BY <1>3, <2>3
  <1>10. \A j \in W : j \in u.open
    OBVIOUS
  <1> HIDE DEF W, v
  <1>11. Explored(map, G, v)
    <2> SUFFICES ASSUME NEW j \in V, v.cost[j] # None
                 PROVE  \/ j \in v.open
                        \/ v.bound # None /\ v.bound <= v.cost[j] + air(j)
                        \/ Settled(map, v, j)
      BY DEF Explored
    <2>1. v.bound # None /\ v.bound \in Nat /\ v.cost[j] = t.cost[j] /\ t.cost[j] # None
          /\ t.cost[j] \in Nat /\ air(j) \in Nat
      BY <1>5, <1>6, <1>8
    <2>2. CASE j \in t.open /\ j # G
      BY <1>3, <1>5, <1>9, <2>1, <2>2
    <2>3. CASE j = G
      <3>1. v.bound = t.cost[j]
        BY <1>3, <1>5, <2>3
      <3> HIDE DEF air
      <3> QED BY <2>1, <3>1
    <2>4. CASE t.bound # None /\ t.bound <= t.cost[j] + air(j)
      <3>1. t.bound \in Nat /\ v.bound <= t.bound
        BY <1>5, <1>7, <2>4
      <3> HIDE DEF air
      <3> QED BY <2>1, <2>4, <3>1
    <2>5. CASE Settled(map, t, j)
      BY <1>5, <2>5 DEF Settled
    <2> QED BY <1>1, <2>1, <2>2, <2>3, <2>4, <2>5 DEF Explored
  <1>12. Bounded(G, v)
    <2>1. v.cost[G] = v.bound /\ v.bound \in Nat /\ v.bound # None
      BY <1>3, <1>5, <1>6
    <2> QED BY <2>1 DEF Bounded
  <1>13. Ways(map, StartOf(k), v)
    BY <1>1, <1>5 DEF Ways
  <1>14. \A j \in v.open : j \in V /\ v.cost[j] # None
    BY <1>1, <1>3, <1>5, <1>10
  <1>15. AnaSound(map, k, v)
    BY <1>5, <1>11, <1>12, <1>13, <1>14 DEF AnaSound
  <1> QED BY <1>5, <1>6, <1>7, <1>15 DEF v

\* A pass that emptied its queue found the goal in an earlier one, since a road leads there.
LEMMA QueueEmptied ==
  ASSUME map \in Map, NEW k \in Layer, NEW t, AnaSound(map, k, t), t.open = {},
         Linked(map, Ids(k)[1], Ids(k)[2])
  PROVE  AnaSound(map, k, Kept(k, t)) /\ Kept(k, t).bound = t.bound /\ t.bound \in Nat
  <1> DEFINE V == Vertices(map.size)
             G == GoalOf(k)
             S == StartOf(k)
  <1>1. IsAnaTree(t) /\ Ways(map, S, t) /\ Explored(map, G, t) /\ Bounded(G, t)
    BY DEF AnaSound
  <1>2. Kept(k, t) = t
    <2>1. {n \in t.open : Worth(k, t, n)} = {}
      OBVIOUS
    <2>2. Kept(k, t) = WithOpen(t, {})
      BY <2>1 DEF Kept
    <2>3. Kept(k, t) = [cost |-> t.cost, parent |-> t.parent, open |-> {}, bound |-> t.bound]
      BY <1>1, <2>2, TreeFields
    <2> QED BY <1>1, <2>3 DEF IsAnaTree
  <1>3. t.bound # None
    <2> SUFFICES ASSUME t.bound = None PROVE FALSE
      OBVIOUS
    <2>1. \A n, j \in V : t.cost[n] # None /\ <<n, j>> \in DOMAIN map.weight => t.cost[j] # None
      BY <1>1 DEF Explored, Settled
    <2>2. G \in V /\ Shorts(map)[<<S, G>>] < Far
      BY StopsOfLayers DEF Linked, StartOf, GoalOf
    <2>3. t.cost[G] # None
      BY <1>1, <2>1, <2>2, ReachedIsClosed
    <2> QED BY <1>1, <2>3 DEF Bounded
  <1> QED BY <1>1, <1>2, <1>3 DEF Bounded

\* The end of a pass keeps the invariant.
LEMMA AnaEndPassInv ==
  ASSUME SearchInv, system = "AnaStar", UNCHANGED system, phase = "search", busy \in Layer,
         NEW t, t = trees[busy], NEW u, AnaEndPass(u),
         AnaSound(map, busy, Kept(busy, u)), Kept(busy, u).bound = u.bound,
         u.bound \in Nat, t.bound = None \/ u.bound <= t.bound
  PROVE  SearchInv'
  <1> DEFINE v == Kept(busy, u)
             p == Ids(busy)
             d == u.bound
  <1>1. /\ map \in Map /\ AnaInv(map, trees, entry)
        /\ Matrices(entry, joint, sets) /\ Scheduled /\ Answered
        /\ entry[p] = t.bound
    BY AnaFacts
  <1>2. /\ trees' = [trees EXCEPT ![busy] = v] /\ Record(busy, d)
        /\ sets' = Connect({p[1], p[2]}, sets)
        /\ \E q : unexplored' = unexplored \ q
        /\ busy' = None /\ phase' = "solve"
        /\ map' = map /\ joint' = joint /\ best' = best /\ system' = system
    BY DEF AnaEndPass, Kept, WithOpen
  <1>3. AnaSound(map, busy, v) /\ v.bound = d /\ d \in Nat /\ (t.bound = None \/ d <= t.bound)
    OBVIOUS
  <1> HIDE DEF v
  <1>4. /\ Matrices(entry', joint', sets') /\ updated' \in BOOLEAN
        /\ entry'[p] = IF Shorter(busy, d) THEN d ELSE entry[p]
        /\ \A j \in Layer \ {busy} : entry'[Ids(j)] = entry[Ids(j)]
    <2>1. updated \in BOOLEAN /\ joint \in Entry /\ Symmetric(joint)
      BY <1>1 DEF Scheduled, Matrices
    <2>2. joint' \in Entry /\ Symmetric(joint')
      BY <1>2, <2>1
    <2> HIDE DEF d
    <2> QED BY <1>1, <1>2, <1>3, <2>1, <2>2, RecordKeeps
  <1>5. entry'[p] = d
    <2>1. entry[p] = None \/ entry[p] \in Nat
      <3>1. p \in Square
        BY IdsOfLayers, PairFacts DEF Square
      <3> QED BY <1>1, <3>1 DEF Matrices, Entry
    <2>2. Shorter(busy, d) <=> (entry[p] = None \/ d < entry[p])
      BY <1>3, NoneAssumption DEF Shorter
    <2> HIDE DEF d, p
    <2> QED BY <1>1, <1>3, <1>4, <2>1, <2>2
  <1>6. DOMAIN trees' = Layer /\ \A k \in Layer : trees'[k] = IF k = busy THEN v ELSE trees[k]
    <2>1. DOMAIN trees = Layer
      BY <1>1 DEF AnaInv
    <2> QED BY <1>2, <2>1
  <1>7. AnaInv(map, trees', entry')
    <2> SUFFICES ASSUME NEW k \in Layer
                 PROVE  AnaSound(map, k, trees'[k]) /\ entry'[Ids(k)] = trees'[k].bound
      BY <1>1, <1>6 DEF AnaInv
    <2>1. CASE k = busy
      BY <1>3, <1>5, <1>6, <2>1
    <2>2. CASE k # busy
      <3>1. trees'[k] = trees[k] /\ entry'[Ids(k)] = entry[Ids(k)]
        BY <1>4, <1>6, <2>2
      <3> QED BY <1>1, <3>1 DEF AnaInv
    <2> QED BY <2>1, <2>2
  <1>8. best # None => sets'.connected
    <2>1. best # None => sets.connected
      BY <1>1 DEF Answered
    <2> QED BY <1>2, <2>1, ConnectedStays
  <1>9. Scheduled'
    BY <1>1, <1>2, <1>4 DEF Scheduled
  <1>10. Answered'
    BY <1>2, <1>8 DEF Answered
  <1>11. system' \in {"BiAstar", "AnaStar"} /\ system' # "BiAstar"
    BY <1>2
  <1> QED BY <1>1, <1>2, <1>4, <1>7, <1>9, <1>10, <1>11 DEF SearchInv

\* Each step of AnaStar keeps the invariant.
LEMMA AnaNextInv == SearchInv /\ system = "AnaStar" /\ AnaNext /\ UNCHANGED system => SearchInv'
  <1> SUFFICES ASSUME SearchInv, system = "AnaStar", AnaNext, UNCHANGED system PROVE SearchInv'
    OBVIOUS
  <1>1. CASE \E k \in Layer : AnaTake(k)
    BY <1>1, AnaTakeInv
  <1>2. CASE ~ \E k \in Layer : AnaTake(k)
    <2> DEFINE t == trees[busy]
               G == GoalOf(busy)
               u == WithBound(t, t.open \ {G}, t.cost[G])
    <2>1. phase = "search" /\ busy \in Layer
      BY <1>2 DEF AnaNext
    <2>2. \/ \E n \in Leading(busy, t) : AnaExpand(n)
          \/ G \in Leading(busy, t) /\ AnaEndPass(u)
          \/ t.open = {} /\ AnaEndPass(t)
      BY <1>2 DEF AnaNext, WithBound
    <2> HIDE DEF t
    <2>3. t = trees[busy]
      BY DEF t
    <2>4. /\ map \in Map /\ AnaSound(map, busy, t) /\ entry[Ids(busy)] = t.bound
          /\ Linked(map, Ids(busy)[1], Ids(busy)[2])
      BY <2>1, <2>3, AnaFacts
    <2>5. CASE \E n \in Leading(busy, t) : AnaExpand(n)
      BY <2>1, <2>3, <2>5, AnaExpandInv
    <2>6. CASE G \in Leading(busy, t) /\ AnaEndPass(u)
      <3>1. G \in t.open
        BY <2>6 DEF Leading
      <3> HIDE DEF u
      <3>2. u = WithBound(t, t.open \ {G}, t.cost[G])
        BY DEF u
      <3>3. /\ AnaSound(map, busy, Kept(busy, u)) /\ Kept(busy, u).bound = u.bound
            /\ u.bound \in Nat /\ (t.bound = None \/ u.bound <= t.bound)
        BY <2>1, <2>4, <3>1, <3>2, GoalTaken
      <3> QED BY <2>1, <2>3, <2>6, <3>3, AnaEndPassInv
    <2>7. CASE t.open = {} /\ AnaEndPass(t)
      <3>1. AnaSound(map, busy, Kept(busy, t)) /\ Kept(busy, t).bound = t.bound /\ t.bound \in Nat
        BY <2>1, <2>4, <2>7, QueueEmptied
      <3>2. t.bound = None \/ t.bound <= t.bound
        BY <3>1
      <3> QED BY <2>1, <2>3, <2>7, <3>1, <3>2, AnaEndPassInv
    <2> QED BY <2>2, <2>5, <2>6, <2>7
  <1> QED BY <1>1, <1>2

-----------------------------------------------------------------------------
(* The invariant                                                            *)

\* In every state of a search of baseline/ the trees are ways of the network, with all that
\* may lead on in their queues; matrices and disjoint sets say what the trees have found, the
\* solver has been asked for an answer when there is one, and the bound of an ANA* tree is
\* what its goal costs.
THEOREM SearchIsSound == Spec => []SearchInv
  <1>1. Init => SearchInv
    BY InitInv
  <1>2. SearchInv /\ [Next]_vars => SearchInv'
    <2> SUFFICES ASSUME SearchInv, [Next]_vars PROVE SearchInv'
      OBVIOUS
    <2>1. CASE Next
      <3>1. UNCHANGED system
        BY <2>1 DEF Next
      <3>2. CASE system = "BiAstar" /\ BiNext
        BY <3>1, <3>2, BiNextInv
      <3>3. CASE system = "AnaStar" /\ AnaNext
        BY <3>1, <3>3, AnaNextInv
      <3>4. CASE SolveTurn(PathOf)
        BY <3>1, <3>4, SolveTurnInv
      <3>5. CASE SolveAtEnd(PathOf)
        BY <3>1, <3>5, SolveAtEndInv
      <3>6. CASE EndSearch
        BY <3>1, <3>6, EndSearchInv
      <3> QED BY <2>1, <3>2, <3>3, <3>4, <3>5, <3>6 DEF Next
    <2>2. CASE UNCHANGED vars
      BY <2>2, StutterInv
    <2> QED BY <2>1, <2>2
  <1> QED BY <1>1, <1>2, PTL DEF Spec

\* Matrices, schedule and answer of both planners have their types, and the solver is asked
\* between expansions only (common.rs).
THEOREM TypesHold == Spec => []TypeOK
  <1>1. SearchInv => TypeOK
    <2> SUFFICES ASSUME SearchInv PROVE TypeOK
      OBVIOUS
    <2>1. Matrices(entry, joint, sets) /\ Scheduled
      BY DEF SearchInv
    <2>2. /\ entry \in [Tree \X Tree -> Nat \cup {None}]
          /\ \A q \in Tree \X Tree :
               entry[q] = entry[<<q[2], q[1]>>] /\ joint[q] = joint[<<q[2], q[1]>>]
      BY <2>1 DEF Matrices, Entry, Symmetric, Square
    <2> QED BY <2>1, <2>2 DEF TypeOK, Scheduled
  <1> QED BY <1>1, SearchIsSound, PTL

\* When the queue of an ANA* tree is empty, the entry of its pair is the shortest distance
\* of the network: what update_key threw away could not have led to a shorter way
\* (ana_star.rs).
THEOREM ExhaustedTreesAreShortest == Spec => []ExhaustedIsShortest
  <1>1. SearchInv => ExhaustedIsShortest
    <2> SUFFICES ASSUME SearchInv, system = "AnaStar", NEW k \in Layer, trees[k].open = {}
                 PROVE  entry[Ids(k)] = Distance[<<StartOf(k), GoalOf(k)>>]
      BY DEF ExhaustedIsShortest
    <2> DEFINE t == trees[k]
               G == GoalOf(k)
               S == StartOf(k)
               V == Vertices(map.size)
    <2>1. map \in Map /\ AnaInv(map, trees, entry)
      BY DEF SearchInv
    <2>2. G \in V /\ Ids(k)[1] \in Tree /\ Ids(k)[2] \in Tree
      BY <2>1, StopsOfLayers
    <2>3. /\ AnaSound(map, k, t) /\ entry[Ids(k)] = t.bound
          /\ Linked(map, Ids(k)[1], Ids(k)[2])
      BY <2>1, <2>2 DEF AnaInv
    <2>4. Shorts(map)[<<S, G>>] < Far
      BY <2>3 DEF Linked, StartOf, GoalOf
    <2>5. t.bound \in Nat
      BY <2>1, <2>3, QueueEmptied
    <2>6. Ways(map, S, t) /\ Explored(map, G, t) /\ Bounded(G, t)
      BY <2>3 DEF AnaSound
    <2>7. t.cost[G] # None /\ t.cost[G] = t.bound
      BY <2>5, <2>6, NoneAssumption DEF Bounded
    <2>8. \A n \in V : t.cost[n] # None =>
            \/ t.cost[G] <= t.cost[n] + Straight(map.place[n], map.place[G])
            \/ Settled(map, t, n)
      BY <2>6, <2>7 DEF Explored
    <2> HIDE DEF t
    <2>9. t.cost[G] = Shorts(map)[<<S, G>>]
      BY <2>1, <2>2, <2>4, <2>6, <2>7, <2>8, BoundIsDistance
    <2> QED BY <2>3, <2>7, <2>9 DEF Distance, Shorts
  <1> QED BY <1>1, SearchIsSound, PTL

-----------------------------------------------------------------------------
(* Connected destinations have a tour                                       *)

Known(i, j) == i # j /\ entry[<<i, j>>] # None

\* The pairs with an entry are the pairs that are linked.
LEMMA KnownPairs ==
  ASSUME Matrices(entry, joint, sets)
  PROVE  /\ \A i, j \in Tree : Known(i, j) => Known(j, i) /\ {i, j} \in LinkPairs(entry)
         /\ \A q \in LinkPairs(entry) : \E i, j \in Tree : q = {i, j} /\ Known(i, j)
  <1>1. Symmetric(entry)
    BY DEF Matrices
  <1>2. ASSUME NEW i \in Tree, NEW j \in Tree, Known(i, j)
        PROVE  Known(j, i) /\ {i, j} \in LinkPairs(entry)
    <2>1. entry[<<i, j>>] = entry[<<j, i>>] /\ i # j /\ entry[<<i, j>>] # None
      <3>1. <<i, j>> \in Tree \X Tree /\ <<i, j>>[1] = i /\ <<i, j>>[2] = j
        OBVIOUS
      <3> QED BY <1>1, <1>2, <3>1 DEF Symmetric, Known
    <2>2. PICK p \in Pair : <<i, j>> = p \/ <<i, j>> = <<p[2], p[1]>>
      BY <2>1, PlaceOfLeg
    <2>3. p = <<p[1], p[2]>>
      BY PairFacts
    <2>4. {i, j} = {p[1], p[2]} /\ entry[p] # None
      <3>1. CASE <<i, j>> = p
        BY <2>1, <3>1
      <3>2. CASE <<i, j>> = <<p[2], p[1]>>
        BY <2>1, <2>3, <3>2
      <3> QED BY <2>2, <3>1, <3>2
    <2> QED BY <2>1, <2>4 DEF Known, LinkPairs
  <1>3. ASSUME NEW q \in LinkPairs(entry)
        PROVE  \E i, j \in Tree : q = {i, j} /\ Known(i, j)
    <2>1. PICK p \in Pair : q = {p[1], p[2]} /\ entry[p] # None
      BY DEF LinkPairs
    <2>2. p = <<p[1], p[2]>> /\ p[1] \in Tree /\ p[2] \in Tree /\ p[1] # p[2]
      BY PairFacts
    <2>3. Known(p[1], p[2])
      BY <2>1, <2>2 DEF Known
    <2> QED BY <2>1, <2>2, <2>3
  <1> QED BY <1>2, <1>3

\* A tour over known entries shows one class.
LEMMA ToursConnect ==
  ASSUME Matrices(entry, joint, sets), NEW s \in LinkedTours
  PROVE  sets.connected
  <1> DEFINE same(k) == sets.parent[s[k]] = sets.parent[0]
             Good == {k \in Nat : 1 <= k /\ k <= Len(s) => same(k)}
  <1>1. /\ entry \in Entry /\ Partitions(sets, Tree, LinkPairs(entry))
    BY DEF Matrices
  <1>2. /\ Len(s) \in Nat /\ s[1] = 0
        /\ \A i \in Tree : \E k \in 1..Len(s) : s[k] = i
        /\ \A k \in 1..Len(s) : s[k] \in Tree
        /\ \A k \in 1..(Len(s) - 1) : s[k] # s[k + 1] /\ entry[<<s[k], s[k + 1]>>] \in Nat
    BY <1>1, TourFacts
  <1>3. 0 \in Good
    OBVIOUS
  <1>4. ASSUME NEW k \in Nat, k \in Good PROVE k + 1 \in Good
    <2> SUFFICES ASSUME k + 1 <= Len(s) PROVE same(k + 1)
      OBVIOUS
    <2>1. CASE k = 0
      BY <1>2, <2>1
    <2>2. CASE k # 0
      <3>1. k \in 1..(Len(s) - 1) /\ k \in 1..Len(s) /\ k + 1 \in 1..Len(s)
        BY <1>2, <2>2
      <3> DEFINE i == s[k]
                 j == s[k + 1]
      <3>2. i \in Tree /\ j \in Tree /\ Known(i, j)
        BY <1>2, <3>1, NoneAssumption DEF Known
      <3>3. {i, j} \in LinkPairs(entry)
        BY <3>2, KnownPairs
      <3> HIDE DEF i, j
      <3>4. sets.parent[i] = sets.parent[j]
        BY <1>1, <3>3 DEF Partitions
      <3>5. same(k)
        BY <1>4, <3>1
      <3> QED BY <3>4, <3>5 DEF i, j
    <2> QED BY <2>1, <2>2
  <1>5. Nat \subseteq Good
    <2> HIDE DEF Good
    <2> QED BY <1>3, <1>4, NatSetInduction
  <1>6. \A k \in 1..Len(s) : same(k)
    <2>1. \A k \in 1..Len(s) : k \in Nat /\ 1 <= k /\ k <= Len(s)
      BY <1>2
    <2> HIDE DEF same
    <2> QED BY <1>5, <2>1
  <1>7. \A i \in Tree : sets.parent[i] = sets.parent[0]
    BY <1>2, <1>6
  <1> QED BY <1>1, <1>7 DEF Partitions

\* w leads from the source to e past all of K, in n steps.
Visits(w, K, e, n) ==
  /\ n \in Nat \ {0} /\ w \in [1..n -> K]
  /\ w[1] = 0 /\ w[n] = e
  /\ \A i \in K : \E k \in 1..n : w[k] = i
  /\ \A k \in 1..(n - 1) : Known(w[k], w[k + 1])

\* There is a way to each of K past all of it that is at most twice as long as K is large.
Visited(K) ==
  /\ K \in SUBSET Tree /\ 0 \in K
  /\ \A e \in K : \E n \in Nat : \E w :
       /\ Visits(w, K, e, n)
       /\ n <= 2 * Cardinality(K) - 1 /\ (e # 0 => n <= 2 * Cardinality(K) - 2)

\* A visit goes on by a known pair.
LEMMA StepTo ==
  ASSUME NEW K, NEW w, NEW c \in K, NEW n, Visits(w, K, c, n), NEW f, f \notin K, Known(c, f)
  PROVE  \E v : Visits(v, K \cup {f}, f, n + 1)
  <1> DEFINE L == K \cup {f}
             v == [k \in 1..(n + 1) |-> IF k = n + 1 THEN f ELSE w[k]]
  <1>1. /\ n \in Nat \ {0} /\ w \in [1..n -> K] /\ w[1] = 0 /\ w[n] = c
        /\ \A i \in K : \E k \in 1..n : w[k] = i
        /\ \A k \in 1..(n - 1) : Known(w[k], w[k + 1])
    BY DEF Visits
  <1>2. n + 1 \in Nat \ {0} /\ \A k \in 1..(n + 1) : k = n + 1 \/ k \in 1..n
    BY <1>1
  <1>3. /\ \A k \in 1..n : v[k] = w[k] /\ v[k] \in K
        /\ v[n + 1] = f
    BY <1>1
  <1>4. v \in [1..(n + 1) -> L]
    BY <1>1, <1>2
  <1> HIDE DEF v
  <1>5. \A i \in L : \E k \in 1..(n + 1) : v[k] = i
    <2>1. n + 1 \in 1..(n + 1) /\ \A k \in 1..n : k \in 1..(n + 1)
      BY <1>1
    <2> QED BY <1>1, <1>3, <2>1
  <1>6. ASSUME NEW k \in 1..((n + 1) - 1) PROVE Known(v[k], v[k + 1])
    <2>1. CASE k = n
      <3>1. n \in 1..n
        BY <1>1
      <3> QED BY <1>1, <1>3, <2>1, <3>1
    <2>2. CASE k # n
      <3>1. k \in 1..(n - 1) /\ k \in 1..n /\ k + 1 \in 1..n
        BY <1>1, <2>2
      <3> QED BY <1>1, <1>3, <3>1
    <2> QED BY <2>1, <2>2
  <1>7. v[1] = 0
    <2>1. 1 \in 1..n
      BY <1>1
    <2> QED BY <1>1, <1>3, <2>1
  <1>8. Visits(v, L, f, n + 1)
    BY <1>2, <1>3, <1>4, <1>5, <1>6, <1>7 DEF Visits
  <1> QED BY <1>8

\* A visit makes a detour over a known pair and comes back.
LEMMA DetourTo ==
  ASSUME NEW K, NEW w, NEW e, NEW n, Visits(w, K, e, n),
         NEW c \in K, NEW f, f \notin K, Known(c, f), Known(f, c)
  PROVE  \E v : Visits(v, K \cup {f}, e, n + 2)
  <1> DEFINE L == K \cup {f}
  <1>1. /\ n \in Nat \ {0} /\ w \in [1..n -> K] /\ w[1] = 0 /\ w[n] = e
        /\ \A i \in K : \E k \in 1..n : w[k] = i
        /\ \A k \in 1..(n - 1) : Known(w[k], w[k + 1])
    BY DEF Visits
  <1>2. PICK m \in 1..n : w[m] = c
    BY <1>1
  <1> DEFINE v == [k \in 1..(n + 2) |->
                     IF k <= m THEN w[k] ELSE IF k = m + 1 THEN f ELSE w[k - 2]]
  <1>3. /\ \A k \in 1..m : v[k] = w[k] /\ k \in 1..n
        /\ v[m + 1] = f
        /\ \A k \in m..n : v[k + 2] = w[k] /\ k \in 1..n
    BY <1>1
  <1>4. v \in [1..(n + 2) -> L]
    <2>1. \A k \in 1..(n + 2) : /\ k <= m => k \in 1..n
                                /\ k > m + 1 => k - 2 \in 1..n
      BY <1>1
    <2>2. \A k \in 1..n : w[k] \in K
      BY <1>1
    <2>3. \A k \in 1..(n + 2) : k <= m \/ k = m + 1 \/ k > m + 1
      BY <1>1
    <2>4. \A k \in 1..(n + 2) :
            (IF k <= m THEN w[k] ELSE IF k = m + 1 THEN f ELSE w[k - 2]) \in L
      BY <1>1, <2>1, <2>2, <2>3
    <2> QED BY <2>4
  <1> HIDE DEF v
  <1>5. \A i \in L : \E k \in 1..(n + 2) : v[k] = i
    <2> SUFFICES ASSUME NEW i \in L PROVE \E k \in 1..(n + 2) : v[k] = i
      OBVIOUS
    <2>1. CASE i = f
      <3>1. m + 1 \in 1..(n + 2)
        BY <1>1
      <3> QED BY <1>3, <2>1, <3>1
    <2>2. CASE i # f
      <3>1. PICK k \in 1..n : w[k] = i
        BY <1>1, <2>2
      <3>2. \/ k \in 1..m /\ k \in 1..(n + 2)
            \/ k \in m..n /\ k + 2 \in 1..(n + 2)
        BY <1>1
      <3> QED BY <1>3, <3>1, <3>2
    <2> QED BY <2>1, <2>2
  <1>6. ASSUME NEW k \in 1..((n + 2) - 1) PROVE Known(v[k], v[k + 1])
    <2>1. CASE k < m
      <3>1. k \in 1..m /\ k + 1 \in 1..m /\ k \in 1..(n - 1)
        BY <1>1, <2>1
      <3>2. v[k] = w[k] /\ v[k + 1] = w[k + 1]
        BY <1>3, <3>1
      <3>3. Known(w[k], w[k + 1])
        BY <1>1, <3>1
      <3> QED BY <3>2, <3>3
    <2>2. CASE k = m
      <3>1. k \in 1..m
        BY <1>1, <2>2
      <3> QED BY <1>2, <1>3, <2>2, <3>1
    <2>3. CASE k = m + 1
      <3>1. m \in m..n /\ k + 1 = m + 2
        BY <1>1, <2>3
      <3> QED BY <1>2, <1>3, <2>3, <3>1
    <2>4. CASE k > m + 1
      <3> DEFINE j == k - 2
      <3>1. j \in m..n /\ j + 1 \in m..n /\ j \in 1..(n - 1) /\ k = j + 2 /\ k + 1 = (j + 1) + 2
        BY <1>1, <2>4
      <3> HIDE DEF j
      <3> QED BY <1>1, <1>3, <3>1
    <2> QED BY <1>1, <2>1, <2>2, <2>3, <2>4
  <1>7. v[1] = 0 /\ v[n + 2] = e
    <2>1. 1 \in 1..m /\ n \in m..n
      BY <1>1
    <2> QED BY <1>1, <1>3, <2>1
  <1>8. n + 2 \in Nat \ {0}
    BY <1>1
  <1>9. Visits(v, L, e, n + 2)
    BY <1>4, <1>5, <1>6, <1>7, <1>8 DEF Visits
  <1> QED BY <1>9

\* One more destination.
LEMMA VisitedGrows ==
  ASSUME Matrices(entry, joint, sets), NEW K, Visited(K),
         NEW c \in K, NEW f \in Tree \ K, Known(c, f)
  PROVE  Visited(K \cup {f}) /\ Cardinality(K \cup {f}) = Cardinality(K) + 1
  <1> DEFINE L == K \cup {f}
  <1>1. K \in SUBSET Tree /\ 0 \in K
    BY DEF Visited
  <1>2. IsFiniteSet(K)
    BY <1>1, TreesNumbered, FS_Subset
  <1>3. Cardinality(K) \in Nat /\ Cardinality(L) = Cardinality(K) + 1
    BY <1>2, FS_CardinalityType, FS_AddElement
  <1>4. Known(f, c)
    BY <1>1, KnownPairs
  <1> DEFINE N == Cardinality(K)
             M == Cardinality(L)
  <1>5. ASSUME NEW e \in K
        PROVE  \E n \in Nat : \E w : /\ Visits(w, K, e, n)
                                     /\ n <= 2 * N - 1 /\ (e # 0 => n <= 2 * N - 2)
    BY DEF Visited
  <1>6. ASSUME NEW e \in L
        PROVE  \E n \in Nat : \E w : /\ Visits(w, L, e, n)
                                     /\ n <= 2 * M - 1 /\ (e # 0 => n <= 2 * M - 2)
    <2>1. CASE e = f
      <3>1. PICK n, w : n \in Nat /\ Visits(w, K, c, n) /\ n <= 2 * N - 1
        BY <1>5
      <3>2. PICK v : Visits(v, L, f, n + 1)
        BY <3>1, StepTo
      <3>3. n + 1 \in Nat /\ n + 1 <= 2 * M - 1 /\ n + 1 <= 2 * M - 2
        <4> HIDE DEF N, M
        <4> QED BY <1>3, <3>1 DEF N, M
      <3> QED BY <2>1, <3>2, <3>3
    <2>2. CASE e # f
      <3>1. e \in K
        BY <2>2
      <3>2. PICK n, w : /\ n \in Nat /\ Visits(w, K, e, n)
                        /\ n <= 2 * N - 1 /\ (e # 0 => n <= 2 * N - 2)
        BY <1>5, <3>1
      <3>3. PICK v : Visits(v, L, e, n + 2)
        BY <1>4, <3>2, DetourTo
      <3>4. n + 2 \in Nat /\ n + 2 <= 2 * M - 1 /\ (e # 0 => n + 2 <= 2 * M - 2)
        <4> HIDE DEF N, M
        <4> QED BY <1>3, <3>2 DEF N, M
      <3> QED BY <3>3, <3>4
    <2> QED BY <2>1, <2>2
  <1>7. L \in SUBSET Tree /\ 0 \in L
    BY <1>1
  <1>8. Visited(L)
    BY <1>6, <1>7 DEF Visited
  <1> QED BY <1>3, <1>8

\* The source is visited by staying there.
LEMMA SourceVisited == Visited({0}) /\ Cardinality({0}) = 1
  <1> DEFINE w == [k \in 1..1 |-> 0]
  <1>1. Cardinality({0}) = 1
    BY FS_Singleton
  <1>2. Visits(w, {0}, 0, 1)
    BY DEF Visits
  <1>3. {0} \in SUBSET Tree
    BY TreesNumbered
  <1>4. \A e \in {0} : \E n \in Nat : \E v : /\ Visits(v, {0}, e, n)
                                             /\ n <= 1 /\ (e # 0 => n <= 0)
    <2> HIDE DEF w
    <2> QED BY <1>2
  <1>5. 2 * Cardinality({0}) - 1 = 1 /\ 2 * Cardinality({0}) - 2 = 0
    BY <1>1
  <1> QED BY <1>1, <1>3, <1>4, <1>5 DEF Visited

\* As long as there are known pairs out of what is visited, more can be; in one class of
\* known pairs that is all.
LEMMA AllVisited ==
  ASSUME Matrices(entry, joint, sets), sets.connected
  PROVE  Visited(Tree) /\ Cardinality(Tree) = Goal + 1
  <1> DEFINE Sizes == {n \in Nat : \E K \in SUBSET Tree : Visited(K) /\ Cardinality(K) = n}
  <1>1. IsFiniteSet(Tree) /\ Cardinality(Tree) = Goal + 1 /\ Goal + 1 \in Nat
    <2>1. Goal \in Nat /\ Tree = 0..Goal
      BY TreesNumbered
    <2>2. IsFiniteSet(Tree)
      BY TreesNumbered
    <2>3. Cardinality(0..Goal) = Goal - 0 + 1
      BY <2>1, FS_Interval
    <2> QED BY <2>1, <2>2, <2>3
  <1>2. 1 \in Sizes
    BY SourceVisited DEF Visited
  <1>3. \A n \in Sizes : n <= Goal + 1
    <2> SUFFICES ASSUME NEW n \in Sizes PROVE n <= Goal + 1
      OBVIOUS
    <2>1. PICK K \in SUBSET Tree : Cardinality(K) = n
      OBVIOUS
    <2> QED BY <1>1, <2>1, FS_Subset
  <1>4. PICK n \in Sizes : \A k \in Sizes : k <= n
    <2>1. Sizes \in SUBSET Nat /\ Sizes # {}
      BY <1>2
    <2> HIDE DEF Sizes
    <2> QED BY <1>1, <1>3, <2>1, GreatestNatural
  <1>5. PICK K \in SUBSET Tree : Visited(K) /\ Cardinality(K) = n
    OBVIOUS
  <1>6. ASSUME NEW c \in K, NEW f \in Tree \ K PROVE ~Known(c, f)
    <2> SUFFICES ASSUME Known(c, f) PROVE FALSE
      OBVIOUS
    <2>1. Visited(K \cup {f}) /\ Cardinality(K \cup {f}) = n + 1
      BY <1>5, VisitedGrows
    <2>2. n \in Nat /\ n + 1 \in Sizes
      BY <2>1
    <2> HIDE DEF Sizes
    <2> QED BY <1>4, <2>2
  <1> HIDE DEF Sizes
  <1>7. Closed(K, LinkPairs(entry))
    <2> SUFFICES ASSUME NEW q \in LinkPairs(entry) PROVE q \subseteq K \/ q \cap K = {}
      BY DEF Closed
    <2>1. PICK i \in Tree, j \in Tree : q = {i, j} /\ Known(i, j) /\ Known(j, i)
      BY KnownPairs
    <2>2. i \in K <=> j \in K
      BY <1>6, <2>1
    <2> QED BY <2>1, <2>2
  <1>8. Partitions(sets, Tree, LinkPairs(entry)) /\ 0 \in K
    BY <1>5 DEF Matrices, Visited
  <1>9. ASSUME NEW i \in Tree PROVE i \in K
    <2>1. 0 \in Tree
      BY TreesNumbered
    <2>2. sets.parent[i] = sets.parent[0]
      BY <1>8 DEF Partitions
    <2>3. i \in K <=> 0 \in K
      BY <1>7, <1>8, <2>1, <2>2 DEF Partitions
    <2> QED BY <1>8, <2>3
  <1>10. K = Tree
    BY <1>9
  <1> QED BY <1>1, <1>5, <1>10

\* When the sets say connected there is a tour over known pairs, of twice their number at
\* most.
LEMMA ConnectedHasTour ==
  ASSUME Matrices(entry, joint, sets), sets.connected
  PROVE  LinkedTours # {}
  <1>1. Goal \in Nat /\ Goal > 0 /\ Goal \in Tree /\ 0 \in Tree /\ MaxTour \in Nat
        /\ MaxTour >= 2 * Goal
    BY TreesNumbered, StopAssumption
  <1>2. PICK n, w : n \in Nat /\ Visits(w, Tree, Goal, n) /\ n <= 2 * Cardinality(Tree) - 2
    BY <1>1, AllVisited DEF Visited
  <1>3. n <= 2 * Goal
    <2>1. Cardinality(Tree) = Goal + 1
      BY AllVisited
    <2> QED BY <1>1, <1>2, <2>1
  <1>4. /\ n \in Nat \ {0} /\ w \in [1..n -> Tree] /\ w[1] = 0 /\ w[n] = Goal
        /\ \A i \in Tree : \E k \in 1..n : w[k] = i
        /\ \A k \in 1..(n - 1) : Known(w[k], w[k + 1])
    BY <1>2 DEF Visits
  <1>5. n # 1
    BY <1>1, <1>4
  <1>6. n \in 2..MaxTour
    BY <1>1, <1>3, <1>4, <1>5
  <1>7. Len(w) = n /\ DOMAIN w = 1..n
    BY <1>4
  <1>8. ToSet(w) = Tree
    <2>1. \A k \in 1..n : w[k] \in Tree
      BY <1>4
    <2> QED BY <1>4, <1>7, <2>1 DEF ToSet
  <1>9. \A k \in DOMAIN Legs(w) : /\ Legs(w)[k][1] # Legs(w)[k][2]
                                  /\ entry[Legs(w)[k]] # None
    <2>1. DOMAIN Legs(w) = 1..(n - 1) /\ \A k \in 1..(n - 1) : Legs(w)[k] = <<w[k], w[k + 1]>>
      BY <1>7 DEF Legs
    <2>2. ASSUME NEW k \in 1..(n - 1)
          PROVE  Legs(w)[k][1] # Legs(w)[k][2] /\ entry[Legs(w)[k]] # None
      <3>1. w[k] # w[k + 1] /\ entry[<<w[k], w[k + 1]>>] # None
        BY <1>4 DEF Known
      <3>2. Legs(w)[k] = <<w[k], w[k + 1]>>
        BY <2>1
      <3> QED BY <3>1, <3>2
    <2> QED BY <2>1, <2>2
  <1>10. w \in Tours
    <2>1. w \in UNION {[1..k -> Tree] : k \in 2..MaxTour}
      BY <1>4, <1>6
    <2> QED BY <1>4, <1>7, <1>8, <1>9, <2>1 DEF Tours
  <1>11. w \in LinkedTours
    BY <1>9, <1>10 DEF LinkedTours
  <1> QED BY <1>11

\* The flag is_connected_graph, on which find_shortest_path asks the solver, is set exactly
\* when the known entries have a tour past all destinations (common.rs).
THEOREM SolverAskedIffLinked == Spec => []AskedWhenLinked
  <1>1. SearchInv => AskedWhenLinked
    <2> SUFFICES ASSUME SearchInv PROVE AskedWhenLinked
      OBVIOUS
    <2>1. Matrices(entry, joint, sets)
      BY DEF SearchInv
    <2> QED BY <2>1, ToursConnect, ConnectedHasTour DEF AskedWhenLinked
  <1> QED BY <1>1, SearchIsSound, PTL

-----------------------------------------------------------------------------
(* What is in reach                                                         *)

Near(m, a, b) == Shorts(m)[<<a, b>>] < Far

\* The nodes that are nearer than b.
Nearer(m, a, b) == {n \in Vertices(m.size) : Shorts(m)[<<a, n>>] < Shorts(m)[<<a, b>>]}

\* There are fewer nearer nodes than nodes.
LEMMA NearerFacts ==
  ASSUME NEW m \in Map, NEW a \in Vertices(m.size), NEW b \in Vertices(m.size)
  PROVE  IsFiniteSet(Nearer(m, a, b)) /\ Cardinality(Nearer(m, a, b)) \in 0..(m.size - 1)
  <1> DEFINE V == Vertices(m.size)
             N == Nearer(m, a, b)
  <1>1. m.size \in Nat /\ V = 0..(m.size - 1)
    BY MapFacts DEF Vertices
  <1>2. IsFiniteSet(V) /\ Cardinality(V) = m.size
    <2> DEFINE g == m.size - 1
    <2>1. g \in Int /\ g \in Nat /\ g + 1 = m.size
      BY <1>1
    <2> HIDE DEF g
    <2>2. Cardinality(0..g) = g - 0 + 1
      BY <2>1, FS_Interval
    <2>3. IsFiniteSet(0..g)
      BY <2>1, FS_Interval
    <2>4. V = 0..g
      BY <1>1 DEF g
    <2> QED BY <2>1, <2>2, <2>3, <2>4
  <1>3. b \notin N /\ N \in SUBSET V
    <2>1. Shorts(m)[<<a, b>>] \in Nat
      BY DistanceRules
    <2> QED BY <2>1 DEF Nearer
  <1> HIDE DEF V, N
  <1>4. IsFiniteSet(N) /\ Cardinality(N) <= Cardinality(V) /\ Cardinality(N) \in Nat
    BY <1>2, <1>3, FS_Subset, FS_CardinalityType
  <1>5. Cardinality(N) # Cardinality(V)
    BY <1>2, <1>3, FS_Subset DEF V
  <1> QED BY <1>1, <1>2, <1>4, <1>5 DEF N

\* Each node on the shortest way is one of the nearer ones, and no road is too long.
LEMMA NearIsBounded ==
  ASSUME NEW m \in Map, NEW a \in Vertices(m.size)
  PROVE  \A b \in Vertices(m.size) : Near(m, a, b) =>
           m.size * Shorts(m)[<<a, b>>] <= Cardinality(Nearer(m, a, b)) * (Far - 1)
  <1> DEFINE V == Vertices(m.size)
             D == [n \in V |-> Shorts(m)[<<a, n>>]]
             R == [n \in V |-> Nearer(m, a, n)]
             E == Far - 1
             bound(n) == m.size * D[n] <= Cardinality(R[n]) * E
             Good == {k \in Nat : \A n \in V : D[n] < k /\ D[n] < Far => bound(n)}
  <1>1. m.size \in Nat /\ E \in Nat /\ E > 0 /\ Far = E + 1
    BY MapFacts, FarIsNat
  <1>2. \A n \in V : D[n] \in Nat /\ IsFiniteSet(R[n]) /\ Cardinality(R[n]) \in Nat
    <2> SUFFICES ASSUME NEW n \in V
                 PROVE  D[n] \in Nat /\ IsFiniteSet(R[n]) /\ Cardinality(R[n]) \in Nat
      OBVIOUS
    <2>1. D[n] \in Nat
      BY DistanceRules
    <2> QED BY <2>1, NearerFacts, FS_CardinalityType
  <1>3. D[a] = 0
    BY DistanceRules
  <1>4. \A n \in V : R[n] = {q \in V : D[q] < D[n]}
    BY DEF Nearer
  <1>5. ASSUME NEW n \in V, n # a, D[n] < Far
        PROVE  \E q \in V : /\ D[q] < D[n] /\ D[q] < Far
                            /\ m.size * D[n] <= m.size * D[q] + E
    <2>1. PICK q \in V : /\ <<q, n>> \in DOMAIN m.weight
                         /\ Shorts(m)[<<a, q>>] + m.weight[<<q, n>>] <= Shorts(m)[<<a, n>>]
      BY <1>5, DistanceFacts DEF AreShortest, LastRoad
    <2> DEFINE w == m.weight[<<q, n>>]
    <2>2. w \in Nat /\ w > 0
      BY <2>1, MapFacts DEF IsNetwork
    <2>3. m.size * w < Far
      BY <2>1, FarAssumption
    <2>4. Shorts(m)[<<a, n>>] <= Shorts(m)[<<a, q>>] + Shorts(m)[<<q, n>>]
          /\ Shorts(m)[<<q, n>>] <= w /\ Shorts(m)[<<q, n>>] \in Nat
      BY <2>1, DistanceRules
    <2>5. D[q] \in Nat /\ D[n] \in Nat
      BY <1>2
    <2>6. D[q] + w <= D[n]
      BY <2>1
    <2>7. D[n] <= D[q] + w
      <3>1. D[n] <= D[q] + Shorts(m)[<<q, n>>]
        BY <2>4
      <3> HIDE DEF D, w
      <3> QED BY <2>2, <2>4, <2>5, <3>1
    <2> HIDE DEF D, w
    <2>8. D[q] < D[n] /\ D[q] < Far
      BY <1>1, <1>5, <2>2, <2>5, <2>6
    <2>9. m.size * D[n] <= m.size * (D[q] + w)
      BY <1>1, <2>2, <2>5, <2>7, Times
    <2>10. m.size * (D[q] + w) = m.size * D[q] + m.size * w
      BY <1>1, <2>2, <2>5, Times
    <2>11. m.size * D[n] <= m.size * D[q] + E
      <3> DEFINE x == m.size * D[n]
                 y == m.size * D[q]
                 z == m.size * w
      <3>1. x \in Int /\ y \in Int /\ z \in Int
        BY <1>1, <2>2, <2>5
      <3>2. x <= y + z /\ z < Far
        BY <2>3, <2>9, <2>10
      <3> HIDE DEF x, y, z
      <3>3. x <= y + E
        BY <1>1, <3>1, <3>2
      <3> QED BY <3>3 DEF x, y
    <2> QED BY <2>8, <2>11
  <1> HIDE DEF R, D, E
  <1>6. 0 \in Good
    BY <1>2
  <1>7. ASSUME NEW k \in Nat, k \in Good PROVE k + 1 \in Good
    <2> SUFFICES ASSUME NEW n \in V, D[n] < k + 1, D[n] < Far PROVE bound(n)
      OBVIOUS
    <2>1. CASE n = a
      <3>1. m.size * D[n] = 0
        BY <1>1, <1>3, <2>1
      <3>2. Cardinality(R[n]) * E \in Nat
        BY <1>1, <1>2
      <3> QED BY <3>1, <3>2
    <2>2. CASE n # a
      <3>1. PICK q \in V : D[q] < D[n] /\ D[q] < Far /\ m.size * D[n] <= m.size * D[q] + E
        BY <1>5, <2>2
      <3>2. D[q] \in Nat /\ D[n] \in Nat
        BY <1>2
      <3>3. D[q] < k
        BY <3>1, <3>2
      <3>4. bound(q)
        BY <1>7, <3>1, <3>3
      <3>5. R[q] \subseteq R[n] /\ q \in R[n] /\ q \notin R[q]
        BY <1>2, <1>4, <3>1
      <3>6. Cardinality(R[q]) + 1 <= Cardinality(R[n])
        <4>1. Cardinality(R[q] \cup {q}) = Cardinality(R[q]) + 1
          BY <1>2, <3>5, FS_AddElement
        <4>2. R[q] \cup {q} \in SUBSET R[n]
          BY <3>5
        <4>3. Cardinality(R[q] \cup {q}) <= Cardinality(R[n])
          BY <1>2, <4>2, FS_Subset
        <4> QED BY <4>1, <4>3
      <3> DEFINE r == Cardinality(R[q])
                 t == Cardinality(R[n])
      <3>7. r \in Nat /\ t \in Nat /\ r + 1 <= t
        BY <1>2, <3>6
      <3>8. m.size * D[q] <= r * E
        BY <3>4
      <3> DEFINE x == m.size * D[n]
                 y == m.size * D[q]
      <3>9. x \in Int /\ y \in Int /\ x <= y + E
        BY <1>1, <3>1, <3>2
      <3> HIDE DEF r, t, x
      <3>10. y <= r * E
        BY <3>8
      <3> HIDE DEF y
      <3>11. x <= t * E
        <4>1. r * E + E <= t * E /\ r * E \in Nat /\ t * E \in Nat
          BY <1>1, <3>7, TimesGrows
        <4> DEFINE re == r * E
                   te == t * E
        <4>2. re + E <= te /\ re \in Nat /\ te \in Nat /\ y <= re
          BY <3>10, <4>1
        <4> HIDE DEF re, te, E
        <4>3. x <= te
          BY <1>1, <3>9, <4>2
        <4> QED BY <4>3 DEF te
      <3> QED BY <1>1, <3>11 DEF x, t
    <2> QED BY <2>1, <2>2
  <1>8. Nat \subseteq Good
    <2> HIDE DEF Good
    <2> QED BY <1>6, <1>7, NatSetInduction
  <1>9. ASSUME NEW n \in V, D[n] < Far PROVE bound(n)
    <2>1. D[n] + 1 \in Nat /\ D[n] < D[n] + 1
      BY <1>2
    <2>2. D[n] + 1 \in Good
      <3> HIDE DEF Good
      <3> QED BY <1>8, <2>1
    <2> QED BY <1>9, <2>1, <2>2
  <1> QED BY <1>9 DEF Near, D, R, E

\* What is near a stays near by one more road.
LEMMA NearByRoad ==
  ASSUME NEW m \in Map, NEW a \in Vertices(m.size), NEW n \in Vertices(m.size),
         NEW k \in Vertices(m.size), <<n, k>> \in DOMAIN m.weight, Near(m, a, n)
  PROVE  Near(m, a, k)
  <1> DEFINE s == m.size
             w == m.weight[<<n, k>>]
             D == Shorts(m)[<<a, n>>]
             F == Shorts(m)[<<a, k>>]
             r == Cardinality(Nearer(m, a, n))
             E == Far - 1
  <1>1. E \in Nat /\ Far = E + 1
    BY FarIsNat
  <1>2. s \in Nat /\ w \in Nat /\ D \in Nat /\ F \in Nat
    BY MapFacts, DistanceRules DEF IsNetwork
  <1>3. s > 0
    <2>1. a \in 0..(s - 1)
      BY DEF Vertices
    <2> HIDE DEF s
    <2> QED BY <1>2, <2>1
  <1>4. r \in 0..(s - 1)
    BY NearerFacts
  <1>5. s * D <= r * E
    BY NearIsBounded
  <1>6. s * w < Far
    BY FarAssumption
  <1>7. F <= D + w
    <2>1. F <= D + Shorts(m)[<<n, k>>] /\ Shorts(m)[<<n, k>>] <= w /\ Shorts(m)[<<n, k>>] \in Nat
      BY DistanceRules
    <2> HIDE DEF D, F, w
    <2> QED BY <1>2, <2>1
  <1>8. F < Far => Near(m, a, k)
    BY DEF Near
  <1> HIDE DEF s, w, D, F, r, E
  <1>9. s * F <= s * (D + w) /\ s * (D + w) = s * D + s * w
    BY <1>2, <1>7, Times
  <1>10. r \in Nat /\ r + 1 <= s
    BY <1>2, <1>4
  <1>11. r * E + E <= s * E /\ r * E \in Nat /\ s * E \in Nat
    BY <1>1, <1>2, <1>10, TimesGrows
  <1> DEFINE x == s * F
             y == s * D
             z == s * w
             re == r * E
             se == s * E
  <1>12. x \in Int /\ y \in Int /\ z \in Int /\ x <= y + z
    BY <1>2, <1>9
  <1>13. y <= re /\ z < E + 1 /\ re + E <= se /\ re \in Nat /\ se \in Nat
    BY <1>1, <1>5, <1>6, <1>11
  <1>14. x <= se
    <2> HIDE DEF x, y, z, re, se
    <2> QED BY <1>1, <1>12, <1>13
  <1>15. F <= E
    BY <1>1, <1>2, <1>3, <1>14, Times
  <1> QED BY <1>1, <1>2, <1>8, <1>15

\* A set of nodes that no road leaves has all that is near one of it.
LEMMA NearStaysIn ==
  ASSUME NEW m \in Map, NEW C \in SUBSET Vertices(m.size),
         \A n, k \in Vertices(m.size) : n \in C /\ <<n, k>> \in DOMAIN m.weight => k \in C,
         NEW a \in C, NEW b \in Vertices(m.size), Near(m, a, b)
  PROVE  b \in C
  <1> DEFINE V == Vertices(m.size)
             c == [n \in V |-> 0]
  <1>1. \A e \in DOMAIN m.weight : /\ e[1] \in V /\ e[2] \in V /\ e = <<e[1], e[2]>>
                                   /\ m.weight[e] \in Nat
    <2>1. \A e \in Cells(m.size) : e[1] \in V /\ e[2] \in V /\ e = <<e[1], e[2]>>
      BY DEF Cells
    <2> QED BY <2>1, MapFacts DEF IsNetwork
  <1>2. \A e \in DOMAIN m.weight : e[1] \in C => e[2] \in C /\ c[e[2]] <= c[e[1]] + m.weight[e]
    BY <1>1
  <1>3. IsPotential(C, c, m.size, m.weight)
    BY <1>2 DEF IsPotential
  <1> HIDE DEF c
  <1>4. Bounds(C, c, Shorts(m), m.size)
    BY <1>3, DistanceFacts DEF AreShortest
  <1> QED BY <1>4 DEF Bounds, Near

\* Nearness is an equivalence.
LEMMA NearIsMutual ==
  ASSUME NEW m \in Map, NEW a \in Vertices(m.size), NEW b \in Vertices(m.size)
  PROVE  /\ Near(m, a, a)
         /\ Near(m, a, b) => Near(m, b, a)
         /\ \A c \in Vertices(m.size) : Near(m, a, b) /\ Near(m, b, c) => Near(m, a, c)
  <1> DEFINE V == Vertices(m.size)
  <1>1. ASSUME NEW x \in V PROVE Near(m, x, x)
    <2>1. Shorts(m)[<<x, x>>] = 0
      BY DistanceRules
    <2> QED BY <2>1, FarIsNat DEF Near
  <1>2. ASSUME NEW x \in V, NEW y \in V, NEW z \in V, Near(m, x, y), Near(m, y, z)
        PROVE  Near(m, x, z)
    <2> DEFINE C == {n \in V : Near(m, x, n)}
    <2>1. C \in SUBSET V /\ y \in C
      BY <1>2
    <2>2. \A n, k \in V : n \in C /\ <<n, k>> \in DOMAIN m.weight => k \in C
      BY NearByRoad
    <2>3. z \in C
      <3> HIDE DEF C
      <3> QED BY <1>2, <2>1, <2>2, NearStaysIn
    <2> QED BY <2>3
  <1>3. ASSUME Near(m, a, b) PROVE Near(m, b, a)
    <2> DEFINE C == {n \in V : Near(m, n, a)}
    <2>1. C \in SUBSET V /\ a \in C
      BY <1>1
    <2>2. ASSUME NEW n \in V, NEW k \in V, n \in C, <<n, k>> \in DOMAIN m.weight PROVE k \in C
      <3>1. <<k, n>> \in DOMAIN m.weight
        BY <2>2, MapFacts DEF IsNetwork
      <3>2. Near(m, k, n)
        BY <1>1, <3>1, NearByRoad
      <3>3. Near(m, k, a)
        BY <1>2, <2>2, <3>2
      <3> QED BY <3>3
    <2>3. b \in C
      <3> HIDE DEF C
      <3> QED BY <1>3, <2>1, <2>2, NearStaysIn
    <2> QED BY <2>3
  <1> QED BY <1>1, <1>2, <1>3

-----------------------------------------------------------------------------
(* What is known is near                                                    *)

\* What a tree has reached is near its root.
LEMMA ReachedIsNear ==
  ASSUME NEW m \in Map, NEW root, NEW s, Ways(m, root, s),
         NEW n \in Vertices(m.size), s.cost[n] # None
  PROVE  Near(m, root, n)
  <1> DEFINE G == {k \in Vertices(m.size) : Near(m, root, k)}
  <1>1. root \in Vertices(m.size)
    BY DEF Ways
  <1>2. root \in G
    BY <1>1, NearIsMutual
  <1>3. ASSUME NEW k \in Vertices(m.size) \ {root}, s.cost[k] # None,
               s.parent[k] \in Vertices(m.size), s.parent[k] \in G
        PROVE  k \in G
    <2>1. s.parent[k] # None
      BY <1>3 DEF Ways
    <2>2. <<s.parent[k], k>> \in DOMAIN m.weight
      BY <1>3, <2>1 DEF Ways
    <2>3. Near(m, root, s.parent[k])
      BY <1>3
    <2>4. Near(m, root, k)
      BY <1>1, <1>3, <2>2, <2>3, NearByRoad
    <2> QED BY <2>4
  <1>4. n \in G
    <2> HIDE DEF G
    <2> QED BY <1>2, <1>3, WaysInduction
  <1> QED BY <1>4

\* The destinations of a pair with a known distance are near each other.
LEMMA KnownIsLinked ==
  ASSUME SearchInv, system = "BiAstar", NEW k \in Layer, entry[Ids(k)] # None
  PROVE  Linked(map, Ids(k)[1], Ids(k)[2])
  <1> DEFINE x == joint[Ids(k)]
             t == trees[k]
  <1>1. map \in Map /\ BiSound(map, k, t) /\ Joins(map, t, x, entry[Ids(k)])
    BY DEF SearchInv, BiInv
  <1>2. /\ Ways(map, StartOf(k), t.fwd) /\ Ways(map, GoalOf(k), t.bwd)
        /\ x \in Vertices(map.size) /\ t.fwd.cost[x] # None /\ t.bwd.cost[x] # None
    BY <1>1 DEF BiSound, Side, Joins
  <1>3. StartOf(k) \in Vertices(map.size) /\ GoalOf(k) \in Vertices(map.size)
    BY <1>1, StopsOfLayers
  <1> HIDE DEF x, t
  <1>4. Near(map, StartOf(k), x) /\ Near(map, GoalOf(k), x)
    BY <1>1, <1>2, ReachedIsNear
  <1>5. Near(map, x, GoalOf(k))
    BY <1>1, <1>2, <1>3, <1>4, NearIsMutual
  <1>6. Near(map, StartOf(k), GoalOf(k))
    BY <1>1, <1>2, <1>3, <1>4, <1>5, NearIsMutual
  <1> QED BY <1>6 DEF Near, Linked, StartOf, GoalOf

\* One class of known pairs is one class of the network.
LEMMA ConnectedIsLinked ==
  ASSUME SearchInv, system = "BiAstar", sets.connected
  PROVE  \A i, j \in Tree : MapLinks(i, j)
  <1> DEFINE near(i, j) == Near(map, Stop[i], Stop[j])
             C == {i \in Tree : near(0, i)}
  <1>1. map \in Map /\ Matrices(entry, joint, sets) /\ 0 \in Tree
    BY TreesNumbered DEF SearchInv
  <1>2. \A i \in Tree : Stop[i] \in Vertices(map.size)
    BY <1>1, MapFacts
  <1>3. \A i, j, h \in Tree : /\ near(i, i) /\ (near(i, j) => near(j, i))
                              /\ near(i, j) /\ near(j, h) => near(i, h)
    BY <1>1, <1>2, NearIsMutual
  <1>4. ASSUME NEW q \in LinkPairs(entry) PROVE q \subseteq C \/ q \cap C = {}
    <2>1. PICK p \in Pair : q = {p[1], p[2]} /\ entry[p] # None
      BY DEF LinkPairs
    <2>2. PICK k \in Layer : Ids(k) = p
      BY IdsOfLayers
    <2>3. p[1] \in Tree /\ p[2] \in Tree
      BY PairFacts
    <2>4. near(p[1], p[2])
      BY <2>1, <2>2, KnownIsLinked DEF Linked, Near
    <2> QED BY <1>1, <1>3, <2>1, <2>3, <2>4
  <1>5. Closed(C, LinkPairs(entry)) /\ C \in SUBSET Tree /\ 0 \in C
    BY <1>1, <1>3, <1>4 DEF Closed
  <1>6. \A i \in Tree : i \in C
    <2> HIDE DEF C
    <2> QED BY <1>1, <1>5 DEF Matrices, Partitions
  <1>7. \A i, j \in Tree : near(i, j)
    BY <1>1, <1>3, <1>6
  <1> QED BY <1>7 DEF MapLinks, Near, Distance, Shorts

\* Once every pair was explored, the known pairs connect what the network connects.
LEMMA LinkedIsConnected ==
  ASSUME SearchInv, system = "BiAstar", unexplored = {}, \A i, j \in Tree : MapLinks(i, j)
  PROVE  sets.connected
  <1>1. Partitions(sets, Tree, LinkPairs(entry)) /\ 0 \in Tree
    BY TreesNumbered DEF SearchInv, Matrices
  <1>2. \A i, j \in Tree : Linked(map, i, j)
    BY DEF MapLinks, Distance, Linked, Shorts
  <1>3. ASSUME NEW k \in Layer PROVE entry[Ids(k)] # None
    <2>1. Ids(k)[1] \in Tree /\ Ids(k)[2] \in Tree
      BY StopsOfLayers DEF SearchInv
    <2> QED BY <1>2, <2>1 DEF SearchInv, BiInv
  <1>4. ASSUME NEW i \in Tree, i # 0 PROVE sets.parent[i] = sets.parent[0]
    <2>1. <<0, i>> \in Pair
      BY <1>1, <1>4, TreesNumbered, PairFacts
    <2>2. PICK k \in Layer : Ids(k) = <<0, i>>
      BY <2>1, IdsOfLayers
    <2>3. entry[<<0, i>>] # None
      BY <1>3, <2>2
    <2>4. {0, i} \in LinkPairs(entry)
      <3>1. <<0, i>>[1] = 0 /\ <<0, i>>[2] = i
        OBVIOUS
      <3> QED BY <2>1, <2>3, <3>1 DEF LinkPairs
    <2> QED BY <1>1, <2>4 DEF Partitions
  <1> QED BY <1>1, <1>4 DEF Partitions

\* When BiAstar is done with every pair, it has an answer exactly when the network connects
\* the destinations, so make_result calls them disconnected when they are (bi_astar.rs).
THEOREM AnswersAsTheNetwork == Spec => []AnswersIffConnected
  <1>1. SearchInv => AnswersIffConnected
    <2> SUFFICES ASSUME SearchInv, system = "BiAstar", phase = "done", unexplored = {}
                 PROVE  best # None <=> \A i, j \in Tree : MapLinks(i, j)
      BY DEF AnswersIffConnected
    <2>1. best # None <=> sets.connected
      BY DEF SearchInv, Answered
    <2> QED BY <2>1, ConnectedIsLinked, LinkedIsConnected
  <1> QED BY <1>1, SearchIsSound, PTL

-----------------------------------------------------------------------------
(* Trips                                                                    *)

\* Along q, h grows by the length of each road or more.
Paced(m, q, h) ==
  \A k \in 1..(Len(q) - 1) :
    <<q[k], q[k + 1]>> \in DOMAIN m.weight /\ h[k] + m.weight[<<q[k], q[k + 1]>>] <= h[k + 1]

\* q leads from a to b over roads that are not longer than d together.
Trip(m, q, a, b, d) ==
  /\ q \in Seq(Vertices(m.size)) /\ Len(q) \in Nat \ {0} /\ q[1] = a /\ q[Len(q)] = b
  /\ \E h \in [1..Len(q) -> Int] : h[1] = 0 /\ h[Len(q)] <= d /\ Paced(m, q, h)

\* A trip is a walk of the network, not shorter than the shortest.
LEMMA TripLength ==
  ASSUME NEW m \in Map, NEW a, NEW b, NEW d \in Int, NEW q, Trip(m, q, a, b, d)
  PROVE  /\ a \in Vertices(m.size) /\ b \in Vertices(m.size)
         /\ q # Panic /\ IsWalk(m.weight, q) /\ Last(q) = b
         /\ Length(m.weight, q) <= d /\ Shorts(m)[<<a, b>>] <= Length(m.weight, q)
  <1> DEFINE V == Vertices(m.size)
             N == Len(q) - 1
             w == m.weight
             v == LegLengths(w, q)
             f == [k \in 1..(N + 1) |-> Shorts(m)[<<a, q[k]>>]]
  <1>1. PICK h \in [1..Len(q) -> Int] : h[1] = 0 /\ h[Len(q)] <= d /\ Paced(m, q, h)
    BY DEF Trip
  <1>2. /\ q \in Seq(V) /\ Len(q) \in Nat \ {0} /\ q[1] = a /\ q[Len(q)] = b
        /\ N \in Nat /\ N + 1 = Len(q)
    BY DEF Trip
  <1>3. \A k \in 1..(N + 1) : q[k] \in V
    BY <1>2
  <1>4. \A k \in 1..N : k \in 1..(N + 1) /\ k + 1 \in 1..(N + 1)
    BY <1>2
  <1>5. \A k \in 1..N : <<q[k], q[k + 1]>> \in DOMAIN w /\ w[<<q[k], q[k + 1]>>] \in Nat
    BY <1>1, MapFacts DEF Paced, IsNetwork
  <1>6. v \in [1..N -> Nat] /\ \A k \in 1..N : v[k] = w[<<q[k], q[k + 1]>>]
    BY <1>5 DEF LegLengths
  <1>7. a \in V /\ b \in V /\ q # Panic /\ Last(q) = b
    BY <1>2, <1>3 DEF Panic, Last
  <1>8. IsWalk(w, q)
    <2>1. DOMAIN Legs(q) = 1..N /\ \A k \in 1..N : Legs(q)[k] = <<q[k], q[k + 1]>>
      BY DEF Legs
    <2> QED BY <1>5, <2>1 DEF IsWalk
  <1> HIDE DEF v, N
  <1>9. PICK F : IsSum(F, 1..N, v) /\ Length(w, q) = F[1..N]
    <2>1. \A k \in 1..(Len(q) - 1) : v[k] \in Nat
      BY <1>6 DEF N
    <2> QED BY <1>2, <2>1, LengthIsSum DEF N, v
  <1>10. F[1..N] \in Nat
    BY <1>9 DEF IsSum
  <1>11. h[1] + F[1..N] <= h[N + 1]
    <2>1. \A k \in 1..N : h[k + 1] \in Int /\ h[k] + v[k] <= h[k + 1]
      BY <1>1, <1>2, <1>4, <1>6 DEF Paced, N
    <2>2. h[1] \in Int
      BY <1>1
    <2> QED BY <1>2, <1>6, <1>9, <2>1, <2>2, SumWithinSteps
  <1>12. Length(w, q) <= d
    <2>1. h[N + 1] \in Int /\ h[N + 1] <= d
      BY <1>1, <1>2
    <2> QED BY <1>1, <1>9, <1>10, <1>11, <2>1
  <1>13. \A k \in 1..(N + 1) : f[k] \in Nat /\ f[k] = Shorts(m)[<<a, q[k]>>]
    BY <1>3, <1>7, DistanceRules
  <1>14. ASSUME NEW k \in 1..N PROVE f[k + 1] <= f[k] + v[k]
    <2> DEFINE x == Shorts(m)[<<q[k], q[k + 1]>>]
    <2>1. q[k] \in V /\ q[k + 1] \in V /\ v[k] \in Nat
      BY <1>3, <1>4, <1>6
    <2>2. x \in Nat /\ x <= v[k]
      BY <1>5, <1>6, <2>1, DistanceRules
    <2>3. f[k + 1] <= f[k] + x
      BY <1>4, <1>7, <1>13, <2>1, DistanceRules
    <2>4. f[k] \in Nat /\ f[k + 1] \in Nat
      BY <1>4, <1>13
    <2> HIDE DEF x, f
    <2> QED BY <2>1, <2>2, <2>3, <2>4
  <1>15. f[1] = 0 /\ f[N + 1] = Shorts(m)[<<a, b>>] /\ f[N + 1] \in Nat
    <2>1. 1 \in 1..(N + 1) /\ N + 1 \in 1..(N + 1)
      BY <1>2
    <2>2. f[1] = Shorts(m)[<<a, a>>] /\ f[N + 1] = Shorts(m)[<<a, b>>]
      BY <1>2, <1>13, <2>1
    <2>3. Shorts(m)[<<a, a>>] = 0
      BY <1>7, DistanceRules
    <2> HIDE DEF f
    <2> QED BY <1>13, <2>1, <2>2, <2>3
  <1>16. f[N + 1] <= f[1] + F[1..N]
    <2>1. 0 \in Int /\ \A k \in 1..(N + 1) : f[k] \in Int
      BY <1>13
    <2> HIDE DEF f
    <2>2. \A k \in 1..N : f[k + 1] \in Int /\ f[k + 1] <= f[k] + v[k]
      BY <1>4, <1>14, <2>1
    <2>3. f[1] \in Int
      BY <1>15
    <2> QED BY <1>2, <1>6, <1>9, <2>2, <2>3, SumCoversSteps
  <1>17. Shorts(m)[<<a, b>>] <= Length(w, q)
    <2> HIDE DEF f
    <2> QED BY <1>9, <1>10, <1>15, <1>16
  <1> QED BY <1>7, <1>8, <1>12, <1>17

\* The way back is as long.
LEMMA TripReversed ==
  ASSUME NEW m \in Map, NEW a, NEW b, NEW d \in Int, NEW q, Trip(m, q, a, b, d)
  PROVE  Trip(m, Reverse(q), b, a, d) /\ Len(Reverse(q)) = Len(q)
  <1> DEFINE V == Vertices(m.size)
             L == Len(q)
             r == Reverse(q)
             back(k) == (L - k) + 1
  <1>1. PICK h \in [1..L -> Int] : h[1] = 0 /\ h[L] <= d /\ Paced(m, q, h)
    BY DEF Trip
  <1>2. q \in Seq(V) /\ L \in Nat \ {0} /\ q[1] = a /\ q[L] = b
    BY DEF Trip
  <1>3. r \in Seq(V) /\ Len(r) = L
    BY <1>2, ReverseType
  <1>4. \A k \in 1..L : back(k) \in 1..L /\ r[k] = q[back(k)]
    BY <1>2 DEF Reverse
  <1> DEFINE g == [k \in 1..L |-> h[L] - h[back(k)]]
  <1>5. g \in [1..L -> Int] /\ \A k \in 1..L : g[k] = h[L] - h[back(k)] /\ h[back(k)] \in Int
    <2>1. L \in 1..L /\ \A k \in 1..L : back(k) \in 1..L
      BY <1>2, <1>4
    <2> HIDE DEF back, L
    <2>2. h[L] \in Int /\ \A k \in 1..L : h[back(k)] \in Int
      BY <2>1
    <2> QED BY <2>2
  <1>6. 1 \in 1..L /\ L \in 1..L /\ back(1) = L /\ back(L) = 1
    BY <1>2
  <1>7. r[1] = b /\ r[L] = a /\ g[1] = 0 /\ g[L] <= d
    <2>1. r[1] = b /\ r[L] = a
      BY <1>2, <1>4, <1>6
    <2>2. g[1] = h[L] - h[L] /\ g[L] = h[L] - h[1] /\ h[L] \in Int
      BY <1>5, <1>6
    <2> HIDE DEF g
    <2> QED BY <1>1, <2>1, <2>2
  <1>8. ASSUME NEW k \in 1..(L - 1)
        PROVE  <<r[k], r[k + 1]>> \in DOMAIN m.weight
               /\ g[k] + m.weight[<<r[k], r[k + 1]>>] <= g[k + 1]
    <2> DEFINE i == back(k + 1)
    <2>1. /\ k \in 1..L /\ k + 1 \in 1..L /\ i \in 1..(L - 1) /\ i + 1 = back(k)
      BY <1>2
    <2>2. r[k] = q[i + 1] /\ r[k + 1] = q[i] /\ g[k] = h[L] - h[i + 1] /\ g[k + 1] = h[L] - h[i]
      BY <1>4, <1>5, <2>1
    <2>3. h[i] \in Int /\ h[i + 1] \in Int /\ h[L] \in Int
      <3>1. i \in 1..L /\ i + 1 \in 1..L /\ L \in 1..L
        BY <1>2, <2>1
      <3> HIDE DEF i, back, L
      <3> QED BY <1>2, <3>1 DEF L
    <2> HIDE DEF i, g, back
    <2>4. /\ <<q[i], q[i + 1]>> \in DOMAIN m.weight
          /\ h[i] + m.weight[<<q[i], q[i + 1]>>] <= h[i + 1]
      BY <1>1, <2>1 DEF Paced
    <2> DEFINE x == m.weight[<<q[i], q[i + 1]>>]
    <2>5. <<q[i + 1], q[i]>> \in DOMAIN m.weight /\ m.weight[<<q[i + 1], q[i]>>] = x /\ x \in Nat
      <3>1. <<q[i], q[i + 1]>>[1] = q[i] /\ <<q[i], q[i + 1]>>[2] = q[i + 1]
        OBVIOUS
      <3> QED BY <2>4, <3>1, MapFacts DEF IsNetwork
    <2>6. h[i] + x <= h[i + 1]
      BY <2>4
    <2> HIDE DEF x
    <2>7. g[k] + x <= g[k + 1]
      BY <2>2, <2>3, <2>5, <2>6
    <2> QED BY <2>2, <2>5, <2>7
  <1>9. Paced(m, r, g)
    <2> HIDE DEF g, r
    <2> QED BY <1>3, <1>8 DEF Paced
  <1> HIDE DEF g, r
  <1>10. Trip(m, r, b, a, d)
    BY <1>2, <1>3, <1>5, <1>7, <1>9 DEF Trip
  <1> QED BY <1>3, <1>10 DEF r

\* One trip after the other.
LEMMA TripJoined ==
  ASSUME NEW m \in Map, NEW a, NEW b, NEW c, NEW d \in Int, NEW e \in Int,
         NEW q, Trip(m, q, a, b, d), NEW r, Trip(m, r, b, c, e)
  PROVE  Trip(m, q \o Tail(r), a, c, d + e)
  <1> DEFINE V == Vertices(m.size)
             M == Len(q)
             N == Len(r)
             j == q \o Tail(r)
             L == M + (N - 1)
  <1>1. PICK g \in [1..M -> Int] : g[1] = 0 /\ g[M] <= d /\ Paced(m, q, g)
    BY DEF Trip
  <1>2. PICK h \in [1..N -> Int] : h[1] = 0 /\ h[N] <= e /\ Paced(m, r, h)
    BY DEF Trip
  <1>3. /\ q \in Seq(V) /\ M \in Nat \ {0} /\ q[1] = a /\ q[M] = b
        /\ r \in Seq(V) /\ N \in Nat \ {0} /\ r[1] = b /\ r[N] = c
    BY DEF Trip
  <1>4. /\ j \in Seq(V) /\ Len(j) = L
        /\ \A k \in 1..M : j[k] = q[k]
        /\ \A k \in 1..N : j[(M - 1) + k] = r[k]
    BY <1>3, JoinedFacts
  <1> HIDE DEF j, M, N
  <1> DEFINE f == [k \in 1..L |-> IF k <= M THEN g[k] ELSE g[M] + h[k - (M - 1)]]
  <1>5. M \in 1..M /\ 1 \in 1..M /\ N \in 1..N /\ 1 \in 1..N /\ L \in Nat \ {0}
    BY <1>3
  <1>6. g[M] \in Int /\ h[N] \in Int /\ \A k \in 1..M : g[k] \in Int
    BY <1>5
  <1>7. \A k \in 1..N : h[k] \in Int
    OBVIOUS
  <1>8. ASSUME NEW k \in 1..M PROVE f[k] = g[k]
    <2>1. k \in 1..L /\ k <= M
      BY <1>3
    <2> QED BY <2>1
  <1>9. ASSUME NEW k \in 1..N PROVE f[(M - 1) + k] = g[M] + h[k]
    <2> DEFINE i == (M - 1) + k
    <2>1. i \in 1..L /\ i - (M - 1) = k
      BY <1>3
    <2>2. CASE k = 1
      <3>1. i = M
        BY <1>3, <2>2
      <3> HIDE DEF f, i
      <3>2. f[i] = g[M] + 0
        BY <1>5, <1>6, <1>8, <3>1
      <3> QED BY <1>2, <2>2, <3>2 DEF i
    <2>3. CASE k # 1
      <3>1. ~ i <= M
        BY <1>3, <2>3
      <3> HIDE DEF i
      <3>2. f[i] = g[M] + h[i - (M - 1)]
        BY <2>1, <3>1
      <3> QED BY <2>1, <3>2 DEF i
    <2> QED BY <2>2, <2>3
  <1>10. f \in [1..L -> Int]
    <2>1. ASSUME NEW k \in 1..L PROVE f[k] \in Int
      <3>1. CASE k <= M
        <4>1. k \in 1..M
          BY <1>3, <3>1
        <4> HIDE DEF f
        <4> QED BY <1>6, <1>8, <4>1
      <3>2. CASE ~ k <= M
        <4> DEFINE i == k - (M - 1)
        <4>1. i \in 1..N /\ (M - 1) + i = k
          BY <1>3, <3>2
        <4> HIDE DEF f, i
        <4> QED BY <1>6, <1>7, <1>9, <4>1
      <3> QED BY <3>1, <3>2
    <2> QED BY <2>1
  <1> HIDE DEF f
  <1>11. f[1] = 0 /\ f[L] <= d + e
    <2>1. L = (M - 1) + N
      BY <1>3
    <2>2. f[1] = g[1] /\ f[L] = g[M] + h[N]
      BY <1>5, <1>8, <1>9, <2>1
    <2> QED BY <1>1, <1>2, <1>6, <2>2
  <1>12. j[1] = a /\ j[L] = c
    <2>1. L = (M - 1) + N
      BY <1>3
    <2>2. j[1] = q[1] /\ j[(M - 1) + N] = r[N]
      BY <1>4, <1>5
    <2> QED BY <1>3, <2>1, <2>2
  <1>13. ASSUME NEW k \in 1..(L - 1)
         PROVE  <<j[k], j[k + 1]>> \in DOMAIN m.weight
                /\ f[k] + m.weight[<<j[k], j[k + 1]>>] <= f[k + 1]
    <2>1. CASE k < M
      <3>1. k \in 1..(M - 1) /\ k \in 1..M /\ k + 1 \in 1..M
        BY <1>3, <2>1
      <3>2. j[k] = q[k] /\ j[k + 1] = q[k + 1] /\ f[k] = g[k] /\ f[k + 1] = g[k + 1]
        BY <1>4, <1>8, <3>1
      <3> QED BY <1>1, <3>1, <3>2 DEF Paced, M
    <2>2. CASE ~ k < M
      <3> DEFINE i == k - (M - 1)
      <3>1. /\ i \in 1..(N - 1) /\ i \in 1..N /\ i + 1 \in 1..N
            /\ (M - 1) + i = k /\ (M - 1) + (i + 1) = k + 1
        BY <1>3, <2>2
      <3> HIDE DEF i
      <3>2. /\ j[k] = r[i] /\ j[k + 1] = r[i + 1]
            /\ f[k] = g[M] + h[i] /\ f[k + 1] = g[M] + h[i + 1]
        BY <1>4, <1>9, <3>1
      <3> DEFINE w == m.weight[<<r[i], r[i + 1]>>]
      <3>3. <<r[i], r[i + 1]>> \in DOMAIN m.weight /\ h[i] + w <= h[i + 1]
        BY <1>2, <3>1 DEF Paced, N
      <3>4. w \in Nat /\ h[i] \in Int /\ h[i + 1] \in Int
        BY <1>7, <3>1, <3>3, MapFacts DEF IsNetwork
      <3> HIDE DEF w
      <3>5. f[k] + w <= f[k + 1]
        <4> DEFINE x == h[i]
                   y == h[i + 1]
                   z == g[M]
        <4>1. x \in Int /\ y \in Int /\ z \in Int /\ x + w <= y
          BY <1>6, <3>3, <3>4
        <4>2. f[k] = z + x /\ f[k + 1] = z + y
          BY <3>2
        <4> HIDE DEF x, y, z
        <4> QED BY <3>4, <4>1, <4>2
      <3> QED BY <3>2, <3>3, <3>5 DEF w
    <2> QED BY <2>1, <2>2
  <1>14. Paced(m, j, f) /\ f \in [1..Len(j) -> Int] /\ f[Len(j)] <= d + e
    BY <1>4, <1>10, <1>11, <1>13 DEF Paced
  <1> QED BY <1>4, <1>5, <1>11, <1>12, <1>14 DEF Trip, j

\* One road, and no road; and what is not longer than d is not longer than more.
LEMMA ShortTrips ==
  ASSUME NEW m \in Map, NEW a \in Vertices(m.size)
  PROVE  /\ Trip(m, <<a>>, a, a, 0)
         /\ \A b \in Vertices(m.size) : <<a, b>> \in DOMAIN m.weight =>
              Trip(m, <<a, b>>, a, b, m.weight[<<a, b>>])
         /\ \A b, q : \A d, e \in Int : Trip(m, q, a, b, d) /\ d <= e => Trip(m, q, a, b, e)
  <1> DEFINE V == Vertices(m.size)
  <1>1. Trip(m, <<a>>, a, a, 0)
    <2> DEFINE h == [k \in 1..1 |-> 0]
               q == <<a>>
    <2>1. q \in Seq(V) /\ Len(q) = 1 /\ q[1] = a
      OBVIOUS
    <2>2. h \in [1..1 -> Int] /\ h[1] = 0
      OBVIOUS
    <2> HIDE DEF h, q
    <2>3. Paced(m, q, h)
      BY <2>1 DEF Paced
    <2>4. Trip(m, q, a, a, 0)
      BY <2>1, <2>2, <2>3 DEF Trip
    <2> QED BY <2>4 DEF q
  <1>2. ASSUME NEW b \in V, <<a, b>> \in DOMAIN m.weight
        PROVE  Trip(m, <<a, b>>, a, b, m.weight[<<a, b>>])
    <2> DEFINE w == m.weight[<<a, b>>]
               h == [k \in 1..2 |-> IF k = 1 THEN 0 ELSE w]
               q == <<a, b>>
    <2>1. q \in Seq(V) /\ Len(q) = 2 /\ q[1] = a /\ q[2] = b
      OBVIOUS
    <2>2. w \in Nat
      BY <1>2, MapFacts DEF IsNetwork
    <2>3. h \in [1..2 -> Int] /\ h[1] = 0 /\ h[2] = w
      <3> HIDE DEF w
      <3> QED BY <2>2
    <2>4. \A k \in 1..(2 - 1) : k = 1 /\ k + 1 = 2
      OBVIOUS
    <2>5. <<q[1], q[2]>> = <<a, b>>
      BY <2>1
    <2> HIDE DEF h, q
    <2>6. h[1] + w <= h[2]
      <3> HIDE DEF w
      <3> QED BY <2>2, <2>3
    <2>7. \A k \in 1..(Len(q) - 1) : <<q[k], q[k + 1]>> = <<a, b>> /\ h[k] + w <= h[k + 1]
      <3> HIDE DEF w
      <3> QED BY <2>1, <2>4, <2>5, <2>6
    <2>8. Paced(m, q, h)
      BY <1>2, <2>7 DEF Paced
    <2>9. h[Len(q)] <= w
      <3> HIDE DEF w
      <3> QED BY <2>1, <2>2, <2>3
    <2>10. Trip(m, q, a, b, w)
      <3> HIDE DEF w
      <3> QED BY <2>1, <2>3, <2>8, <2>9 DEF Trip
    <2> QED BY <2>10 DEF q
  <1>3. ASSUME NEW b, NEW q, NEW d \in Int, NEW e \in Int, Trip(m, q, a, b, d), d <= e
        PROVE  Trip(m, q, a, b, e)
    <2>1. PICK h \in [1..Len(q) -> Int] : h[1] = 0 /\ h[Len(q)] <= d /\ Paced(m, q, h)
      BY <1>3 DEF Trip
    <2>2. /\ q \in Seq(V) /\ Len(q) \in Nat \ {0} /\ q[1] = a /\ q[Len(q)] = b
      BY <1>3 DEF Trip
    <2>3. h[Len(q)] \in Int
      BY <2>2
    <2>4. h[Len(q)] <= e
      BY <1>3, <2>1, <2>3
    <2> QED BY <2>1, <2>2, <2>4 DEF Trip
  <1> QED BY <1>1, <1>2, <1>3

\* The reached nodes that cost less than n.
Cheaper(m, s, n) == {x \in Vertices(m.size) : s.cost[x] # None /\ s.cost[x] < s.cost[n]}

\* There are fewer cheaper nodes than nodes, and fewer still than a cheaper one has.
LEMMA CheaperFacts ==
  ASSUME NEW m \in Map, NEW root, NEW s, Ways(m, root, s),
         NEW n \in Vertices(m.size), s.cost[n] # None
  PROVE  /\ Cardinality(Cheaper(m, s, n)) \in Nat /\ Cardinality(Cheaper(m, s, n)) < m.size
         /\ \A p \in Vertices(m.size) : s.cost[p] # None /\ s.cost[p] < s.cost[n] =>
              Cardinality(Cheaper(m, s, p)) < Cardinality(Cheaper(m, s, n))
  <1> DEFINE V == Vertices(m.size)
             g == m.size - 1
  <1>1. \A x \in V : s.cost[x] # None => s.cost[x] \in Nat
    BY DEF Ways
  <1>2. m.size \in Nat /\ g \in Nat /\ g + 1 = m.size /\ V = 0..g
    <2>1. m.size \in Nat
      BY MapFacts
    <2>2. n \in 0..(m.size - 1)
      BY DEF Vertices
    <2> QED BY <2>1, <2>2 DEF Vertices
  <1> HIDE DEF g
  <1>3. IsFiniteSet(V) /\ Cardinality(V) = m.size
    <2>1. IsFiniteSet(0..g) /\ Cardinality(0..g) = g - 0 + 1
      BY <1>2, FS_Interval
    <2> HIDE DEF V
    <2> QED BY <1>2, <2>1
  <1>4. ASSUME NEW x \in V, s.cost[x] # None
        PROVE  /\ Cheaper(m, s, x) \in SUBSET V /\ x \notin Cheaper(m, s, x)
               /\ IsFiniteSet(Cheaper(m, s, x)) /\ Cardinality(Cheaper(m, s, x)) \in Nat
    <2>1. Cheaper(m, s, x) \in SUBSET V /\ x \notin Cheaper(m, s, x)
      BY <1>1, <1>4 DEF Cheaper
    <2>2. IsFiniteSet(Cheaper(m, s, x))
      BY <1>3, <2>1, FS_Subset
    <2> QED BY <2>1, <2>2, FS_CardinalityType
  <1>5. Cardinality(Cheaper(m, s, n)) < m.size
    <2> DEFINE C == Cheaper(m, s, n)
    <2>1. C \in SUBSET V /\ n \notin C /\ Cardinality(C) \in Nat
      BY <1>4
    <2> HIDE DEF C
    <2>2. Cardinality(C) <= Cardinality(V) /\ (Cardinality(C) = Cardinality(V) => C = V)
      BY <1>3, <2>1, FS_Subset
    <2>3. C # V
      BY <2>1
    <2>4. Cardinality(C) < m.size
      BY <1>2, <1>3, <2>1, <2>2, <2>3
    <2> QED BY <2>4 DEF C
  <1>6. ASSUME NEW p \in V, s.cost[p] # None, s.cost[p] < s.cost[n]
        PROVE  Cardinality(Cheaper(m, s, p)) < Cardinality(Cheaper(m, s, n))
    <2> DEFINE C == Cheaper(m, s, n)
               D == Cheaper(m, s, p)
    <2>1. IsFiniteSet(C) /\ IsFiniteSet(D) /\ Cardinality(C) \in Nat /\ Cardinality(D) \in Nat
      BY <1>4, <1>6
    <2>2. D \in SUBSET C /\ p \in C /\ p \notin D
      <3>1. \A x \in V : s.cost[x] # None /\ s.cost[x] < s.cost[p] => s.cost[x] < s.cost[n]
        BY <1>1, <1>6
      <3>2. p \notin D
        BY <1>4, <1>6
      <3> QED BY <1>6, <3>1, <3>2 DEF Cheaper
    <2> HIDE DEF C, D
    <2>3. Cardinality(D) <= Cardinality(C) /\ (Cardinality(D) = Cardinality(C) => D = C)
      BY <2>1, <2>2, FS_Subset
    <2>4. Cardinality(D) < Cardinality(C)
      BY <2>1, <2>2, <2>3
    <2> QED BY <2>4 DEF C, D
  <1> QED BY <1>4, <1>5, <1>6

\* The climb from a reached node ends at the root, over roads no longer than the node costs.
LEMMA ClimbIsTrip ==
  ASSUME map \in Map, NEW root, NEW s, Ways(map, root, s),
         NEW n \in Vertices(map.size), s.cost[n] # None
  PROVE  Trip(map, Climb(s.parent, n, root), n, root, s.cost[n])
  <1> DEFINE V == Vertices(map.size)
             size == map.size
             rank(e) == Cardinality(Cheaper(map, s, e))
             On(p, k) == LET e == p[Len(p)]
                         IN  /\ e \in V /\ s.cost[e] # None
                             /\ Trip(map, p, n, e, s.cost[n] - s.cost[e])
                             /\ e = root \/ rank(e) + k <= rank(n)
  <1>1. /\ root \in V /\ s.cost[root] = 0
        /\ \A x \in V : s.cost[x] # None => s.cost[x] \in Nat
        /\ s.parent \in [V -> V \cup {None}]
    BY DEF Ways
  <1>2. size \in Nat /\ \A x \in V : s.cost[x] # None => rank(x) \in Nat /\ rank(x) < size
    BY MapFacts, CheaperFacts
  <1>3. PICK up : IsClimb(up, s.parent, n, root, size) /\ Climb(s.parent, n, root) = up[size]
    BY <1>1, ClimbIsTable
  <1>4. On(up[0], 0)
    <2>1. up[0] = <<n>> /\ Len(<<n>>) = 1 /\ <<n>>[1] = n
      BY <1>3 DEF IsClimb
    <2>2. s.cost[n] - s.cost[n] = 0 /\ rank(n) + 0 <= rank(n)
      BY <1>1, <1>2
    <2>3. Trip(map, <<n>>, n, n, 0)
      BY ShortTrips
    <2> HIDE DEF rank
    <2> QED BY <2>1, <2>2, <2>3
  <1>5. ASSUME NEW k \in Nat, NEW p, On(p, k) PROVE On(Up(s.parent, root, p), k + 1)
    <2> DEFINE e == p[Len(p)]
               x == s.parent[e]
               w == map.weight[<<e, x>>]
    <2>1. /\ e \in V /\ s.cost[e] # None /\ Trip(map, p, n, e, s.cost[n] - s.cost[e])
          /\ e = root \/ rank(e) + k <= rank(n)
      BY <1>5
    <2>2. p # Panic /\ Last(p) = e /\ p \in Seq(V)
      BY <2>1 DEF Trip, Panic, Last
    <2>3. CASE e = root
      <3>1. Up(s.parent, root, p) = p
        BY <2>2, <2>3 DEF Up
      <3> QED BY <2>1, <2>3, <3>1
    <2>4. CASE e # root
      <3>1. s.parent[e] # None
        BY <2>1 DEF Ways
      <3>2. x \in V /\ s.cost[x] # None /\ <<x, e>> \in DOMAIN map.weight
            /\ s.cost[x] + map.weight[<<x, e>>] <= s.cost[e]
        BY <1>1, <2>1, <2>4, <3>1 DEF Ways
      <3>3. <<e, x>> \in DOMAIN map.weight /\ w = map.weight[<<x, e>>] /\ w \in Nat /\ w > 0
        <4>1. <<x, e>>[1] = x /\ <<x, e>>[2] = e
          OBVIOUS
        <4> HIDE DEF x, e
        <4> QED BY <3>2, <4>1, MapFacts DEF IsNetwork
      <3>4. Up(s.parent, root, p) = Append(p, x)
        BY <2>2, <2>4, <3>1 DEF Up
      <3> HIDE DEF x, e, rank
      <3>5. Append(p, x) = p \o Tail(<<e, x>>) /\ Append(p, x) \in Seq(V)
            /\ Append(p, x)[Len(Append(p, x))] = x
        BY <2>2, <3>2
      <3>6. Trip(map, <<e, x>>, e, x, w)
        BY <2>1, <3>2, <3>3, ShortTrips
      <3> HIDE DEF w
      <3>7. s.cost[n] \in Nat /\ s.cost[e] \in Nat /\ s.cost[x] \in Nat
        BY <1>1, <2>1, <3>2
      <3>8. Trip(map, Append(p, x), n, x, (s.cost[n] - s.cost[e]) + w)
        <4>1. s.cost[n] - s.cost[e] \in Int /\ w \in Int
          BY <3>3, <3>7
        <4> QED BY <2>1, <3>5, <3>6, <4>1, TripJoined
      <3> DEFINE d == (s.cost[n] - s.cost[e]) + w
                 f == s.cost[n] - s.cost[x]
      <3>9. d \in Int /\ f \in Int /\ d <= f /\ s.cost[x] < s.cost[e]
        BY <3>2, <3>3, <3>7
      <3> HIDE DEF d, f
      <3>10. Trip(map, Append(p, x), n, x, f)
        BY <3>8, <3>9, ShortTrips DEF d
      <3>11. rank(x) + (k + 1) <= rank(n)
        <4>1. rank(x) < rank(e)
          BY <2>1, <3>2, <3>9, CheaperFacts DEF rank
        <4>2. rank(x) \in Nat /\ rank(e) \in Nat /\ rank(n) \in Nat
          BY <1>2, <2>1, <3>2
        <4> QED BY <2>1, <2>4, <4>1, <4>2
      <3> QED BY <3>2, <3>4, <3>5, <3>10, <3>11 DEF f
    <2> QED BY <2>3, <2>4
  <1> HIDE DEF On
  <1> DEFINE Good == {k \in Nat : k <= size => On(up[k], k)}
  <1>6. Nat \subseteq Good
    <2>1. 0 \in Good
      BY <1>4
    <2>2. ASSUME NEW k \in Nat, k \in Good PROVE k + 1 \in Good
      <3> SUFFICES ASSUME k + 1 <= size PROVE On(up[k + 1], k + 1)
        OBVIOUS
      <3>1. k + 1 \in 1..size /\ (k + 1) - 1 = k /\ k <= size
        BY <1>2
      <3>2. up[k + 1] = Up(s.parent, root, up[(k + 1) - 1])
        BY <1>3, <3>1 DEF IsClimb
      <3>3. On(up[k], k)
        BY <2>2, <3>1
      <3> QED BY <1>5, <3>1, <3>2, <3>3
    <2> HIDE DEF Good
    <2> QED BY <2>1, <2>2, NatSetInduction
  <1>7. On(up[size], size)
    <2>1. size \in Good /\ size <= size
      BY <1>2, <1>6
    <2> QED BY <2>1
  <1> DEFINE c == up[size]
             e == c[Len(c)]
  <1>8. /\ e \in V /\ s.cost[e] # None /\ Trip(map, c, n, e, s.cost[n] - s.cost[e])
        /\ e = root \/ rank(e) + size <= rank(n)
    BY <1>7 DEF On
  <1> HIDE DEF c, e, rank
  <1>9. e = root
    <2>1. rank(e) \in Nat /\ rank(n) \in Nat /\ rank(n) < size
      BY <1>2, <1>8
    <2> QED BY <1>2, <1>8, <2>1
  <1>10. s.cost[n] - s.cost[root] = s.cost[n]
    <2>1. s.cost[n] \in Nat
      BY <1>1
    <2> QED BY <1>1, <2>1
  <1> QED BY <1>3, <1>8, <1>9, <1>10 DEF c

\* Up to three destinations, the place of a pair is the place of its tree.
LEMMA FewTreesInPlace ==
  ASSUME Goal <= 2, NEW p \in Pair
  PROVE  Ids(PairTreeIdx(p[1], p[2])) = p
  <1>1. Tree = 0..Goal /\ Goal \in Nat
    BY TreesNumbered
  <1>2. p = <<p[1], p[2]>> /\ p[1] \in Tree /\ p[2] \in Tree /\ p[1] < p[2]
    BY PairFacts
  <1>3. p \in {<<0, 1>>, <<0, 2>>, <<1, 2>>}
    <2>1. p[1] \in 0..2 /\ p[2] \in 0..2
      BY <1>1, <1>2
    <2> QED BY <1>2, <2>1
  <1>4. ASSUME NEW q \in Pair PROVE q \in Ahead(p) <=> q[1] < p[1] \/ (q[1] = p[1] /\ q[2] < p[2])
    BY DEF Ahead
  <1>5. ASSUME NEW q \in Pair
        PROVE  q = <<q[1], q[2]>> /\ q[1] \in 0..2 /\ q[2] \in 0..2 /\ q[1] < q[2]
    <2>1. q = <<q[1], q[2]>> /\ q[1] \in Tree /\ q[2] \in Tree /\ q[1] < q[2]
      BY PairFacts
    <2> QED BY <1>1, <2>1
  <1>6. PICK k \in Layer : Ids(k) = p /\ Cardinality(Ahead(p)) = k
    BY IdsOfLayers
  <1>7. Cardinality({}) = 0 /\ Cardinality({<<0, 1>>}) = 1 /\ Cardinality({<<0, 1>>, <<0, 2>>}) = 2
    <2>1. Cardinality({<<0, 1>>}) = 1 /\ IsFiniteSet({<<0, 1>>})
      BY FS_Singleton
    <2>2. <<0, 2>> \notin {<<0, 1>>} /\ {<<0, 1>>} \cup {<<0, 2>>} = {<<0, 1>>, <<0, 2>>}
      OBVIOUS
    <2>3. Cardinality({<<0, 1>>} \cup {<<0, 2>>}) = 1 + 1
      BY <2>1, <2>2, FS_AddElement
    <2> QED BY <2>1, <2>2, <2>3, FS_EmptySet
  <1>8. CASE p = <<0, 1>>
    <2>1. Ahead(p) = {}
      <3>1. \A q \in Pair : q \notin Ahead(p)
        BY <1>4, <1>5, <1>8
      <3> QED BY <3>1 DEF Ahead
    <2>2. PairTreeIdx(0, 1) = 0
      BY DEF PairTreeIdx
    <2> QED BY <1>6, <1>7, <1>8, <2>1, <2>2
  <1>9. CASE p = <<0, 2>>
    <2>1. <<0, 1>> \in Pair
      <3>1. 0 \in Tree /\ 1 \in Tree
        BY <1>1, <1>2, <1>9
      <3> QED BY <3>1, PairFacts
    <2>2. Ahead(p) = {<<0, 1>>}
      <3>1. \A q \in Pair : q \in Ahead(p) <=> q = <<0, 1>>
        BY <1>4, <1>5, <1>9
      <3> QED BY <2>1, <3>1 DEF Ahead
    <2>3. PairTreeIdx(0, 2) = 1
      BY DEF PairTreeIdx
    <2> QED BY <1>6, <1>7, <1>9, <2>2, <2>3
  <1>10. CASE p = <<1, 2>>
    <2>1. <<0, 1>> \in Pair /\ <<0, 2>> \in Pair
      <3>1. 0 \in Tree /\ 1 \in Tree /\ 2 \in Tree
        BY <1>1, <1>2, <1>10
      <3> QED BY <3>1, PairFacts
    <2>2. Ahead(p) = {<<0, 1>>, <<0, 2>>}
      <3>1. \A q \in Pair : q \in Ahead(p) <=> q = <<0, 1>> \/ q = <<0, 2>>
        BY <1>4, <1>5, <1>10
      <3> QED BY <2>1, <3>1 DEF Ahead
    <2>3. PairTreeIdx(1, 2) = 2
      BY DEF PairTreeIdx
    <2> QED BY <1>6, <1>7, <1>10, <2>2, <2>3
  <1> QED BY <1>3, <1>8, <1>9, <1>10

\* The tree of a leg is that of its pair, and holds what the entry says.
LEMMA PlaceOfPair ==
  ASSUME SearchInv, Goal <= 2, NEW i \in Tree, NEW j \in Tree, i # j, entry[<<i, j>>] # None
  PROVE  LET k == PairTreeIdx(i, j)
             p == Ids(k)
         IN  /\ k \in Layer /\ p \in Square /\ p[1] # p[2]
             /\ <<i, j>> = p \/ <<i, j>> = <<p[2], p[1]>>
             /\ entry[<<i, j>>] = entry[p] /\ joint[<<i, j>>] = joint[p]
  <1> DEFINE k == PairTreeIdx(i, j)
  <1>1. k \in Layer /\ PairTreeIdx(i, j) = PairTreeIdx(j, i)
    BY PlaceOfLeg
  <1>2. PICK p \in Pair : <<i, j>> = p \/ <<i, j>> = <<p[2], p[1]>>
    BY PlaceOfLeg
  <1>3. p \in Square /\ p[1] # p[2] /\ p = <<p[1], p[2]>>
    BY PairFacts DEF Square
  <1>4. k = PairTreeIdx(p[1], p[2])
    <2>1. (i = p[1] /\ j = p[2]) \/ (i = p[2] /\ j = p[1])
      BY <1>2, <1>3
    <2> QED BY <1>1, <2>1
  <1>5. Ids(k) = p
    BY <1>4, FewTreesInPlace
  <1>6. entry[<<i, j>>] = entry[p] /\ joint[<<i, j>>] = joint[p]
    BY <1>2, <1>3 DEF SearchInv, Matrices, Symmetric, Square
  <1> QED BY <1>1, <1>2, <1>3, <1>5, <1>6

\* A leg with a known distance is a trip that is no longer.
LEMMA LegIsTrip ==
  ASSUME SearchInv, Goal <= 2, NEW i \in Tree, NEW j \in Tree, i # j, entry[<<i, j>>] # None
  PROVE  /\ Trip(map, Leg(i, j), Stop[i], Stop[j], entry[<<i, j>>])
         /\ entry[<<i, j>>] \in Nat /\ Leg(i, j) \in Seq(Vertices(map.size))
  <1> DEFINE V == Vertices(map.size)
             k == PairTreeIdx(i, j)
             p == Ids(k)
             a == StartOf(k)
             b == GoalOf(k)
             d == entry[p]
             Way(leg) == IF p[1] = i THEN Trip(map, leg, a, b, d) ELSE Trip(map, leg, b, a, d)
  <1>1. map \in Map /\ system \in {"BiAstar", "AnaStar"} /\ entry \in Entry
    BY DEF SearchInv, Matrices
  <1>2. /\ k \in Layer /\ p \in Square /\ p[1] # p[2]
        /\ <<i, j>> = p \/ <<i, j>> = <<p[2], p[1]>>
        /\ entry[<<i, j>>] = d /\ joint[<<i, j>>] = joint[p]
    BY PlaceOfPair
  <1>3. a = Stop[p[1]] /\ b = Stop[p[2]] /\ a \in V /\ b \in V
    BY <1>1, <1>2, StopsOfLayers DEF StartOf, GoalOf
  <1>4. d \in Nat /\ d \in Int /\ d # None
    <2>1. d \in Nat \cup {None}
      BY <1>1, <1>2 DEF Entry
    <2> QED BY <1>2, <2>1
  <1>5. ASSUME NEW leg, Way(leg) PROVE Trip(map, leg, Stop[i], Stop[j], d)
    <2>1. CASE p[1] = i
      <3>1. j = p[2]
        BY <1>2, <2>1
      <3> QED BY <1>3, <1>5, <2>1, <3>1
    <2>2. CASE p[1] # i
      <3>1. i = p[2] /\ j = p[1]
        BY <1>2, <2>2
      <3> QED BY <1>3, <1>5, <2>2, <3>1
    <2> QED BY <2>1, <2>2
  <1> HIDE DEF a, b, d, k, p
  <1>6. ASSUME system = "BiAstar" PROVE Way(Leg(i, j))
    <2> DEFINE t == trees[k]
               x == joint[p]
               f == t.fwd.cost[x]
               g == t.bwd.cost[x]
               up == Climb(t.fwd.parent, x, a)
               down == Climb(t.bwd.parent, x, b)
    <2>1. BiSound(map, k, t) /\ Joins(map, t, x, d)
      BY <1>2, <1>4, <1>6 DEF SearchInv, BiInv, d, p
    <2>2. /\ Ways(map, a, t.fwd) /\ Ways(map, b, t.bwd)
          /\ x \in V /\ f # None /\ g # None /\ f + g <= d
      BY <2>1 DEF BiSound, Side, Joins, a, b
    <2>3. f \in Nat /\ g \in Nat /\ f \in Int /\ g \in Int
      BY <2>2 DEF Ways
    <2> HIDE DEF t, x
    <2>4. Trip(map, up, x, a, f) /\ Trip(map, down, x, b, g)
      BY <1>1, <2>2, ClimbIsTrip
    <2>5. Leg(i, j) = BiLeg(i, j)
      BY <1>6 DEF Leg
    <2>6. joint[<<i, j>>] # None /\ joint[<<i, j>>] = x
      <3>1. x # None
        <4>1. map.size \in Nat
          BY <1>1, MapFacts
        <4> QED BY <2>2, <4>1, NoneAssumption DEF Vertices
      <3> QED BY <1>2, <3>1 DEF x
    <2>7. BiLeg(i, j) = IF up = Panic \/ down = Panic THEN Panic
                        ELSE IF p[1] = i THEN Reverse(up) \o Tail(down)
                             ELSE Reverse(down) \o Tail(up)
      BY <2>6 DEF BiLeg, k, t, a, b, p
    <2> HIDE DEF up, down, f, g
    <2>8. up # Panic /\ down # Panic
      BY <1>1, <2>3, <2>4, TripLength
    <2>9. Trip(map, Reverse(up), a, x, f) /\ Trip(map, Reverse(down), b, x, g)
      BY <1>1, <2>3, <2>4, TripReversed
    <2>10. /\ Trip(map, Reverse(up) \o Tail(down), a, b, f + g)
           /\ Trip(map, Reverse(down) \o Tail(up), b, a, g + f)
      BY <1>1, <2>3, <2>4, <2>9, TripJoined
    <2>11. f + g \in Int /\ g + f \in Int /\ g + f <= d
      BY <1>4, <2>2, <2>3
    <2>12. /\ Trip(map, Reverse(up) \o Tail(down), a, b, d)
           /\ Trip(map, Reverse(down) \o Tail(up), b, a, d)
      BY <1>1, <1>3, <1>4, <2>2, <2>10, <2>11, ShortTrips
    <2> QED BY <2>5, <2>7, <2>8, <2>12
  <1>7. ASSUME system = "AnaStar" PROVE Way(Leg(i, j))
    <2> DEFINE t == trees[k]
               f == t.cost[b]
               up == Climb(t.parent, b, a)
    <2>1. AnaSound(map, k, t) /\ d = t.bound
      BY <1>2, <1>7 DEF SearchInv, AnaInv, d, p
    <2>2. Ways(map, a, t) /\ f # None /\ f <= d
      BY <1>4, <2>1 DEF AnaSound, Bounded, a, b
    <2>3. f \in Nat /\ f \in Int
      BY <1>3, <2>2 DEF Ways
    <2> HIDE DEF t
    <2>4. Trip(map, up, b, a, f)
      BY <1>1, <1>3, <2>2, ClimbIsTrip
    <2>5. Leg(i, j) = IF up = Panic THEN Panic ELSE IF p[1] = i THEN Reverse(up) ELSE up
      BY <1>7 DEF Leg, AnaLeg, k, t, a, b, p
    <2> HIDE DEF up, f
    <2>6. up # Panic
      BY <1>1, <2>3, <2>4, TripLength
    <2>7. Trip(map, Reverse(up), a, b, f)
      BY <1>1, <2>3, <2>4, TripReversed
    <2>8. Trip(map, Reverse(up), a, b, d) /\ Trip(map, up, b, a, d)
      BY <1>1, <1>3, <1>4, <2>2, <2>3, <2>4, <2>7, ShortTrips
    <2> QED BY <2>5, <2>6, <2>8
  <1>8. Trip(map, Leg(i, j), Stop[i], Stop[j], d)
    <2>1. Way(Leg(i, j))
      BY <1>1, <1>6, <1>7
    <2> HIDE DEF Way
    <2> QED BY <1>5, <2>1
  <1>9. Leg(i, j) \in Seq(V)
    BY <1>8 DEF Trip
  <1> QED BY <1>2, <1>4, <1>8, <1>9

\* For up to three destinations, where pair_tree_idx finds the tree of each pair, every
\* finite entry is backed by a road walk between its destinations in the trees as they are:
\* no longer than the entry, and not shorter than the shortest (common.rs).
THEOREM EntriesOfThree ==
  ASSUME Goal <= 2
  PROVE  Spec => []EntriesAreWalks
  <1>1. SearchInv => EntriesAreWalks
    <2> SUFFICES ASSUME SearchInv, NEW p \in Pair, entry[p] # None
                 PROVE  LET leg == Leg(p[1], p[2])
                        IN  /\ leg # Panic /\ IsWalk(map.weight, leg)
                            /\ leg[1] = Stop[p[1]] /\ Last(leg) = Stop[p[2]]
                            /\ Distance[<<Stop[p[1]], Stop[p[2]]>>] <= Length(map.weight, leg)
                            /\ Length(map.weight, leg) <= entry[p]
      BY DEF EntriesAreWalks
    <2> DEFINE leg == Leg(p[1], p[2])
    <2>1. p = <<p[1], p[2]>> /\ p[1] \in Tree /\ p[2] \in Tree /\ p[1] # p[2] /\ map \in Map
      BY PairFacts DEF SearchInv
    <2>2. Trip(map, leg, Stop[p[1]], Stop[p[2]], entry[p]) /\ entry[p] \in Nat
      BY <2>1, LegIsTrip
    <2> HIDE DEF leg
    <2>3. /\ leg # Panic /\ IsWalk(map.weight, leg) /\ Last(leg) = Stop[p[2]]
          /\ Length(map.weight, leg) <= entry[p]
          /\ Shorts(map)[<<Stop[p[1]], Stop[p[2]]>>] <= Length(map.weight, leg)
      BY <2>1, <2>2, TripLength
    <2>4. leg[1] = Stop[p[1]]
      BY <2>2 DEF Trip
    <2> QED BY <2>3, <2>4 DEF leg, Distance, Shorts
  <1> QED BY <1>1, SearchIsSound, PTL

-----------------------------------------------------------------------------
(* The answer is a walk                                                     *)

\* RouteIsWalk of an answer.
IsRoute(m, b) ==
  LET path == b.path
  IN  /\ path # Panic /\ IsWalk(m.weight, path)
      /\ path[1] = Stop[0] /\ Last(path) = Stop[Goal]
      /\ \E at \in [DOMAIN b.tour -> DOMAIN path] :
           \A k \in DOMAIN at : /\ path[at[k]] = Stop[b.tour[k]]
                                /\ k > 1 => at[k - 1] < at[k]

\* rest is what join ends with, after something more.
Ends(join, rest) ==
  \E c \in Nat \ {0} : /\ Len(join) = c + Len(rest)
                        /\ \A i \in 1..Len(rest) : join[c + i] = rest[i]

\* The road from leg k on: as long as the entries from there, and the legs after one another.
AreRests(rest, s, F, N) ==
  /\ F[1..N] = Length(entry, s)
  /\ \A k \in 1..(N + 1) : /\ F[k..N] \in Nat
                           /\ Trip(map, rest[k], Stop[s[k]], Stop[Goal], F[k..N])
  /\ \A k \in 1..N : Ends(rest[k], rest[k + 1])

\* One leg more.
LEMMA RestGrows ==
  ASSUME NEW m \in Map, NEW a, NEW b, NEW c, a # b, NEW d \in Nat, NEW e \in Nat,
         NEW leg, Trip(m, leg, a, b, d), NEW rest, Trip(m, rest, b, c, e)
  PROVE  Trip(m, Front(leg) \o rest, a, c, d + e) /\ Ends(Front(leg) \o rest, rest)
  <1> DEFINE V == Vertices(m.size)
             join == Front(leg) \o rest
             n == Len(leg) - 1
  <1>1. /\ leg \in Seq(V) /\ Len(leg) \in Nat \ {0} /\ leg[1] = a /\ leg[Len(leg)] = b
        /\ rest \in Seq(V) /\ Len(rest) \in Nat \ {0} /\ rest[1] = b
    BY DEF Trip
  <1>2. n \in Nat \ {0}
    <2>1. Len(leg) # 1
      BY <1>1
    <2> QED BY <1>1, <2>1
  <1>3. /\ Len(leg \o Tail(rest)) = Len(leg) + (Len(rest) - 1)
        /\ \A k \in 1..Len(rest) : (leg \o Tail(rest))[(Len(leg) - 1) + k] = rest[k]
        /\ Front(leg) \o rest = leg \o Tail(rest)
    <2>1. leg[Len(leg)] = rest[1]
      BY <1>1
    <2> HIDE DEF V
    <2>2. Len(leg \o Tail(rest)) = Len(leg) + (Len(rest) - 1)
      BY <1>1, <2>1, JoinedFacts
    <2>3. \A k \in 1..Len(rest) : (leg \o Tail(rest))[(Len(leg) - 1) + k] = rest[k]
      BY <1>1, <2>1, JoinedFacts
    <2>4. Front(leg) \o rest = leg \o Tail(rest)
      BY <1>1, <2>1, JoinedFacts
    <2> QED BY <2>2, <2>3, <2>4
  <1>4. Trip(m, leg \o Tail(rest), a, c, d + e)
    <2>1. d \in Int /\ e \in Int
      OBVIOUS
    <2> QED BY <2>1, TripJoined
  <1>5. Len(join) = n + Len(rest) /\ \A i \in 1..Len(rest) : join[n + i] = rest[i]
    BY <1>1, <1>3
  <1> HIDE DEF n
  <1> QED BY <1>2, <1>3, <1>4, <1>5 DEF Ends

\* The road of a tour, leg by leg from the end.
LEMMA RestsOfTour ==
  ASSUME SearchInv, Goal <= 2, NEW s \in LinkedTours
  PROVE  \E rest, F : AreRests(rest, s, F, Len(s) - 1) /\ PathOf[s] = rest[1]
  <1> DEFINE V == Vertices(map.size)
             N == Len(s) - 1
             bi == [k \in DOMAIN Legs(s) |-> BiLeg(Legs(s)[k][1], Legs(s)[k][2])]
             ana == [k \in DOMAIN Legs(s) |-> AnaLeg(Legs(s)[k][1], Legs(s)[k][2])]
             legs == IF system = "BiAstar" THEN bi ELSE ana
             v == LegLengths(entry, s)
  <1>1. map \in Map /\ entry \in Entry /\ system \in {"BiAstar", "AnaStar"}
    BY DEF SearchInv, Matrices
  <1>2. /\ N \in Nat \ {0} /\ Len(s) = N + 1 /\ s[N + 1] = Goal
        /\ \A k \in 1..N : /\ s[k] \in Tree /\ s[k + 1] \in Tree /\ s[k] # s[k + 1]
                           /\ entry[<<s[k], s[k + 1]>>] \in Nat
    <2>1. /\ Len(s) \in Nat /\ Len(s) >= 2 /\ s[Len(s)] = Goal
          /\ \A k \in 1..Len(s) : s[k] \in Tree
          /\ \A k \in 1..(Len(s) - 1) : s[k] # s[k + 1]
                                        /\ entry[<<s[k], s[k + 1]>>] \in Nat
      BY <1>1, TourFacts
    <2>2. \A k \in 1..N : k \in 1..Len(s) /\ k + 1 \in 1..Len(s)
      BY <2>1
    <2> QED BY <2>1, <2>2
  <1>3. DOMAIN Legs(s) = 1..N /\ \A k \in 1..N : Legs(s)[k] = <<s[k], s[k + 1]>>
    BY DEF Legs
  <1>4. PathOf[s] = JoinedPath(legs)
    BY <1>1 DEF PathOf, BiPath, AnaPath
  <1>5. DOMAIN legs = 1..N /\ legs = [k \in 1..N |-> legs[k]]
    BY <1>3
  <1>6. \A k \in 1..N : legs[k] = Leg(s[k], s[k + 1])
    <2> SUFFICES ASSUME NEW k \in 1..N PROVE legs[k] = Leg(s[k], s[k + 1])
      OBVIOUS
    <2>1. bi[k] = BiLeg(s[k], s[k + 1]) /\ ana[k] = AnaLeg(s[k], s[k + 1])
      BY <1>3
    <2> HIDE DEF bi, ana
    <2> QED BY <2>1 DEF Leg
  <1>7. \A k \in 1..N : v[k] = entry[<<s[k], s[k + 1]>>] /\ v[k] \in Nat
    BY <1>2 DEF LegLengths
  <1>8. PICK F : IsSum(F, 1..N, v) /\ Length(entry, s) = F[1..N]
    <2>1. Len(s) \in Nat \ {0}
      BY <1>2
    <2> HIDE DEF v
    <2> QED BY <1>7, <2>1, LengthIsSum DEF v
  <1> HIDE DEF legs, N, v
  <1>9. ASSUME NEW k \in 1..N
        PROVE  Trip(map, legs[k], Stop[s[k]], Stop[s[k + 1]], v[k]) /\ legs[k] \in Seq(V)
    <2>1. entry[<<s[k], s[k + 1]>>] # None
      BY <1>2, NoneAssumption
    <2> QED BY <1>2, <1>6, <1>7, <2>1, LegIsTrip
  <1>10. legs \in [1..N -> Seq(V) \ {Panic}]
    <2>1. \A k \in 1..N : legs[k] # Panic
      BY <1>9 DEF Trip, Panic
    <2> HIDE DEF V
    <2> QED BY <1>5, <1>9, <2>1
  <1>11. Stop[Goal] \in V /\ Goal \in Tree /\ \A k \in 1..N : Stop[s[k]] # Stop[s[k + 1]]
    <2>1. Goal \in Tree
      BY TreesNumbered
    <2> QED BY <1>1, <1>2, <2>1, MapFacts, StopAssumption
  <1>12. PICK rest : IsJoin(rest, legs, N, V) /\ JoinedPath(legs) = rest[1]
    BY <1>2, <1>10, <1>11, JoinIsTable
  <1>13. ASSUME NEW k \in 1..(N + 1) PROVE F[k..N] \in Nat
    <2>1. k..N \in SUBSET (1..N)
      BY <1>2
    <2> QED BY <1>8, <2>1 DEF IsSum
  <1>14. F[(N + 1)..N] = 0
    <2>1. (N + 1)..N = {}
      BY <1>2
    <2> QED BY <1>8, <2>1 DEF IsSum
  <1>15. ASSUME NEW k \in 1..N PROVE F[k..N] = v[k] + F[(k + 1)..N]
    <2> DEFINE S == k..N
    <2>1. S \in SUBSET (1..N) /\ k \in S /\ S \ {k} = (k + 1)..N
      BY <1>2
    <2> HIDE DEF S
    <2>2. F[S] = v[k] + F[S \ {k}]
      BY <1>8, <2>1 DEF IsSum
    <2> QED BY <2>1, <2>2 DEF S
  <1> DEFINE way(k) == Trip(map, rest[k], Stop[s[k]], Stop[Goal], F[k..N])
             grown(k) == Ends(rest[k], rest[k + 1])
  <1>16. ASSUME NEW k \in 1..N, way(k + 1) PROVE way(k) /\ grown(k)
    <2>1. rest[k] = Front(legs[k]) \o rest[k + 1]
      BY <1>12 DEF IsJoin
    <2>2. v[k] \in Nat /\ F[(k + 1)..N] \in Nat
      <3>1. k + 1 \in 1..(N + 1)
        BY <1>2
      <3> QED BY <1>7, <1>13, <3>1
    <2> DEFINE a == Stop[s[k]]
               b == Stop[s[k + 1]]
               d == v[k]
               e == F[(k + 1)..N]
               leg == legs[k]
               on == rest[k + 1]
    <2>3. Trip(map, leg, a, b, d) /\ Trip(map, on, b, Stop[Goal], e) /\ a # b
      BY <1>9, <1>11, <1>16
    <2>4. rest[k] = Front(leg) \o on /\ d \in Nat /\ e \in Nat /\ F[k..N] = d + e
      BY <1>15, <2>1, <2>2
    <2> HIDE DEF a, b, d, e, leg, on
    <2>5. Trip(map, Front(leg) \o on, a, Stop[Goal], d + e) /\ Ends(Front(leg) \o on, on)
      BY <1>1, <2>3, <2>4, RestGrows
    <2> QED BY <2>4, <2>5 DEF a, on
  <1>17. way(N + 1)
    <2>1. rest[N + 1] = <<Stop[Goal]>> /\ s[N + 1] = Goal
      BY <1>2, <1>12 DEF IsJoin
    <2> QED BY <1>1, <1>11, <1>14, <2>1, ShortTrips
  <1> HIDE DEF way, grown
  <1> DEFINE Good == {j \in Nat : j <= N => way((N + 1) - j)}
  <1>18. Nat \subseteq Good
    <2>1. 0 \in Good
      <3>1. (N + 1) - 0 = N + 1
        BY <1>2
      <3> QED BY <1>17, <3>1
    <2>2. ASSUME NEW j \in Nat, j \in Good PROVE j + 1 \in Good
      <3> SUFFICES ASSUME j + 1 <= N PROVE way((N + 1) - (j + 1))
        OBVIOUS
      <3> DEFINE k == N - j
      <3>1. k \in 1..N /\ k + 1 = (N + 1) - j /\ k = (N + 1) - (j + 1) /\ j <= N
        BY <1>2
      <3> HIDE DEF k
      <3>2. way(k + 1)
        BY <2>2, <3>1
      <3> QED BY <1>16, <3>1, <3>2
    <2> HIDE DEF Good
    <2> QED BY <2>1, <2>2, NatSetInduction
  <1>19. ASSUME NEW k \in 1..(N + 1) PROVE way(k)
    <2> DEFINE j == (N + 1) - k
    <2>1. j \in Nat /\ j <= N /\ (N + 1) - j = k
      BY <1>2
    <2> HIDE DEF j
    <2>2. j \in Good
      <3> HIDE DEF Good
      <3> QED BY <1>18, <2>1
    <2> QED BY <2>1, <2>2
  <1>20. ASSUME NEW k \in 1..N PROVE grown(k)
    <2>1. k + 1 \in 1..(N + 1)
      BY <1>2
    <2> QED BY <1>16, <1>19, <2>1
  <1>21. AreRests(rest, s, F, N)
    BY <1>8, <1>13, <1>19, <1>20 DEF AreRests, way, grown
  <1> QED BY <1>4, <1>12, <1>21 DEF N

\* The walk q passes the destinations of s one after the other.
Passes(q, s) ==
  \E at \in [DOMAIN s -> DOMAIN q] :
    \A k \in DOMAIN at : q[at[k]] = Stop[s[k]] /\ (k > 1 => at[k - 1] < at[k])

\* What each rest of the road holds, the whole of it holds.
LEMMA PlacesOnTheWay ==
  ASSUME NEW s, NEW N \in Nat \ {0}, DOMAIN s = 1..(N + 1),
         NEW rest,
         \A k \in 1..(N + 1) : /\ Len(rest[k]) \in Nat \ {0} /\ DOMAIN rest[k] = 1..Len(rest[k])
                               /\ rest[k][1] = Stop[s[k]],
         \A k \in 1..N : Ends(rest[k], rest[k + 1])
  PROVE  Passes(rest[1], s)
  <1> DEFINE n(k) == Len(rest[k])
             L == n(1)
             kept(k) == /\ n(k) <= L
                        /\ \A i \in 1..n(k) : rest[1][(L - n(k)) + i] = rest[k][i]
             at == [k \in 1..(N + 1) |-> (L - n(k)) + 1]
             Good == {k \in Nat : k + 1 <= N + 1 => kept(k + 1)}
  <1>1. \A k \in 1..(N + 1) : n(k) \in Nat \ {0}
    OBVIOUS
  <1>2. 1 \in 1..(N + 1) /\ L \in Nat \ {0}
    OBVIOUS
  <1>3. \A k \in 1..N : k \in 1..(N + 1) /\ k + 1 \in 1..(N + 1)
    OBVIOUS
  <1>4. \A k \in 1..N : n(k + 1) < n(k)
    BY <1>1, <1>3 DEF Ends
  <1>5. 0 \in Good
    <2>1. n(1) <= L /\ \A i \in 1..n(1) : (L - n(1)) + i = i
      BY <1>2
    <2>2. kept(1)
      <3> HIDE DEF n, L
      <3>1. n(1) = L
        BY DEF n, L
      <3> QED BY <2>1, <3>1 DEF n, L
    <2> QED BY <2>2
  <1>6. ASSUME NEW k \in 1..N, kept(k) PROVE kept(k + 1)
    <2>1. PICK c \in Nat \ {0} : /\ n(k) = c + n(k + 1)
                                 /\ \A i \in 1..n(k + 1) : rest[k][c + i] = rest[k + 1][i]
      BY DEF Ends
    <2> DEFINE x == n(k)
               y == n(k + 1)
    <2>2. x \in Nat /\ y \in Nat /\ x = c + y /\ x <= L
      BY <1>1, <1>3, <1>6, <2>1
    <2>3. ASSUME NEW i \in 1..y PROVE rest[1][(L - y) + i] = rest[k + 1][i]
      <3>1. c + i \in 1..x /\ (L - x) + (c + i) = (L - y) + i
        <4> HIDE DEF x, y, L
        <4> QED BY <1>2, <2>2
      <3>2. rest[1][(L - x) + (c + i)] = rest[k][c + i]
        BY <1>6, <3>1
      <3>3. rest[k][c + i] = rest[k + 1][i]
        BY <2>1
      <3> QED BY <3>1, <3>2, <3>3
    <2>4. y <= L
      <3> HIDE DEF x, y, L
      <3> QED BY <1>2, <2>2
    <2> QED BY <2>3, <2>4
  <1>7. ASSUME NEW k \in Nat, k \in Good PROVE k + 1 \in Good
    <2> HIDE DEF kept
    <2> SUFFICES ASSUME (k + 1) + 1 <= N + 1 PROVE kept((k + 1) + 1)
      OBVIOUS
    <2>1. k + 1 \in 1..N /\ k + 1 <= N + 1
      OBVIOUS
    <2>2. kept(k + 1)
      BY <1>7, <2>1
    <2> QED BY <1>6, <2>1, <2>2
  <1>8. Nat \subseteq Good
    <2> HIDE DEF Good
    <2> QED BY <1>5, <1>7, NatSetInduction
  <1>9. ASSUME NEW k \in 1..(N + 1) PROVE kept(k)
    <2> DEFINE j == k - 1
    <2>1. j \in Nat /\ j + 1 <= N + 1 /\ j + 1 = k
      OBVIOUS
    <2> HIDE DEF j
    <2>2. j \in Good
      <3> HIDE DEF Good
      <3> QED BY <1>8, <2>1
    <2>3. kept(j + 1)
      <3> HIDE DEF kept
      <3> QED BY <2>1, <2>2
    <2> HIDE DEF kept
    <2> QED BY <2>1, <2>3
  <1> HIDE DEF Good
  <1>10. ASSUME NEW k \in 1..(N + 1)
         PROVE  at[k] = (L - n(k)) + 1 /\ at[k] \in 1..L /\ rest[1][at[k]] = Stop[s[k]]
    <2>1. n(k) \in Nat \ {0} /\ n(k) <= L /\ rest[1][(L - n(k)) + 1] = rest[k][1]
      <3>1. n(k) \in Nat \ {0} /\ kept(k)
        BY <1>1, <1>9
      <3>2. 1 \in 1..n(k)
        <4> HIDE DEF n
        <4> QED BY <3>1
      <3> QED BY <3>1, <3>2
    <2>2. at[k] = (L - n(k)) + 1
      OBVIOUS
    <2>3. (L - n(k)) + 1 \in 1..L
      <3> HIDE DEF n, L
      <3> QED BY <1>2, <2>1
    <2> QED BY <2>1, <2>2, <2>3
  <1>11. ASSUME NEW k \in 1..(N + 1), k > 1 PROVE at[k - 1] < at[k]
    <2> DEFINE j == k - 1
    <2>1. j \in 1..N /\ j \in 1..(N + 1) /\ j + 1 = k
      BY <1>11
    <2> HIDE DEF j
    <2>2. n(k) < n(j) /\ n(k) \in Nat /\ n(j) \in Nat
      BY <1>1, <1>4, <2>1
    <2>3. at[j] = (L - n(j)) + 1 /\ at[k] = (L - n(k)) + 1
      BY <1>10, <2>1
    <2> HIDE DEF at, n, L
    <2>4. at[j] < at[k]
      BY <1>2, <2>2, <2>3
    <2> QED BY <2>4 DEF j
  <1>12. DOMAIN rest[1] = 1..L
    BY <1>2
  <1>13. at \in [1..(N + 1) -> 1..L]
    <2>1. at = [k \in 1..(N + 1) |-> at[k]]
      OBVIOUS
    <2> HIDE DEF at, n, L
    <2> QED BY <1>10, <2>1
  <1> HIDE DEF at, L, n, kept
  <1>14. DOMAIN at = 1..(N + 1)
    BY <1>13
  <1> QED BY <1>10, <1>11, <1>12, <1>13, <1>14 DEF Passes

\* The road of a tour is a walk past its destinations, no longer than the tour's entries.
LEMMA TourIsRoute ==
  ASSUME SearchInv, Goal <= 2, NEW s \in LinkedTours, NEW c
  PROVE  /\ IsRoute(map, [cost |-> c, tour |-> s, path |-> PathOf[s]])
         /\ Length(map.weight, PathOf[s]) <= Length(entry, s)
  <1> DEFINE N == Len(s) - 1
             V == Vertices(map.size)
  <1>1. map \in Map /\ entry \in Entry
    BY DEF SearchInv, Matrices
  <1>2. N \in Nat \ {0} /\ Len(s) = N + 1 /\ s[1] = 0 /\ DOMAIN s = 1..(N + 1)
    <2>1. s \in Seq(Tree) /\ Len(s) \in Nat /\ Len(s) >= 2 /\ s[1] = 0
      BY <1>1, TourFacts
    <2> QED BY <2>1
  <1>3. PICK rest, F : AreRests(rest, s, F, N) /\ PathOf[s] = rest[1]
    BY RestsOfTour
  <1> HIDE DEF N
  <1>4. \A k \in 1..(N + 1) : Trip(map, rest[k], Stop[s[k]], Stop[Goal], F[k..N])
    BY <1>3 DEF AreRests
  <1>5. ASSUME NEW k \in 1..(N + 1)
        PROVE  /\ Len(rest[k]) \in Nat \ {0} /\ DOMAIN rest[k] = 1..Len(rest[k])
               /\ rest[k][1] = Stop[s[k]]
    <2>1. rest[k] \in Seq(V) /\ Len(rest[k]) \in Nat \ {0} /\ rest[k][1] = Stop[s[k]]
      BY <1>4 DEF Trip
    <2> QED BY <2>1
  <1>6. Passes(rest[1], s)
    <2>1. \A k \in 1..N : Ends(rest[k], rest[k + 1])
      BY <1>3 DEF AreRests
    <2>2. \A k \in 1..(N + 1) : /\ Len(rest[k]) \in Nat \ {0} /\ DOMAIN rest[k] = 1..Len(rest[k])
                               /\ rest[k][1] = Stop[s[k]]
      BY <1>5
    <2> QED BY <1>2, <2>1, <2>2, PlacesOnTheWay
  <1> DEFINE q == rest[1]
             d == Length(entry, s)
  <1>7. d \in Int /\ Trip(map, q, Stop[0], Stop[Goal], d)
    <2>1. 1 \in 1..(N + 1)
      BY <1>2
    <2>2. F[1..N] = d /\ F[1..N] \in Nat
      BY <1>3, <2>1 DEF AreRests
    <2> QED BY <1>2, <1>4, <2>1, <2>2
  <1> HIDE DEF q, d
  <1>8. /\ q # Panic /\ IsWalk(map.weight, q) /\ Last(q) = Stop[Goal]
        /\ Length(map.weight, q) <= d
    BY <1>1, <1>7, TripLength
  <1>9. q[1] = Stop[0]
    BY <1>7 DEF Trip
  <1> DEFINE b == [cost |-> c, tour |-> s, path |-> q]
  <1>10. b.tour = s /\ b.path = q
    OBVIOUS
  <1>11. \E at \in [DOMAIN s -> DOMAIN q] :
           \A k \in DOMAIN at : q[at[k]] = Stop[s[k]] /\ (k > 1 => at[k - 1] < at[k])
    BY <1>6 DEF q, Passes
  <1> HIDE DEF b
  <1>12. IsRoute(map, b)
    BY <1>8, <1>9, <1>10, <1>11 DEF IsRoute
  <1>13. b = [cost |-> c, tour |-> s, path |-> PathOf[s]]
    BY <1>3 DEF b, q
  <1>14. Length(map.weight, PathOf[s]) <= Length(entry, s)
    BY <1>3, <1>8 DEF d, q
  <1> QED BY <1>12, <1>13, <1>14

\* The answer is changed by the solver only.
LEMMA RouteKept ==
  SearchInv /\ Goal <= 2 /\ RouteIsWalk /\ [Next]_vars =>
    /\ RouteIsWalk'
    /\ best' # best => Length(map.weight, best'.path) <= Length(entry', best'.tour)
  <1> DEFINE Within == best' # best => Length(map.weight, best'.path) <= Length(entry', best'.tour)
  <1> SUFFICES ASSUME SearchInv, Goal <= 2, RouteIsWalk, [Next]_vars PROVE RouteIsWalk' /\ Within
    OBVIOUS
  <1>1. RouteIsWalk <=> (best # None => IsRoute(map, best))
    BY DEF RouteIsWalk, IsRoute
  <1>2. RouteIsWalk' <=> (best' # None => IsRoute(map', best'))
    BY DEF RouteIsWalk, IsRoute
  <1>3. ASSUME map' = map, best' = best PROVE RouteIsWalk' /\ Within
    BY <1>1, <1>2, <1>3
  <1>4. ASSUME NEW force, Solve(force, PathOf) PROVE RouteIsWalk' /\ Within
    <2>1. map' = map /\ entry' = entry
      BY <1>4 DEF Solve
    <2>2. \/ best' = best
          \/ \E a \in Answers :
               best' = [cost |-> a.cost, tour |-> a.tour, path |-> PathOf[a.tour]]
      BY <1>4 DEF Solve
    <2>3. CASE best' = best
      BY <1>3, <2>1, <2>3
    <2>4. ASSUME NEW a \in Answers,
                 best' = [cost |-> a.cost, tour |-> a.tour, path |-> PathOf[a.tour]]
          PROVE  RouteIsWalk' /\ Within
      <3>1. PICK s \in LinkedTours : a.tour = s
        BY DEF Answers
      <3>2. best' = [cost |-> a.cost, tour |-> s, path |-> PathOf[s]]
        BY <2>4, <3>1
      <3>3. IsRoute(map, best') /\ Length(map.weight, PathOf[s]) <= Length(entry, s)
        BY <3>2, TourIsRoute
      <3>4. best'.path = PathOf[s] /\ best'.tour = s
        BY <3>2
      <3> QED BY <1>2, <2>1, <3>3, <3>4
    <2> QED BY <2>2, <2>3, <2>4
  <1>5. CASE UNCHANGED vars
    BY <1>3, <1>5 DEF vars, coreVars, core
  <1>6. CASE BiNext
    <2>1. ASSUME NEW k \in Layer, BiTake(k) PROVE map' = map /\ best' = best
      BY <2>1 DEF BiTake, core
    <2>2. ASSUME NEW o, BiExpand(o) PROVE map' = map /\ best' = best
      BY <2>2 DEF BiExpand, core
    <2>3. ASSUME NEW o, BiMeet(o) PROVE map' = map /\ best' = best
      BY <2>3 DEF BiMeet
    <2>4. ASSUME BiGiveUp PROVE map' = map /\ best' = best
      BY <2>4 DEF BiGiveUp, core
    <2>5. \/ \E k \in Layer : BiTake(k)
          \/ BiGiveUp
          \/ \E o : BiExpand(o) \/ BiMeet(o)
      BY <1>6 DEF BiNext
    <2> QED BY <1>3, <2>1, <2>2, <2>3, <2>4, <2>5
  <1>7. CASE AnaNext
    <2>1. ASSUME NEW k \in Layer, AnaTake(k) PROVE map' = map /\ best' = best
      BY <2>1 DEF AnaTake, core
    <2>2. ASSUME NEW n, AnaExpand(n) PROVE map' = map /\ best' = best
      BY <2>2 DEF AnaExpand, core
    <2>3. ASSUME NEW t, AnaEndPass(t) PROVE map' = map /\ best' = best
      BY <2>3 DEF AnaEndPass
    <2>4. \/ \E k \in Layer : AnaTake(k)
          \/ \E n : AnaExpand(n)
          \/ \E t : AnaEndPass(t)
      BY <1>7 DEF AnaNext
    <2> QED BY <1>3, <2>1, <2>2, <2>3, <2>4
  <1>8. CASE SolveTurn(PathOf)
    BY <1>4, <1>8 DEF SolveTurn
  <1>9. CASE SolveAtEnd(PathOf)
    BY <1>4, <1>9 DEF SolveAtEnd
  <1>10. CASE EndSearch
    BY <1>3, <1>10 DEF EndSearch, core
  <1> QED BY <1>5, <1>6, <1>7, <1>8, <1>9, <1>10 DEF Next

\* For up to three destinations the answer is a walk on the network from the source to the
\* target, past the destinations in the order of its tour (common.rs, update_path).
THEOREM RouteOfThree ==
  ASSUME Goal <= 2
  PROVE  Spec => []RouteIsWalk
  <1>1. Init => RouteIsWalk
    BY DEF Init, CoreInit, RouteIsWalk
  <1>2. SearchInv /\ RouteIsWalk /\ [Next]_vars => RouteIsWalk'
    BY RouteKept
  <1> QED BY <1>1, <1>2, SearchIsSound, PTL DEF Spec

\* For up to three destinations an answer's path, put together from the trees of now, is no
\* longer than its tour by the entries, however old these are (solve_rtsp, update_path).
THEOREM RouteOfThreeWithinTour ==
  ASSUME Goal <= 2
  PROVE  Spec => RouteWithinTour
  <1>1. SearchInv /\ RouteIsWalk /\ [Next]_vars =>
          [best' # best => Length(map.weight, best'.path) <= Length(entry', best'.tour)]_vars
    BY RouteKept
  <1> QED BY <1>1, SearchIsSound, RouteOfThree, PTL DEF Spec, RouteWithinTour

=============================================================================
