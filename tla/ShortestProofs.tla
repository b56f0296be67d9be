---------------------------- MODULE ShortestProofs ----------------------------
(***************************************************************************)
(* Distances and Dijkstra's search on any network: the table is the least  *)
(* that a walk can have, the search finds such a walk or there is none.    *)
(***************************************************************************)
EXTENDS Shortest, DataLemmas

-----------------------------------------------------------------------------
(* Products                                                                 *)

\* What is needed of products.
LEMMA Times ==
  ASSUME NEW s \in Nat, NEW x \in Int, NEW y \in Int
  PROVE  /\ x <= y => s * x <= s * y
         /\ s * (x + y) = s * x + s * y
         /\ s > 0 /\ s * x <= s * y => x <= y
  <1> DEFINE Good == {k \in Nat : /\ x <= y => k * x <= k * y
                                  /\ k > 0 /\ x < y => k * x < k * y}
  <1>1. 0 \in Good
    OBVIOUS
  <1>2. ASSUME NEW k \in Nat, k \in Good PROVE k + 1 \in Good
    <2> DEFINE u == k * x
               v == k * y
    <2>1. u \in Int /\ v \in Int
      OBVIOUS
    <2>2. (k + 1) * x = u + x /\ (k + 1) * y = v + y
      OBVIOUS
    <2>3. (x <= y => u <= v) /\ (k > 0 /\ x < y => u < v)
      BY <1>2
    <2>4. k = 0 => u = 0 /\ v = 0
      OBVIOUS
    <2> HIDE DEF u, v
    <2>5. /\ x <= y => u + x <= v + y
          /\ x < y => u + x < v + y
      BY <2>1, <2>3, <2>4
    <2> QED BY <2>2, <2>5
  <1>3. Nat \subseteq Good
    <2> HIDE DEF Good
    <2> QED BY <1>1, <1>2, NatSetInduction
  <1>4. s \in Good
    <2> HIDE DEF Good
    <2> QED BY <1>3
  <1>5. s * (x + y) = s * x + s * y
    OBVIOUS
  <1>6. ASSUME s > 0, s * x <= s * y, ~ x <= y PROVE FALSE
    <2>1. y < x /\ x >= y
      BY <1>6
    <2> DEFINE Least == {k \in Nat : k > 0 => k * y < k * x}
    <2>2. 0 \in Least
      OBVIOUS
    <2>3. ASSUME NEW k \in Nat, k \in Least PROVE k + 1 \in Least
      <3> DEFINE u == k * x
                 v == k * y
      <3>1. u \in Int /\ v \in Int
        OBVIOUS
      <3>2. (k + 1) * x = u + x /\ (k + 1) * y = v + y
        OBVIOUS
      <3>3. (k > 0 => v < u) /\ (k = 0 => u = 0 /\ v = 0)
        BY <2>3
      <3> HIDE DEF u, v
      <3>4. v + y < u + x
        BY <2>1, <3>1, <3>3
      <3> QED BY <3>2, <3>4
    <2>4. s \in Least
      <3> HIDE DEF Least
      <3> QED BY <2>2, <2>3, NatSetInduction
    <2>5. s * y < s * x
      BY <1>6, <2>4
    <2> DEFINE u == s * x
               v == s * y
    <2>6. u \in Int /\ v \in Int /\ v < u /\ u <= v
      BY <1>6, <2>5
    <2> HIDE DEF u, v
    <2> QED BY <2>6
  <1> QED BY <1>4, <1>5, <1>6

\* One factor more is one more time the other.
LEMMA TimesGrows ==
  ASSUME NEW r \in Nat, NEW t \in Nat, NEW e \in Nat, r + 1 <= t
  PROVE  r * e + e <= t * e /\ r * e \in Nat /\ t * e \in Nat
  <1>1. e * (r + 1) <= e * t /\ e * (r + 1) = e * r + e * 1
    BY Times
  <1>2. e * r = r * e /\ e * t = t * e /\ e * 1 = e
    OBVIOUS
  <1>3. r * e \in Nat /\ t * e \in Nat
    OBVIOUS
  <1> DEFINE x == e * (r + 1)
             y == e * t
             z == e * r
  <1>4. x <= y /\ x = z + e /\ z = r * e /\ y = t * e
    BY <1>1, <1>2
  <1>5. z + e <= y
    <2> HIDE DEF y, z
    <2> QED BY <1>4
  <1> QED BY <1>3, <1>4, <1>5

-----------------------------------------------------------------------------
(* The table of distances                                                   *)

Vertices(size) == 0..(size - 1)
Cells(size) == Vertices(size) \X Vertices(size)

\* Edges between the nodes, loops allowed, each of a length.
IsWeighted(size, w) ==
  size \in Nat /\ \A e \in DOMAIN w : e \in Cells(size) /\ w[e] \in Nat

Direct(size, w) ==
  [e \in Cells(size) |-> IF e[1] = e[2] THEN 0 ELSE IF e \in DOMAIN w THEN w[e] ELSE Far]

\* The node h may be passed too.
Through(size, v, h) ==
  [e \in Cells(size) |-> IF v[e] <= v[<<e[1], h>>] + v[<<h, e[2]>>] THEN v[e]
                         ELSE v[<<e[1], h>>] + v[<<h, e[2]>>]]

\* The table stays one of naturals.
LEMMA ThroughTable ==
  ASSUME NEW size, NEW v \in [Cells(size) -> Nat], NEW h \in Vertices(size)
  PROVE  Through(size, v, h) \in [Cells(size) -> Nat]
  <1>1. ASSUME NEW e \in Cells(size)
        PROVE  v[e] \in Nat /\ v[<<e[1], h>>] + v[<<h, e[2]>>] \in Nat
    <2>1. <<e[1], h>> \in Cells(size) /\ <<h, e[2]>> \in Cells(size)
      BY DEF Cells
    <2> QED BY <2>1
  <1> QED BY <1>1 DEF Through

\* Of Far only this is used: no proof counts that far.
LEMMA FarIsNat == Far \in Nat /\ Far > 1
  BY SMT DEF Far

\* via[k] are the distances over walks through the nodes below k.
IsVia(via, size, w) ==
  /\ via[0] = Direct(size, w)
  /\ \A k \in 0..size : via[k] \in [Cells(size) -> Nat]
  /\ \A k \in 1..size : via[k] = Through(size, via[k - 1], k - 1)

\* Distances is the last of the tables it says it is made of.
LEMMA DistancesAreVia ==
  ASSUME NEW size, NEW w, IsWeighted(size, w)
  PROVE  \E via : IsVia(via, size, w) /\ Distances(size, w) = via[size]
  <1> DEFINE I == 0..size
             V == [Cells(size) -> Nat]
             direct == Direct(size, w)
             start == [k \in I |-> direct]
             stop == {0}
             p == [k \in I |-> k - 1]
             d == [k \in I |-> k]
             h == [x \in I \X V |-> IF x[1] = 0 THEN direct ELSE Through(size, x[2], x[1] - 1)]
             least(a, b) == IF a <= b THEN a ELSE b
             step(f) == [k \in I |->
               IF k = 0
               THEN [e \in (0..(size - 1)) \X (0..(size - 1)) |->
                       IF e[1] = e[2] THEN 0 ELSE IF e \in DOMAIN w THEN w[e] ELSE Far]
               ELSE LET v == f[k - 1]
                    IN  [e \in DOMAIN v |-> least(v[e], v[<<e[1], k - 1>>] + v[<<k - 1, e[2]>>])]]
             via == CHOOSE f : f = step(f)
  <1>1. size \in Nat
    BY DEF IsWeighted
  <1>2. direct \in V
    <2>1. Far \in Nat /\ \A e \in DOMAIN w : w[e] \in Nat
      BY FarIsNat DEF IsWeighted
    <2> QED BY <2>1 DEF Direct
  <1>3. \A k \in I : k # 0 => k - 1 \in I /\ k - 1 \in Vertices(size) /\ k - 1 < k
    BY <1>1 DEF Vertices
  <1>4. start \in [I -> V] /\ d \in [I -> Nat] /\ h \in [I \X V -> V]
    <2>1. start \in [I -> V]
      <3> HIDE DEF direct, V
      <3> QED BY <1>2
    <2>2. d \in [I -> Nat]
      BY <1>1
    <2>3. \A k \in I : \A v \in V : k # 0 => Through(size, v, k - 1) \in V
      BY <1>3, ThroughTable
    <2>4. h \in [I \X V -> V]
      <3> HIDE DEF direct, V, I
      <3> QED BY <1>2, <2>3
    <2> QED BY <2>1, <2>2, <2>4
  <1>5. \A k \in I \ stop : p[k] \in I /\ d[p[k]] < d[k]
    BY <1>3
  <1>6. PICK f : IsRecursion(f, I, V, start, stop, p, h)
    <2> HIDE DEF I, V, start, stop, p, h, d
    <2> QED BY <1>4, <1>5, RankedRecursion
  <1>7. /\ f \in [I -> V]
        /\ \A k \in I : f[k] = IF k = 0 THEN direct ELSE h[<<k, f[p[k]]>>]
    <2>1. \A k \in I : (k \in stop <=> k = 0) /\ start[k] = direct
      OBVIOUS
    <2> HIDE DEF I, V, start, stop, direct, p, h, d
    <2> QED BY <1>6, <2>1 DEF IsRecursion
  <1>8. \A g : DOMAIN g = Cells(size) => \A k \in I : k # 0 =>
          [e \in DOMAIN g |-> least(g[e], g[<<e[1], k - 1>>] + g[<<k - 1, e[2]>>])]
             = Through(size, g, k - 1)
    BY DEF Through
  <1>9. ASSUME NEW k \in I PROVE f[k] = step(f)[k]
    <2>1. CASE k = 0
      <3>1. f[k] = direct
        BY <1>7, <2>1
      <3>2. step(f)[k] = direct
        BY <2>1 DEF Direct, Cells, Vertices
      <3> QED BY <3>1, <3>2
    <2>2. CASE k # 0
      <3>1. k - 1 \in I /\ p[k] = k - 1
        BY <1>3, <2>2
      <3>2. f[k - 1] \in V
        <4> HIDE DEF I, V, p, h, direct
        <4> QED BY <1>7, <3>1
      <3>3. f[k] = h[<<k, f[k - 1]>>]
        <4> HIDE DEF I, V, p, h, direct
        <4> QED BY <1>7, <2>2, <3>1
      <3>4. h[<<k, f[k - 1]>>] = Through(size, f[k - 1], k - 1)
        <4> HIDE DEF I, V, direct
        <4> QED BY <2>2, <3>2
      <3>5. DOMAIN f[k - 1] = Cells(size)
        BY <3>2
      <3>6. step(f)[k] = Through(size, f[k - 1], k - 1)
        <4> DEFINE g == f[k - 1]
        <4>1. [e \in DOMAIN g |-> least(g[e], g[<<e[1], k - 1>>] + g[<<k - 1, e[2]>>])]
                 = Through(size, g, k - 1)
          <5> HIDE DEF g, least, I
          <5> QED BY <1>8, <2>2, <3>5 DEF g
        <4> HIDE DEF least
        <4> QED BY <2>2, <4>1
      <3> QED BY <3>3, <3>4, <3>6
    <2> QED BY <2>1, <2>2
  <1>10. f = step(f)
    <2>1. DOMAIN f = I /\ f = [k \in I |-> f[k]]
      <3> HIDE DEF I, V, direct, h, p
      <3> QED BY <1>7
    <2>2. DOMAIN step(f) = I /\ step(f) = [k \in I |-> step(f)[k]]
      OBVIOUS
    <2> HIDE DEF I, step
    <2> QED BY <1>9, <2>1, <2>2
  <1>11. via = step(via)
    <2> HIDE DEF step
    <2> QED BY <1>10
  <1>12. Distances(size, w) = via[size]
    BY DEF Distances
  <1> HIDE DEF via
  <1>13. via[0] = direct
    <2>1. 0 \in I
      BY <1>1
    <2>2. via[0] = step(via)[0]
      <3> HIDE DEF step
      <3> QED BY <1>11
    <2> QED BY <2>1, <2>2 DEF Direct, Cells, Vertices
  <1>14. ASSUME NEW k \in 1..size, DOMAIN via[k - 1] = Cells(size)
         PROVE  via[k] = Through(size, via[k - 1], k - 1)
    <2>1. k \in I /\ k # 0
      BY <1>1
    <2>2. via[k] = step(via)[k]
      BY <1>11
    <2> DEFINE g == via[k - 1]
    <2>3. step(via)[k] = [e \in DOMAIN g |-> least(g[e], g[<<e[1], k - 1>>] + g[<<k - 1, e[2]>>])]
      BY <2>1
    <2>4. [e \in DOMAIN g |-> least(g[e], g[<<e[1], k - 1>>] + g[<<k - 1, e[2]>>])]
             = Through(size, g, k - 1)
      <3> HIDE DEF g, least, I
      <3> QED BY <1>8, <1>14, <2>1 DEF g
    <2> HIDE DEF step
    <2> QED BY <2>2, <2>3, <2>4
  <1> HIDE DEF step, least, h, p, d, start, stop
  <1> DEFINE Good == {k \in Nat : k <= size => via[k] \in V}
  <1>15. Nat \subseteq Good
    <2>1. 0 \in Good
      BY <1>2, <1>13
    <2>2. ASSUME NEW k \in Nat, k \in Good PROVE k + 1 \in Good
      <3> SUFFICES ASSUME k + 1 <= size PROVE via[k + 1] \in V
        OBVIOUS
      <3>1. k + 1 \in 1..size /\ (k + 1) - 1 = k /\ k <= size /\ k \in Vertices(size)
        BY <1>1 DEF Vertices
      <3>2. via[k] \in V
        BY <2>2, <3>1
      <3>3. via[k + 1] = Through(size, via[k], k)
        <4>1. DOMAIN via[(k + 1) - 1] = Cells(size)
          BY <3>1, <3>2
        <4>2. via[k + 1] = Through(size, via[(k + 1) - 1], (k + 1) - 1)
          BY <1>14, <3>1, <4>1
        <4> QED BY <3>1, <4>2
      <3> QED BY <3>1, <3>2, <3>3, ThroughTable
    <2> HIDE DEF Good
    <2> QED BY <2>1, <2>2, NatSetInduction
  <1>16. \A k \in 0..size : via[k] \in V
    <2>1. \A k \in 0..size : k \in Nat /\ k <= size
      BY <1>1
    <2> HIDE DEF V
    <2> QED BY <1>15, <2>1
  <1>17. ASSUME NEW k \in 1..size PROVE via[k] = Through(size, via[k - 1], k - 1)
    <2>1. k - 1 \in 0..size
      BY <1>1
    <2>2. DOMAIN via[k - 1] = Cells(size)
      BY <1>16, <2>1
    <2> QED BY <1>14, <2>2
  <1>18. IsVia(via, size, w)
    <2> HIDE DEF I
    <2> QED BY <1>13, <1>16, <1>17 DEF IsVia
  <1> QED BY <1>12, <1>18

\* C is left by no road, and along a road c grows by its length at most.
IsPotential(C, c, size, w) ==
  /\ C \in SUBSET Vertices(size) /\ c \in [Vertices(size) -> Int]
  /\ \A e \in DOMAIN w : e[1] \in C => e[2] \in C /\ c[e[2]] <= c[e[1]] + w[e]

Bounds(C, c, v, size) ==
  \A a, b \in Vertices(size) :
    a \in C /\ v[<<a, b>>] < Far => b \in C /\ c[b] <= c[a] + v[<<a, b>>]

\* Distances by way of h, and by way of a last road.
ShorterBy(v, h, size) ==
  \A a, b \in Vertices(size) : v[<<a, b>>] <= v[<<a, h>>] + v[<<h, b>>]
LastRoad(v, size, w) ==
  \A a, b \in Vertices(size) : a # b /\ v[<<a, b>>] < Far =>
    \E p \in Vertices(size) : /\ <<p, b>> \in DOMAIN w
                              /\ v[<<a, p>>] + w[<<p, b>>] <= v[<<a, b>>]

\* What is true of the distances by way of the nodes below k.
AreShortest(v, k, size, w) ==
  /\ v \in [Cells(size) -> Nat]
  /\ \A a \in Vertices(size) : v[<<a, a>>] = 0
  /\ \A e \in DOMAIN w : v[e] <= w[e]
  /\ \A h \in Vertices(size) : h < k => ShorterBy(v, h, size)
  /\ LastRoad(v, size, w)
  /\ \A C, c : IsPotential(C, c, size, w) => Bounds(C, c, v, size)

\* Over single roads the table has the least lengths without a node between.
LEMMA DirectShortest ==
  ASSUME NEW size, NEW w, IsWeighted(size, w)
  PROVE  AreShortest(Direct(size, w), 0, size, w)
  <1> DEFINE v == Direct(size, w)
  <1>1. Far \in Nat /\ ~ Far < Far
    BY FarIsNat
  <1>2. /\ size \in Nat
        /\ \A e \in DOMAIN w : e \in Cells(size) /\ w[e] \in Nat /\ e = <<e[1], e[2]>>
    <2>1. \A e \in Cells(size) : e = <<e[1], e[2]>>
      BY DEF Cells
    <2> QED BY <2>1 DEF IsWeighted
  <1>3. v \in [Cells(size) -> Nat]
    BY <1>1, <1>2 DEF Direct
  <1>4. \A a, b \in Vertices(size) :
          v[<<a, b>>] = IF a = b THEN 0 ELSE IF <<a, b>> \in DOMAIN w THEN w[<<a, b>>] ELSE Far
    BY DEF Direct, Cells
  <1>5. \A e \in DOMAIN w : v[e] = 0 \/ v[e] = w[e]
    BY <1>2 DEF Direct
  <1> HIDE DEF v
  <1>6. \A h \in Vertices(size) : ~ h < 0
    BY <1>2 DEF Vertices
  <1>7. ASSUME NEW a \in Vertices(size), NEW b \in Vertices(size), a # b, v[<<a, b>>] < Far
        PROVE  \E p \in Vertices(size) : /\ <<p, b>> \in DOMAIN w
                                         /\ v[<<a, p>>] + w[<<p, b>>] <= v[<<a, b>>]
    <2>1. <<a, b>> \in DOMAIN w /\ v[<<a, b>>] = w[<<a, b>>] /\ v[<<a, a>>] = 0
      BY <1>1, <1>4, <1>7
    <2>2. w[<<a, b>>] \in Nat
      BY <1>2, <2>1
    <2>3. v[<<a, a>>] + w[<<a, b>>] <= v[<<a, b>>]
      BY <2>1, <2>2
    <2> QED BY <2>1, <2>3
  <1>8. ASSUME NEW C, NEW c, IsPotential(C, c, size, w),
               NEW a \in Vertices(size), NEW b \in Vertices(size), a \in C, v[<<a, b>>] < Far
        PROVE  b \in C /\ c[b] <= c[a] + v[<<a, b>>]
    <2>1. CASE a = b
      <3>1. v[<<a, b>>] = 0 /\ c[a] \in Int
        BY <1>4, <1>8, <2>1 DEF IsPotential
      <3> QED BY <1>8, <2>1, <3>1
    <2>2. CASE a # b
      <3>1. <<a, b>> \in DOMAIN w /\ v[<<a, b>>] = w[<<a, b>>]
        BY <1>1, <1>4, <1>8, <2>2
      <3>2. <<a, b>>[1] = a /\ <<a, b>>[2] = b
        OBVIOUS
      <3> QED BY <1>8, <3>1, <3>2 DEF IsPotential
    <2> QED BY <2>1, <2>2
  <1>9. \A a \in Vertices(size) : v[<<a, a>>] = 0
    BY <1>4
  <1>10. \A e \in DOMAIN w : v[e] <= w[e]
    BY <1>2, <1>5
  <1>11. AreShortest(v, 0, size, w)
    BY <1>3, <1>6, <1>7, <1>8, <1>9, <1>10 DEF AreShortest, LastRoad, Bounds
  <1> QED BY <1>11 DEF v

\* One node more to pass: the least lengths with one node more between.
LEMMA ThroughShortest ==
  ASSUME NEW size, NEW w, IsWeighted(size, w), NEW k \in Vertices(size),
         NEW v, AreShortest(v, k, size, w)
  PROVE  AreShortest(Through(size, v, k), k + 1, size, w)
  <1> DEFINE u == Through(size, v, k)
             V == Vertices(size)
  <1>1. size \in Nat /\ \A h \in V : h \in Nat /\ (h < k + 1 => h < k \/ h = k)
    BY DEF IsWeighted, Vertices
  <1>2. /\ v \in [Cells(size) -> Nat] /\ \A a \in V : v[<<a, a>>] = 0
        /\ \A e \in DOMAIN w : v[e] <= w[e] /\ e \in Cells(size) /\ w[e] \in Nat
        /\ LastRoad(v, size, w)
    BY DEF AreShortest, IsWeighted
  <1>3. \A a, b \in V : v[<<a, b>>] \in Nat
    BY <1>2 DEF Cells
  <1>4. \A a, b \in V : u[<<a, b>>] = IF v[<<a, b>>] <= v[<<a, k>>] + v[<<k, b>>] THEN v[<<a, b>>]
                                      ELSE v[<<a, k>>] + v[<<k, b>>]
    BY DEF Through, Cells
  <1>5. u \in [Cells(size) -> Nat]
    BY <1>2, ThroughTable
  <1> HIDE DEF u, V
  <1>6. \A a, b \in V : /\ u[<<a, b>>] \in Nat /\ u[<<a, b>>] <= v[<<a, b>>]
                        /\ u[<<a, b>>] <= v[<<a, k>>] + v[<<k, b>>]
                        /\ u[<<a, b>>] = v[<<a, b>>] \/ u[<<a, b>>] = v[<<a, k>>] + v[<<k, b>>]
    <2> SUFFICES ASSUME NEW a \in V, NEW b \in V
                 PROVE  /\ u[<<a, b>>] \in Nat /\ u[<<a, b>>] <= v[<<a, b>>]
                        /\ u[<<a, b>>] <= v[<<a, k>>] + v[<<k, b>>]
                        /\ u[<<a, b>>] = v[<<a, b>>] \/ u[<<a, b>>] = v[<<a, k>>] + v[<<k, b>>]
      OBVIOUS
    <2> DEFINE x == v[<<a, b>>]
               y == v[<<a, k>>]
               z == v[<<k, b>>]
    <2>1. x \in Nat /\ y \in Nat /\ z \in Nat
      BY <1>3 DEF V
    <2>2. u[<<a, b>>] = IF x <= y + z THEN x ELSE y + z
      BY <1>4
    <2> HIDE DEF x, y, z
    <2>3. /\ u[<<a, b>>] \in Nat /\ u[<<a, b>>] <= x /\ u[<<a, b>>] <= y + z
          /\ u[<<a, b>>] = x \/ u[<<a, b>>] = y + z
      BY <2>1, <2>2
    <2> QED BY <2>3 DEF x, y, z
  <1>7. \A a \in V : u[<<a, a>>] = 0
    <2> SUFFICES ASSUME NEW a \in V PROVE u[<<a, a>>] = 0
      OBVIOUS
    <2>1. u[<<a, a>>] \in Nat /\ u[<<a, a>>] <= v[<<a, a>>] /\ v[<<a, a>>] = 0
      BY <1>2, <1>6 DEF V
    <2> QED BY <2>1
  <1>8. \A e \in DOMAIN w : u[e] <= w[e]
    <2> SUFFICES ASSUME NEW e \in DOMAIN w PROVE u[e] <= w[e]
      OBVIOUS
    <2>1. e \in Cells(size) /\ v[e] <= w[e] /\ w[e] \in Nat
      BY <1>2
    <2>2. PICK a \in V, b \in V : e = <<a, b>>
      BY <2>1 DEF Cells, V
    <2>3. u[e] <= v[e] /\ u[e] \in Nat /\ v[e] \in Nat
      BY <1>3, <1>6, <2>2
    <2> QED BY <2>1, <2>3
  <1>9. \A a \in V : u[<<a, k>>] = v[<<a, k>>] /\ u[<<k, a>>] = v[<<k, a>>]
    <2> SUFFICES ASSUME NEW a \in V PROVE u[<<a, k>>] = v[<<a, k>>] /\ u[<<k, a>>] = v[<<k, a>>]
      OBVIOUS
    <2>1. v[<<k, k>>] = 0 /\ v[<<a, k>>] \in Nat /\ v[<<k, a>>] \in Nat /\ k \in V
      BY <1>2, <1>3 DEF V
    <2>2. u[<<a, k>>] = v[<<a, k>>] \/ u[<<a, k>>] = v[<<a, k>>] + v[<<k, k>>]
      BY <1>6, <2>1
    <2>3. u[<<k, a>>] = v[<<k, a>>] \/ u[<<k, a>>] = v[<<k, k>>] + v[<<k, a>>]
      BY <1>6, <2>1
    <2> QED BY <2>1, <2>2, <2>3
  <1>10. ASSUME NEW h \in V, h < k + 1, NEW a \in V, NEW b \in V
         PROVE  u[<<a, b>>] <= u[<<a, h>>] + u[<<h, b>>]
    <2> DEFINE x == v[<<a, k>>]
               y == v[<<k, b>>]
               s == v[<<a, h>>]
               t == v[<<h, b>>]
               p == v[<<h, k>>]
               q == v[<<k, h>>]
    <2>1. x \in Nat /\ y \in Nat /\ s \in Nat /\ t \in Nat /\ p \in Nat /\ q \in Nat /\ k \in V
      BY <1>3 DEF V
    <2>2. u[<<a, b>>] \in Nat /\ u[<<a, b>>] <= v[<<a, b>>] /\ u[<<a, b>>] <= x + y
      BY <1>6
    <2>3. CASE h = k
      <3>1. u[<<a, h>>] = x /\ u[<<h, b>>] = y
        BY <1>9, <2>3
      <3> QED BY <2>2, <3>1
    <2>4. CASE h < k
      <3>1. ShorterBy(v, h, size)
        BY <2>4 DEF AreShortest, V
      <3>2. v[<<a, b>>] <= s + t /\ x <= s + p /\ y <= q + t
        BY <2>1, <3>1 DEF ShorterBy, V
      <3>3. u[<<a, h>>] = s \/ u[<<a, h>>] = x + q
        BY <1>6
      <3>4. u[<<h, b>>] = t \/ u[<<h, b>>] = p + y
        BY <1>6
      <3>5. v[<<a, b>>] \in Nat
        BY <1>3
      <3> HIDE DEF x, y, s, t, p, q
      <3> QED BY <2>1, <2>2, <3>2, <3>3, <3>4, <3>5
    <2> QED BY <1>1, <1>10, <2>3, <2>4
  <1>11. ASSUME NEW a \in V, NEW b \in V, a # b, u[<<a, b>>] < Far
         PROVE  \E p \in V : <<p, b>> \in DOMAIN w /\ u[<<a, p>>] + w[<<p, b>>] <= u[<<a, b>>]
    <2>0. Far \in Nat /\ k \in V
      BY FarIsNat DEF V
    <2>1. ASSUME u[<<a, b>>] = v[<<a, b>>]
          PROVE  \E p \in V : <<p, b>> \in DOMAIN w /\ u[<<a, p>>] + w[<<p, b>>] <= u[<<a, b>>]
      <3>1. PICK p \in V : <<p, b>> \in DOMAIN w /\ v[<<a, p>>] + w[<<p, b>>] <= v[<<a, b>>]
        BY <1>2, <1>11, <2>1 DEF LastRoad, V
      <3>2. u[<<a, p>>] <= v[<<a, p>>] /\ u[<<a, p>>] \in Nat /\ v[<<a, p>>] \in Nat
        BY <1>3, <1>6
      <3>3. w[<<p, b>>] \in Nat
        BY <1>2, <3>1
      <3>4. u[<<a, p>>] + w[<<p, b>>] <= u[<<a, b>>]
        BY <1>3, <2>1, <3>1, <3>2, <3>3
      <3> QED BY <3>1, <3>4
    <2>2. CASE u[<<a, b>>] # v[<<a, b>>]
      <3>1. u[<<a, b>>] = v[<<a, k>>] + v[<<k, b>>]
        BY <1>6, <2>2
      <3>2. v[<<a, k>>] \in Nat /\ v[<<k, b>>] \in Nat
        BY <1>3, <2>0
      <3>3. k # b
        BY <1>9, <2>0, <2>2
      <3>4. v[<<k, b>>] < Far
        BY <1>11, <2>0, <3>1, <3>2
      <3>5. PICK p \in V : <<p, b>> \in DOMAIN w /\ v[<<k, p>>] + w[<<p, b>>] <= v[<<k, b>>]
        BY <1>2, <2>0, <3>3, <3>4 DEF LastRoad, V
      <3>6. w[<<p, b>>] \in Nat
        BY <1>2, <3>5
      <3>7. u[<<a, p>>] <= v[<<a, k>>] + v[<<k, p>>] /\ u[<<a, p>>] \in Nat /\ v[<<k, p>>] \in Nat
        BY <1>3, <1>6, <2>0
      <3>8. u[<<a, p>>] + w[<<p, b>>] <= u[<<a, b>>]
        BY <3>1, <3>2, <3>5, <3>6, <3>7
      <3> QED BY <3>5, <3>8
    <2> QED BY <2>1, <2>2
  <1>12. ASSUME NEW C, NEW c, IsPotential(C, c, size, w),
                NEW a \in V, NEW b \in V, a \in C, u[<<a, b>>] < Far
         PROVE  b \in C /\ c[b] <= c[a] + u[<<a, b>>]
    <2>1. Bounds(C, c, v, size) /\ Far \in Nat /\ k \in V
      BY <1>12, FarIsNat DEF AreShortest, V
    <2>2. c[a] \in Int /\ c[b] \in Int /\ c[k] \in Int
      BY <1>12, <2>1 DEF IsPotential, V
    <2>3. CASE u[<<a, b>>] = v[<<a, b>>]
      BY <1>12, <2>1, <2>3 DEF Bounds, V
    <2>4. CASE u[<<a, b>>] = v[<<a, k>>] + v[<<k, b>>]
      <3>1. v[<<a, k>>] \in Nat /\ v[<<k, b>>] \in Nat
        BY <1>3, <2>1
      <3>2. v[<<a, k>>] < Far /\ v[<<k, b>>] < Far
        BY <1>12, <2>1, <2>4, <3>1
      <3>3. k \in C /\ c[k] <= c[a] + v[<<a, k>>]
        BY <1>12, <2>1, <3>2 DEF Bounds, V
      <3>4. b \in C /\ c[b] <= c[k] + v[<<k, b>>]
        BY <1>12, <2>1, <3>2, <3>3 DEF Bounds, V
      <3>5. c[b] <= c[a] + (v[<<a, k>>] + v[<<k, b>>])
        BY <2>2, <3>1, <3>3, <3>4
      <3> QED BY <2>4, <3>4, <3>5
    <2> QED BY <1>6, <2>3, <2>4
  <1>13. \A h \in V : h < k + 1 => ShorterBy(u, h, size)
    BY <1>10 DEF ShorterBy, V
  <1>14. LastRoad(u, size, w)
    BY <1>11 DEF LastRoad, V
  <1>15. \A C, c : IsPotential(C, c, size, w) => Bounds(C, c, u, size)
    BY <1>12 DEF Bounds, V
  <1>16. AreShortest(u, k + 1, size, w)
    BY <1>5, <1>7, <1>8, <1>13, <1>14, <1>15 DEF AreShortest, V
  <1> QED BY <1>16 DEF u

\* The reference: what Distances computes of a network.
LEMMA DistancesShortest ==
  ASSUME NEW size, NEW w, IsWeighted(size, w)
  PROVE  AreShortest(Distances(size, w), size, size, w)
  <1>1. PICK via : IsVia(via, size, w) /\ Distances(size, w) = via[size]
    BY DistancesAreVia
  <1> DEFINE Good == {k \in Nat : k <= size => AreShortest(via[k], k, size, w)}
  <1>2. size \in Nat
    BY DEF IsWeighted
  <1>3. 0 \in Good
    BY <1>1, DirectShortest DEF IsVia
  <1>4. ASSUME NEW k \in Nat, k \in Good PROVE k + 1 \in Good
    <2> SUFFICES ASSUME k + 1 <= size PROVE AreShortest(via[k + 1], k + 1, size, w)
      OBVIOUS
    <2>1. k + 1 \in 1..size /\ (k + 1) - 1 = k /\ k <= size /\ k \in Vertices(size)
      BY <1>2 DEF Vertices
    <2>2. via[k + 1] = Through(size, via[(k + 1) - 1], (k + 1) - 1)
      BY <1>1, <2>1 DEF IsVia
    <2>3. via[k + 1] = Through(size, via[k], k)
      BY <2>1, <2>2
    <2>4. AreShortest(via[k], k, size, w)
      BY <1>4, <2>1
    <2> QED BY <2>1, <2>3, <2>4, ThroughShortest
  <1>5. Nat \subseteq Good
    <2> HIDE DEF Good
    <2> QED BY <1>3, <1>4, NatSetInduction
  <1>6. size \in Good /\ size <= size
    BY <1>2, <1>5
  <1> QED BY <1>1, <1>6


-----------------------------------------------------------------------------
(* Lengths                                                                  *)

\* The lengths of the legs of q.
LegLengths(w, q) == [k \in 1..(Len(q) - 1) |-> w[<<q[k], q[k + 1]>>]]

\* The lengths of N legs one by one.
AreLengths(w, L, N, v) ==
  N \in Nat /\ DOMAIN L = 1..N /\ v \in [1..N -> Nat] /\ \A k \in 1..N : v[k] = w[L[k]]

\* A total is the sum over the legs, in whatever order they are added up.
LEMMA TotalIsSum ==
  ASSUME NEW w, NEW L, NEW N, NEW v, AreLengths(w, L, N, v)
  PROVE  \E F : IsSum(F, 1..N, v) /\ Total(w, L) = F[1..N]
  <1> DEFINE S == 1..N
             step(h) == [s \in SUBSET S |->
                           IF s = {} THEN 0
                           ELSE LET x == CHOOSE x \in s : TRUE IN h[s \ {x}] + w[L[x]]]
             iter == CHOOSE h : h = step(h)
  <1>1. IsFiniteSet(S) /\ v \in [S -> Nat] /\ DOMAIN L = S /\ \A k \in S : v[k] = w[L[k]]
    <2>1. N \in Nat /\ v \in [S -> Nat] /\ DOMAIN L = S /\ \A k \in S : v[k] = w[L[k]]
      BY DEF AreLengths
    <2>2. IsFiniteSet(S)
      BY <2>1, FS_Interval
    <2> QED BY <2>1, <2>2
  <1> HIDE DEF S
  <1>2. PICK f : IsChoiceSum(f, S, v)
    BY <1>1, ChoiceSumExists
  <1>3. IsSum(f, S, v)
    BY <1>1, <1>2, ChoiceSumIsSum
  <1>4. ASSUME NEW s \in SUBSET S, s # {}
        PROVE  f[s] = f[s \ {CHOOSE x \in s : TRUE}] + w[L[CHOOSE x \in s : TRUE]]
    <2> DEFINE x == CHOOSE x \in s : TRUE
    <2>1. x \in S /\ s \ {x} \in SUBSET S
      BY <1>4
    <2>2. f[s] = v[x] + f[s \ {x}]
      BY <1>2, <1>4 DEF IsChoiceSum
    <2> HIDE DEF x
    <2>3. v[x] \in Nat /\ f[s \ {x}] \in Nat /\ v[x] = w[L[x]]
      BY <1>1, <1>3, <2>1 DEF IsSum
    <2>4. f[s] = f[s \ {x}] + w[L[x]]
      BY <2>2, <2>3
    <2> QED BY <2>4 DEF x
  <1>5. f = step(f)
    <2>1. DOMAIN f = SUBSET S /\ f = [s \in SUBSET S |-> f[s]] /\ f[{}] = 0
      BY <1>2 DEF IsChoiceSum
    <2>2. \A s \in SUBSET S : f[s] = step(f)[s]
      BY <1>4, <2>1
    <2> QED BY <2>1, <2>2
  <1>6. iter = step(iter)
    <2> HIDE DEF step
    <2> QED BY <1>5
  <1>7. Total(w, L) = iter[S]
    BY <1>1 DEF Total, FoldSeq, FoldFunction, FoldFunctionOnSet, MapThenFoldSet
  <1> HIDE DEF iter
  <1> DEFINE Good == {s \in SUBSET S : iter[s] = f[s]}
  <1>8. {} \in Good
    <2>1. iter[{}] = 0 /\ f[{}] = 0
      BY <1>2, <1>6 DEF IsChoiceSum
    <2> QED BY <2>1
  <1>9. ASSUME NEW s \in SUBSET S, s # {}
        PROVE  \E x \in s : (s \ {x} \in Good => s \in Good)
    <2> DEFINE x == CHOOSE x \in s : TRUE
    <2>1. x \in s
      BY <1>9
    <2>2. iter[s] = iter[s \ {x}] + w[L[x]]
      BY <1>6, <1>9
    <2>3. f[s] = f[s \ {x}] + w[L[x]]
      BY <1>4, <1>9
    <2> HIDE DEF x
    <2>4. s \ {x} \in Good => s \in Good
      BY <2>2, <2>3
    <2> HIDE DEF Good
    <2> QED BY <2>1, <2>4
  <1>10. SUBSET S \subseteq Good
    <2>1. \A T \in SUBSET S : T # {} => \E x \in T : (T \ {x} \in Good => T \in Good)
      <3> HIDE DEF Good
      <3> QED BY <1>9
    <2>2. IsFiniteSet(S)
      BY <1>1
    <2> HIDE DEF Good
    <2> QED BY <1>8, <2>1, <2>2, FiniteSetInduction
  <1>11. iter[S] = f[S]
    BY <1>10
  <1> QED BY <1>3, <1>7, <1>11 DEF S

\* So is the length of a walk.
LEMMA LengthIsSum ==
  ASSUME NEW w, NEW q, Len(q) \in Nat \ {0}, NEW v, v = LegLengths(w, q),
         \A k \in 1..(Len(q) - 1) : v[k] \in Nat
  PROVE  \E F : IsSum(F, 1..(Len(q) - 1), v) /\ Length(w, q) = F[1..(Len(q) - 1)]
  <1> DEFINE N == Len(q) - 1
             L == Legs(q)
  <1>1. N \in Nat
    OBVIOUS
  <1>2. DOMAIN L = 1..N /\ \A k \in 1..N : L[k] = <<q[k], q[k + 1]>>
    BY DEF Legs
  <1>3. v = [k \in 1..N |-> w[<<q[k], q[k + 1]>>]]
    BY DEF LegLengths
  <1>4. v \in [1..N -> Nat] /\ \A k \in 1..N : v[k] = w[L[k]]
    BY <1>2, <1>3
  <1> HIDE DEF N, L
  <1>5. \E F : IsSum(F, 1..N, v) /\ Total(w, L) = F[1..N]
    <2>1. AreLengths(w, L, N, v)
      BY <1>1, <1>2, <1>4 DEF AreLengths
    <2> QED BY <2>1, TotalIsSum
  <1> QED BY <1>5 DEF Length, N, L

\* It is what its partial sums say; and there are partial sums.
LEMMA LengthOfSteps ==
  ASSUME NEW w, NEW q, Len(q) \in Nat \ {0},
         \A k \in 1..(Len(q) - 1) : w[<<q[k], q[k + 1]>>] \in Nat
  PROVE  /\ Length(w, q) \in Nat
         /\ \A f : IsPartialSums(f, Len(q) - 1, LegLengths(w, q)) => Length(w, q) = f[Len(q)]
  <1> DEFINE v == LegLengths(w, q)
             N == Len(q) - 1
  <1>1. N \in Nat /\ N + 1 = Len(q)
    OBVIOUS
  <1>2. v \in [1..N -> Nat]
    BY DEF LegLengths
  <1> HIDE DEF v, N
  <1>3. \A k \in 1..N : v[k] \in Nat
    BY <1>2
  <1>4. PICK F : IsSum(F, 1..N, v) /\ Length(w, q) = F[1..N]
    BY <1>3, LengthIsSum DEF v, N
  <1>5. Length(w, q) \in Nat
    <2>1. F \in [SUBSET (1..N) -> Nat]
      BY <1>4 DEF IsSum
    <2> QED BY <1>4, <2>1
  <1>6. ASSUME NEW f, IsPartialSums(f, N, v) PROVE Length(w, q) = f[N + 1]
    BY <1>1, <1>2, <1>4, <1>6, SumOfSteps
  <1> QED BY <1>1, <1>5, <1>6 DEF v, N

-----------------------------------------------------------------------------
(* Lists                                                                    *)

\* Two lists, one after the other.
LEMMA ListsJoined ==
  ASSUME NEW V, NEW q \in Seq(V), NEW r \in Seq(V)
  PROVE  /\ q \o r \in Seq(V) /\ Len(q \o r) = Len(q) + Len(r)
         /\ \A k \in 1..(Len(q) + Len(r)) :
              (q \o r)[k] = IF k <= Len(q) THEN q[k] ELSE r[k - Len(q)]
  <1>1. q \o r \in Seq(V)
    OBVIOUS
  <1>2. Len(q \o r) = Len(q) + Len(r)
    OBVIOUS
  <1>3. ASSUME NEW k \in 1..(Len(q) + Len(r))
        PROVE  (q \o r)[k] = IF k <= Len(q) THEN q[k] ELSE r[k - Len(q)]
    OBVIOUS
  <1> QED BY <1>1, <1>2, <1>3

\* What a list followed by another, from where it ends, holds.
LEMMA JoinedFacts ==
  ASSUME NEW V, NEW q \in Seq(V), Len(q) \in Nat \ {0}, NEW r \in Seq(V), Len(r) \in Nat \ {0},
         q[Len(q)] = r[1]
  PROVE  /\ q \o Tail(r) \in Seq(V) /\ Len(q \o Tail(r)) = Len(q) + (Len(r) - 1)
         /\ \A k \in 1..Len(q) : (q \o Tail(r))[k] = q[k]
         /\ \A k \in 1..Len(r) : (q \o Tail(r))[(Len(q) - 1) + k] = r[k]
         /\ Front(q) \o r = q \o Tail(r)
  <1> DEFINE M == Len(q)
             N == Len(r)
             t == Tail(r)
             j == q \o t
  <1>1. t \in Seq(V) /\ Len(t) = N - 1 /\ \A k \in 1..(N - 1) : t[k] = r[k + 1]
    <2>1. r # <<>>
      OBVIOUS
    <2> QED BY <2>1
  <1> HIDE DEF t
  <1>2. /\ j \in Seq(V) /\ Len(j) = M + (N - 1)
        /\ \A k \in 1..(M + (N - 1)) : j[k] = IF k <= M THEN q[k] ELSE t[k - M]
    <2>1. /\ q \o t \in Seq(V) /\ Len(q \o t) = M + Len(t)
          /\ \A k \in 1..(M + Len(t)) : (q \o t)[k] = IF k <= M THEN q[k] ELSE t[k - M]
      BY <1>1, ListsJoined
    <2>2. Len(t) = N - 1
      BY <1>1
    <2> QED BY <2>1, <2>2
  <1>3. \A k \in 1..M : j[k] = q[k]
    BY <1>2
  <1>4. ASSUME NEW k \in 1..N PROVE j[(M - 1) + k] = r[k]
    <2>1. CASE k = 1
      <3>1. (M - 1) + k = M /\ M \in 1..M
        BY <2>1
      <3> QED BY <1>3, <2>1, <3>1
    <2>2. CASE k # 1
      <3> DEFINE i == (M - 1) + k
      <3>1. i \in 1..(M + (N - 1)) /\ ~ i <= M /\ i - M = k - 1 /\ k - 1 \in 1..(N - 1)
        BY <2>2
      <3>2. (k - 1) + 1 = k
        OBVIOUS
      <3> HIDE DEF i, j, M, N
      <3>3. j[i] = t[k - 1]
        BY <1>2, <3>1
      <3>4. t[k - 1] = r[(k - 1) + 1]
        BY <1>1, <3>1
      <3> QED BY <3>2, <3>3, <3>4 DEF i
    <2> QED BY <2>1, <2>2
  <1> HIDE DEF j
  <1>5. Front(q) \o r = j
    <2> DEFINE f == SubSeq(q, 1, M - 1)
    <2>1. f \in Seq(V) /\ Len(f) = M - 1 /\ \A k \in 1..(M - 1) : f[k] = q[k]
      <3>1. M - 1 \in Nat /\ M - 1 <= M /\ q \in [1..M -> V]
        OBVIOUS
      <3>2. \A k \in 1..(M - 1) : q[(1 + k) - 1] = q[k] /\ (1 + k) - 1 = k
        OBVIOUS
      <3> QED BY <3>1, <3>2
    <2>2. Front(q) = f
      BY DEF Front
    <2> HIDE DEF f
    <2> DEFINE g == f \o r
    <2>3. /\ g \in Seq(V) /\ Len(g) = (M - 1) + N
          /\ \A k \in 1..((M - 1) + N) : g[k] = IF k <= M - 1 THEN f[k] ELSE r[k - (M - 1)]
      <3>1. /\ f \o r \in Seq(V) /\ Len(f \o r) = Len(f) + N
            /\ \A k \in 1..(Len(f) + N) : (f \o r)[k] = IF k <= Len(f) THEN f[k] ELSE r[k - Len(f)]
        BY <2>1, ListsJoined
      <3>2. Len(f) = M - 1
        BY <2>1
      <3> QED BY <3>1, <3>2
    <2>4. Len(g) = Len(j) /\ Len(j) \in Nat
      BY <1>2, <2>3
    <2>5. ASSUME NEW k \in 1..Len(j) PROVE g[k] = j[k]
      <3>1. k \in 1..((M - 1) + N) /\ k \in Int
        BY <2>3, <2>4
      <3>2. CASE k <= M - 1
        <4>1. g[k] = f[k] /\ k \in 1..(M - 1) /\ k \in 1..M
          BY <2>3, <3>1, <3>2
        <4> QED BY <1>3, <2>1, <4>1
      <3>3. CASE ~ k <= M - 1
        <4> DEFINE i == k - (M - 1)
        <4>1. g[k] = r[i] /\ i \in 1..N /\ (M - 1) + i = k
          BY <2>3, <3>1, <3>3
        <4> HIDE DEF i
        <4> QED BY <1>4, <4>1
      <3> QED BY <3>2, <3>3
    <2>6. g = j
      <3> HIDE DEF g
      <3>1. g \in [1..Len(j) -> V] /\ j \in [1..Len(j) -> V]
        BY <1>2, <2>3, <2>4
      <3> QED BY <2>5, <3>1
    <2> QED BY <2>2, <2>6
  <1> QED BY <1>2, <1>3, <1>4, <1>5 DEF j, t

-----------------------------------------------------------------------------
(* Walks and their lengths                                                  *)

\* f adds up the legs of q.
AddsUp(f, w, q) ==
  /\ f \in [1..Len(q) -> Nat] /\ f[1] = 0
  /\ \A k \in 1..(Len(q) - 1) :
       <<q[k], q[k + 1]>> \in DOMAIN w /\ f[k + 1] = f[k] + w[<<q[k], q[k + 1]>>]

\* q leads from a to b over edges of length c together.
Leads(V, w, q, a, b, c) ==
  /\ q \in Seq(V) /\ Len(q) \in Nat \ {0} /\ q[1] = a /\ q[Len(q)] = b
  /\ \E f : AddsUp(f, w, q) /\ f[Len(q)] = c

\* What leads somewhere is a walk of that length.
LEMMA LeadsIsWalk ==
  ASSUME NEW V, NEW w, \A e \in DOMAIN w : w[e] \in Nat,
         NEW q, NEW a, NEW b, NEW c, Leads(V, w, q, a, b, c)
  PROVE  /\ a \in V /\ b \in V /\ c \in Nat /\ q # <<>> /\ Head(q) = a /\ Last(q) = b
         /\ IsWalk(w, q) /\ Length(w, q) = c
  <1> DEFINE M == Len(q)
  <1>1. /\ q \in Seq(V) /\ M \in Nat \ {0} /\ q[1] = a /\ q[M] = b
        /\ 1 \in 1..M /\ M \in 1..M
    BY DEF Leads
  <1>2. PICK f : AddsUp(f, w, q) /\ f[M] = c
    BY DEF Leads
  <1>3. a \in V /\ b \in V /\ q # <<>> /\ Head(q) = a /\ Last(q) = b
    BY <1>1 DEF Last
  <1>4. c \in Nat
    BY <1>1, <1>2 DEF AddsUp
  <1>5. IsWalk(w, q)
    BY <1>2 DEF AddsUp, IsWalk, Legs
  <1>6. IsPartialSums(f, M - 1, LegLengths(w, q))
    <2>1. \A k \in 1..(M - 1) : f[k] \in Int
      BY <1>1, <1>2 DEF AddsUp
    <2> QED BY <1>2, <2>1 DEF AddsUp, IsPartialSums, LegLengths
  <1>7. \A k \in 1..(M - 1) : w[<<q[k], q[k + 1]>>] \in Nat
    BY <1>2 DEF AddsUp
  <1>8. Length(w, q) = f[M]
    BY <1>1, <1>6, <1>7, LengthOfSteps
  <1> QED BY <1>2, <1>3, <1>4, <1>5, <1>8

\* A walk leads from its first node to its last.
LEMMA WalkLeads ==
  ASSUME NEW V, NEW w, \A e \in DOMAIN w : w[e] \in Nat,
         NEW q \in Seq(V), q # <<>>, IsWalk(w, q)
  PROVE  Leads(V, w, q, Head(q), Last(q), Length(w, q))
  <1> DEFINE M == Len(q)
             v == LegLengths(w, q)
  <1>1. M \in Nat \ {0} /\ Head(q) = q[1] /\ Last(q) = q[M]
    BY DEF Last
  <1>2. \A k \in 1..(M - 1) : <<q[k], q[k + 1]>> \in DOMAIN w
    BY DEF IsWalk, Legs
  <1>3. \A k \in 1..(M - 1) : v[k] = w[<<q[k], q[k + 1]>>] /\ v[k] \in Nat
    BY <1>2 DEF LegLengths
  <1> HIDE DEF v
  <1>4. PICK F : IsSum(F, 1..(M - 1), v) /\ Length(w, q) = F[1..(M - 1)]
    <2>1. v = LegLengths(w, q)
      BY DEF v
    <2>2. \A k \in 1..(M - 1) : v[k] \in Nat
      BY <1>3
    <2> QED BY <1>1, <2>1, <2>2, LengthIsSum
  <1> DEFINE f == [k \in 1..M |-> F[1..(k - 1)]]
  <1>5. f \in [1..M -> Nat]
    <2>1. ASSUME NEW k \in 1..M PROVE F[1..(k - 1)] \in Nat
      <3>1. 1..(k - 1) \in SUBSET (1..(M - 1))
        BY <1>1
      <3> QED BY <1>4, <3>1 DEF IsSum
    <2> QED BY <2>1
  <1>6. f[1] = 0
    <2>1. 1..(1 - 1) = {} /\ 1 \in 1..M
      BY <1>1
    <2> QED BY <1>4, <2>1 DEF IsSum
  <1>7. ASSUME NEW k \in 1..(M - 1) PROVE f[k + 1] = f[k] + v[k]
    <2>1. /\ k - 1 \in Nat /\ M - 1 \in Nat /\ (k - 1) + 1 = k /\ k <= M - 1 /\ (k + 1) - 1 = k
          /\ k \in 1..M /\ k + 1 \in 1..M
      BY <1>1
    <2>2. (1..k) \ {k} = 1..(k - 1) /\ k \in 1..k /\ 1..k \in SUBSET (1..(M - 1))
      BY <2>1, IntervalGrows
    <2>3. F[1..k] = v[k] + F[1..(k - 1)]
      <3>1. F[1..k] = v[k] + F[(1..k) \ {k}]
        BY <1>4, <2>2 DEF IsSum
      <3> QED BY <2>2, <3>1
    <2>4. f[k + 1] = F[1..k] /\ f[k] = F[1..(k - 1)]
      BY <2>1
    <2>5. f[k] \in Nat
      BY <1>5, <2>1
    <2>6. v[k] \in Nat
      BY <1>3
    <2> HIDE DEF f
    <2>7. f[k + 1] = v[k] + f[k]
      BY <2>3, <2>4
    <2> QED BY <2>5, <2>6, <2>7
  <1>8. f[M] = Length(w, q)
    BY <1>1, <1>4
  <1> HIDE DEF f
  <1>9. AddsUp(f, w, q)
    BY <1>2, <1>3, <1>5, <1>6, <1>7 DEF AddsUp
  <1> QED BY <1>1, <1>8, <1>9 DEF Leads

\* One node alone leads to itself, and an edge from one end to the other.
LEMMA ShortLeads ==
  ASSUME NEW V, NEW w, NEW a \in V
  PROVE  /\ Leads(V, w, <<a>>, a, a, 0)
         /\ \A b \in V : <<a, b>> \in DOMAIN w /\ w[<<a, b>>] \in Nat =>
              Leads(V, w, <<a, b>>, a, b, w[<<a, b>>])
  <1>1. Leads(V, w, <<a>>, a, a, 0)
    <2> DEFINE q == <<a>>
               f == [k \in 1..1 |-> 0]
    <2>1. q \in Seq(V) /\ Len(q) = 1 /\ q[1] = a /\ f \in [1..1 -> Nat] /\ f[1] = 0
      OBVIOUS
    <2>2. 1..(1 - 1) = {}
      OBVIOUS
    <2> HIDE DEF q, f
    <2>3. AddsUp(f, w, q) /\ f[Len(q)] = 0
      BY <2>1, <2>2 DEF AddsUp
    <2>4. Leads(V, w, q, a, a, 0)
      BY <2>1, <2>3 DEF Leads
    <2> QED BY <2>4 DEF q
  <1>2. ASSUME NEW b \in V, <<a, b>> \in DOMAIN w, w[<<a, b>>] \in Nat
        PROVE  Leads(V, w, <<a, b>>, a, b, w[<<a, b>>])
    <2> DEFINE q == <<a, b>>
               c == w[<<a, b>>]
               f == [k \in 1..2 |-> IF k = 1 THEN 0 ELSE c]
    <2>1. /\ q \in Seq(V) /\ Len(q) = 2 /\ q[1] = a /\ q[2] = b
          /\ f \in [1..2 -> Nat] /\ f[1] = 0 /\ f[2] = c /\ c \in Nat
      BY <1>2
    <2>2. \A k \in 1..(2 - 1) : k = 1 /\ k + 1 = 2
      OBVIOUS
    <2> HIDE DEF q, f, c
    <2>3. <<q[1], q[2]>> \in DOMAIN w /\ f[2] = f[1] + w[<<q[1], q[2]>>]
      BY <1>2, <2>1 DEF c
    <2>4. AddsUp(f, w, q) /\ f[Len(q)] = c
      BY <2>1, <2>2, <2>3 DEF AddsUp
    <2>5. Leads(V, w, q, a, b, c)
      BY <2>1, <2>4 DEF Leads
    <2> QED BY <2>5 DEF q, c
  <1> QED BY <1>1, <1>2

\* One after the other they lead on.
LEMMA LeadsOn ==
  ASSUME NEW V, NEW w, \A e \in DOMAIN w : w[e] \in Nat,
         NEW a, NEW b, NEW c, NEW d, NEW e,
         NEW q, Leads(V, w, q, a, b, d), NEW r, Leads(V, w, r, b, c, e)
  PROVE  Leads(V, w, q \o Tail(r), a, c, d + e)
  <1> DEFINE M == Len(q)
             N == Len(r)
             j == q \o Tail(r)
             L == M + (N - 1)
  <1>1. PICK g : AddsUp(g, w, q) /\ g[M] = d
    BY DEF Leads
  <1>2. PICK h : AddsUp(h, w, r) /\ h[N] = e
    BY DEF Leads
  <1>3. /\ q \in Seq(V) /\ M \in Nat \ {0} /\ q[1] = a /\ q[M] = b
        /\ r \in Seq(V) /\ N \in Nat \ {0} /\ r[1] = b /\ r[N] = c
    BY DEF Leads
  <1>4. /\ j \in Seq(V) /\ Len(j) = L
        /\ \A k \in 1..M : j[k] = q[k]
        /\ \A k \in 1..N : j[(M - 1) + k] = r[k]
    BY <1>3, JoinedFacts
  <1>5. M \in 1..M /\ 1 \in 1..M /\ N \in 1..N /\ 1 \in 1..N /\ L \in Nat \ {0} /\ 1 \in 1..L
    BY <1>3
  <1>6. /\ \A k \in 1..M : g[k] \in Nat
        /\ \A k \in 1..N : h[k] \in Nat
        /\ g[1] = 0 /\ h[1] = 0
        /\ \A k \in 1..(M - 1) :
             <<q[k], q[k + 1]>> \in DOMAIN w /\ g[k + 1] = g[k] + w[<<q[k], q[k + 1]>>]
        /\ \A k \in 1..(N - 1) :
             <<r[k], r[k + 1]>> \in DOMAIN w /\ h[k + 1] = h[k] + w[<<r[k], r[k + 1]>>]
    BY <1>1, <1>2 DEF AddsUp
  <1> HIDE DEF j, M, N
  <1> DEFINE f == [k \in 1..L |-> IF k <= M THEN g[k] ELSE g[M] + h[k - (M - 1)]]
  <1>8. ASSUME NEW k \in 1..M PROVE f[k] = g[k]
    <2>1. k \in 1..L /\ k <= M
      BY <1>3
    <2> QED BY <2>1
  <1>9. ASSUME NEW k \in 1..N PROVE f[(M - 1) + k] = g[M] + h[k]
    <2> DEFINE i == (M - 1) + k
    <2>1. i \in 1..L /\ i - (M - 1) = k
      BY <1>3
    <2>2. CASE k = 1
      <3>1. i = M
        BY <1>3, <2>2
      <3> HIDE DEF f, i
      <3>2. f[i] = g[M] + 0
        BY <1>5, <1>6, <1>8, <3>1
      <3> QED BY <1>6, <2>2, <3>2 DEF i
    <2>3. CASE k # 1
      <3>1. ~ i <= M
        BY <1>3, <2>3
      <3> HIDE DEF i
      <3>2. f[i] = g[M] + h[i - (M - 1)]
        BY <2>1, <3>1
      <3> QED BY <2>1, <3>2 DEF i
    <2> QED BY <2>2, <2>3
  <1>10. f \in [1..L -> Nat]
    <2>1. ASSUME NEW k \in 1..L PROVE f[k] \in Nat
      <3>1. CASE k <= M
        <4>1. k \in 1..M
          BY <1>3, <3>1
        <4> HIDE DEF f
        <4> QED BY <1>6, <1>8, <4>1
      <3>2. CASE ~ k <= M
        <4> DEFINE i == k - (M - 1)
        <4>1. i \in 1..N /\ (M - 1) + i = k
          BY <1>3, <3>2
        <4> HIDE DEF f, i
        <4>2. f[k] = g[M] + h[i] /\ g[M] \in Nat /\ h[i] \in Nat
          BY <1>5, <1>6, <1>9, <4>1
        <4> QED BY <4>2
      <3> QED BY <3>1, <3>2
    <2> QED BY <2>1
  <1> HIDE DEF f
  <1>11. f[1] = 0 /\ f[L] = d + e
    <2>1. L = (M - 1) + N
      BY <1>3
    <2>2. f[1] = g[1] /\ f[L] = g[M] + h[N]
      BY <1>5, <1>8, <1>9, <2>1
    <2> QED BY <1>1, <1>2, <1>6, <2>2 DEF M, N
  <1>12. j[1] = a /\ j[L] = c
    <2>1. L = (M - 1) + N
      BY <1>3
    <2>2. j[1] = q[1] /\ j[(M - 1) + N] = r[N]
      BY <1>4, <1>5
    <2> QED BY <1>3, <2>1, <2>2
  <1>13. ASSUME NEW k \in 1..(L - 1)
         PROVE  <<j[k], j[k + 1]>> \in DOMAIN w
                /\ f[k + 1] = f[k] + w[<<j[k], j[k + 1]>>]
    <2>1. CASE k < M
      <3>1. k \in 1..(M - 1) /\ k \in 1..M /\ k + 1 \in 1..M
        BY <1>3, <2>1
      <3>2. j[k] = q[k] /\ j[k + 1] = q[k + 1] /\ f[k] = g[k] /\ f[k + 1] = g[k + 1]
        BY <1>4, <1>8, <3>1
      <3> QED BY <1>6, <3>1, <3>2
    <2>2. CASE ~ k < M
      <3> DEFINE i == k - (M - 1)
      <3>1. /\ i \in 1..(N - 1) /\ i \in 1..N /\ i + 1 \in 1..N
            /\ (M - 1) + i = k /\ (M - 1) + (i + 1) = k + 1
        BY <1>3, <2>2
      <3> HIDE DEF i
      <3>2. /\ j[k] = r[i] /\ j[k + 1] = r[i + 1]
            /\ f[k] = g[M] + h[i] /\ f[k + 1] = g[M] + h[i + 1]
        BY <1>4, <1>9, <3>1
      <3> DEFINE x == w[<<r[i], r[i + 1]>>]
      <3>3. <<r[i], r[i + 1]>> \in DOMAIN w /\ h[i + 1] = h[i] + x
        BY <1>6, <3>1
      <3>4. g[M] \in Nat /\ h[i] \in Nat /\ h[i + 1] \in Nat
        BY <1>5, <1>6, <3>1
      <3>5. f[k + 1] = f[k] + x
        <4>1. x \in Nat
          BY <3>3
        <4> HIDE DEF x
        <4> QED BY <3>2, <3>3, <3>4, <4>1
      <3> QED BY <3>2, <3>3, <3>5
    <2> QED BY <2>1, <2>2
  <1>14. AddsUp(f, w, j)
    BY <1>4, <1>10, <1>11, <1>13 DEF AddsUp
  <1>15. Leads(V, w, j, a, c, d + e)
    BY <1>4, <1>5, <1>11, <1>12, <1>14 DEF Leads
  <1> QED BY <1>15 DEF j

\* Walks are bound by potentials.
LEMMA LeadsWithin ==
  ASSUME NEW size, NEW w, IsWeighted(size, w), NEW C, NEW p, IsPotential(C, p, size, w),
         NEW q, NEW a \in C, NEW b, NEW c, Leads(Vertices(size), w, q, a, b, c)
  PROVE  b \in C /\ p[b] <= p[a] + c
  <1> DEFINE V == Vertices(size)
             M == Len(q)
  <1>1. /\ q \in Seq(V) /\ M \in Nat \ {0} /\ q[1] = a /\ q[M] = b
    BY DEF Leads
  <1>2. PICK f : AddsUp(f, w, q) /\ f[M] = c
    BY DEF Leads
  <1>3. /\ C \subseteq V /\ \A v \in V : p[v] \in Int
        /\ \A e \in DOMAIN w : e[1] \in C => e[2] \in C /\ p[e[2]] <= p[e[1]] + w[e]
        /\ \A e \in DOMAIN w : w[e] \in Nat
    BY DEF IsPotential, IsWeighted
  <1> DEFINE Good == {k \in Nat : k + 1 <= M => q[k + 1] \in C /\ p[q[k + 1]] <= p[a] + f[k + 1]}
  <1>4. 0 \in Good
    <2>1. f[1] = 0 /\ p[a] \in Int
      BY <1>2, <1>3 DEF AddsUp
    <2> QED BY <1>1, <2>1
  <1>5. ASSUME NEW i \in Nat, i \in Good PROVE i + 1 \in Good
    <2> SUFFICES ASSUME (i + 1) + 1 <= M
                 PROVE  q[(i + 1) + 1] \in C /\ p[q[(i + 1) + 1]] <= p[a] + f[(i + 1) + 1]
      OBVIOUS
    <2> DEFINE k == i + 1
               x == q[k]
               y == q[k + 1]
    <2>1. k \in 1..(M - 1) /\ k \in 1..M /\ k + 1 \in 1..M
      BY <1>1
    <2>2. x \in C /\ p[x] <= p[a] + f[k]
      BY <1>1, <1>5
    <2>3. <<x, y>> \in DOMAIN w /\ f[k + 1] = f[k] + w[<<x, y>>] /\ f[k] \in Nat
      BY <1>2, <2>1 DEF AddsUp
    <2>4. y \in C /\ p[y] <= p[x] + w[<<x, y>>] /\ w[<<x, y>>] \in Nat
      <3>1. <<x, y>>[1] = x /\ <<x, y>>[2] = y
        OBVIOUS
      <3> HIDE DEF x, y
      <3> QED BY <1>3, <2>2, <2>3, <3>1
    <2>5. p[x] \in Int /\ p[y] \in Int /\ p[a] \in Int
      BY <1>3, <2>2, <2>4
    <2> DEFINE z == w[<<x, y>>]
    <2> HIDE DEF x, y, z, k
    <2>6. p[y] <= p[a] + f[k + 1]
      BY <2>2, <2>3, <2>4, <2>5 DEF z
    <2> QED BY <2>4, <2>6 DEF y, k
  <1>6. Nat \subseteq Good
    <2> HIDE DEF Good
    <2> QED BY <1>4, <1>5, NatSetInduction
  <1>7. M - 1 \in Good /\ (M - 1) + 1 = M
    BY <1>1, <1>6
  <1> QED BY <1>1, <1>2, <1>7

\* No walk is shorter than the table says.
LEMMA TableIsLeast ==
  ASSUME NEW size, NEW w, IsWeighted(size, w),
         NEW q, NEW a, NEW b, NEW c, Leads(Vertices(size), w, q, a, b, c)
  PROVE  Distances(size, w)[<<a, b>>] <= c
  <1> DEFINE V == Vertices(size)
             d == Distances(size, w)
             p == [v \in V |-> d[<<a, v>>]]
  <1>1. AreShortest(d, size, size, w)
    BY DistancesShortest
  <1>2. a \in V /\ b \in V /\ c \in Nat
    BY LeadsIsWalk DEF IsWeighted
  <1>3. /\ \A x, y \in V : d[<<x, y>>] \in Nat
        /\ d[<<a, a>>] = 0
        /\ \A e \in DOMAIN w : d[e] <= w[e] /\ w[e] \in Nat /\ e = <<e[1], e[2]>>
                               /\ e[1] \in V /\ e[2] \in V
        /\ \A h \in V : ShorterBy(d, h, size)
    <2>1. \A h \in V : h < size
      BY DEF IsWeighted, Vertices
    <2>2. \A e \in Cells(size) : e = <<e[1], e[2]>> /\ e[1] \in V /\ e[2] \in V
      BY DEF Cells
    <2>3. \A x, y \in V : <<x, y>> \in Cells(size)
      BY DEF Cells
    <2> HIDE DEF d
    <2> QED BY <1>1, <1>2, <2>1, <2>2, <2>3 DEF AreShortest, IsWeighted
  <1> HIDE DEF d
  <1>4. IsPotential(V, p, size, w)
    <2>1. p \in [V -> Int] /\ \A v \in V : p[v] = d[<<a, v>>]
      BY <1>2, <1>3
    <2> HIDE DEF p, V
    <2>2. ASSUME NEW e \in DOMAIN w PROVE e[2] \in V /\ p[e[2]] <= p[e[1]] + w[e]
      <3> DEFINE x == e[1]
                 y == e[2]
      <3>1. x \in V /\ y \in V /\ e = <<x, y>>
        BY <1>3
      <3>2. d[<<a, y>>] <= d[<<a, x>>] + d[<<x, y>>]
        BY <1>2, <1>3, <3>1 DEF ShorterBy, V
      <3>3. d[<<x, y>>] <= w[e] /\ w[e] \in Nat
        BY <1>3, <3>1
      <3>4. d[<<a, y>>] \in Nat /\ d[<<a, x>>] \in Nat /\ d[<<x, y>>] \in Nat
        BY <1>2, <1>3, <3>1
      <3> QED BY <2>1, <3>1, <3>2, <3>3, <3>4
    <2> QED BY <2>1, <2>2 DEF IsPotential, V
  <1>5. p[b] <= p[a] + c
    BY <1>2, <1>4, LeadsWithin
  <1> QED BY <1>2, <1>3, <1>5 DEF d

-----------------------------------------------------------------------------
(* The search                                                               *)

SettledIn(q) == DOMAIN q.dist \ q.open

\* Following the parents of settled nodes the numbers r fall.
Ordered(V, w, s, q, r) ==
  /\ r \in [V -> Nat]
  /\ \A x \in SettledIn(q) : 1 <= r[x] /\ r[x] <= Cardinality(SettledIn(q))
  /\ \A y \in DOMAIN q.dist \ {s} :
       LET p == q.parent[y]
       IN  /\ p \in SettledIn(q) /\ <<p, y>> \in DOMAIN w
           /\ q.dist[y] = q.dist[p] + w[<<p, y>>]
           /\ y \in SettledIn(q) => r[p] < r[y]

\* The nodes reached, at the cost of the way the parents tell; the settled ones are
\* nearer than the open ones and have passed on their cost; t is not settled.
IsSearch(V, w, s, t, q) ==
  /\ q = [dist |-> q.dist, parent |-> q.parent, open |-> q.open]
  /\ DOMAIN q.dist \in SUBSET V /\ q.dist \in [DOMAIN q.dist -> Nat]
  /\ q.parent \in [DOMAIN q.dist \ {s} -> V]
  /\ q.open \in SUBSET DOMAIN q.dist
  /\ s \in DOMAIN q.dist /\ q.dist[s] = 0 /\ t \notin SettledIn(q)
  /\ \A x \in SettledIn(q) : \A o \in q.open : q.dist[x] <= q.dist[o]
  /\ \A e \in DOMAIN w : e[1] \in SettledIn(q) =>
       e[2] \in DOMAIN q.dist /\ q.dist[e[2]] <= q.dist[e[1]] + w[e]
  /\ \E r : Ordered(V, w, s, q, r)

\* The choice that settles: one of the nearest.
LEMMA CheapestIsNearest ==
  ASSUME NEW size \in Nat, NEW q, q.open # {}, q.open \in SUBSET Vertices(size),
         \A o \in q.open : q.dist[o] \in Nat
  PROVE  Cheapest(q) \in q.open /\ \A o \in q.open : q.dist[Cheapest(q)] <= q.dist[o]
  <1> DEFINE Costs == {q.dist[o] : o \in q.open}
  <1>1. PICK c \in Costs : \A x \in Costs : c <= x
    <2>1. Costs \in SUBSET Nat /\ Costs # {}
      OBVIOUS
    <2> HIDE DEF Costs
    <2> QED BY <2>1, LeastNatural
  <1> DEFINE Near == {o \in q.open : q.dist[o] = c}
  <1>2. PICK n \in Near : \A o \in Near : o <= n
    <2>1. Near \in SUBSET Nat /\ Near # {} /\ \A o \in Near : o <= size
      BY DEF Vertices
    <2> HIDE DEF Near
    <2> QED BY <2>1, GreatestNatural
  <1>3. n \in q.open /\ \A o \in q.open \ {n} :
          q.dist[n] < q.dist[o] \/ (q.dist[n] = q.dist[o] /\ n > o)
    <2> SUFFICES ASSUME NEW o \in q.open \ {n}
                 PROVE  q.dist[n] < q.dist[o] \/ (q.dist[n] = q.dist[o] /\ n > o)
      BY <1>2
    <2>1. c <= q.dist[o] /\ q.dist[n] = c /\ c \in Nat /\ q.dist[o] \in Nat
      BY <1>1, <1>2
    <2>2. CASE q.dist[o] = c
      <3>1. o <= n /\ o # n /\ o \in Nat /\ n \in Nat
        BY <1>2, <2>2 DEF Vertices
      <3> QED BY <2>1, <2>2, <3>1
    <2> QED BY <2>1, <2>2
  <1> DEFINE m == Cheapest(q)
  <1>4. m \in q.open /\ \A o \in q.open \ {m} :
          q.dist[m] < q.dist[o] \/ (q.dist[m] = q.dist[o] /\ m > o)
    BY <1>3 DEF Cheapest
  <1> HIDE DEF m
  <1>5. \A o \in q.open : q.dist[m] <= q.dist[o]
    BY <1>4
  <1> QED BY <1>4, <1>5 DEF m

\* Where the search starts.
LEMMA SearchStarts ==
  ASSUME NEW V, NEW w, NEW s \in V, NEW t
  PROVE  IsSearch(V, w, s, t,
                  [dist |-> [m \in {s} |-> 0], parent |-> [m \in {} |-> s], open |-> {s}])
  <1> DEFINE d == [m \in {s} |-> 0]
             p == [m \in {} |-> s]
             q == [dist |-> d, parent |-> p, open |-> {s}]
  <1>1. DOMAIN d = {s} /\ d[s] = 0 /\ d \in [{s} -> Nat] /\ p \in [{s} \ {s} -> V]
    OBVIOUS
  <1> HIDE DEF d, p
  <1>2. q.dist = d /\ q.parent = p /\ q.open = {s} /\ q = [dist |-> d, parent |-> p, open |-> {s}]
    OBVIOUS
  <1> HIDE DEF q
  <1>3. SettledIn(q) = {} /\ DOMAIN q.dist \ {s} = {}
    BY <1>1, <1>2 DEF SettledIn
  <1>4. Ordered(V, w, s, q, [v \in V |-> 0])
    BY <1>3 DEF Ordered
  <1>5. IsSearch(V, w, s, t, q)
    BY <1>1, <1>2, <1>3, <1>4 DEF IsSearch
  <1> QED BY <1>5 DEF q, d, p

\* Settling the nearest open node keeps all this.
LEMMA RelaxedIsSearch ==
  ASSUME NEW size, NEW w, IsWeighted(size, w), NEW s, NEW t,
         NEW q, IsSearch(Vertices(size), w, s, t, q), q.open # {}, Cheapest(q) # t
  PROVE  LET u == Relaxed(w, q, Cheapest(q))
         IN  /\ IsSearch(Vertices(size), w, s, t, u)
             /\ SettledIn(u) = SettledIn(q) \cup {Cheapest(q)} /\ Cheapest(q) \notin SettledIn(q)
  <1> DEFINE V == Vertices(size)
             n == Cheapest(q)
             u == Relaxed(w, q, n)
             D == DOMAIN q.dist
             S == SettledIn(q)
             better == {e[2] : e \in {e \in DOMAIN w :
                          e[1] = n /\ (e[2] \in D => q.dist[n] + w[<<n, e[2]>>] < q.dist[e[2]])}}
  <1>1. /\ D \in SUBSET V /\ q.dist \in [D -> Nat] /\ q.parent \in [D \ {s} -> V]
        /\ q.open \in SUBSET D /\ s \in D /\ q.dist[s] = 0 /\ t \notin S
        /\ \A x \in S : \A o \in q.open : q.dist[x] <= q.dist[o]
        /\ \A e \in DOMAIN w : e[1] \in S => e[2] \in D /\ q.dist[e[2]] <= q.dist[e[1]] + w[e]
    BY DEF IsSearch
  <1>2. PICK r : Ordered(V, w, s, q, r)
    BY DEF IsSearch
  <1>3. /\ size \in Nat
        /\ \A e \in DOMAIN w : /\ w[e] \in Nat /\ e = <<e[1], e[2]>>
                               /\ e[1] \in V /\ e[2] \in V
    BY DEF IsWeighted, Cells
  <1>4. n \in q.open /\ \A o \in q.open : q.dist[n] <= q.dist[o]
    BY <1>1, <1>3, CheapestIsNearest
  <1>5. \A x \in D : q.dist[x] \in Nat
    BY <1>1
  <1>6. /\ u.dist = [m \in D \cup better |->
                       IF m \in better THEN q.dist[n] + w[<<n, m>>] ELSE q.dist[m]]
        /\ u.parent = [m \in (D \ {s}) \cup better |-> IF m \in better THEN n ELSE q.parent[m]]
        /\ u.open = (q.open \ {n}) \cup better
        /\ u = [dist |-> u.dist, parent |-> u.parent, open |-> u.open]
    <2>1. DOMAIN q.parent = D \ {s}
      BY <1>1
    <2> HIDE DEF n
    <2> QED BY <2>1 DEF Relaxed
  <1> HIDE DEF u, n
  <1>7. \A m : m \in better <=> /\ <<n, m>> \in DOMAIN w
                                /\ (m \in D => q.dist[n] + w[<<n, m>>] < q.dist[m])
    <2>1. ASSUME NEW m, m \in better
          PROVE  <<n, m>> \in DOMAIN w /\ (m \in D => q.dist[n] + w[<<n, m>>] < q.dist[m])
      <3>1. PICK e \in DOMAIN w : /\ e[1] = n /\ e[2] = m
                                  /\ (m \in D => q.dist[n] + w[<<n, m>>] < q.dist[m])
        BY <2>1
      <3> QED BY <1>3, <3>1
    <2>2. ASSUME NEW m, <<n, m>> \in DOMAIN w, m \in D => q.dist[n] + w[<<n, m>>] < q.dist[m]
          PROVE  m \in better
      <3>1. <<n, m>>[1] = n /\ <<n, m>>[2] = m
        OBVIOUS
      <3> QED BY <2>2, <3>1
    <2> QED BY <2>1, <2>2
  <1> HIDE DEF better
  <1>8. n \in D /\ n \notin S /\ n \in V /\ q.dist[n] \in Nat /\ S = D \ q.open
    BY <1>1, <1>4, <1>5 DEF SettledIn
  <1>9. \A m \in better : w[<<n, m>>] \in Nat /\ m \in V
    <2> SUFFICES ASSUME NEW m \in better PROVE w[<<n, m>>] \in Nat /\ m \in V
      OBVIOUS
    <2>1. <<n, m>> \in DOMAIN w /\ <<n, m>>[2] = m
      BY <1>7
    <2> QED BY <1>3, <2>1
  <1>10. \A x \in D : q.dist[x] <= q.dist[n] => x \notin better
    <2> SUFFICES ASSUME NEW x \in D, q.dist[x] <= q.dist[n], x \in better PROVE FALSE
      OBVIOUS
    <2> DEFINE c == w[<<n, x>>]
    <2>1. c \in Nat /\ q.dist[n] + c < q.dist[x] /\ q.dist[x] \in Nat
      BY <1>5, <1>7, <1>9
    <2> HIDE DEF c
    <2> QED BY <1>8, <2>1
  <1>11. /\ \A x \in S : x \in D /\ x \notin better /\ q.dist[x] <= q.dist[n]
         /\ n \notin better /\ s \notin better
    <2>1. \A x \in S : x \in D /\ q.dist[x] <= q.dist[n]
      BY <1>1, <1>4, <1>8
    <2>2. q.dist[n] <= q.dist[n] /\ q.dist[s] <= q.dist[n]
      BY <1>1, <1>8
    <2> QED BY <1>1, <1>8, <1>10, <2>1, <2>2
  <1>12. /\ DOMAIN u.dist = D \cup better
         /\ \A m \in better : u.dist[m] = q.dist[n] + w[<<n, m>>] /\ u.parent[m] = n
         /\ \A m \in D : m \notin better => u.dist[m] = q.dist[m]
         /\ \A m \in D \ {s} : m \notin better => u.parent[m] = q.parent[m]
    BY <1>6
  <1>13. SettledIn(u) = S \cup {n}
    BY <1>1, <1>6, <1>8, <1>11, <1>12 DEF SettledIn
  <1>14. DOMAIN u.dist \in SUBSET V /\ u.open \in SUBSET DOMAIN u.dist
    BY <1>1, <1>6, <1>9, <1>12
  <1>15. \A m \in DOMAIN u.dist : u.dist[m] \in Nat /\ (m \in D => u.dist[m] <= q.dist[m])
    <2> SUFFICES ASSUME NEW m \in DOMAIN u.dist
                 PROVE  u.dist[m] \in Nat /\ (m \in D => u.dist[m] <= q.dist[m])
      OBVIOUS
    <2>1. CASE m \in better
      <3> DEFINE c == w[<<n, m>>]
      <3>1. c \in Nat /\ u.dist[m] = q.dist[n] + c /\ (m \in D => q.dist[n] + c < q.dist[m])
        BY <1>7, <1>9, <1>12, <2>1
      <3> HIDE DEF c
      <3> QED BY <1>5, <1>8, <3>1
    <2>2. CASE m \notin better
      <3>1. m \in D /\ u.dist[m] = q.dist[m] /\ q.dist[m] \in Nat
        BY <1>5, <1>12, <2>2
      <3> QED BY <3>1
    <2> QED BY <2>1, <2>2
  <1>16. u.dist \in [DOMAIN u.dist -> Nat]
    <2>1. u.dist = [m \in DOMAIN u.dist |-> u.dist[m]]
      BY <1>6, <1>12
    <2> QED BY <1>15, <2>1
  <1>17. u.parent \in [DOMAIN u.dist \ {s} -> V]
    <2>1. (D \ {s}) \cup better = DOMAIN u.dist \ {s}
      BY <1>11, <1>12
    <2>2. \A m \in D \ {s} : q.parent[m] \in V
      BY <1>1
    <2> QED BY <1>6, <1>8, <2>1, <2>2
  <1>18. s \in DOMAIN u.dist /\ u.dist[s] = 0 /\ t \notin SettledIn(u)
    BY <1>1, <1>11, <1>12, <1>13 DEF n
  <1>19. ASSUME NEW x \in SettledIn(u), NEW o \in u.open PROVE u.dist[x] <= u.dist[o]
    <2>1. x \in D /\ u.dist[x] = q.dist[x] /\ q.dist[x] \in Nat /\ q.dist[x] <= q.dist[n]
      <3>1. CASE x \in S
        BY <1>5, <1>11, <1>12, <3>1
      <3>2. CASE x = n
        BY <1>8, <1>11, <1>12, <3>2
      <3> QED BY <1>13, <3>1, <3>2
    <2>2. CASE o \in better
      <3> DEFINE c == w[<<n, o>>]
      <3>1. c \in Nat /\ u.dist[o] = q.dist[n] + c
        BY <1>9, <1>12, <2>2
      <3> HIDE DEF c
      <3> QED BY <1>8, <2>1, <3>1
    <2>3. CASE o \notin better
      <3>1. o \in q.open /\ u.dist[o] = q.dist[o] /\ q.dist[o] \in Nat /\ q.dist[n] <= q.dist[o]
        BY <1>1, <1>4, <1>5, <1>6, <1>12, <2>3
      <3> QED BY <1>8, <2>1, <3>1
    <2> QED BY <2>2, <2>3
  <1>20. ASSUME NEW e \in DOMAIN w, e[1] \in SettledIn(u)
         PROVE  e[2] \in DOMAIN u.dist /\ u.dist[e[2]] <= u.dist[e[1]] + w[e]
    <2> DEFINE x == e[1]
               y == e[2]
    <2>0. e = <<x, y>> /\ w[e] \in Nat
      BY <1>3
    <2>1. CASE x \in S
      <3>1. y \in D /\ q.dist[y] <= q.dist[x] + w[e]
        BY <1>1, <2>1
      <3>2. u.dist[x] = q.dist[x] /\ q.dist[x] \in Nat /\ q.dist[y] \in Nat
        BY <1>5, <1>11, <1>12, <2>1, <3>1
      <3>3. y \in DOMAIN u.dist /\ u.dist[y] <= q.dist[y] /\ u.dist[y] \in Nat
        BY <1>12, <1>15, <3>1
      <3> DEFINE c == w[e]
      <3> HIDE DEF x, y, c
      <3>4. u.dist[y] <= u.dist[x] + c
        BY <2>0, <3>1, <3>2, <3>3 DEF c
      <3> QED BY <3>3, <3>4 DEF x, y, c
    <2>2. CASE x = n
      <3>1. u.dist[n] = q.dist[n]
        BY <1>8, <1>11, <1>12
      <3>2. CASE y \in better
        <4>1. u.dist[y] = q.dist[n] + w[<<n, y>>] /\ y \in DOMAIN u.dist /\ <<n, y>> = e
          BY <1>12, <2>0, <2>2, <3>2
        <4>2. u.dist[y] = u.dist[x] + w[e] /\ u.dist[y] \in Nat
          BY <1>15, <2>2, <3>1, <4>1
        <4> HIDE DEF x, y
        <4>3. u.dist[y] <= u.dist[x] + w[e]
          BY <4>2
        <4> QED BY <4>1, <4>3 DEF x, y
      <3>3. CASE y \notin better
        <4>1. <<n, y>> \in DOMAIN w /\ <<n, y>> = e
          BY <2>0, <2>2
        <4>2. y \in D /\ ~(q.dist[n] + w[e] < q.dist[y])
          BY <1>7, <3>3, <4>1
        <4>3. u.dist[y] = q.dist[y] /\ q.dist[y] \in Nat /\ y \in DOMAIN u.dist
          BY <1>5, <1>12, <3>3, <4>2
        <4> DEFINE c == w[e]
        <4> HIDE DEF x, y, c
        <4>4. u.dist[y] <= u.dist[n] + c
          BY <1>8, <2>0, <3>1, <4>2, <4>3 DEF c
        <4> QED BY <2>2, <4>3, <4>4 DEF x, y, c
      <3> QED BY <3>2, <3>3
    <2> QED BY <1>13, <1>20, <2>1, <2>2
  <1> DEFINE C == Cardinality(S)
             rank == [r EXCEPT ![n] = C + 1]
  <1>21. /\ C \in Nat /\ Cardinality(SettledIn(u)) = C + 1
         /\ r \in [V -> Nat] /\ \A x \in S : 1 <= r[x] /\ r[x] <= C
         /\ \A y \in D \ {s} : /\ q.parent[y] \in S /\ <<q.parent[y], y>> \in DOMAIN w
                               /\ q.dist[y] = q.dist[q.parent[y]] + w[<<q.parent[y], y>>]
                               /\ y \in S => r[q.parent[y]] < r[y]
    <2>1. IsFiniteSet(V)
      BY <1>3, FS_Interval DEF Vertices
    <2>2. IsFiniteSet(S)
      BY <1>1, <1>8, <2>1, FS_Subset
    <2>3. C \in Nat /\ Cardinality(S \cup {n}) = C + 1
      BY <1>8, <2>2, FS_CardinalityType, FS_AddElement
    <2> QED BY <1>2, <1>13, <2>3 DEF Ordered
  <1> HIDE DEF C, S, D
  <1>22. /\ rank \in [V -> Nat] /\ rank[n] = C + 1
         /\ \A x \in S : rank[x] = r[x] /\ 1 <= rank[x] /\ rank[x] <= C /\ rank[x] \in Nat
    <2>1. C + 1 \in Nat
      BY <1>21
    <2>2. \A x \in S : x \in V /\ x # n
      BY <1>1, <1>8
    <2> QED BY <1>8, <1>21, <2>1, <2>2
  <1> HIDE DEF rank
  <1>23. \A x \in SettledIn(u) : 1 <= rank[x] /\ rank[x] <= Cardinality(SettledIn(u))
    <2>1. \A x \in S : rank[x] <= C + 1
      BY <1>21, <1>22
    <2>2. 1 <= C + 1 /\ C + 1 <= C + 1
      BY <1>21
    <2> QED BY <1>13, <1>21, <1>22, <2>1, <2>2
  <1>24. ASSUME NEW y \in DOMAIN u.dist \ {s}
         PROVE  LET p == u.parent[y]
                IN  /\ p \in SettledIn(u) /\ <<p, y>> \in DOMAIN w
                    /\ u.dist[y] = u.dist[p] + w[<<p, y>>]
                    /\ y \in SettledIn(u) => rank[p] < rank[y]
    <2>1. CASE y \in better
      <3>1. u.parent[y] = n /\ n \in SettledIn(u) /\ <<n, y>> \in DOMAIN w
        BY <1>7, <1>12, <1>13, <2>1
      <3>2. u.dist[n] = q.dist[n] /\ u.dist[y] = q.dist[n] + w[<<n, y>>]
        BY <1>8, <1>11, <1>12, <2>1
      <3>3. y \notin SettledIn(u)
        BY <1>11, <1>13, <2>1
      <3> QED BY <3>1, <3>2, <3>3
    <2>2. CASE y \notin better
      <3> DEFINE p == q.parent[y]
      <3>1. y \in D \ {s} /\ u.parent[y] = p /\ u.dist[y] = q.dist[y]
        BY <1>12, <2>2
      <3>2. p \in S /\ <<p, y>> \in DOMAIN w /\ q.dist[y] = q.dist[p] + w[<<p, y>>]
            /\ (y \in S => r[p] < r[y])
        BY <1>21, <3>1
      <3>3. u.dist[p] = q.dist[p] /\ p \in SettledIn(u)
        BY <1>11, <1>12, <1>13, <3>2
      <3>4. y \in SettledIn(u) => rank[p] < rank[y]
        <4> HIDE DEF p
        <4>1. CASE y = n
          BY <1>21, <1>22, <3>2, <4>1
        <4>2. CASE y \in S
          BY <1>22, <3>2, <4>2
        <4> QED BY <1>13, <4>1, <4>2
      <3> QED BY <3>1, <3>2, <3>3, <3>4
    <2> QED BY <2>1, <2>2
  <1>25. Ordered(V, w, s, u, rank)
    BY <1>22, <1>23, <1>24 DEF Ordered
  <1>26. IsSearch(V, w, s, t, u)
    BY <1>6, <1>14, <1>16, <1>17, <1>18, <1>19, <1>20, <1>25 DEF IsSearch
  <1> QED BY <1>8, <1>13, <1>26 DEF u, n, S

-----------------------------------------------------------------------------
(* The turns of a search                                                    *)

\* What ends a search, and the records it goes through.
Ended(q, t) == q.open = {} \/ Cheapest(q) = t

SearchStates(V) ==
  [dist : UNION {[D -> Nat] : D \in SUBSET V}, parent : UNION {[D -> V] : D \in SUBSET V},
   open : SUBSET V]

\* What a search has found is such a record.
LEMMA SearchIsState ==
  ASSUME NEW V, NEW w, NEW s, NEW t, NEW q, IsSearch(V, w, s, t, q)
  PROVE  q \in SearchStates(V)
  <1>1. /\ q = [dist |-> q.dist, parent |-> q.parent, open |-> q.open]
        /\ DOMAIN q.dist \in SUBSET V /\ q.dist \in [DOMAIN q.dist -> Nat]
        /\ q.parent \in [DOMAIN q.dist \ {s} -> V] /\ q.open \in SUBSET DOMAIN q.dist
    BY DEF IsSearch
  <1> DEFINE d == q.dist
             p == q.parent
             o == q.open
             D == DOMAIN q.dist
  <1>2. d \in UNION {[E -> Nat] : E \in SUBSET V}
    BY <1>1
  <1>3. p \in UNION {[E -> V] : E \in SUBSET V}
    <2>1. D \ {s} \in SUBSET V
      BY <1>1
    <2> QED BY <1>1, <2>1
  <1>4. o \in SUBSET V
    BY <1>1
  <1> HIDE DEF d, p, o
  <1>5. [dist |-> d, parent |-> p, open |-> o] \in SearchStates(V)
    BY <1>2, <1>3, <1>4 DEF SearchStates
  <1> QED BY <1>1, <1>5 DEF d, p, o

\* The turns are enough for the search to end.
LEMMA SearchFacts ==
  ASSUME NEW size, NEW w, IsWeighted(size, w), NEW s \in Vertices(size), NEW t
  PROVE  /\ IsSearch(Vertices(size), w, s, t, Search(size, w, s, t))
         /\ Ended(Search(size, w, s, t), t)
  <1> DEFINE V == Vertices(size)
             start == [dist |-> [m \in {s} |-> 0], parent |-> [m \in {} |-> s], open |-> {s}]
             W == {q \in SearchStates(V) : IsSearch(V, w, s, t, q)}
             next(q) == IF q.open = {} \/ Cheapest(q) = t THEN q ELSE Relaxed(w, q, Cheapest(q))
             h == [q \in W |-> next(q)]
             step(f) == [k \in 0..size |->
               IF k = 0
               THEN [dist |-> [m \in {s} |-> 0], parent |-> [m \in {} |-> s], open |-> {s}]
               ELSE LET q == f[k - 1]
                    IN  IF q.open = {} \/ Cheapest(q) = t THEN q ELSE Relaxed(w, q, Cheapest(q))]
             turn == CHOOSE f : f = step(f)
  <1>1. size \in Nat
    BY DEF IsWeighted
  <1>2. start \in W
    <2>1. IsSearch(V, w, s, t, start)
      BY SearchStarts
    <2> HIDE DEF start
    <2> QED BY <2>1, SearchIsState
  <1>3. ASSUME NEW q \in W, ~Ended(q, t)
        PROVE  /\ next(q) \in W /\ SettledIn(next(q)) = SettledIn(q) \cup {Cheapest(q)}
               /\ Cheapest(q) \notin SettledIn(q)
    <2> DEFINE u == Relaxed(w, q, Cheapest(q))
    <2>1. next(q) = u
      BY <1>3 DEF Ended
    <2>2. /\ IsSearch(V, w, s, t, u)
          /\ SettledIn(u) = SettledIn(q) \cup {Cheapest(q)} /\ Cheapest(q) \notin SettledIn(q)
      BY <1>3, RelaxedIsSearch DEF Ended
    <2> HIDE DEF u, next
    <2>3. u \in W
      BY <2>2, SearchIsState
    <2> QED BY <2>1, <2>2, <2>3
  <1>4. \A q \in W : Ended(q, t) => next(q) = q
    BY DEF Ended
  <1> HIDE DEF next, start
  <1>5. h \in [W -> W]
    <2>1. \A q \in W : next(q) \in W
      BY <1>3, <1>4
    <2> HIDE DEF W
    <2> QED BY <2>1
  <1>6. PICK f : IsIteration(f, W, start, h)
    <2> HIDE DEF W, h
    <2> QED BY <1>2, <1>5, Iteration
  <1>7. /\ f \in [Nat -> W] /\ f[0] = start
        /\ \A k \in Nat : f[k] \in W /\ f[k + 1] = next(f[k])
    <2>1. f \in [Nat -> W] /\ f[0] = start /\ \A k \in Nat : f[k + 1] = h[f[k]]
      <3> HIDE DEF W, h
      <3> QED BY <1>6 DEF IsIteration
    <2>2. \A k \in Nat : f[k] \in W
      <3> HIDE DEF W, h
      <3> QED BY <2>1
    <2>3. \A q \in W : h[q] = next(q)
      <3> HIDE DEF W
      <3> QED OBVIOUS
    <2> HIDE DEF W, h
    <2> QED BY <2>1, <2>2, <2>3
  <1>8. /\ \A g : DOMAIN step(g) = 0..size /\ step(g)[0] = start
        /\ \A g : \A k \in 1..size : step(g)[k] = next(g[k - 1])
    <2>1. 0 \in 0..size /\ \A k \in 1..size : k \in 0..size /\ k # 0
      BY <1>1
    <2>2. ASSUME NEW g PROVE DOMAIN step(g) = 0..size /\ step(g)[0] = start
      BY <2>1 DEF start
    <2>3. ASSUME NEW g, NEW k \in 1..size PROVE step(g)[k] = next(g[k - 1])
      BY <2>1 DEF next
    <2> HIDE DEF step
    <2> QED BY <2>2, <2>3
  <1> DEFINE ff == [k \in 0..size |-> f[k]]
  <1>9. ff = step(ff)
    <2>1. ASSUME NEW k \in 0..size PROVE step(ff)[k] = f[k]
      <3> HIDE DEF step
      <3>1. CASE k = 0
        BY <1>7, <1>8, <3>1
      <3>2. CASE k # 0
        <4>1. k \in 1..size /\ k - 1 \in 0..size /\ k - 1 \in Nat /\ (k - 1) + 1 = k
          BY <1>1, <3>2
        <4>2. step(ff)[k] = next(ff[k - 1]) /\ ff[k - 1] = f[k - 1]
          BY <1>8, <4>1
        <4>3. f[(k - 1) + 1] = next(f[k - 1])
          BY <1>7, <4>1
        <4> QED BY <4>1, <4>2, <4>3
      <3> QED BY <3>1, <3>2
    <2>2. step(ff) = [k \in 0..size |-> step(ff)[k]]
      OBVIOUS
    <2> HIDE DEF step
    <2> QED BY <2>1, <2>2
  <1>10. turn = step(turn)
    <2> HIDE DEF step, ff
    <2> QED BY <1>9
  <1>11. Search(size, w, s, t) = turn[size]
    BY DEF Search
  <1> HIDE DEF turn, step, ff
  <1>12. turn[size] = f[size]
    <2> DEFINE Same == {k \in Nat : k <= size => turn[k] = f[k]}
    <2>1. 0 \in Same
      BY <1>7, <1>8, <1>10
    <2>2. ASSUME NEW k \in Nat, k \in Same PROVE k + 1 \in Same
      <3> SUFFICES ASSUME k + 1 <= size PROVE turn[k + 1] = f[k + 1]
        OBVIOUS
      <3>1. k + 1 \in 1..size /\ (k + 1) - 1 = k /\ k <= size
        BY <1>1
      <3>2. turn[k + 1] = next(turn[(k + 1) - 1])
        BY <1>8, <1>10, <3>1
      <3>3. turn[k] = f[k]
        BY <2>2, <3>1
      <3> QED BY <1>7, <3>1, <3>2, <3>3
    <2>3. Nat \subseteq Same
      <3> HIDE DEF Same
      <3> QED BY <2>1, <2>2, NatSetInduction
    <2>4. size \in Same /\ size <= size
      BY <1>1, <2>3
    <2> QED BY <2>4
  <1>13. \A q \in W : /\ SettledIn(q) \in SUBSET V /\ IsFiniteSet(SettledIn(q))
                      /\ Cardinality(SettledIn(q)) \in Nat
    <2>1. IsFiniteSet(V)
      BY <1>1, FS_Interval DEF Vertices
    <2>2. \A q \in W : SettledIn(q) \in SUBSET V
      BY DEF SettledIn, IsSearch
    <2> HIDE DEF W, V
    <2> QED BY <2>1, <2>2, FS_Subset, FS_CardinalityType
  <1> DEFINE Good == {k \in Nat : Ended(f[k], t) \/ Cardinality(SettledIn(f[k])) >= k}
  <1>14. 0 \in Good
    <2> HIDE DEF W
    <2>1. f[0] \in W
      BY <1>7
    <2> QED BY <1>13, <2>1
  <1>15. ASSUME NEW k \in Nat, k \in Good PROVE k + 1 \in Good
    <2> HIDE DEF W
    <2>1. f[k] \in W /\ f[k + 1] = next(f[k])
      BY <1>7
    <2>2. CASE Ended(f[k], t)
      <3>1. f[k + 1] = f[k]
        BY <1>4, <2>1, <2>2
      <3> QED BY <2>2, <3>1
    <2>3. CASE ~Ended(f[k], t)
      <3> DEFINE q == f[k]
                 n == Cheapest(q)
      <3>1. SettledIn(f[k + 1]) = SettledIn(q) \cup {n} /\ n \notin SettledIn(q)
        BY <1>3, <2>1, <2>3
      <3>2. IsFiniteSet(SettledIn(q)) /\ Cardinality(SettledIn(q)) \in Nat
            /\ Cardinality(SettledIn(q)) >= k
        BY <1>13, <1>15, <2>1, <2>3
      <3> HIDE DEF q, n
      <3>3. Cardinality(SettledIn(q) \cup {n}) = Cardinality(SettledIn(q)) + 1
        BY <3>1, <3>2, FS_AddElement
      <3>4. Cardinality(SettledIn(f[k + 1])) >= k + 1
        BY <3>1, <3>2, <3>3
      <3> QED BY <3>4
    <2> QED BY <2>2, <2>3
  <1>16. size \in Good
    <2> HIDE DEF Good
    <2> QED BY <1>1, <1>14, <1>15, NatSetInduction
  <1> DEFINE q == f[size]
  <1>17. q \in W /\ IsSearch(V, w, s, t, q)
    BY <1>1, <1>7
  <1>18. Ended(q, t)
    <2> SUFFICES ASSUME Cardinality(SettledIn(q)) >= size PROVE q.open = {}
      BY <1>16 DEF Ended
    <2>1. IsFiniteSet(V) /\ Cardinality(V) = size
      BY <1>1, FS_Interval DEF Vertices
    <2>2. /\ SettledIn(q) \in SUBSET V /\ Cardinality(SettledIn(q)) \in Nat
          /\ Cardinality(SettledIn(q)) <= Cardinality(V)
          /\ Cardinality(V) = Cardinality(SettledIn(q)) => V = SettledIn(q)
      <3>1. SettledIn(q) \in SUBSET V /\ Cardinality(SettledIn(q)) \in Nat
        <4> HIDE DEF W, q, V
        <4> QED BY <1>13, <1>17
      <3> HIDE DEF q, V
      <3> QED BY <2>1, <3>1, FS_Subset
    <2>3. V = SettledIn(q)
      <3> HIDE DEF q, V
      <3> QED BY <1>1, <2>1, <2>2
    <2>4. q.open \in SUBSET V /\ SettledIn(q) \cap q.open = {}
      BY <1>17 DEF IsSearch, SettledIn
    <2> QED BY <2>3, <2>4
  <1> QED BY <1>11, <1>12, <1>17, <1>18

\* A node before the first one.
LEMMA LeadsBefore ==
  ASSUME NEW V, NEW w, \A e \in DOMAIN w : w[e] \in Nat,
         NEW a \in V, NEW b, NEW c, NEW q, NEW d, Leads(V, w, q, b, c, d),
         <<a, b>> \in DOMAIN w
  PROVE  Leads(V, w, <<a>> \o q, a, c, w[<<a, b>>] + d) /\ Head(<<a>> \o q) = a
  <1> DEFINE r == <<a, b>>
  <1>1. q \in Seq(V) /\ Len(q) \in Nat \ {0} /\ q[1] = b /\ b \in V
    BY LeadsIsWalk DEF Leads
  <1>2. Leads(V, w, r, a, b, w[<<a, b>>])
    BY <1>1, ShortLeads
  <1>3. r \in Seq(V) /\ Len(r) = 2 /\ r[Len(r)] = q[1]
    BY <1>1
  <1>4. Front(r) \o q = r \o Tail(q)
    <2> HIDE DEF r
    <2>1. Len(r) \in Nat \ {0}
      BY <1>3
    <2> QED BY <1>1, <1>3, <2>1, JoinedFacts
  <1>5. Front(r) = <<a>>
    <2> DEFINE f == SubSeq(r, 1, 1)
    <2>1. f = <<a>>
      <3>1. Len(r) = 2 /\ r[1] = a /\ r \in Seq(V)
        BY <1>1
      <3> HIDE DEF r
      <3>2. f \in Seq(V) /\ Len(f) = 1 /\ f[1] = a
        BY <3>1
      <3> HIDE DEF f
      <3> QED BY <3>2
    <2>2. Len(r) - 1 = 1
      BY <1>3
    <2> HIDE DEF r
    <2> QED BY <2>1, <2>2 DEF Front
  <1>6. Leads(V, w, r \o Tail(q), a, c, w[<<a, b>>] + d)
    <2> HIDE DEF r
    <2> QED BY <1>2, LeadsOn
  <1>7. r \o Tail(q) = <<a>> \o q
    BY <1>4, <1>5
  <1>8. Head(<<a>> \o q) = a
    BY <1>1
  <1> QED BY <1>6, <1>7, <1>8

\* Followed back, the parents tell a way of the cost found.
LEMMA PathBack ==
  ASSUME NEW size, NEW w, IsWeighted(size, w), NEW s \in Vertices(size), NEW t,
         t \in DOMAIN Search(size, w, s, t).dist
  PROVE  /\ SearchPath(size, w, s, t).cost = Search(size, w, s, t).dist[t]
         /\ Leads(Vertices(size), w, SearchPath(size, w, s, t).path, s, t,
                  Search(size, w, s, t).dist[t])
  <1> DEFINE V == Vertices(size)
             q == Search(size, w, s, t)
             D == DOMAIN q.dist
             S == SettledIn(q)
             C == Cardinality(S)
             next(p) == IF Head(p) = s THEN p ELSE <<q.parent[Head(p)]>> \o p
             step(f) == [k \in 0..size |->
               IF k = 0 THEN <<t>>
               ELSE LET p == f[k - 1] IN IF Head(p) = s THEN p ELSE <<q.parent[Head(p)]>> \o p]
             back == CHOOSE f : f = step(f)
             W == {p \in Seq(V) : /\ Head(p) \in D
                                  /\ Leads(V, w, p, Head(p), t, q.dist[t] - q.dist[Head(p)])}
             h == [p \in W |-> next(p)]
  <1>1. IsSearch(V, w, s, t, q)
    BY SearchFacts
  <1>2. /\ SearchPath(size, w, s, t).cost = q.dist[t]
        /\ SearchPath(size, w, s, t).path = back[size]
    BY DEF SearchPath
  <1> HIDE DEF q
  <1>3. PICK r : Ordered(V, w, s, q, r)
    BY <1>1 DEF IsSearch
  <1>4. /\ size \in Nat /\ \A e \in DOMAIN w : w[e] \in Nat
        /\ D \in SUBSET V /\ S \in SUBSET D /\ s \in D /\ q.dist[s] = 0 /\ t \in D /\ t \notin S
        /\ \A x \in D : q.dist[x] \in Nat
        /\ r \in [V -> Nat] /\ \A x \in S : 1 <= r[x] /\ r[x] <= C
        /\ \A y \in D \ {s} : /\ q.parent[y] \in S /\ <<q.parent[y], y>> \in DOMAIN w
                              /\ q.dist[y] = q.dist[q.parent[y]] + w[<<q.parent[y], y>>]
                              /\ y \in S => r[q.parent[y]] < r[y]
    BY <1>1, <1>3 DEF IsSearch, Ordered, IsWeighted, SettledIn, q
  <1>5. C \in Nat /\ C < size
    <2>1. IsFiniteSet(V) /\ Cardinality(V) = size
      BY <1>4, FS_Interval DEF Vertices
    <2>2. S \in SUBSET V /\ S # V
      BY <1>4
    <2>3. /\ IsFiniteSet(S) /\ C <= size /\ (size = C => V = S)
      <3> HIDE DEF S, V
      <3> QED BY <2>1, <2>2, FS_Subset
    <2>4. C \in Nat
      BY <2>3, FS_CardinalityType
    <2> QED BY <1>4, <2>2, <2>3, <2>4
  <1> HIDE DEF D, S, C
  <1> DEFINE R(x) == IF x \in S THEN r[x] ELSE C + 1
  <1>6. \A x \in D : R(x) \in Nat /\ 1 <= R(x) /\ R(x) <= C + 1
    <2>1. \A x \in S : r[x] \in Nat /\ 1 <= r[x] /\ r[x] <= C
      BY <1>4
    <2> QED BY <1>5, <2>1
  <1>7. \A y \in D \ {s} : q.parent[y] \in D /\ R(q.parent[y]) < R(y)
    <2> SUFFICES ASSUME NEW y \in D \ {s} PROVE q.parent[y] \in D /\ R(q.parent[y]) < R(y)
      OBVIOUS
    <2> DEFINE p == q.parent[y]
    <2>1. p \in S /\ p \in D /\ r[p] \in Nat /\ r[p] <= C /\ R(p) = r[p] /\ (y \in S => r[p] < r[y])
      BY <1>4
    <2> HIDE DEF p
    <2> QED BY <1>5, <2>1 DEF p
  <1> HIDE DEF R
  <1>8. <<t>> \in W /\ Head(<<t>>) = t
    <2>1. <<t>> \in Seq(V) /\ Head(<<t>>) = t /\ q.dist[t] - q.dist[t] = 0 /\ t \in V
      BY <1>4
    <2>2. Leads(V, w, <<t>>, t, t, 0)
      BY <2>1, ShortLeads
    <2> QED BY <1>4, <2>1, <2>2
  <1>9. ASSUME NEW p \in W, Head(p) # s
        PROVE  next(p) \in W /\ Head(next(p)) \in D /\ R(Head(next(p))) < R(Head(p))
    <2> DEFINE x == Head(p)
               y == q.parent[x]
    <2>1. /\ x \in D \ {s} /\ Leads(V, w, p, x, t, q.dist[t] - q.dist[x])
          /\ next(p) = <<y>> \o p
      BY <1>9
    <2>2. y \in D /\ y \in V /\ <<y, x>> \in DOMAIN w /\ q.dist[x] = q.dist[y] + w[<<y, x>>]
          /\ R(y) < R(x)
      BY <1>4, <1>7, <2>1
    <2>3. Leads(V, w, <<y>> \o p, y, t, w[<<y, x>>] + (q.dist[t] - q.dist[x]))
          /\ Head(<<y>> \o p) = y
      <3> HIDE DEF x, y, W, next
      <3> QED BY <1>4, <2>1, <2>2, LeadsBefore
    <2>4. w[<<y, x>>] + (q.dist[t] - q.dist[x]) = q.dist[t] - q.dist[y]
      <3> DEFINE c == w[<<y, x>>]
      <3>1. c \in Nat /\ q.dist[t] \in Nat /\ q.dist[x] \in Nat /\ q.dist[y] \in Nat
        BY <1>4, <2>1, <2>2
      <3>2. q.dist[x] = q.dist[y] + c
        BY <2>2
      <3> HIDE DEF c, x, y
      <3>3. c + (q.dist[t] - q.dist[x]) = q.dist[t] - q.dist[y]
        BY <3>1, <3>2
      <3> QED BY <3>3 DEF c
    <2>5. <<y>> \o p \in Seq(V)
      BY <2>3 DEF Leads
    <2> HIDE DEF x, y, next
    <2>6. <<y>> \o p \in W
      BY <2>2, <2>3, <2>4, <2>5
    <2> QED BY <2>1, <2>2, <2>3, <2>6 DEF x
  <1>10. \A p \in W : next(p) \in W
    BY <1>9
  <1> HIDE DEF next
  <1>11. h \in [W -> W]
    <2> HIDE DEF W
    <2> QED BY <1>10
  <1>12. PICK f : IsIteration(f, W, <<t>>, h)
    <2> HIDE DEF W, h
    <2> QED BY <1>8, <1>11, Iteration
  <1>13. f[0] = <<t>> /\ \A k \in Nat : f[k] \in W /\ f[k + 1] = next(f[k])
    <2>1. f \in [Nat -> W] /\ f[0] = <<t>> /\ \A k \in Nat : f[k + 1] = h[f[k]]
      <3> HIDE DEF W, h
      <3> QED BY <1>12 DEF IsIteration
    <2>2. \A k \in Nat : f[k] \in W
      <3> HIDE DEF W, h
      <3> QED BY <2>1
    <2>3. \A p \in W : h[p] = next(p)
      <3> HIDE DEF W
      <3> QED OBVIOUS
    <2> HIDE DEF W, h
    <2> QED BY <2>1, <2>2, <2>3
  <1>14. /\ \A g : DOMAIN step(g) = 0..size /\ step(g)[0] = <<t>>
         /\ \A g : \A k \in 1..size : step(g)[k] = next(g[k - 1])
    <2>1. 0 \in 0..size /\ \A k \in 1..size : k \in 0..size /\ k # 0
      BY <1>4
    <2>2. ASSUME NEW g PROVE DOMAIN step(g) = 0..size /\ step(g)[0] = <<t>>
      BY <2>1
    <2>3. ASSUME NEW g, NEW k \in 1..size PROVE step(g)[k] = next(g[k - 1])
      BY <2>1 DEF next
    <2> HIDE DEF step
    <2> QED BY <2>2, <2>3
  <1> DEFINE ff == [k \in 0..size |-> f[k]]
  <1>15. ff = step(ff)
    <2>1. ASSUME NEW k \in 0..size PROVE step(ff)[k] = f[k]
      <3> HIDE DEF step
      <3>1. CASE k = 0
        BY <1>13, <1>14, <3>1
      <3>2. CASE k # 0
        <4>1. k \in 1..size /\ k - 1 \in 0..size /\ k - 1 \in Nat /\ (k - 1) + 1 = k
          BY <1>4, <3>2
        <4>2. step(ff)[k] = next(ff[k - 1]) /\ ff[k - 1] = f[k - 1]
          BY <1>14, <4>1
        <4>3. f[(k - 1) + 1] = next(f[k - 1])
          BY <1>13, <4>1
        <4> QED BY <4>1, <4>2, <4>3
      <3> QED BY <3>1, <3>2
    <2>2. step(ff) = [k \in 0..size |-> step(ff)[k]]
      OBVIOUS
    <2> HIDE DEF step
    <2> QED BY <2>1, <2>2
  <1>16. back = step(back)
    <2> HIDE DEF step, ff
    <2> QED BY <1>15
  <1> HIDE DEF back, step, ff
  <1>17. back[size] = f[size]
    <2> DEFINE Same == {k \in Nat : k <= size => back[k] = f[k]}
    <2>1. 0 \in Same
      BY <1>13, <1>14, <1>16
    <2>2. ASSUME NEW k \in Nat, k \in Same PROVE k + 1 \in Same
      <3> SUFFICES ASSUME k + 1 <= size PROVE back[k + 1] = f[k + 1]
        OBVIOUS
      <3>1. k + 1 \in 1..size /\ (k + 1) - 1 = k /\ k <= size
        BY <1>4
      <3>2. back[k + 1] = next(back[(k + 1) - 1])
        BY <1>14, <1>16, <3>1
      <3>3. back[k] = f[k]
        BY <2>2, <3>1
      <3> QED BY <1>13, <3>1, <3>2, <3>3
    <2>3. Nat \subseteq Same
      <3> HIDE DEF Same
      <3> QED BY <2>1, <2>2, NatSetInduction
    <2>4. size \in Same /\ size <= size
      BY <1>4, <2>3
    <2> QED BY <2>4
  <1> DEFINE Good == {k \in Nat : Head(f[k]) = s \/ R(Head(f[k])) + k <= C + 1}
  <1>18. \A k \in Nat : Head(f[k]) \in D
    BY <1>13
  <1> HIDE DEF W
  <1>19. 0 \in Good
    <2>1. f[0] = <<t>> /\ Head(<<t>>) = t /\ t \in D
      BY <1>4, <1>8, <1>13
    <2>2. R(t) + 0 <= C + 1
      BY <1>5, <1>6, <2>1
    <2> QED BY <2>1, <2>2
  <1>20. ASSUME NEW k \in Nat, k \in Good PROVE k + 1 \in Good
    <2> DEFINE x == Head(f[k])
               y == Head(f[k + 1])
    <2>1. f[k] \in W /\ f[k + 1] = next(f[k])
      BY <1>13
    <2>2. CASE x = s
      <3>1. f[k + 1] = f[k]
        BY <2>1, <2>2 DEF next
      <3> QED BY <2>2, <3>1
    <2>3. CASE x # s
      <3>1. y \in D /\ R(y) < R(x)
        BY <1>9, <2>1, <2>3
      <3>2. R(x) + k <= C + 1
        BY <1>20, <2>3
      <3>3. R(x) \in Nat /\ R(y) \in Nat
        BY <1>6, <1>18, <3>1
      <3> HIDE DEF x, y
      <3>4. R(y) + (k + 1) <= C + 1
        BY <1>5, <3>1, <3>2, <3>3
      <3> QED BY <3>4 DEF y
    <2> QED BY <2>2, <2>3
  <1>21. Head(f[size]) = s
    <2>1. size \in Good
      <3> HIDE DEF Good
      <3> QED BY <1>4, <1>19, <1>20, NatSetInduction
    <2>2. ~(R(Head(f[size])) + size <= C + 1)
      <3> DEFINE x == Head(f[size])
      <3>1. R(x) \in Nat /\ 1 <= R(x)
        BY <1>4, <1>6, <1>18
      <3> HIDE DEF x
      <3>2. ~(R(x) + size <= C + 1)
        BY <1>4, <1>5, <3>1
      <3> QED BY <3>2 DEF x
    <2> QED BY <2>1, <2>2
  <1>22. Leads(V, w, f[size], s, t, q.dist[t])
    <2>1. Leads(V, w, f[size], Head(f[size]), t, q.dist[t] - q.dist[Head(f[size])])
      BY <1>4, <1>13 DEF W
    <2>2. q.dist[t] - q.dist[s] = q.dist[t]
      BY <1>4
    <2> QED BY <1>21, <2>1, <2>2
  <1> QED BY <1>2, <1>17, <1>22 DEF q

\* What dijkstra_path answers: a shortest way, or none as there is none.
IsShortestWay(V, w, s, t, a) ==
  /\ Leads(V, w, a.path, s, t, a.cost)
  /\ \A r, c : Leads(V, w, r, s, t, c) => a.cost <= c

\* The search finds a way exactly when there is one, and then one of the shortest.
LEMMA SearchIsShortest ==
  ASSUME NEW size, NEW w, IsWeighted(size, w), NEW s \in Vertices(size), NEW t \in Vertices(size)
  PROVE  LET a == SearchPath(size, w, s, t)
             d == Distances(size, w)
         IN  /\ a # NoPath => /\ IsShortestWay(Vertices(size), w, s, t, a) /\ d[<<s, t>>] <= a.cost
                              /\ d[<<s, t>>] < Far => a.cost = d[<<s, t>>]
             /\ a = NoPath => /\ ~(d[<<s, t>>] < Far)
                              /\ \A r, c : ~Leads(Vertices(size), w, r, s, t, c)
  <1> DEFINE V == Vertices(size)
             a == SearchPath(size, w, s, t)
             d == Distances(size, w)
             q == Search(size, w, s, t)
             D == DOMAIN q.dist
             S == SettledIn(q)
  <1>1. IsSearch(V, w, s, t, q) /\ Ended(q, t)
    BY SearchFacts
  <1>2. /\ size \in Nat
        /\ \A e \in DOMAIN w : w[e] \in Nat /\ e[1] \in V /\ e[2] \in V
    BY DEF IsWeighted, Cells
  <1>3. \A C, p : IsPotential(C, p, size, w) => Bounds(C, p, d, size)
    BY DistancesShortest DEF AreShortest
  <1>4. d[<<s, t>>] \in Nat
    <2>1. d \in [Cells(size) -> Nat] /\ <<s, t>> \in Cells(size)
      BY DistancesShortest DEF AreShortest, Cells
    <2> HIDE DEF d
    <2> QED BY <2>1
  <1>5. t \notin D => a = NoPath
    BY DEF SearchPath
  <1>6. t \in D => a.cost = q.dist[t] /\ Leads(V, w, a.path, s, t, q.dist[t])
    BY PathBack
  <1> HIDE DEF q, d, a
  <1>7. /\ D \in SUBSET V /\ S \in SUBSET D /\ s \in D /\ q.dist[s] = 0 /\ t \notin S
        /\ \A x \in D : q.dist[x] \in Nat
        /\ q.open \in SUBSET D /\ S = D \ q.open
        /\ \A x \in S : \A o \in q.open : q.dist[x] <= q.dist[o]
        /\ \A e \in DOMAIN w : e[1] \in S => e[2] \in D /\ q.dist[e[2]] <= q.dist[e[1]] + w[e]
    BY <1>1 DEF IsSearch, SettledIn
  <1> HIDE DEF D, S
  <1>8. ASSUME t \in D
        PROVE  /\ a # NoPath /\ IsShortestWay(V, w, s, t, a) /\ d[<<s, t>>] <= a.cost
               /\ d[<<s, t>>] < Far => a.cost = d[<<s, t>>]
    <2>1. a.cost = q.dist[t] /\ a.cost \in Nat /\ Leads(V, w, a.path, s, t, a.cost)
      BY <1>6, <1>7, <1>8
    <2>2. a # NoPath
      <3>1. NoPath.cost = -1 /\ ~(-1 \in Nat)
        BY DEF NoPath
      <3> QED BY <2>1, <3>1
    <2>3. t \in q.open /\ Cheapest(q) = t
      BY <1>1, <1>7, <1>8 DEF Ended
    <2>4. \A o \in q.open : q.dist[t] <= q.dist[o]
      <3>1. q.open # {} /\ q.open \in SUBSET V /\ \A o \in q.open : q.dist[o] \in Nat
        BY <1>7, <2>3
      <3> QED BY <1>2, <2>3, <3>1, CheapestIsNearest
    <2> DEFINE T == q.dist[t]
               p == [v \in V |-> IF v \in D /\ q.dist[v] <= T THEN q.dist[v] ELSE T]
    <2>5. T \in Nat
      BY <1>7, <1>8
    <2>6. /\ p \in [V -> Int] /\ p[s] = 0 /\ p[t] = T
          /\ \A v \in V : p[v] \in Nat /\ p[v] <= T
          /\ \A v \in D : p[v] <= q.dist[v]
          /\ \A x \in S : p[x] = q.dist[x]
          /\ \A x \in V \ S : p[x] = T
      <3> HIDE DEF T
      <3>1. \A v \in V : p[v] = IF v \in D /\ q.dist[v] <= T THEN q.dist[v] ELSE T
        OBVIOUS
      <3>2. \A x \in S : q.dist[x] <= T
        BY <1>7, <2>3 DEF T
      <3>3. \A x \in q.open : T <= q.dist[x]
        BY <2>4 DEF T
      <3>4. 0 <= T /\ T <= T
        BY <2>5
      <3> HIDE DEF p, V
      <3>5. \A v \in V : p[v] \in Nat /\ p[v] <= T
        BY <1>7, <2>5, <3>1
      <3>6. \A v \in D : p[v] <= q.dist[v]
        <4> SUFFICES ASSUME NEW v \in D PROVE p[v] <= q.dist[v]
          OBVIOUS
        <4>1. v \in V /\ q.dist[v] \in Nat
          BY <1>7
        <4>2. p[v] = IF q.dist[v] <= T THEN q.dist[v] ELSE T
          BY <3>1, <4>1
        <4> QED BY <2>5, <4>1, <4>2
      <3>7. p[s] = 0 /\ p[t] = T
        <4>1. s \in V /\ t \in V
          BY <1>7, <1>8
        <4>2. p[s] = 0
          BY <1>7, <3>1, <3>4, <4>1
        <4>3. p[t] = T
          BY <1>8, <3>1, <4>1 DEF T
        <4> QED BY <4>2, <4>3
      <3>8. \A x \in S : p[x] = q.dist[x]
        BY <1>7, <3>1, <3>2
      <3>9. \A x \in V \ S : p[x] = T
        <4> SUFFICES ASSUME NEW x \in V \ S PROVE p[x] = T
          OBVIOUS
        <4>1. CASE x \in D /\ q.dist[x] <= T
          <5>1. x \in q.open /\ q.dist[x] \in Nat /\ T <= q.dist[x] /\ p[x] = q.dist[x]
            BY <1>7, <3>1, <3>3, <4>1
          <5> QED BY <2>5, <4>1, <5>1
        <4>2. CASE ~(x \in D /\ q.dist[x] <= T)
          BY <3>1, <4>2
        <4> QED BY <4>1, <4>2
      <3>10. p \in [V -> Int]
        BY <3>5 DEF p
      <3> QED BY <3>5, <3>6, <3>7, <3>8, <3>9, <3>10
    <2> HIDE DEF p, T
    <2>7. IsPotential(V, p, size, w)
      <3> SUFFICES ASSUME NEW e \in DOMAIN w PROVE p[e[2]] <= p[e[1]] + w[e]
        BY <1>2, <2>6 DEF IsPotential
      <3> DEFINE x == e[1]
                 y == e[2]
                 c == w[e]
      <3>1. x \in V /\ y \in V /\ c \in Nat /\ p[x] \in Nat /\ p[y] \in Nat /\ p[y] <= T
        BY <1>2, <2>6
      <3>2. CASE x \in S
        <4>1. y \in D /\ q.dist[y] <= q.dist[x] + c
          BY <1>7, <3>2
        <4>2. p[y] <= q.dist[y] /\ p[x] = q.dist[x] /\ q.dist[y] \in Nat
          BY <1>7, <2>6, <3>2, <4>1
        <4> HIDE DEF x, y, c
        <4>3. p[y] <= p[x] + c
          BY <3>1, <4>1, <4>2
        <4> QED BY <4>3 DEF x, y, c
      <3>3. CASE x \notin S
        <4>1. p[x] = T
          BY <2>6, <3>1, <3>3
        <4> HIDE DEF x, y, c
        <4>2. p[y] <= p[x] + c
          BY <2>5, <3>1, <4>1
        <4> QED BY <4>2 DEF x, y, c
      <3> QED BY <3>2, <3>3
    <2>8. ASSUME NEW r, NEW c, Leads(V, w, r, s, t, c) PROVE a.cost <= c
      <3>1. p[t] <= p[s] + c
        BY <2>7, <2>8, LeadsWithin
      <3>2. c \in Nat
        BY <1>2, <2>8, LeadsIsWalk
      <3>3. p[s] = 0 /\ p[t] = a.cost
        BY <2>1, <2>6 DEF T
      <3> QED BY <2>1, <3>1, <3>2, <3>3
    <2>9. d[<<s, t>>] <= a.cost
      BY <2>1, TableIsLeast DEF d
    <2>10. d[<<s, t>>] < Far => a.cost <= d[<<s, t>>]
      <3> SUFFICES ASSUME d[<<s, t>>] < Far PROVE a.cost <= d[<<s, t>>]
        OBVIOUS
      <3>1. p[t] <= p[s] + d[<<s, t>>]
        BY <1>3, <2>7 DEF Bounds
      <3>2. p[s] = 0 /\ p[t] = a.cost
        BY <2>1, <2>6 DEF T
      <3> QED BY <1>4, <2>1, <3>1, <3>2
    <2>11. d[<<s, t>>] < Far => a.cost = d[<<s, t>>]
      BY <1>4, <2>1, <2>9, <2>10
    <2> QED BY <2>1, <2>2, <2>8, <2>9, <2>11 DEF IsShortestWay
  <1>9. ASSUME t \notin D
        PROVE  a = NoPath /\ ~(d[<<s, t>>] < Far) /\ \A r, c : ~Leads(V, w, r, s, t, c)
    <2>1. q.open = {}
      <3> SUFFICES ASSUME q.open # {} PROVE FALSE
        OBVIOUS
      <3>1. q.open \in SUBSET V /\ \A o \in q.open : q.dist[o] \in Nat
        BY <1>7
      <3>2. Cheapest(q) \in q.open /\ Cheapest(q) = t
        BY <1>1, <1>2, <3>1, CheapestIsNearest DEF Ended
      <3> QED BY <1>7, <1>9, <3>2
    <2>2. S = D
      BY <1>7, <2>1
    <2> DEFINE p == [v \in V |-> IF v \in D THEN q.dist[v] ELSE 0]
    <2>3. p \in [V -> Int] /\ \A v \in D : p[v] = q.dist[v]
      BY <1>7
    <2> HIDE DEF p
    <2>4. IsPotential(D, p, size, w)
      <3> SUFFICES ASSUME NEW e \in DOMAIN w, e[1] \in D
                   PROVE  e[2] \in D /\ p[e[2]] <= p[e[1]] + w[e]
        BY <1>7, <2>3 DEF IsPotential
      <3> QED BY <1>7, <2>2, <2>3
    <2>5. ~(d[<<s, t>>] < Far)
      BY <1>3, <1>7, <1>9, <2>4 DEF Bounds
    <2>6. ASSUME NEW r, NEW c, Leads(V, w, r, s, t, c) PROVE FALSE
      BY <1>7, <1>9, <2>4, <2>6, LeadsWithin
    <2> QED BY <1>5, <1>9, <2>5, <2>6 DEF D
  <1> QED BY <1>8, <1>9 DEF a, d

\* The search finds a way exactly when there is one, and then one of the shortest: as
\* short as the table of all least lengths says (navigation/shortest.rs).
THEOREM DijkstraIsShortest ==
  ASSUME NEW size, NEW w, IsWeighted(size, w), NEW s \in Vertices(size), NEW t \in Vertices(size)
  PROVE  LET a == DijkstraPath(size, w, s, t)
             d == Distances(size, w)
         IN  /\ a # NoPath => /\ IsShortestWay(Vertices(size), w, s, t, a) /\ d[<<s, t>>] <= a.cost
                              /\ d[<<s, t>>] < Far => a.cost = d[<<s, t>>]
             /\ a = NoPath => /\ ~(d[<<s, t>>] < Far)
                              /\ \A r, c : ~Leads(Vertices(size), w, r, s, t, c)
  <1> DEFINE V == Vertices(size)
             a == DijkstraPath(size, w, s, t)
             d == Distances(size, w)
  <1>1. CASE s = t
    <2>1. a = [cost |-> 0, path |-> << s >>]
      BY <1>1 DEF DijkstraPath
    <2>2. a.cost = 0 /\ a.path = << s >> /\ a # NoPath
      BY <2>1 DEF NoPath
    <2>3. d[<<s, t>>] = 0
      <3>1. d[<<s, s>>] = 0
        BY DistancesShortest DEF AreShortest
      <3> QED BY <1>1, <3>1
    <2>4. Leads(V, w, << s >>, s, t, 0)
      BY <1>1, ShortLeads
    <2>5. \A r, c : Leads(V, w, r, s, t, c) => 0 <= c
      <3> SUFFICES ASSUME NEW r, NEW c, Leads(V, w, r, s, t, c) PROVE 0 <= c
        OBVIOUS
      <3>1. \A e \in DOMAIN w : w[e] \in Nat
        BY DEF IsWeighted
      <3>2. c \in Nat
        BY <3>1, LeadsIsWalk
      <3> QED BY <3>2
    <2> HIDE DEF a, d
    <2>6. IsShortestWay(V, w, s, t, a)
      BY <2>2, <2>4, <2>5 DEF IsShortestWay
    <2> QED BY <2>2, <2>3, <2>6 DEF a, d
  <1>2. CASE s # t
    <2>1. ~(s >= size \/ t >= size)
      BY DEF IsWeighted, Vertices
    <2>2. a = SearchPath(size, w, s, t)
      BY <1>2, <2>1 DEF DijkstraPath
    <2> HIDE DEF a
    <2> QED BY <2>2, SearchIsShortest DEF a
  <1> QED BY <1>1, <1>2

\* From a node that is not on the network there is a way to itself only, and to one
\* that is not on it from itself only.
LEMMA UnknownNodes ==
  ASSUME NEW size \in Nat, NEW w, NEW s \in Nat, NEW t \in Nat,
         s \notin Vertices(size) \/ t \notin Vertices(size)
  PROVE  /\ s = t => DijkstraPath(size, w, s, t) = [cost |-> 0, path |-> << s >>]
         /\ s # t => DijkstraPath(size, w, s, t) = NoPath
  <1>1. s >= size \/ t >= size
    BY DEF Vertices
  <1> QED BY <1>1 DEF DijkstraPath

-----------------------------------------------------------------------------
(* No way is as long as Far                                                 *)

\* No edge is so long that as many as there are nodes add up to Far.
IsShortOfFar(size, w) == \A e \in DOMAIN w : size * w[e] < Far

\* The nodes nearer to a than v.
NearerTo(size, d, a, v) == {u \in Vertices(size) : d[<<a, u>>] < d[<<a, v>>]}

\* Of two nodes the nearer has fewer that are nearer still; none has more than there are.
LEMMA FewNearer ==
  ASSUME NEW size \in Nat, NEW d, NEW a \in Vertices(size),
         \A v \in Vertices(size) : d[<<a, v>>] \in Nat,
         NEW x \in Vertices(size), NEW y \in Vertices(size), d[<<a, x>>] < d[<<a, y>>]
  PROVE  /\ Cardinality(NearerTo(size, d, a, x)) \in Nat
         /\ Cardinality(NearerTo(size, d, a, y)) \in Nat
         /\ Cardinality(NearerTo(size, d, a, x)) + 1 <= Cardinality(NearerTo(size, d, a, y))
         /\ Cardinality(NearerTo(size, d, a, y)) <= size
  <1> DEFINE V == Vertices(size)
             X == NearerTo(size, d, a, x)
             Y == NearerTo(size, d, a, y)
  <1>1. IsFiniteSet(V) /\ Cardinality(V) = size
    <2> DEFINE last == size - 1
    <2>1. last \in Int /\ 0 \in Int
      OBVIOUS
    <2>2. V = 0..last
      BY DEF Vertices
    <2> HIDE DEF last
    <2>3. IsFiniteSet(0..last) /\ Cardinality(0..last) = IF 0 > last THEN 0 ELSE last - 0 + 1
      BY <2>1, FS_Interval
    <2>4. size = last + 1
      BY DEF last
    <2> QED BY <2>1, <2>2, <2>3, <2>4
  <1>2. X \in SUBSET V /\ Y \in SUBSET V /\ x \in Y /\ x \notin X /\ X \cup {x} \in SUBSET Y
    BY DEF NearerTo
  <1> HIDE DEF X, Y, V
  <1>3. IsFiniteSet(Y) /\ Cardinality(Y) <= size
    BY <1>1, <1>2, FS_Subset
  <1>4. IsFiniteSet(X)
    BY <1>1, <1>2, FS_Subset
  <1>5. IsFiniteSet(X \cup {x}) /\ Cardinality(X \cup {x}) <= Cardinality(Y)
    BY <1>2, <1>3, FS_Subset
  <1>6. Cardinality(X \cup {x}) = Cardinality(X) + 1
    BY <1>2, <1>4, FS_AddElement
  <1>7. Cardinality(X) \in Nat /\ Cardinality(Y) \in Nat
    BY <1>3, <1>4, FS_CardinalityType
  <1> QED BY <1>3, <1>5, <1>6, <1>7 DEF X, Y

\* Before a node there is one that is nearer, by an edge at most.
LEMMA NearerBefore ==
  ASSUME NEW size, NEW w, IsWeighted(size, w), NEW K \in Nat, \A e \in DOMAIN w : w[e] <= K,
         NEW q, NEW a, NEW b, NEW c, Leads(Vertices(size), w, q, a, b, c),
         NEW d, d = Distances(size, w), 0 < d[<<a, b>>]
  PROVE  \E x \in Vertices(size) :
           /\ d[<<a, x>>] < d[<<a, b>>] /\ d[<<a, b>>] <= d[<<a, x>>] + K
           /\ \E r, e : Leads(Vertices(size), w, r, a, x, e)
  <1> DEFINE V == Vertices(size)
             M == Len(q)
             P == {k \in 1..M : d[<<a, q[k]>>] < d[<<a, b>>]}
  <1>1. /\ q \in Seq(V) /\ M \in Nat \ {0} /\ q[1] = a /\ q[M] = b
        /\ \A k \in 1..M : q[k] \in V
    BY DEF Leads
  <1>2. AreShortest(d, size, size, w)
    BY DistancesShortest
  <1>3. /\ \A x, y \in V : d[<<x, y>>] \in Nat
        /\ \A x \in V : d[<<x, x>>] = 0
        /\ \A x, y, h \in V : d[<<x, y>>] <= d[<<x, h>>] + d[<<h, y>>]
        /\ \A e \in DOMAIN w : d[e] <= w[e]
    <2>1. size \in Nat
      BY DEF IsWeighted
    <2>2. \A h \in V : h < size
      BY <2>1 DEF Vertices
    <2> QED BY <1>2, <2>2 DEF AreShortest, ShorterBy, Cells
  <1>4. a \in V /\ b \in V /\ 1 \in 1..M /\ M \in 1..M
    BY <1>1
  <1> HIDE DEF V
  <1>5. 1 \in P /\ M \notin P
    <2>1. d[<<a, q[1]>>] = 0 /\ d[<<a, q[M]>>] = d[<<a, b>>]
      BY <1>1, <1>3, <1>4
    <2>2. d[<<a, b>>] \in Nat
      BY <1>3, <1>4
    <2>3. d[<<a, q[1]>>] < d[<<a, b>>] /\ ~(d[<<a, q[M]>>] < d[<<a, b>>])
      BY <2>1, <2>2
    <2> QED BY <1>4, <2>3
  <1>6. PICK k \in P : \A j \in P : j <= k
    <2>0. \A j \in 1..M : j \in Nat /\ j <= M
      BY <1>1
    <2>1. P \in SUBSET Nat /\ P # {} /\ \A j \in P : j <= M
      BY <1>5, <2>0
    <2> HIDE DEF P
    <2> QED BY <1>1, <2>1, GreatestNatural
  <1>7. k \in 1..M /\ k # M /\ k + 1 \in 1..M /\ k \in 1..(M - 1) /\ k + 1 \notin P
    <2>1. k \in 1..M /\ k # M
      BY <1>5, <1>6
    <2>2. k + 1 \in 1..M /\ k \in 1..(M - 1) /\ ~(k + 1 <= k)
      BY <1>1, <2>1
    <2> HIDE DEF P
    <2> QED BY <1>6, <2>1, <2>2
  <1> DEFINE x == q[k]
             y == q[k + 1]
  <1>8. x \in V /\ y \in V /\ d[<<a, x>>] < d[<<a, b>>] /\ ~(d[<<a, y>>] < d[<<a, b>>])
    BY <1>1, <1>6, <1>7
  <1>9. PICK f : AddsUp(f, w, q) /\ f[M] = c
    BY DEF Leads
  <1>10. <<x, y>> \in DOMAIN w
    BY <1>7, <1>9 DEF AddsUp
  <1>11. d[<<x, y>>] <= K
    <2>1. d[<<x, y>>] <= w[<<x, y>>] /\ w[<<x, y>>] <= K /\ w[<<x, y>>] \in Nat
      BY <1>3, <1>10 DEF IsWeighted
    <2>2. d[<<x, y>>] \in Nat
      BY <1>3, <1>8
    <2> HIDE DEF x, y
    <2> QED BY <2>1, <2>2
  <1>12. d[<<a, b>>] <= d[<<a, x>>] + K
    <2>1. /\ d[<<a, y>>] <= d[<<a, x>>] + d[<<x, y>>]
          /\ d[<<a, y>>] \in Nat /\ d[<<a, x>>] \in Nat /\ d[<<x, y>>] \in Nat
          /\ d[<<a, b>>] \in Nat
      BY <1>3, <1>4, <1>8
    <2> HIDE DEF x, y
    <2> QED BY <1>8, <1>11, <2>1
  <1>13. Leads(V, w, SubSeq(q, 1, k), a, x, f[k])
    <2> DEFINE r == SubSeq(q, 1, k)
               g == [i \in 1..k |-> f[i]]
    <2>1. k \in Nat \ {0} /\ k <= M /\ \A i \in 1..k : i \in 1..M
      BY <1>1, <1>7
    <2>2. r \in Seq(V) /\ Len(r) = k /\ \A i \in 1..k : r[i] = q[i]
      BY <1>1, <2>1
    <2>3. f \in [1..M -> Nat] /\ f[1] = 0
          /\ \A i \in 1..(M - 1) : <<q[i], q[i + 1]>> \in DOMAIN w
                                   /\ f[i + 1] = f[i] + w[<<q[i], q[i + 1]>>]
      BY <1>9 DEF AddsUp
    <2>4. g \in [1..k -> Nat] /\ g[1] = 0 /\ g[k] = f[k]
      BY <2>1, <2>3
    <2>5. ASSUME NEW i \in 1..(k - 1)
          PROVE  <<r[i], r[i + 1]>> \in DOMAIN w /\ g[i + 1] = g[i] + w[<<r[i], r[i + 1]>>]
      <3>1. i \in 1..k /\ i + 1 \in 1..k /\ i \in 1..(M - 1)
        BY <1>1, <2>1
      <3> HIDE DEF r
      <3> QED BY <2>2, <2>3, <3>1
    <2> HIDE DEF r, g
    <2>6. AddsUp(g, w, r)
      BY <2>2, <2>4, <2>5 DEF AddsUp
    <2>7. r[1] = a /\ r[k] = x
      BY <1>1, <2>1, <2>2
    <2>8. Leads(V, w, r, a, x, f[k])
      BY <2>1, <2>2, <2>4, <2>6, <2>7 DEF Leads
    <2> QED BY <2>8 DEF r
  <1> QED BY <1>8, <1>12, <1>13 DEF V

\* What can be reached at all is nearer than Far.
LEMMA WaysAreShort ==
  ASSUME NEW size, NEW w, IsWeighted(size, w), IsShortOfFar(size, w),
         NEW q, NEW a, NEW b, NEW c, Leads(Vertices(size), w, q, a, b, c)
  PROVE  Distances(size, w)[<<a, b>>] < Far
  <1> DEFINE V == Vertices(size)
             d == Distances(size, w)
             Reached(v) == \E r, e : Leads(V, w, r, a, v, e)
             num(v) == Cardinality(NearerTo(size, d, a, v))
  <1>1. size \in Nat /\ a \in V /\ b \in V /\ size >= 1
    <2>1. size \in Nat /\ \A e \in DOMAIN w : w[e] \in Nat
      BY DEF IsWeighted
    <2>2. a \in V /\ b \in V
      BY <2>1, LeadsIsWalk
    <2> QED BY <2>1, <2>2 DEF Vertices
  <1>2. \A x, y \in V : d[<<x, y>>] \in Nat
    <2>1. d \in [Cells(size) -> Nat]
      BY DistancesShortest DEF AreShortest
    <2> HIDE DEF d
    <2> QED BY <2>1 DEF Cells
  <1>3. Far \in Nat /\ Far > 1
    BY FarIsNat
  <1>4. PICK K \in Nat : size * K < Far /\ \A k \in Nat : size * k < Far => k <= K
    <2> DEFINE T == {k \in Nat : size * k < Far}
    <2>1. T \in SUBSET Nat /\ 0 \in T
      BY <1>1, <1>3, SMT
    <2>2. \A k \in T : k <= Far
      <3> SUFFICES ASSUME NEW k \in Nat, size * k < Far PROVE k <= Far
        OBVIOUS
      <3>1. 1 * k <= size * k
        <4>1. 0 * k + k <= size * k
          BY <1>1, TimesGrows
        <4> QED BY <1>1, <4>1
      <3>2. size * k \in Nat
        BY <1>1
      <3> DEFINE z == size * k
      <3> HIDE DEF z
      <3>3. k <= z /\ z \in Nat /\ z < Far
        BY <3>1, <3>2 DEF z
      <3> QED BY <1>3, <3>3
    <2> HIDE DEF T
    <2>3. PICK K \in T : \A k \in T : k <= K
      BY <1>3, <2>1, <2>2, GreatestNatural
    <2> QED BY <2>3 DEF T
  <1>5. \A e \in DOMAIN w : w[e] <= K
    BY <1>4 DEF IsShortOfFar, IsWeighted
  <1> HIDE DEF d, V
  <1> DEFINE Good == {k \in Nat : \A v \in V : Reached(v) /\ d[<<a, v>>] < k
                                               => d[<<a, v>>] = 0 \/ d[<<a, v>>] <= num(v) * K}
  <1>6. 0 \in Good
    BY <1>1, <1>2
  <1>7. ASSUME NEW k \in Nat, k \in Good PROVE k + 1 \in Good
    <2> SUFFICES ASSUME NEW v \in V, Reached(v), d[<<a, v>>] < k + 1, d[<<a, v>>] # 0
                 PROVE  d[<<a, v>>] <= num(v) * K
      OBVIOUS
    <2>1. d[<<a, v>>] \in Nat /\ 0 < d[<<a, v>>]
      BY <1>1, <1>2
    <2>2. PICK x \in V : /\ d[<<a, x>>] < d[<<a, v>>] /\ d[<<a, v>>] <= d[<<a, x>>] + K
                         /\ Reached(x)
      <3>1. PICK r, e : Leads(V, w, r, a, v, e)
        OBVIOUS
      <3> QED BY <1>5, <2>1, <3>1, NearerBefore DEF V, d
    <2>3. d[<<a, x>>] \in Nat
      BY <1>1, <1>2
    <2>4. /\ num(x) \in Nat /\ num(v) \in Nat /\ num(x) + 1 <= num(v)
      BY <1>1, <1>2, <2>2, FewNearer DEF V
    <2> HIDE DEF num
    <2>5. num(x) * K + K <= num(v) * K /\ num(x) * K \in Nat /\ num(v) * K \in Nat
      BY <2>4, TimesGrows
    <2>6. d[<<a, x>>] = 0 \/ d[<<a, x>>] <= num(x) * K
      <3>1. d[<<a, x>>] < k
        BY <2>1, <2>2, <2>3
      <3> QED BY <1>7, <2>2, <3>1
    <2> DEFINE X == num(x) * K
               Y == num(v) * K
    <2>7. X + K <= Y /\ X \in Nat /\ Y \in Nat /\ (d[<<a, x>>] = 0 \/ d[<<a, x>>] <= X)
      BY <2>5, <2>6
    <2> HIDE DEF X, Y
    <2>8. d[<<a, v>>] <= Y
      BY <2>1, <2>2, <2>3, <2>7
    <2> QED BY <2>8 DEF Y
  <1>8. d[<<a, b>>] = 0 \/ d[<<a, b>>] <= num(b) * K
    <2> HIDE DEF Good
    <2>1. Nat \subseteq Good
      BY <1>6, <1>7, NatSetInduction
    <2>2. d[<<a, b>>] \in Nat
      BY <1>1, <1>2
    <2>3. d[<<a, b>>] + 1 \in Good /\ d[<<a, b>>] < d[<<a, b>>] + 1
      BY <2>1, <2>2
    <2>4. Reached(b)
      BY DEF V
    <2> HIDE DEF Reached, num
    <2> QED BY <1>1, <2>3, <2>4 DEF Good
  <1>9. CASE d[<<a, b>>] = 0
    BY <1>3, <1>9 DEF d
  <1>10. CASE d[<<a, b>>] # 0
    <2>1. num(b) \in Nat /\ num(b) <= size
      <3>1. PICK x \in V : d[<<a, x>>] < d[<<a, b>>]
        <4>1. d[<<a, b>>] \in Nat /\ 0 < d[<<a, b>>]
          BY <1>1, <1>2, <1>10
        <4> QED BY <1>5, <4>1, NearerBefore DEF V, d
      <3> QED BY <1>1, <1>2, <3>1, FewNearer DEF V
    <2> HIDE DEF num
    <2>2. num(b) * K <= size * K
      <3>1. K * num(b) <= K * size
        BY <1>1, <2>1, Times
      <3>2. K * num(b) = num(b) * K /\ K * size = size * K
        BY <1>1, <2>1
      <3> QED BY <3>1, <3>2
    <2> DEFINE X == num(b) * K
               Y == size * K
    <2>3. X <= Y /\ Y < Far /\ d[<<a, b>>] <= X /\ X \in Nat /\ Y \in Nat
      BY <1>1, <1>4, <1>8, <1>10, <2>1, <2>2
    <2>4. d[<<a, b>>] \in Nat
      BY <1>1, <1>2
    <2> HIDE DEF X, Y
    <2>5. d[<<a, b>>] < Far
      BY <1>3, <2>3, <2>4
    <2> QED BY <2>5 DEF d
  <1> QED BY <1>9, <1>10

-----------------------------------------------------------------------------
(* Tours                                                                    *)

\* best[left][at]: from at past all of left to t, each time with the best next one.
IsBest(best, d, S, s, t) ==
  /\ best \in [SUBSET S -> [S \cup {s} -> Nat]]
  /\ \A at \in S \cup {s} : best[{}][at] = d[<<at, t>>]
  /\ \A left \in SUBSET S : left # {} =>
       \A at \in S \cup {s} :
         /\ \A n \in left : best[left][at] <= d[<<at, n>>] + best[left \ {n}][n]
         /\ \E n \in left : best[left][at] = d[<<at, n>>] + best[left \ {n}][n]

\* The reference for tours is what it says.
LEMMA BestTourIsBest ==
  ASSUME NEW V, NEW d, \A x, y \in V : d[<<x, y>>] \in Nat,
         NEW S \in SUBSET V, IsFiniteSet(S), NEW s \in V, NEW t \in V
  PROVE  \E best : IsBest(best, d, S, s, t) /\ BestTour(d, s, S, t) = best[S][s]
  <1> DEFINE A == S \cup {s}
             X == [A -> Nat]
             W == [SUBSET S -> X]
             on(b, left, at) == {d[<<at, n>>] + b[left \ {n}][n] : n \in left}
             least(on_) == CHOOSE c \in on_ : \A o \in on_ : c <= o
             value(b, left, at) == IF left = {} THEN d[<<at, t>>] ELSE least(on(b, left, at))
             step(b) == [left \in SUBSET S |-> [at \in A |-> value(b, left, at)]]
             best == CHOOSE b : b = step(b)
             h == [b \in W |-> step(b)]
  <1>1. \A b \in W : \A left \in SUBSET S : \A at \in A :
          left # {} => /\ on(b, left, at) \in SUBSET Nat /\ on(b, left, at) # {}
                       /\ least(on(b, left, at)) \in on(b, left, at)
                       /\ \A o \in on(b, left, at) : least(on(b, left, at)) <= o
    <2> SUFFICES ASSUME NEW b \in W, NEW left \in SUBSET S, NEW at \in A, left # {}
                 PROVE  /\ on(b, left, at) \in SUBSET Nat /\ on(b, left, at) # {}
                        /\ least(on(b, left, at)) \in on(b, left, at)
                        /\ \A o \in on(b, left, at) : least(on(b, left, at)) <= o
      <3> HIDE DEF W, A, on, least
      <3> QED OBVIOUS
    <2>1. ASSUME NEW n \in left PROVE d[<<at, n>>] + b[left \ {n}][n] \in Nat
      <3>1. at \in V /\ n \in V /\ n \in A /\ left \ {n} \in SUBSET S
        OBVIOUS
      <3>2. b[left \ {n}] \in X
        BY <3>1
      <3>3. b[left \ {n}][n] \in Nat
        BY <3>1, <3>2
      <3>4. d[<<at, n>>] \in Nat
        BY <3>1
      <3> DEFINE u == d[<<at, n>>]
                 v == b[left \ {n}][n]
      <3>5. u \in Nat /\ v \in Nat
        BY <3>3, <3>4
      <3> HIDE DEF u, v
      <3>6. u + v \in Nat
        BY <3>5
      <3> QED BY <3>6 DEF u, v
    <2>2. on(b, left, at) \in SUBSET Nat
      <3> SUFFICES ASSUME NEW c \in on(b, left, at) PROVE c \in Nat
        OBVIOUS
      <3>1. PICK n \in left : c = d[<<at, n>>] + b[left \ {n}][n]
        OBVIOUS
      <3> HIDE DEF W, A, on
      <3> QED BY <2>1, <3>1
    <2>3. on(b, left, at) # {}
      <3>1. PICK n \in left : TRUE
        OBVIOUS
      <3>2. d[<<at, n>>] + b[left \ {n}][n] \in on(b, left, at)
        OBVIOUS
      <3> HIDE DEF on
      <3> QED BY <3>2
    <2> DEFINE C == on(b, left, at)
    <2> HIDE DEF on, C
    <2>4. C \in SUBSET Nat /\ C # {}
      BY <2>2, <2>3 DEF C
    <2>5. \E c \in C : \A o \in C : c <= o
      BY <2>4, LeastNatural
    <2>6. least(C) \in C /\ \A o \in C : least(C) <= o
      BY <2>5
    <2> HIDE DEF least
    <2> QED BY <2>4, <2>6 DEF C
  <1>2. \A b \in W : \A left \in SUBSET S : \A at \in A : value(b, left, at) \in Nat
    <2> SUFFICES ASSUME NEW b \in W, NEW left \in SUBSET S, NEW at \in A
                 PROVE  value(b, left, at) \in Nat
      OBVIOUS
    <2>1. CASE left = {}
      BY <2>1
    <2>2. CASE left # {}
      <3>1. least(on(b, left, at)) \in Nat
        <4> HIDE DEF on, least
        <4> QED BY <1>1, <2>2
      <3> HIDE DEF on, least
      <3> QED BY <2>2, <3>1
    <2> QED BY <2>1, <2>2
  <1>3. h \in [W -> W]
    <2> SUFFICES ASSUME NEW b \in W PROVE step(b) \in W
      OBVIOUS
    <2>1. \A left \in SUBSET S : [at \in A |-> value(b, left, at)] \in X
      <3> HIDE DEF value
      <3> QED BY <1>2
    <2> HIDE DEF value, X
    <2> QED BY <2>1
  <1>4. [left \in SUBSET S |-> [at \in A |-> 0]] \in W
    OBVIOUS
  <1>5. PICK f : IsIteration(f, W, [left \in SUBSET S |-> [at \in A |-> 0]], h)
    <2> HIDE DEF h, W
    <2> QED BY <1>3, <1>4, Iteration
  <1>6. \A k \in Nat : f[k] \in W /\ f[k + 1] = step(f[k])
    <2> HIDE DEF W, step
    <2> QED BY <1>5 DEF IsIteration
  <1> DEFINE F == [left \in SUBSET S |-> f[Cardinality(left) + 1][left]]
  <1>7. \A left \in SUBSET S : Cardinality(left) \in Nat /\ IsFiniteSet(left)
    BY FS_Subset, FS_CardinalityType
  <1>8. F = step(F)
    <2>1. ASSUME NEW left \in SUBSET S
          PROVE  F[left] = [at \in A |-> value(F, left, at)]
      <3> DEFINE k == Cardinality(left)
      <3>1. k \in Nat /\ f[k + 1] = step(f[k])
        BY <1>6, <1>7
      <3>2. F[left] = [at \in A |-> value(f[k], left, at)]
        <4>1. F[left] = f[k + 1][left]
          OBVIOUS
        <4> HIDE DEF k, value
        <4> QED BY <3>1, <4>1
      <3>3. \A n \in left : F[left \ {n}] = f[k][left \ {n}]
        <4> SUFFICES ASSUME NEW n \in left PROVE F[left \ {n}] = f[k][left \ {n}]
          OBVIOUS
        <4>1. IsFiniteSet(left) /\ left \ {n} \in SUBSET S
          BY <1>7
        <4>2. Cardinality(left \ {n}) = k - 1
          BY <4>1, FS_RemoveElement
        <4>3. (k - 1) + 1 = k
          BY <3>1
        <4>4. F[left \ {n}] = f[Cardinality(left \ {n}) + 1][left \ {n}]
          BY <4>1
        <4> HIDE DEF F, k
        <4> QED BY <4>2, <4>3, <4>4
      <3>4. \A at : on(F, left, at) = on(f[k], left, at)
        <4> HIDE DEF F, k
        <4> QED BY <3>3
      <3> HIDE DEF on, F, k, least
      <3> QED BY <3>2, <3>4
    <2>2. DOMAIN F = SUBSET S /\ F = [left \in SUBSET S |-> F[left]]
      OBVIOUS
    <2> HIDE DEF F, value
    <2> QED BY <2>1, <2>2
  <1>9. best = step(best)
    <2> HIDE DEF F, step
    <2> QED BY <1>8
  <1>10. BestTour(d, s, S, t) = best[S][s]
    BY DEF BestTour
  <1> HIDE DEF best
  <1>11. \A left \in SUBSET S : best[left] = [at \in A |-> value(best, left, at)]
    <2> HIDE DEF value
    <2> QED BY <1>9
  <1> DEFINE Good == {left \in SUBSET S : best[left] \in X}
  <1>12. SUBSET S \subseteq Good
    <2> DEFINE Size == {k \in Nat : \A left \in SUBSET S : Cardinality(left) < k => left \in Good}
    <2>1. 0 \in Size
      BY <1>7
    <2>2. ASSUME NEW k \in Nat, k \in Size PROVE k + 1 \in Size
      <3> SUFFICES ASSUME NEW left \in SUBSET S, Cardinality(left) < k + 1
                   PROVE  best[left] \in X
        <4>1. k + 1 \in Nat
          OBVIOUS
        <4> HIDE DEF X, value
        <4> QED BY <4>1
      <3> DEFINE b == [r \in SUBSET S |-> IF r \in Good THEN best[r] ELSE [at \in A |-> 0]]
      <3>1. b \in W
        OBVIOUS
      <3>2. \A n \in left : b[left \ {n}] = best[left \ {n}]
        <4> SUFFICES ASSUME NEW n \in left PROVE left \ {n} \in Good
          OBVIOUS
        <4>1. IsFiniteSet(left) /\ left \ {n} \in SUBSET S /\ Cardinality(left) \in Nat
          BY <1>7
        <4>2. Cardinality(left \ {n}) = Cardinality(left) - 1
          BY <4>1, FS_RemoveElement
        <4>3. Cardinality(left \ {n}) < k
          BY <4>1, <4>2
        <4> HIDE DEF Good
        <4> QED BY <2>2, <4>1, <4>3
      <3>3. \A at : on(b, left, at) = on(best, left, at)
        <4> HIDE DEF b
        <4> QED BY <3>2
      <3>4. \A at \in A : value(best, left, at) = value(b, left, at)
        <4> HIDE DEF on, b, least
        <4> QED BY <3>3
      <3>5. \A at \in A : value(best, left, at) \in Nat
        <4> HIDE DEF value, b, W
        <4> QED BY <1>2, <3>1, <3>4
      <3> HIDE DEF value
      <3> QED BY <1>11, <3>5
    <2> HIDE DEF Size
    <2>3. Nat \subseteq Size
      BY <2>1, <2>2, NatSetInduction
    <2> SUFFICES ASSUME NEW left \in SUBSET S PROVE left \in Good
      OBVIOUS
    <2>4. Cardinality(left) + 1 \in Size /\ Cardinality(left) < Cardinality(left) + 1
      BY <1>7, <2>3
    <2> HIDE DEF Good
    <2> QED BY <2>4 DEF Size
  <1>13. best \in W
    <2>1. DOMAIN best = SUBSET S /\ best = [left \in SUBSET S |-> best[left]]
      <3> HIDE DEF value
      <3> QED BY <1>9
    <2>2. \A left \in SUBSET S : best[left] \in X
      BY <1>12
    <2> HIDE DEF X
    <2> QED BY <2>1, <2>2
  <1>14. \A at \in A : best[{}][at] = d[<<at, t>>]
    <2>1. {} \in SUBSET S
      OBVIOUS
    <2>2. \A at \in A : value(best, {}, at) = d[<<at, t>>]
      OBVIOUS
    <2>3. best[{}] = [at \in A |-> value(best, {}, at)]
      <3> HIDE DEF value
      <3> QED BY <1>11, <2>1
    <2> HIDE DEF value, A
    <2> QED BY <2>2, <2>3
  <1>15. ASSUME NEW left \in SUBSET S, left # {}, NEW at \in A
         PROVE  /\ \A n \in left : best[left][at] <= d[<<at, n>>] + best[left \ {n}][n]
                /\ \E n \in left : best[left][at] = d[<<at, n>>] + best[left \ {n}][n]
    <2>1. best[left][at] = least(on(best, left, at))
      <3> HIDE DEF on, least
      <3> QED BY <1>11, <1>15
    <2>2. /\ least(on(best, left, at)) \in on(best, left, at)
          /\ \A o \in on(best, left, at) : least(on(best, left, at)) <= o
      <3> HIDE DEF on, least, W
      <3> QED BY <1>1, <1>13, <1>15
    <2> HIDE DEF least
    <2> QED BY <2>1, <2>2
  <1>16. IsBest(best, d, S, s, t)
    <2> HIDE DEF W
    <2> QED BY <1>13, <1>14, <1>15 DEF IsBest, W
  <1> QED BY <1>10, <1>16

\* Distances: of a node to itself none, and by way of another node none is less.
IsMeasure(V, d) ==
  /\ \A x, y \in V : d[<<x, y>>] \in Nat
  /\ \A x \in V : d[<<x, x>>] = 0
  /\ \A x, y, z \in V : d[<<x, z>>] <= d[<<x, y>>] + d[<<y, z>>]

\* The table of least lengths is one.
LEMMA TableIsMeasure ==
  ASSUME NEW size, NEW w, IsWeighted(size, w)
  PROVE  IsMeasure(Vertices(size), Distances(size, w))
  <1> DEFINE d == Distances(size, w)
             V == Vertices(size)
  <1>1. AreShortest(d, size, size, w)
    BY DistancesShortest
  <1>2. \A h \in V : h < size
    <2>1. size \in Nat
      BY DEF IsWeighted
    <2> QED BY <2>1 DEF Vertices
  <1> HIDE DEF d
  <1>3. \A x, y, z \in V : d[<<x, z>>] <= d[<<x, y>>] + d[<<y, z>>]
    BY <1>1, <1>2 DEF AreShortest, ShorterBy
  <1>4. \A x, y \in V : d[<<x, y>>] \in Nat
    BY <1>1 DEF AreShortest, Cells
  <1>5. \A x \in V : d[<<x, x>>] = 0
    BY <1>1 DEF AreShortest
  <1> HIDE DEF V
  <1>6. IsMeasure(V, d)
    BY <1>3, <1>4, <1>5 DEF IsMeasure
  <1> QED BY <1>6 DEF V, d

\* By way of one of S, to be passed or passed already, no tour gets shorter.
LEMMA BestByWay ==
  ASSUME NEW V, NEW d, IsMeasure(V, d), NEW S \in SUBSET V, NEW s \in V, NEW t \in V,
         NEW best, IsBest(best, d, S, s, t),
         NEW left \in SUBSET S, NEW x \in S \cup {s}, NEW y \in S
  PROVE  best[left][x] <= d[<<x, y>>] + best[left \ {y}][y]
  <1> DEFINE A == S \cup {s}
  <1>1. \A r \in SUBSET S : \A a \in A : best[r][a] \in Nat
    <2>1. \A r \in SUBSET S : best[r] \in [A -> Nat]
      BY DEF IsBest
    <2> QED BY <2>1
  <1>2. CASE y \in left
    BY <1>2 DEF IsBest
  <1>3. CASE y \notin left
    <2>1. left \ {y} = left
      BY <1>3
    <2>2. CASE left = {}
      <3>1. best[left][x] = d[<<x, t>>] /\ best[left][y] = d[<<y, t>>]
        BY <2>2 DEF IsBest
      <3>2. d[<<x, t>>] <= d[<<x, y>>] + d[<<y, t>>]
        BY DEF IsMeasure
      <3> QED BY <2>1, <3>1, <3>2
    <2>3. CASE left # {}
      <3>1. PICK n \in left : best[left][y] = d[<<y, n>>] + best[left \ {n}][n]
        <4>1. y \in S \cup {s}
          OBVIOUS
        <4>2. \A a \in S \cup {s} :
                \E n \in left : best[left][a] = d[<<a, n>>] + best[left \ {n}][n]
          BY <2>3 DEF IsBest
        <4> QED BY <4>1, <4>2
      <3>2. best[left][x] <= d[<<x, n>>] + best[left \ {n}][n]
        BY <2>3 DEF IsBest
      <3>3. n \in A /\ n \in V /\ x \in V /\ y \in V /\ left \ {n} \in SUBSET S
        OBVIOUS
      <3> DEFINE a == best[left][x]
                 b == best[left \ {n}][n]
                 c == d[<<x, n>>]
                 e == d[<<x, y>>]
                 g == d[<<y, n>>]
      <3>4. a \in Nat /\ b \in Nat /\ c \in Nat /\ e \in Nat /\ g \in Nat /\ c <= e + g
        BY <1>1, <3>3 DEF IsMeasure
      <3>5. a <= c + b /\ best[left \ {y}][y] = g + b
        BY <2>1, <3>1, <3>2
      <3> HIDE DEF a, b, c, e, g
      <3>6. a <= e + (g + b)
        BY <3>4, <3>5
      <3> QED BY <3>5, <3>6 DEF a, e
    <2> QED BY <2>2, <2>3
  <1> QED BY <1>2, <1>3

\* r[1..N + 1] is a tour from s to t past S, f the lengths up to each of its stops.
IsTour(d, S, s, t, N, r, f) ==
  /\ N \in Nat \ {0} /\ r[1] = s /\ r[N + 1] = t
  /\ \A k \in 2..N : r[k] \in S
  /\ S \subseteq {r[k] : k \in 2..N}
  /\ f[1] = 0 /\ \A k \in 1..N : f[k] \in Nat /\ f[k + 1] = f[k] + d[<<r[k], r[k + 1]>>]

\* No tour is shorter.
LEMMA BestIsLeast ==
  ASSUME NEW V, NEW d, IsMeasure(V, d), NEW S \in SUBSET V, NEW s \in V, NEW t \in V,
         NEW best, IsBest(best, d, S, s, t),
         NEW N, NEW r, NEW f, IsTour(d, S, s, t, N, r, f)
  PROVE  best[S][s] <= f[N + 1]
  <1> DEFINE A == S \cup {s}
             past(k) == S \ {r[i] : i \in 2..k}
             Good == {k \in Nat : k + 1 <= N =>
                        best[S][s] <= f[k + 1] + best[past(k + 1)][r[k + 1]]}
  <1>1. \A u \in SUBSET S : \A a \in A : best[u][a] \in Nat
    <2>1. \A u \in SUBSET S : best[u] \in [A -> Nat]
      BY DEF IsBest
    <2> QED BY <2>1
  <1>2. /\ N \in Nat \ {0} /\ r[1] = s /\ r[N + 1] = t /\ f[1] = 0
        /\ \A k \in 1..N : r[k] \in A /\ f[k] \in Nat
    <2>1. /\ N \in Nat \ {0} /\ r[1] = s /\ r[N + 1] = t /\ f[1] = 0
          /\ \A k \in 2..N : r[k] \in S
          /\ \A k \in 1..N : f[k] \in Nat
      BY DEF IsTour
    <2>2. \A k \in 1..N : k = 1 \/ k \in 2..N
      BY <2>1
    <2> QED BY <2>1, <2>2
  <1>3. 0 \in Good
    <2>1. past(1) = S /\ 0 + 1 = 1
      OBVIOUS
    <2>2. best[S][s] \in Nat
      BY <1>1
    <2>3. best[S][s] <= f[1] + best[past(1)][r[1]]
      <3> HIDE DEF past
      <3> QED BY <1>2, <2>1, <2>2
    <2> HIDE DEF past
    <2> QED BY <2>1, <2>3
  <1>4. ASSUME NEW k \in Nat, k \in Good PROVE k + 1 \in Good
    <2> SUFFICES ASSUME (k + 1) + 1 <= N
                 PROVE  best[S][s] <= f[(k + 1) + 1] + best[past((k + 1) + 1)][r[(k + 1) + 1]]
      OBVIOUS
    <2> DEFINE j == k + 1
               x == r[j]
               y == r[j + 1]
    <2>1. j \in 1..N /\ j + 1 \in 2..N /\ j \in Nat /\ j >= 1
      BY <1>2
    <2>2. best[S][s] <= f[j] + best[past(j)][x]
      BY <1>4, <2>1
    <2>3. past(j + 1) = past(j) \ {y}
      <3>1. 2..(j + 1) = (2..j) \cup {j + 1}
        <4> HIDE DEF j
        <4> QED BY <2>1
      <3> DEFINE U == 2..(j + 1)
                 W == 2..j
      <3>2. {r[i] : i \in U} = {r[i] : i \in W} \cup {y}
        <4>1. U = W \cup {j + 1} /\ y = r[j + 1]
          BY <3>1
        <4> HIDE DEF U, W, j, y
        <4> QED BY <4>1
      <3> HIDE DEF j, y
      <3> QED BY <3>2
    <2>4. x \in A /\ y \in S /\ past(j) \in SUBSET S /\ x \in V /\ y \in V
      BY <1>2, <2>1 DEF IsTour
    <2>5. f[j + 1] = f[j] + d[<<x, y>>] /\ f[j] \in Nat
      BY <2>1 DEF IsTour
    <2> HIDE DEF j, x, y, past
    <2>6. best[past(j)][x] <= d[<<x, y>>] + best[past(j) \ {y}][y]
      BY <2>4, BestByWay
    <2> DEFINE a == best[S][s]
               b == best[past(j)][x]
               c == best[past(j) \ {y}][y]
               e == d[<<x, y>>]
               g == f[j]
    <2>7. a \in Nat /\ b \in Nat /\ c \in Nat /\ e \in Nat /\ g \in Nat
      <3>1. past(j) \ {y} \in SUBSET S /\ y \in A /\ S \in SUBSET S /\ s \in A
        BY <2>4
      <3> HIDE DEF A
      <3> QED BY <1>1, <2>4, <2>5, <3>1 DEF IsMeasure
    <2>8. a <= g + b /\ b <= e + c /\ f[j + 1] = g + e
      BY <2>2, <2>5, <2>6
    <2> HIDE DEF a, b, c, e, g
    <2>9. a <= f[j + 1] + c
      BY <2>7, <2>8
    <2> QED BY <2>3, <2>9 DEF a, c, j, y
  <1>5. best[S][s] <= f[N] + best[past(N)][r[N]]
    <2> HIDE DEF Good
    <2>1. Nat \subseteq Good
      BY <1>3, <1>4, NatSetInduction
    <2>2. N - 1 \in Good /\ (N - 1) + 1 = N /\ N <= N
      BY <1>2, <2>1
    <2> DEFINE k == N - 1
    <2>3. k \in Good /\ k + 1 = N /\ k + 1 <= N
      BY <2>2
    <2> HIDE DEF k, past
    <2>4. best[S][s] <= f[k + 1] + best[past(k + 1)][r[k + 1]]
      BY <2>3 DEF Good
    <2> QED BY <2>3, <2>4
  <1>6. past(N) = {}
    BY DEF IsTour
  <1>7. best[{}][r[N]] = d[<<r[N], t>>]
    <2>1. r[N] \in A
      BY <1>2
    <2> QED BY <2>1 DEF IsBest
  <1>8. f[N + 1] = f[N] + d[<<r[N], t>>]
    <2>1. N \in 1..N
      BY <1>2
    <2> QED BY <1>2, <2>1 DEF IsTour
  <1> HIDE DEF past
  <1> QED BY <1>5, <1>6, <1>7, <1>8

\* A listing of a set has each of its elements, once.
LEMMA ListingFacts ==
  ASSUME NEW S, IsFiniteSet(S), NEW s \in SetToSeqs(S)
  PROVE  /\ s \in Seq(S) /\ Len(s) = Cardinality(S) /\ Cardinality(S) \in Nat
         /\ \A i, j \in 1..Len(s) : s[i] = s[j] => i = j
         /\ ToSet(s) = S
  <1> DEFINE N == Cardinality(S)
  <1>1. N \in Nat
    BY FS_CardinalityType
  <1>2. s \in [1..N -> S] /\ \A i, j \in 1..N : i # j => s[i] # s[j]
    BY DEF SetToSeqs
  <1>3. IsFiniteSet(1..N) /\ Cardinality(1..N) = N
    <2>1. IsFiniteSet(1..N) /\ Cardinality(1..N) = IF 1 > N THEN 0 ELSE N - 1 + 1
      BY <1>1, FS_Interval
    <2> QED BY <1>1, <2>1
  <1>4. s \in Injection(1..N, S)
    BY <1>2 DEF Injection, IsInjective
  <1>5. s \in Surjection(1..N, S)
    <2> HIDE DEF N
    <2> QED BY <1>3, <1>4, FS_Injection DEF N
  <1>6. \A x \in S : \E i \in 1..N : s[i] = x
    BY <1>5 DEF Surjection
  <1>7. ToSet(s) = S
    BY <1>2, <1>6 DEF ToSet
  <1>8. s \in Seq(S) /\ Len(s) = N
    <2> HIDE DEF N
    <2> QED BY <1>1, <1>2
  <1> QED BY <1>1, <1>2, <1>7, <1>8

\* q goes from at to n past each of T, once.
ListsStops(q, at, T, n) ==
  /\ q \in Seq(1..n) /\ Len(q) = Cardinality(T) + 2 /\ q[1] = at /\ q[Len(q)] = n
  /\ \A k \in 2..(Len(q) - 1) : q[k] \in T
  /\ \A i, j \in 2..(Len(q) - 1) : q[i] = q[j] => i = j

\* One more to go past.
LEMMA ListsOneMoreStop ==
  ASSUME NEW n \in Nat, NEW T \in SUBSET (1..n), IsFiniteSet(T), NEW i \in T, NEW at \in 1..n,
         NEW q, ListsStops(q, i, T \ {i}, n)
  PROVE  ListsStops(<<at>> \o q, at, T, n)
  <1> DEFINE M == Len(q)
             a == <<at>>
             p == a \o q
             U == 1..n
  <1>1. Cardinality(T) \in Nat /\ Cardinality(T \ {i}) = Cardinality(T) - 1 /\ Cardinality(T) # 0
    BY FS_RemoveElement, FS_CardinalityType, FS_EmptySet
  <1>2. /\ q \in Seq(U) /\ M = Cardinality(T) + 1 /\ M \in Nat \ {0, 1} /\ q[1] = i /\ q[M] = n
        /\ \A k \in 2..(M - 1) : q[k] \in T \ {i}
        /\ \A k, j \in 2..(M - 1) : q[k] = q[j] => k = j
    <2>1. /\ q \in Seq(U) /\ M = (Cardinality(T) - 1) + 2 /\ q[1] = i /\ q[M] = n
          /\ \A k \in 2..(M - 1) : q[k] \in T \ {i}
          /\ \A k, j \in 2..(M - 1) : q[k] = q[j] => k = j
      BY <1>1 DEF ListsStops
    <2> HIDE DEF M
    <2> QED BY <1>1, <2>1
  <1> HIDE DEF U
  <1>3. a \in Seq(U) /\ Len(a) = 1 /\ a[1] = at
    BY DEF U
  <1> HIDE DEF a, M
  <1>4. /\ p \in Seq(U) /\ Len(p) = M + 1 /\ p[1] = at
        /\ \A k \in 2..(M + 1) : p[k] = q[k - 1]
    <2>1. /\ p \in Seq(U) /\ Len(p) = 1 + M
          /\ \A k \in 1..(1 + M) : p[k] = IF k <= 1 THEN a[k] ELSE q[k - 1]
      <3>1. q \in Seq(U) /\ Len(q) = M /\ Len(a) = 1
        BY <1>2, <1>3 DEF M
      <3>2. /\ p \in Seq(U) /\ Len(p) = Len(a) + Len(q)
            /\ \A k \in 1..(Len(a) + Len(q)) : p[k] = IF k <= Len(a) THEN a[k] ELSE q[k - Len(a)]
        BY <1>3, <3>1, ListsJoined
      <3> HIDE DEF p
      <3> QED BY <3>1, <3>2
    <2> HIDE DEF p
    <2> QED BY <1>2, <1>3, <2>1
  <1> HIDE DEF p
  <1>5. p[M + 1] = n
    <2>1. M + 1 \in 2..(M + 1) /\ (M + 1) - 1 = M
      BY <1>2
    <2> QED BY <1>2, <1>4, <2>1
  <1>6. ASSUME NEW k \in 2..M
        PROVE  p[k] \in T /\ (p[k] = i => k = 2) /\ p[k] = q[k - 1]
    <2>1. k \in 2..(M + 1) /\ k - 1 \in 1..(M - 1) /\ (k - 1 = 1 <=> k = 2)
      BY <1>2
    <2>2. p[k] = q[k - 1]
      BY <1>4, <2>1
    <2>3. CASE k = 2
      BY <1>2, <2>1, <2>2, <2>3
    <2>4. CASE k # 2
      <3>1. k - 1 \in 2..(M - 1)
        BY <2>1, <2>4
      <3> QED BY <1>2, <2>2, <3>1
    <2> QED BY <2>3, <2>4
  <1>7. ASSUME NEW k \in 2..M, NEW j \in 2..M, p[k] = p[j]
        PROVE  k = j
    <2>1. CASE p[k] = i
      BY <1>6, <1>7, <2>1
    <2>2. CASE p[k] # i
      <3>1. k # 2 /\ j # 2
        <4>1. p[2] = i
          <5>1. 2 \in 2..(M + 1) /\ 2 - 1 = 1
            BY <1>2
          <5> QED BY <1>2, <1>4, <5>1
        <4> QED BY <1>7, <2>2, <4>1
      <3>2. k - 1 \in 2..(M - 1) /\ j - 1 \in 2..(M - 1)
        BY <1>2, <3>1
      <3>3. q[k - 1] = q[j - 1]
        BY <1>6, <1>7
      <3>4. k - 1 = j - 1
        BY <1>2, <3>2, <3>3
      <3> QED BY <3>4
    <2> QED BY <2>1, <2>2
  <1>8. Len(p) = Cardinality(T) + 2 /\ p \in Seq(1..n) /\ (M + 1) - 1 = M
    <2> DEFINE c == Cardinality(T)
    <2>1. c \in Nat /\ M = c + 1 /\ Len(p) = M + 1
      BY <1>1, <1>2, <1>4
    <2> HIDE DEF c
    <2>2. Len(p) = c + 2 /\ (M + 1) - 1 = M
      BY <2>1
    <2>3. p \in Seq(1..n)
      BY <1>4 DEF U
    <2> QED BY <2>2, <2>3 DEF c
  <1>9. ListsStops(p, at, T, n)
    <2>1. Len(p) = M + 1 /\ Len(p) - 1 = M
      BY <1>4, <1>8
    <2> QED BY <1>4, <1>5, <1>6, <1>7, <1>8, <2>1 DEF ListsStops
  <1> QED BY <1>9 DEF p, a

\* cost has the distances between the stops.
AreCosts(V, d, n, stops, cost) ==
  /\ n \in Nat /\ n >= 2
  /\ \A i \in 1..n : stops[i] \in V
  /\ DOMAIN cost = (1..n) \X (1..n)
  /\ \A i, j \in 1..n : cost[<<i, j>>] = d[<<stops[i], stops[j]>>]

\* Some listing of the stops is as short as the reference says.
LEMMA BestIsHad ==
  ASSUME NEW V, NEW d, IsMeasure(V, d), NEW n, NEW stops, NEW cost,
         AreCosts(V, d, n, stops, cost), NEW S, S = {stops[i] : i \in 2..(n - 1)},
         NEW best, IsBest(best, d, S, stops[1], stops[n])
  PROVE  \E q, c : /\ ListsStops(q, 1, 2..(n - 1), n) /\ Leads(1..n, cost, q, 1, n, c)
                   /\ c <= best[S][stops[1]]
  <1> DEFINE U == 1..n
             I == 2..(n - 1)
             A == S \cup {stops[1]}
             named(T) == {stops[i] : i \in T}
             Had(T, at) == \E q, c : /\ ListsStops(q, at, T, n) /\ Leads(U, cost, q, at, n, c)
                                     /\ c <= best[named(T)][stops[at]]
             Good == {k \in Nat : \A T \in SUBSET I : Cardinality(T) = k =>
                                    \A at \in 1..(n - 1) : Had(T, at)}
  <1>1. /\ n \in Nat /\ n >= 2 /\ \A i \in U : stops[i] \in V
        /\ DOMAIN cost = U \X U /\ \A i, j \in U : cost[<<i, j>>] = d[<<stops[i], stops[j]>>]
    BY DEF AreCosts
  <1>2. /\ I \in SUBSET U /\ IsFiniteSet(I) /\ 1 \in U /\ n \in U
        /\ \A i \in 1..(n - 1) : i \in U /\ (i = 1 \/ i \in I)
    BY <1>1, FS_Interval
  <1>3. S \in SUBSET V /\ stops[1] \in V /\ stops[n] \in V
    BY <1>1, <1>2
  <1>4. \A x \in S : \E i \in I : stops[i] = x
    OBVIOUS
  <1>5. \A T \in SUBSET I : /\ named(T) \in SUBSET S
                            /\ IsFiniteSet(T) /\ Cardinality(T) \in Nat
    BY <1>2, FS_Subset, FS_CardinalityType
  <1>6. \A i \in 1..(n - 1) : stops[i] \in A
    <2>1. \A i \in I : stops[i] \in S
      OBVIOUS
    <2> QED BY <1>2, <2>1
  <1>7. \A x, y \in V : d[<<x, y>>] \in Nat
    BY DEF IsMeasure
  <1>8. \A e \in DOMAIN cost : cost[e] \in Nat
    <2> SUFFICES ASSUME NEW i \in U, NEW j \in U PROVE cost[<<i, j>>] \in Nat
      BY <1>1
    <2> HIDE DEF U
    <2> QED BY <1>1, <1>7
  <1>9. \A u \in SUBSET S : \A a \in A : best[u][a] \in Nat
    <2>1. \A u \in SUBSET S : best[u] \in [A -> Nat]
      BY DEF IsBest
    <2> HIDE DEF A
    <2> QED BY <2>1
  <1>10. named(I) = S
    OBVIOUS
  <1> HIDE DEF U, I, A
  <1>11. ASSUME NEW at \in 1..(n - 1) PROVE Had({}, at)
    <2> DEFINE q == <<at, n>>
    <2>1. at \in U /\ n \in U /\ <<at, n>> \in DOMAIN cost
      BY <1>1, <1>2
    <2>2. Leads(U, cost, q, at, n, cost[<<at, n>>])
      BY <1>8, <2>1, ShortLeads
    <2>3. cost[<<at, n>>] = best[{}][stops[at]]
      <3>1. stops[at] \in A
        BY <1>6
      <3> QED BY <1>1, <2>1, <3>1 DEF IsBest, A
    <2>4. ListsStops(q, at, {}, n)
      <3>1. q \in Seq(1..n) /\ Len(q) = 2 /\ q[1] = at /\ q[2] = n
        BY <2>1 DEF U
      <3>2. Cardinality({}) = 0
        BY FS_EmptySet
      <3>3. \A k \in 2..(2 - 1) : FALSE
        OBVIOUS
      <3> HIDE DEF q
      <3>4. Len(q) = Cardinality({}) + 2 /\ \A k \in 2..(Len(q) - 1) : FALSE
        BY <3>1, <3>2, <3>3
      <3> QED BY <3>1, <3>4 DEF ListsStops
    <2>5. named({}) = {}
      OBVIOUS
    <2>6. cost[<<at, n>>] <= best[named({})][stops[at]]
      <3>1. cost[<<at, n>>] \in Nat
        BY <1>8, <2>1
      <3> HIDE DEF named
      <3> QED BY <2>3, <2>5, <3>1
    <2> HIDE DEF q, named
    <2> QED BY <2>2, <2>4, <2>6
  <1>12. ASSUME NEW T \in SUBSET I, T # {}, NEW at \in 1..(n - 1),
                \A i \in T : \A b \in 1..(n - 1) : Had(T \ {i}, b)
         PROVE  Had(T, at)
    <2> DEFINE left == named(T)
               a == stops[at]
    <2>1. left \in SUBSET S /\ left # {} /\ a \in A
      BY <1>5, <1>6, <1>12
    <2>2. PICK x \in left : best[left][a] = d[<<a, x>>] + best[left \ {x}][x]
      <3> HIDE DEF left, a, named
      <3> QED BY <2>1 DEF IsBest, A
    <2>3. PICK i \in T : stops[i] = x
      OBVIOUS
    <2>4. i \in 1..(n - 1) /\ i \in U /\ at \in U /\ x \in S /\ x \in V /\ a \in V /\ x \in A
      BY <1>1, <1>2, <1>3, <1>6, <2>1, <2>3 DEF I
    <2> DEFINE rest == named(T \ {i})
    <2>5. rest \in SUBSET S /\ (rest = left \ {x} \/ rest = left)
      <3>1. rest \in SUBSET S
        BY <1>5
      <3>2. rest \subseteq left /\ left \ {x} \subseteq rest
        BY <2>3
      <3> HIDE DEF rest, left
      <3> QED BY <3>1, <3>2
    <2>6. PICK q, c : /\ ListsStops(q, i, T \ {i}, n) /\ Leads(U, cost, q, i, n, c)
                      /\ c <= best[rest][stops[i]]
      BY <1>12, <2>4
    <2> HIDE DEF rest, left, named, a
    <2>7. best[rest][x] <= best[left \ {x}][x]
      <3>1. best[rest][x] \in Nat
        BY <1>9, <2>4, <2>5
      <3>2. CASE rest = left \ {x}
        BY <3>1, <3>2
      <3>3. CASE rest = left
        <4>1. best[left][x] <= d[<<x, x>>] + best[left \ {x}][x]
          BY <1>3, <2>1, <2>4, BestByWay
        <4>2. d[<<x, x>>] = 0 /\ best[left \ {x}][x] \in Nat
          <5>1. left \ {x} \in SUBSET S
            BY <2>1
          <5> QED BY <1>9, <2>4, <5>1 DEF IsMeasure
        <4> QED BY <3>3, <4>1, <4>2
      <3> QED BY <2>5, <3>2, <3>3
    <2>8. <<at, i>> \in DOMAIN cost /\ cost[<<at, i>>] = d[<<a, x>>] /\ cost[<<at, i>>] \in Nat
      <3>1. <<at, i>> \in DOMAIN cost
        BY <1>1, <2>4
      <3> QED BY <1>1, <1>8, <2>3, <2>4, <3>1 DEF a
    <2>9. Leads(U, cost, <<at>> \o q, at, n, cost[<<at, i>>] + c)
      BY <1>8, <2>4, <2>6, <2>8, LeadsBefore
    <2>10. ListsStops(<<at>> \o q, at, T, n)
      <3>1. T \in SUBSET (1..n) /\ IsFiniteSet(T) /\ at \in 1..n
        BY <1>2, <1>5, <2>4 DEF U
      <3> QED BY <1>1, <2>3, <2>6, <3>1, ListsOneMoreStop
    <2>11. cost[<<at, i>>] + c <= best[left][a]
      <3> DEFINE e == cost[<<at, i>>]
                 b == best[left \ {x}][x]
                 g == best[rest][x]
      <3>1. e \in Nat /\ b \in Nat /\ g \in Nat /\ c \in Nat
        <4>1. left \ {x} \in SUBSET S
          BY <2>1
        <4>2. c \in Nat
          BY <1>8, <2>6, LeadsIsWalk
        <4> QED BY <1>9, <2>4, <2>5, <2>8, <4>1, <4>2
      <3>2. c <= g /\ g <= b /\ best[left][a] = e + b
        BY <2>2, <2>3, <2>6, <2>7, <2>8
      <3> HIDE DEF e, b, g
      <3>3. e + c <= best[left][a]
        BY <3>1, <3>2
      <3> QED BY <3>3 DEF e
    <2> QED BY <2>9, <2>10, <2>11 DEF left, a
  <1> HIDE DEF Had, named
  <1>13. 0 \in Good
    <2> SUFFICES ASSUME NEW T \in SUBSET I, Cardinality(T) = 0, NEW at \in 1..(n - 1)
                 PROVE  Had(T, at)
      OBVIOUS
    <2>1. T = {}
      BY <1>5, FS_EmptySet
    <2> QED BY <1>11, <2>1
  <1>14. ASSUME NEW k \in Nat, k \in Good PROVE k + 1 \in Good
    <2> SUFFICES ASSUME NEW T \in SUBSET I, Cardinality(T) = k + 1, NEW at \in 1..(n - 1)
                 PROVE  Had(T, at)
      OBVIOUS
    <2>1. IsFiniteSet(T)
      BY <1>5
    <2>2. T # {}
      <3>1. Cardinality({}) = 0
        BY FS_EmptySet
      <3> QED BY <3>1
    <2>3. \A i \in T : T \ {i} \in SUBSET I /\ Cardinality(T \ {i}) = k
      <3>1. \A i \in T : Cardinality(T \ {i}) = (k + 1) - 1
        BY <2>1, FS_RemoveElement
      <3> QED BY <3>1
    <2> QED BY <1>12, <1>14, <2>2, <2>3
  <1>15. Had(I, 1)
    <2> HIDE DEF Good
    <2>1. Nat \subseteq Good
      BY <1>13, <1>14, NatSetInduction
    <2>2. Cardinality(I) \in Good /\ I \in SUBSET I /\ 1 \in 1..(n - 1)
      BY <1>1, <1>5, <2>1
    <2> QED BY <2>2 DEF Good
  <1> QED BY <1>10, <1>15 DEF Had, U, I

=============================================================================
