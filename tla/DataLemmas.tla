----------------------------- MODULE DataLemmas -----------------------------
(***************************************************************************)
(* What the proofs of several components need of their data: induction     *)
(* over numbers and finite sets, recursive functions, folds and sums, and  *)
(* the disjoint sets of the planners and the baselines.                    *)
(***************************************************************************)
EXTENDS DisjointSets, FiniteSetsExt, TLAPS, WellFoundedInduction, FiniteSetTheorems

-----------------------------------------------------------------------------
(* Induction over numbers and finite sets, stated with a set of good       *)
(* values in place of a predicate, so that the lemmas can be cited about   *)
(* the recursive functions and the folds of the modules                    *)

\* The order of the naturals as the relation the library speaks of.
LEMMA LessIsWellFounded ==
  \E R : IsWellFoundedOn(R, Nat) /\ \A x, y \in Nat : <<x, y>> \in R <=> x < y
  <1> DEFINE R == {p \in Nat \X Nat : p[1] < p[2]}
  <1>1. R = OpToRel(<, Nat)
    BY DEF OpToRel
  <1>2. IsWellFoundedOn(R, Nat)
    BY <1>1, NatLessThanWellFounded, Zenon
  <1>3. \A x, y \in Nat : <<x, y>> \in R <=> x < y
    OBVIOUS
  <1> QED BY <1>2, <1>3

\* A nonempty set of naturals has a least element.
LEMMA LeastNatural ==
  ASSUME NEW T \in SUBSET Nat, T # {}
  PROVE  \E x \in T : \A y \in T : x <= y
  <1>1. PICK R : IsWellFoundedOn(R, Nat) /\ \A x, y \in Nat : <<x, y>> \in R <=> x < y
    BY LessIsWellFounded
  <1>2. IsWellFoundedOn(R, Nat)
    BY <1>1
  <1>3. \A U : U \subseteq Nat /\ U # {} => \E x \in U : \A y \in U : ~(<<y, x>> \in R)
    BY <1>2, WFMin
  <1>4. PICK x \in T : \A y \in T : ~(<<y, x>> \in R)
    BY <1>3
  <1>5. \A y \in T : ~(y < x)
    BY <1>1, <1>4
  <1>6. \A y \in T : y \in Nat /\ x \in Nat
    OBVIOUS
  <1>7. \A y \in T : x <= y
    BY <1>5, <1>6
  <1> QED BY <1>7

LEMMA NatSetInduction ==
  ASSUME NEW S, 0 \in S, \A n \in Nat : n \in S => n + 1 \in S
  PROVE  Nat \subseteq S
  <1> SUFFICES ASSUME Nat \ S # {} PROVE FALSE
    OBVIOUS
  <1>1. Nat \ S \in SUBSET Nat
    OBVIOUS
  <1>2. PICK x \in Nat \ S : \A y \in Nat \ S : x <= y
    BY <1>1, LeastNatural
  <1>3. x # 0 /\ x - 1 \in Nat /\ ~(x <= x - 1)
    BY <1>2
  <1>4. x - 1 \in S
    BY <1>2, <1>3
  <1> QED BY <1>3, <1>4

\* A nonempty set of naturals with a bound has a greatest element.
LEMMA GreatestNatural ==
  ASSUME NEW T \in SUBSET Nat, T # {}, NEW n \in Nat, \A x \in T : x <= n
  PROVE  \E x \in T : \A y \in T : y <= x
  <1> DEFINE U == {n - x : x \in T}
  <1>1. U \in SUBSET Nat /\ U # {}
    <2>1. \A x \in T : x \in Nat /\ x <= n
      OBVIOUS
    <2>2. \A x \in T : n - x \in Nat
      BY <2>1
    <2> QED BY <2>2
  <1>2. PICK u \in U : \A v \in U : u <= v
    BY <1>1, LeastNatural
  <1>3. PICK x \in T : u = n - x
    OBVIOUS
  <1>4. \A y \in T : u <= n - y
    BY <1>2
  <1> QED BY <1>3, <1>4

\* What holds of the empty set, and of a set whenever it holds of the set without one
\* of its elements, holds of every part of a finite set.
LEMMA FiniteSetInduction ==
  ASSUME NEW S, IsFiniteSet(S), NEW Good, {} \in Good,
         \A T \in SUBSET S : T # {} => \E x \in T : (T \ {x} \in Good => T \in Good)
  PROVE  SUBSET S \subseteq Good
  <1> DEFINE N == {n \in Nat : \A T \in SUBSET S : Cardinality(T) = n => T \in Good}
  <1>1. \A T \in SUBSET S : IsFiniteSet(T) /\ Cardinality(T) \in Nat
    BY FS_Subset, FS_CardinalityType
  <1>2. 0 \in N
    BY <1>1, FS_EmptySet
  <1>3. ASSUME NEW n \in Nat, n \in N PROVE n + 1 \in N
    <2> SUFFICES ASSUME NEW T \in SUBSET S, Cardinality(T) = n + 1 PROVE T \in Good
      OBVIOUS
    <2>1. IsFiniteSet(T)
      BY <1>1
    <2>2. T # {}
      BY <2>1, FS_EmptySet
    <2>3. PICK x \in T : T \ {x} \in Good => T \in Good
      BY <2>2
    <2>4. Cardinality(T \ {x}) = Cardinality(T) - 1
      BY <2>1, <2>3, FS_RemoveElement
    <2>5. T \ {x} \in SUBSET S /\ Cardinality(T \ {x}) = n
      BY <2>4
    <2>6. T \ {x} \in Good
      BY <1>3, <2>5
    <2> QED BY <2>3, <2>6
  <1>4. Nat \subseteq N
    <2> HIDE DEF N
    <2> QED BY <1>2, <1>3, NatSetInduction
  <1> QED BY <1>1, <1>4

\* f[k] is what h makes of a in k applications.
IsIteration(f, V, a, h) ==
  f \in [Nat -> V] /\ f[0] = a /\ \A k \in Nat : f[k + 1] = h[f[k]]

LEMMA Iteration ==
  ASSUME NEW V, NEW a \in V, NEW h \in [V -> V]
  PROVE  \E f : IsIteration(f, V, a, h)
  <1> DEFINE Begins(f, n) == /\ f \in [0..n -> V] /\ f[0] = a
                             /\ \A k \in 0..(n - 1) : f[k + 1] = h[f[k]]
             N == {n \in Nat : \E f : Begins(f, n)}
             Same == {k \in Nat : \A m, n \in Nat : \A p, q :
                        k <= m /\ k <= n /\ Begins(p, m) /\ Begins(q, n) => p[k] = q[k]}
  <1>1. 0 \in N
    <2>1. Begins([k \in 0..0 |-> a], 0)
      OBVIOUS
    <2> QED BY <2>1
  <1>2. ASSUME NEW n \in Nat, n \in N PROVE n + 1 \in N
    <2>1. PICK f : Begins(f, n)
      BY <1>2
    <2> DEFINE g == [k \in 0..(n + 1) |-> IF k = n + 1 THEN h[f[n]] ELSE f[k]]
    <2>2. g \in [0..(n + 1) -> V]
      BY <2>1
    <2>3. g[0] = a
      BY <2>1
    <2>4. \A k \in 0..n : g[k + 1] = h[g[k]]
      <3> SUFFICES ASSUME NEW k \in 0..n PROVE g[k + 1] = h[g[k]]
        OBVIOUS
      <3>1. CASE k = n
        BY <3>1
      <3>2. CASE k < n
        BY <2>1, <3>2
      <3> QED BY <3>1, <3>2
    <2>5. Begins(g, n + 1)
      <3>1. (n + 1) - 1 = n
        OBVIOUS
      <3> HIDE DEF g
      <3> QED BY <2>2, <2>3, <2>4, <3>1
    <2> HIDE DEF Begins, g
    <2> QED BY <2>5
  <1>3. Nat \subseteq N
    <2> HIDE DEF N
    <2> QED BY <1>1, <1>2, NatSetInduction
  <1>4. 0 \in Same
    OBVIOUS
  <1>5. ASSUME NEW k \in Nat, k \in Same PROVE k + 1 \in Same
    <2>1. \A m, n \in Nat : \A p, q :
            k <= m /\ k <= n /\ Begins(p, m) /\ Begins(q, n) => p[k] = q[k]
      BY <1>5
    <2>2. ASSUME NEW m \in Nat, NEW n \in Nat, NEW p, NEW q,
                 k + 1 <= m, k + 1 <= n, Begins(p, m), Begins(q, n)
          PROVE  p[k + 1] = q[k + 1]
      <3>1. k <= m /\ k <= n /\ k \in 0..(m - 1) /\ k \in 0..(n - 1)
        BY <2>2
      <3>2. p[k] = q[k]
        <4> HIDE DEF Begins
        <4> QED BY <2>1, <2>2, <3>1
      <3>3. p[k + 1] = h[p[k]]
        BY <2>2, <3>1
      <3>4. q[k + 1] = h[q[k]]
        BY <2>2, <3>1
      <3> QED BY <3>2, <3>3, <3>4
    <2> HIDE DEF Begins
    <2> QED BY <2>2
  <1>6. Nat \subseteq Same
    <2> HIDE DEF Same
    <2> QED BY <1>4, <1>5, NatSetInduction
  <1>7. \A n \in Nat : \E f : Begins(f, n)
    BY <1>3
  <1> DEFINE begin == [n \in Nat |-> CHOOSE f : Begins(f, n)]
             f == [n \in Nat |-> begin[n][n]]
  <1>8. \A n \in Nat : Begins(begin[n], n)
    BY <1>7
  <1>9. \A k \in Nat : \A m, n \in Nat : \A p, q :
          k <= m /\ k <= n /\ Begins(p, m) /\ Begins(q, n) => p[k] = q[k]
    BY <1>6
  <1> HIDE DEF Begins, begin
  <1>10. \A n \in Nat : begin[n + 1][n] = begin[n][n]
    BY <1>8, <1>9
  <1>11. \A n \in Nat : begin[n][n] \in V /\ begin[0][0] = a
                        /\ begin[n + 1][n + 1] = h[begin[n + 1][n]]
    BY <1>8 DEF Begins
  <1>12. IsIteration(f, V, a, h)
    BY <1>10, <1>11 DEF IsIteration
  <1> QED BY <1>12

\* f is defined by recursion along p, as far as the elements of stop.
IsRecursion(f, D, V, start, stop, p, h) ==
  /\ f \in [D -> V]
  /\ \A n \in D : f[n] = IF n \in stop THEN start[n] ELSE h[<<n, f[p[n]]>>]

\* There is one when a rank falls on the way.
LEMMA RankedRecursion ==
  ASSUME NEW D, NEW V, NEW start \in [D -> V], NEW stop,
         NEW p, NEW d \in [D -> Nat], \A n \in D \ stop : p[n] \in D /\ d[p[n]] < d[n],
         NEW h \in [D \X V -> V]
  PROVE  \E f : IsRecursion(f, D, V, start, stop, p, h)
  <1> DEFINE W == [D -> V]
             next(g) == [n \in D |-> IF n \in stop THEN start[n] ELSE h[<<n, g[p[n]]>>]]
             H == [g \in W |-> next(g)]
  <1>1. \A g \in W : next(g) \in W
    OBVIOUS
  <1>2. H \in [W -> W]
    BY <1>1
  <1>3. PICK f : IsIteration(f, W, start, H)
    <2>1. start \in W
      OBVIOUS
    <2> HIDE DEF next, H, W
    <2> QED BY <1>2, <2>1, Iteration, Zenon
  <1>4. \A k \in Nat : f[k] \in [D -> V] /\ f[k + 1] = next(f[k])
    BY <1>3 DEF IsIteration
  <1>5. \A k \in Nat : \A n \in D :
          f[k + 1][n] = IF n \in stop THEN start[n] ELSE h[<<n, f[k][p[n]]>>]
    <2>1. \A u : \A n \in D : next(u)[n] = IF n \in stop THEN start[n] ELSE h[<<n, u[p[n]]>>]
      OBVIOUS
    <2> HIDE DEF next
    <2> QED BY <1>4, <2>1
  <1> HIDE DEF next, H, W
  <1> DEFINE Stable == {k \in Nat : \A n \in D : d[n] < k => f[k + 1][n] = f[k][n]}
             g == [n \in D |-> f[d[n] + 1][n]]
             Reached == {k \in Nat : \A n \in D : d[n] < k => f[k][n] = g[n]}
  <1>6. Nat \subseteq Stable
    <2>1. 0 \in Stable
      OBVIOUS
    <2>2. ASSUME NEW k \in Nat, k \in Stable PROVE k + 1 \in Stable
      <3> SUFFICES ASSUME NEW n \in D, d[n] < k + 1
                   PROVE  f[(k + 1) + 1][n] = f[k + 1][n]
        OBVIOUS
      <3>0. f[(k + 1) + 1][n] = IF n \in stop THEN start[n] ELSE h[<<n, f[k + 1][p[n]]>>]
        BY <1>5
      <3>1. CASE n \in stop
        BY <1>5, <3>0, <3>1
      <3>2. CASE n \notin stop
        <4>1. p[n] \in D /\ d[p[n]] < k
          BY <3>2
        <4>2. f[k + 1][p[n]] = f[k][p[n]]
          BY <2>2, <4>1
        <4>3. f[k + 1][n] = h[<<n, f[k][p[n]]>>]
          BY <1>5, <3>2
        <4>4. f[(k + 1) + 1][n] = h[<<n, f[k + 1][p[n]]>>]
          BY <3>0, <3>2
        <4> QED BY <4>2, <4>3, <4>4
      <3> QED BY <3>1, <3>2
    <2> HIDE DEF Stable
    <2> QED BY <2>1, <2>2, NatSetInduction
  <1>7. Nat \subseteq Reached
    <2>1. 0 \in Reached
      OBVIOUS
    <2>2. ASSUME NEW k \in Nat, k \in Reached PROVE k + 1 \in Reached
      <3> SUFFICES ASSUME NEW n \in D, d[n] < k + 1
                   PROVE  f[k + 1][n] = g[n]
        OBVIOUS
      <3>1. CASE d[n] = k
        BY <3>1
      <3>2. CASE d[n] < k
        BY <1>6, <2>2, <3>2
      <3> QED BY <3>1, <3>2
    <2> HIDE DEF Reached
    <2> QED BY <2>1, <2>2, NatSetInduction
  <1>8. g \in [D -> V]
    BY <1>4
  <1>9. \A n \in D : g[n] = IF n \in stop THEN start[n] ELSE h[<<n, g[p[n]]>>]
    <2> SUFFICES ASSUME NEW n \in D
                 PROVE  g[n] = IF n \in stop THEN start[n] ELSE h[<<n, g[p[n]]>>]
      OBVIOUS
    <2>1. g[n] = IF n \in stop THEN start[n] ELSE h[<<n, f[d[n]][p[n]]>>]
      BY <1>5
    <2>2. CASE n \in stop
      BY <2>1, <2>2
    <2>3. CASE n \notin stop
      <3>1. p[n] \in D /\ d[p[n]] < d[n] /\ d[n] \in Nat
        BY <2>3
      <3>2. f[d[n]][p[n]] = g[p[n]]
        BY <1>7, <3>1
      <3> QED BY <2>1, <2>3, <3>2
    <2> QED BY <2>2, <2>3
  <1> HIDE DEF g
  <1> QED BY <1>8, <1>9 DEF IsRecursion

\* A fold over a finite set is defined, whatever element is taken next.
IsFold(f, S, V, start, pick, h) ==
  /\ f \in [SUBSET S -> V]
  /\ \A s \in SUBSET S :
       f[s] = IF s = {} THEN start ELSE h[<<pick[s], f[s \ {pick[s]}]>>]

LEMMA FoldRecursion ==
  ASSUME NEW S, IsFiniteSet(S), NEW V, NEW start \in V,
         NEW pick, \A s \in SUBSET S : s # {} => pick[s] \in s,
         NEW h \in [S \X V -> V]
  PROVE  \E f : IsFold(f, S, V, start, pick, h)
  <1> DEFINE D == SUBSET S
             d == [s \in D |-> Cardinality(s)]
             p == [s \in D |-> s \ {pick[s]}]
             H == [x \in D \X V |-> IF x[1] = {} THEN start ELSE h[<<pick[x[1]], x[2]>>]]
             starts == [s \in D |-> start]
             stop == {{}}
  <1>1. \A s \in D : IsFiniteSet(s) /\ Cardinality(s) \in Nat
    BY FS_Subset, FS_CardinalityType
  <1>2. d \in [D -> Nat] /\ starts \in [D -> V]
    BY <1>1
  <1>3. \A s \in D \ stop : p[s] \in D /\ d[p[s]] < d[s]
    <2> SUFFICES ASSUME NEW s \in D, s # {}
                 PROVE  s \ {pick[s]} \in D /\ Cardinality(s \ {pick[s]}) < Cardinality(s)
      OBVIOUS
    <2>1. pick[s] \in s
      OBVIOUS
    <2>2. Cardinality(s \ {pick[s]}) = Cardinality(s) - 1
      BY <1>1, <2>1, FS_RemoveElement
    <2> QED BY <1>1, <2>2
  <1>4. \A x \in D \X V : H[x] \in V
    <2> SUFFICES ASSUME NEW s \in D, NEW v \in V PROVE H[<<s, v>>] \in V
      OBVIOUS
    <2>1. CASE s = {}
      BY <2>1
    <2>2. CASE s # {}
      <3>1. pick[s] \in S
        BY <2>2
      <3>2. <<pick[s], v>> \in S \X V
        BY <3>1
      <3> QED BY <2>2, <3>2
    <2> QED BY <2>1, <2>2
  <1>5. H \in [D \X V -> V]
    BY <1>4
  <1>6. PICK f : IsRecursion(f, D, V, starts, stop, p, H)
    <2>1. \A n \in D \ stop : p[n] \in D /\ d[p[n]] < d[n]
      BY <1>3
    <2> HIDE DEF D, d, p, H, starts, stop
    <2> QED BY <1>2, <1>5, <2>1, RankedRecursion
  <1>8. /\ f \in [D -> V]
        /\ \A s \in D : f[s] = IF s \in stop THEN starts[s] ELSE H[<<s, f[p[s]]>>]
    BY <1>6 DEF IsRecursion
  <1>7. ASSUME NEW s \in D
        PROVE  f[s] = IF s = {} THEN start ELSE h[<<pick[s], f[s \ {pick[s]}]>>]
    <2>1. CASE s = {}
      BY <1>8, <2>1
    <2>2. CASE s # {}
      <3>1. s \ {pick[s]} \in D /\ f[s \ {pick[s]}] \in V
        BY <1>8
      <3>2. <<s, f[p[s]]>> \in D \X V
        BY <3>1
      <3>3. f[s] = H[<<s, f[p[s]]>>]
        BY <1>8, <2>2
      <3> QED BY <2>2, <3>2, <3>3
    <2> QED BY <2>1, <2>2
  <1> QED BY <1>7, <1>8 DEF IsFold

-----------------------------------------------------------------------------
(* Sums                                                                     *)

\* F[s] is the sum of the weights w over s, added up in the order of CHOOSE.
IsChoiceSum(F, S, w) ==
  /\ \E V : F \in [SUBSET S -> V]
  /\ F[{}] = 0
  /\ \A s \in SUBSET S : s # {} =>
       F[s] = w[CHOOSE x \in s : TRUE] + F[s \ {CHOOSE x \in s : TRUE}]

\* The order does not matter.
IsSum(F, S, w) ==
  /\ F \in [SUBSET S -> Nat] /\ F[{}] = 0
  /\ \A s \in SUBSET S : \A x \in s : F[s] = w[x] + F[s \ {x}]

LEMMA ChoiceSumExists ==
  ASSUME NEW S, IsFiniteSet(S), NEW w \in [S -> Nat]
  PROVE  \E F : IsChoiceSum(F, S, w)
  <1> DEFINE pick == [s \in SUBSET S |-> CHOOSE x \in s : TRUE]
             h == [x \in S \X Nat |-> w[x[1]] + x[2]]
  <1>1. \A s \in SUBSET S : s # {} => pick[s] \in s
    OBVIOUS
  <1>2. h \in [S \X Nat -> Nat]
    <2>1. \A x \in S : \A n \in Nat : w[x] + n \in Nat
      OBVIOUS
    <2> QED BY <2>1
  <1>3. PICK F : IsFold(F, S, Nat, 0, pick, h)
    <2> HIDE DEF pick, h
    <2> QED BY <1>1, <1>2, FoldRecursion
  <1>4. /\ F \in [SUBSET S -> Nat]
        /\ \A s \in SUBSET S : F[s] = IF s = {} THEN 0 ELSE h[<<pick[s], F[s \ {pick[s]}]>>]
    BY <1>3 DEF IsFold
  <1>5. ASSUME NEW s \in SUBSET S, s # {}
        PROVE  F[s] = w[CHOOSE x \in s : TRUE] + F[s \ {CHOOSE x \in s : TRUE}]
    <2>1. pick[s] \in S /\ pick[s] = (CHOOSE x \in s : TRUE)
      BY <1>1, <1>5
    <2>2. F[s \ {pick[s]}] \in Nat
      BY <1>4
    <2> HIDE DEF pick
    <2>3. h[<<pick[s], F[s \ {pick[s]}]>>] = w[pick[s]] + F[s \ {pick[s]}]
      BY <2>1, <2>2
    <2>4. F[s] = h[<<pick[s], F[s \ {pick[s]}]>>]
      BY <1>4, <1>5
    <2> QED BY <2>1, <2>3, <2>4
  <1>6. F[{}] = 0
    BY <1>4
  <1> QED BY <1>4, <1>5, <1>6 DEF IsChoiceSum

LEMMA ChoiceSumIsSum ==
  ASSUME NEW S, IsFiniteSet(S), NEW w \in [S -> Nat], NEW F, IsChoiceSum(F, S, w)
  PROVE  IsSum(F, S, w)
  <1>1. F[{}] = 0
    BY DEF IsChoiceSum
  <1>2. ASSUME NEW s \in SUBSET S, s # {} PROVE \E x \in s : F[s] = w[x] + F[s \ {x}]
    <2> DEFINE x == CHOOSE x \in s : TRUE
    <2>1. x \in s
      BY <1>2
    <2>2. F[s] = w[x] + F[s \ {x}]
      BY <1>2 DEF IsChoiceSum
    <2> HIDE DEF x
    <2> QED BY <2>1, <2>2
  <1> DEFINE Counts == {s \in SUBSET S : F[s] \in Nat}
  <1>3. SUBSET S \subseteq Counts
    <2>1. {} \in Counts
      BY <1>1
    <2>2. ASSUME NEW s \in SUBSET S, s # {}
          PROVE  \E x \in s : (s \ {x} \in Counts => s \in Counts)
      <3>1. PICK x \in s : F[s] = w[x] + F[s \ {x}]
        BY <1>2, <2>2
      <3>2. w[x] \in Nat
        OBVIOUS
      <3>3. s \ {x} \in Counts => s \in Counts
        BY <3>1, <3>2
      <3> QED BY <3>3
    <2> HIDE DEF Counts
    <2> QED BY <2>1, <2>2, FiniteSetInduction
  <1> DEFINE Good(s) == \A x \in s : F[s] = w[x] + F[s \ {x}]
             N == {n \in Nat : \A s \in SUBSET S : Cardinality(s) = n => Good(s)}
  <1>4. \A s \in SUBSET S : /\ IsFiniteSet(s) /\ Cardinality(s) \in Nat
                            /\ s = {} <=> Cardinality(s) = 0
                            /\ \A x \in s : Cardinality(s \ {x}) = Cardinality(s) - 1
    BY FS_Subset, FS_CardinalityType, FS_EmptySet, FS_RemoveElement
  <1>5. 0 \in N
    <2> SUFFICES ASSUME NEW s \in SUBSET S, Cardinality(s) = 0 PROVE Good(s)
      OBVIOUS
    <2>1. s = {}
      BY <1>4
    <2> QED BY <2>1
  <1>6. ASSUME NEW n \in Nat, n \in N PROVE n + 1 \in N
    <2> SUFFICES ASSUME NEW s \in SUBSET S, Cardinality(s) = n + 1 PROVE Good(s)
      <3> HIDE DEF Good
      <3> QED OBVIOUS
    <2>1. s # {}
      BY <1>4
    <2>2. \A x \in s : Good(s \ {x})
      <3> SUFFICES ASSUME NEW x \in s PROVE Good(s \ {x})
        <4> HIDE DEF Good
        <4> QED OBVIOUS
      <3>1. Cardinality(s \ {x}) = n /\ s \ {x} \in SUBSET S
        BY <1>4
      <3> HIDE DEF Good
      <3> QED BY <1>6, <3>1
    <2>3. PICK y \in s : F[s] = w[y] + F[s \ {y}]
      BY <1>2, <2>1
    <2>4. ASSUME NEW x \in s, x # y PROVE F[s] = w[x] + F[s \ {x}]
      <3> DEFINE c == F[s \ {x, y}]
      <3>1. (s \ {y}) \ {x} = s \ {x, y} /\ (s \ {x}) \ {y} = s \ {x, y}
        OBVIOUS
      <3>2. F[s \ {y}] = w[x] + c
        BY <2>2, <2>4, <3>1
      <3>3. F[s \ {x}] = w[y] + c
        BY <2>2, <2>4, <3>1
      <3>4. c \in Nat
        BY <1>3
      <3>5. w[x] \in Nat /\ w[y] \in Nat
        OBVIOUS
      <3> HIDE DEF c
      <3>6. F[s] = w[y] + (w[x] + c)
        BY <2>3, <3>2
      <3>7. w[y] + (w[x] + c) = w[x] + (w[y] + c)
        BY <3>4, <3>5
      <3> QED BY <3>3, <3>6, <3>7
    <2> QED BY <2>3, <2>4
  <1>7. Nat \subseteq N
    <2> HIDE DEF N
    <2> QED BY <1>5, <1>6, NatSetInduction
  <1>8. \A s \in SUBSET S : Good(s)
    <2> HIDE DEF Good
    <2> QED BY <1>4, <1>7
  <1>9. F \in [SUBSET S -> Nat]
    BY <1>3 DEF IsChoiceSum
  <1> QED BY <1>1, <1>8, <1>9 DEF IsSum

\* The first k + 1 numbers are k + 1 and the first k.
LEMMA IntervalGrows ==
  ASSUME NEW k \in Nat, NEW N \in Nat, k + 1 <= N
  PROVE  /\ (1..(k + 1)) \ {k + 1} = 1..k /\ k + 1 \in 1..(k + 1)
         /\ 1..(k + 1) \in SUBSET (1..N) /\ 1..k \in SUBSET (1..N)
  <1>1. (1..(k + 1)) \ {k + 1} = 1..k
    OBVIOUS
  <1>2. k + 1 \in 1..(k + 1)
    OBVIOUS
  <1>3. \A i \in 1..(k + 1) : i \in 1..N
    OBVIOUS
  <1> QED BY <1>1, <1>2, <1>3

\* f[k + 1] is the sum of the first k of N weights.
IsPartialSums(f, N, w) ==
  f[1] = 0 /\ \A k \in 1..N : f[k] \in Int /\ f[k + 1] = f[k] + w[k]

\* A sum over the first numbers is what its partial sums say.
LEMMA SumOfSteps ==
  ASSUME NEW N \in Nat, NEW w \in [1..N -> Nat], NEW F, IsSum(F, 1..N, w),
         NEW f, IsPartialSums(f, N, w)
  PROVE  F[1..N] = f[N + 1]
  <1> DEFINE M == {k \in Nat : k <= N => F[1..k] = f[k + 1]}
  <1>1. 0 \in M
    <2>1. 1..0 = {}
      OBVIOUS
    <2> QED BY <2>1 DEF IsSum, IsPartialSums
  <1>2. ASSUME NEW k \in Nat, k \in M PROVE k + 1 \in M
    <2> SUFFICES ASSUME k + 1 <= N PROVE F[1..(k + 1)] = f[(k + 1) + 1]
      OBVIOUS
    <2>1. F[1..k] = f[k + 1] /\ f[k + 1] \in Int /\ f[(k + 1) + 1] = f[k + 1] + w[k + 1]
      BY <1>2 DEF IsPartialSums
    <2>2. (1..(k + 1)) \ {k + 1} = 1..k /\ k + 1 \in 1..(k + 1) /\ 1..(k + 1) \in SUBSET (1..N)
      BY IntervalGrows
    <2>3. F[1..(k + 1)] = w[k + 1] + F[(1..(k + 1)) \ {k + 1}]
      BY <2>2 DEF IsSum
    <2>4. w[k + 1] \in Nat
      OBVIOUS
    <2>5. F[1..(k + 1)] = w[k + 1] + F[1..k]
      BY <2>2, <2>3
    <2>6. F[1..(k + 1)] = w[k + 1] + f[k + 1]
      BY <2>1, <2>5
    <2> HIDE DEF M
    <2> QED BY <2>1, <2>4, <2>6
  <1>3. Nat \subseteq M
    <2> HIDE DEF M
    <2> QED BY <1>1, <1>2, NatSetInduction
  <1> QED BY <1>3

\* A sum over fewer elements is no greater.
LEMMA SumMonotonic ==
  ASSUME NEW S, IsFiniteSet(S), NEW w \in [S -> Nat], NEW F, IsSum(F, S, w), NEW A \in SUBSET S
  PROVE  F[A] \in Nat /\ F[S] \in Nat /\ F[A] <= F[S]
  <1> DEFINE Good == {T \in SUBSET S : F[A] <= F[A \cup T]}
  <1>1. \A s \in SUBSET S : F[s] \in Nat /\ \A x \in s : F[s] = w[x] + F[s \ {x}]
    BY DEF IsSum
  <1>2. {} \in Good
    <2>1. A \cup {} = A
      OBVIOUS
    <2> QED BY <1>1, <2>1
  <1>3. ASSUME NEW T \in SUBSET S, T # {}
        PROVE  \E x \in T : (T \ {x} \in Good => T \in Good)
    <2>1. PICK x \in T : TRUE
      BY <1>3
    <2> SUFFICES ASSUME F[A] <= F[A \cup (T \ {x})] PROVE F[A] <= F[A \cup T]
      BY <2>1
    <2>2. CASE x \in A
      <3>1. A \cup T = A \cup (T \ {x})
        BY <2>2
      <3> QED BY <3>1
    <2>3. CASE x \notin A
      <3>1. (A \cup T) \ {x} = A \cup (T \ {x}) /\ x \in A \cup T /\ A \cup T \in SUBSET S
        BY <2>3
      <3>2. F[A \cup T] = w[x] + F[A \cup (T \ {x})]
        BY <1>1, <3>1
      <3>3. w[x] \in Nat /\ F[A \cup (T \ {x})] \in Nat /\ F[A] \in Nat
        BY <1>1
      <3> QED BY <3>2, <3>3
    <2> QED BY <2>2, <2>3
  <1>4. SUBSET S \subseteq Good
    <2> HIDE DEF Good
    <2> QED BY <1>2, <1>3, FiniteSetInduction
  <1>5. S \in Good /\ A \cup S = S
    BY <1>4
  <1> QED BY <1>1, <1>5

\* A sum over the first numbers is bounded when each of its terms is.
LEMMA SumWithinSteps ==
  ASSUME NEW N \in Nat, NEW w \in [1..N -> Nat], NEW F, IsSum(F, 1..N, w),
         NEW f, f[1] \in Int, \A k \in 1..N : f[k + 1] \in Int /\ f[k] + w[k] <= f[k + 1]
  PROVE  f[1] + F[1..N] <= f[N + 1]
  <1> DEFINE M == {k \in Nat : k <= N => f[k + 1] \in Int /\ f[1] + F[1..k] <= f[k + 1]}
  <1>1. 0 \in M
    <2>1. 1..0 = {} /\ F[{}] = 0
      BY DEF IsSum
    <2> QED BY <2>1
  <1>2. ASSUME NEW k \in Nat, k \in M PROVE k + 1 \in M
    <2> SUFFICES ASSUME k + 1 <= N
                 PROVE  f[(k + 1) + 1] \in Int /\ f[1] + F[1..(k + 1)] <= f[(k + 1) + 1]
      OBVIOUS
    <2>1. f[k + 1] \in Int /\ f[1] + F[1..k] <= f[k + 1]
      BY <1>2
    <2>2. k + 1 \in 1..N
      OBVIOUS
    <2>3. f[(k + 1) + 1] \in Int /\ f[k + 1] + w[k + 1] <= f[(k + 1) + 1]
      BY <2>2
    <2>4. (1..(k + 1)) \ {k + 1} = 1..k /\ k + 1 \in 1..(k + 1) /\ 1..(k + 1) \in SUBSET (1..N)
          /\ 1..k \in SUBSET (1..N)
      BY IntervalGrows
    <2>5. F[1..(k + 1)] = w[k + 1] + F[(1..(k + 1)) \ {k + 1}]
      BY <2>4 DEF IsSum
    <2>6. w[k + 1] \in Nat /\ F[1..k] \in Nat
      BY <2>2, <2>4 DEF IsSum
    <2>7. F[1..(k + 1)] = w[k + 1] + F[1..k]
      BY <2>4, <2>5
    <2> HIDE DEF M
    <2> DEFINE a == f[1]
               b == F[1..k]
               c == f[k + 1]
               d == w[k + 1]
               e == f[(k + 1) + 1]
    <2>8. a + b <= c /\ c + d <= e /\ a \in Int /\ b \in Nat /\ c \in Int /\ d \in Nat /\ e \in Int
      BY <2>1, <2>3, <2>6
    <2> HIDE DEF a, b, c, d, e
    <2>9. a + (d + b) <= e
      BY <2>8
    <2> QED BY <2>3, <2>7, <2>9 DEF a, b, d, e
  <1>3. Nat \subseteq M
    <2> HIDE DEF M
    <2> QED BY <1>1, <1>2, NatSetInduction
  <1> QED BY <1>3

\* A sum over the first numbers covers what grows by no more than each of its terms.
LEMMA SumCoversSteps ==
  ASSUME NEW N \in Nat, NEW w \in [1..N -> Nat], NEW F, IsSum(F, 1..N, w),
         NEW f, f[1] \in Int, \A k \in 1..N : f[k + 1] \in Int /\ f[k + 1] <= f[k] + w[k]
  PROVE  f[N + 1] <= f[1] + F[1..N]
  <1> DEFINE M == {k \in Nat : k <= N => f[k + 1] \in Int /\ f[k + 1] <= f[1] + F[1..k]}
  <1>1. 0 \in M
    <2>1. 1..0 = {} /\ F[{}] = 0
      BY DEF IsSum
    <2> QED BY <2>1
  <1>2. ASSUME NEW k \in Nat, k \in M PROVE k + 1 \in M
    <2> SUFFICES ASSUME k + 1 <= N
                 PROVE  f[(k + 1) + 1] \in Int /\ f[(k + 1) + 1] <= f[1] + F[1..(k + 1)]
      OBVIOUS
    <2>1. f[k + 1] \in Int /\ f[k + 1] <= f[1] + F[1..k]
      BY <1>2
    <2>2. k + 1 \in 1..N
      OBVIOUS
    <2>3. f[(k + 1) + 1] \in Int /\ f[(k + 1) + 1] <= f[k + 1] + w[k + 1]
      BY <2>2
    <2>4. (1..(k + 1)) \ {k + 1} = 1..k /\ k + 1 \in 1..(k + 1) /\ 1..(k + 1) \in SUBSET (1..N)
          /\ 1..k \in SUBSET (1..N)
      BY IntervalGrows
    <2>5. F[1..(k + 1)] = w[k + 1] + F[(1..(k + 1)) \ {k + 1}]
      BY <2>4 DEF IsSum
    <2>6. w[k + 1] \in Nat /\ F[1..k] \in Nat
      BY <2>2, <2>4 DEF IsSum
    <2>7. F[1..(k + 1)] = w[k + 1] + F[1..k]
      BY <2>4, <2>5
    <2> HIDE DEF M
    <2> DEFINE a == f[1]
               b == F[1..k]
               c == f[k + 1]
               d == w[k + 1]
               e == f[(k + 1) + 1]
    <2>8. c <= a + b /\ e <= c + d /\ a \in Int /\ b \in Nat /\ c \in Int /\ d \in Nat /\ e \in Int
      BY <2>1, <2>3, <2>6
    <2> HIDE DEF a, b, c, d, e
    <2>9. e <= a + (d + b)
      BY <2>8
    <2> QED BY <2>3, <2>7, <2>9 DEF a, b, d, e
  <1>3. Nat \subseteq M
    <2> HIDE DEF M
    <2> QED BY <1>1, <1>2, NatSetInduction
  <1> QED BY <1>3

-----------------------------------------------------------------------------
(* Orders                                                                   *)

\* s lists U, which has n elements, by their positions.
Lists(s, U, n, pos) ==
  /\ s \in [1..n -> U]
  /\ \A x \in U : \E k \in 1..n : s[k] = x
  /\ \A j, k \in 1..n : j < k => pos[s[j]] < pos[s[k]]

\* Finitely many things at different positions can be listed in their order.
LEMMA ListedInOrder ==
  ASSUME NEW S, IsFiniteSet(S), NEW pos, \A x \in S : pos[x] \in Nat,
         \A x, y \in S : pos[x] = pos[y] => x = y,
         NEW U \in SUBSET S
  PROVE  \E s : Lists(s, U, Cardinality(U), pos)
  <1> DEFINE Good == {T \in SUBSET S : \E s : Lists(s, T, Cardinality(T), pos)}
  <1>0. \A T \in SUBSET S : IsFiniteSet(T) /\ Cardinality(T) \in Nat
    BY FS_Subset, FS_CardinalityType
  <1>1. {} \in Good
    <2>1. Cardinality({}) = 0 /\ 1..0 = {}
      BY FS_EmptySet
    <2>2. Lists([k \in 1..0 |-> k], {}, 0, pos)
      BY <2>1 DEF Lists
    <2> QED BY <2>1, <2>2
  <1>2. ASSUME NEW T \in SUBSET S, T # {}
        PROVE  \E x \in T : (T \ {x} \in Good => T \in Good)
    <2>1. \E x \in T : \A y \in T : pos[y] <= pos[x]
      <3> DEFINE P == {pos[y] : y \in T}
                 Bounded == {V \in SUBSET T : \E n \in Nat : \A y \in V : pos[y] <= n}
      <3>1. P \in SUBSET Nat /\ P # {}
        BY <1>2
      <3>2. {} \in Bounded
        OBVIOUS
      <3>3. ASSUME NEW V \in SUBSET T, V # {}
            PROVE  \E x \in V : (V \ {x} \in Bounded => V \in Bounded)
        <4>1. PICK x \in V : TRUE
          BY <3>3
        <4>2. ASSUME V \ {x} \in Bounded PROVE V \in Bounded
          <5>1. PICK n \in Nat : \A y \in V \ {x} : pos[y] <= n
            BY <4>2
          <5>2. pos[x] \in Nat /\ \A y \in V : pos[y] \in Nat
            OBVIOUS
          <5>3. n + pos[x] \in Nat /\ \A y \in V : pos[y] <= n + pos[x]
            BY <5>1, <5>2
          <5> QED BY <5>3
        <4> QED BY <4>2
      <3>4. SUBSET T \subseteq Bounded
        <4>1. IsFiniteSet(T)
          BY <1>0
        <4> HIDE DEF Bounded
        <4> QED BY <3>2, <3>3, <4>1, FiniteSetInduction
      <3>5. PICK n \in Nat : \A y \in T : pos[y] <= n
        BY <3>4
      <3>6. \A l \in P : l <= n
        BY <3>5
      <3>7. \E m \in P : \A l \in P : l <= m
        <4> HIDE DEF P
        <4> QED BY <3>1, <3>6, GreatestNatural
      <3> QED BY <3>7
    <2>2. PICK x \in T : \A y \in T : pos[y] <= pos[x]
      BY <2>1
    <2>3. ASSUME T \ {x} \in Good PROVE T \in Good
      <3> DEFINE n == Cardinality(T \ {x})
      <3>1. PICK s : Lists(s, T \ {x}, n, pos)
        BY <2>3
      <3>2. n \in Nat /\ Cardinality(T) = n + 1
        <4>1. Cardinality(T \ {x}) = Cardinality(T) - 1
          BY <1>0, FS_RemoveElement
        <4> QED BY <1>0, <4>1
      <3> HIDE DEF n
      <3> DEFINE r == [k \in 1..(n + 1) |-> IF k = n + 1 THEN x ELSE s[k]]
      <3>3. s \in [1..n -> T \ {x}] /\ (\A y \in T \ {x} : \E k \in 1..n : s[k] = y)
            /\ \A j, k \in 1..n : j < k => pos[s[j]] < pos[s[k]]
        BY <3>1 DEF Lists
      <3>4. r[n + 1] = x /\ \A k \in 1..n : r[k] = s[k] /\ r[k] \in T \ {x}
        BY <3>2, <3>3
      <3>5. \A k \in 1..(n + 1) : k = n + 1 \/ k \in 1..n
        BY <3>2
      <3>6. r \in [1..(n + 1) -> T]
        BY <3>3, <3>5
      <3> HIDE DEF r
      <3>7. \A y \in T : \E k \in 1..(n + 1) : r[k] = y
        <4> SUFFICES ASSUME NEW y \in T PROVE \E k \in 1..(n + 1) : r[k] = y
          OBVIOUS
        <4>1. n + 1 \in 1..(n + 1) /\ \A k \in 1..n : k \in 1..(n + 1)
          BY <3>2
        <4> QED BY <3>3, <3>4, <4>1
      <3>8. ASSUME NEW j \in 1..(n + 1), NEW k \in 1..(n + 1), j < k
            PROVE  pos[r[j]] < pos[r[k]]
        <4>1. j \in 1..n
          BY <3>2, <3>8
        <4>2. CASE k = n + 1
          <5>1. r[j] \in T /\ r[j] # x /\ r[k] = x
            BY <3>4, <4>1, <4>2
          <5>2. pos[r[j]] <= pos[x] /\ pos[r[j]] # pos[x] /\ pos[r[j]] \in Nat /\ pos[x] \in Nat
            BY <2>2, <5>1
          <5> QED BY <5>1, <5>2
        <4>3. CASE k \in 1..n
          BY <3>3, <3>4, <3>8, <4>1, <4>3
        <4> QED BY <3>5, <4>2, <4>3
      <3>9. Lists(r, T, n + 1, pos)
        BY <3>6, <3>7, <3>8 DEF Lists
      <3> QED BY <3>2, <3>9
    <2> QED BY <2>3
  <1>3. SUBSET S \subseteq Good
    <2> HIDE DEF Good
    <2> QED BY <1>1, <1>2, FiniteSetInduction
  <1> QED BY <1>3

-----------------------------------------------------------------------------
(* The disjoint sets, for any trees: the classes are those that the        *)
(* connected pairs make, in whatever order the pairs are connected, and    *)
(* one class is told from several                                          *)

SetsType(T) == [parent : [T -> T], children : [T -> SUBSET T], connected : BOOLEAN]

\* No pair has one tree in the class and one outside.
Closed(C, pairs) == \A p \in pairs : p \subseteq C \/ p \cap C = {}

IsTrees(T) == T \subseteq Nat /\ 0 \in T
IsPair(p, T) == \E i, j \in T : i # j /\ p = {i, j}

\* The classes of ds are the least that no pair of pairs divides.
Partitions(ds, T, pairs) ==
  /\ ds \in SetsType(T)
  /\ \A i \in T : ds.parent[ds.parent[i]] = ds.parent[i]
  /\ \A r \in T : ds.children[r] = {i \in T \ {r} : ds.parent[i] = r}
  /\ \A p \in pairs : IsPair(p, T) /\ \A i, j \in p : ds.parent[i] = ds.parent[j]
  /\ \A C \in SUBSET T : Closed(C, pairs) =>
       \A i, j \in T : ds.parent[i] = ds.parent[j] => (i \in C <=> j \in C)
  /\ ds.connected <=> \A i \in T : ds.parent[i] = ds.parent[0]

LowRoot(roots) == CHOOSE r \in roots : \A q \in roots : r <= q
HighRoot(roots) == CHOOSE r \in roots : \A q \in roots : r >= q

\* The two roots a pair has, in order.
LEMMA RootsOf ==
  ASSUME NEW a \in Nat, NEW b \in Nat, NEW roots, roots = {a, b}
  PROVE  roots = {LowRoot(roots), HighRoot(roots)}
  <1>1. \E r \in roots : \A q \in roots : r <= q
    OBVIOUS
  <1>2. \E r \in roots : \A q \in roots : r >= q
    OBVIOUS
  <1> DEFINE lo == LowRoot(roots)
             hi == HighRoot(roots)
  <1>3. lo \in roots /\ \A q \in roots : lo <= q
    BY <1>1 DEF LowRoot
  <1>4. hi \in roots /\ \A q \in roots : hi >= q
    BY <1>2 DEF HighRoot
  <1> HIDE DEF lo, hi
  <1>5. roots = {lo, hi}
    BY <1>3, <1>4
  <1> QED BY <1>5 DEF lo, hi

LEMMA ConnectType ==
  ASSUME NEW T, IsTrees(T), NEW ds \in SetsType(T), NEW p, IsPair(p, T)
  PROVE  Connect(p, ds) \in SetsType(T)
  <1>1. PICK i \in T, j \in T : p = {i, j}
    BY DEF IsPair
  <1> DEFINE roots == {ds.parent[k] : k \in p}
             lo == LowRoot(roots)
             hi == HighRoot(roots)
             moved == {hi} \cup ds.children[hi]
             parent == [k \in DOMAIN ds.parent |-> IF k \in moved THEN lo ELSE ds.parent[k]]
             children == [ds.children EXCEPT ![lo] = @ \cup moved, ![hi] = {}]
             connected == \A k \in DOMAIN ds.parent : parent[k] = parent[0]
  <1>2. lo \in T /\ hi \in T
    <2>1. roots = {ds.parent[i], ds.parent[j]}
      BY <1>1
    <2>2. ds.parent[i] \in T /\ ds.parent[j] \in T /\ T \subseteq Nat
      BY DEF SetsType, IsTrees
    <2> HIDE DEF roots
    <2>3. roots = {LowRoot(roots), HighRoot(roots)}
      <3>1. ds.parent[i] \in Nat /\ ds.parent[j] \in Nat
        BY <2>2
      <3> QED BY <2>1, <3>1, RootsOf
    <2>4. roots = {lo, hi}
      BY <2>3
    <2> QED BY <2>1, <2>2, <2>4
  <1>3. Connect(p, ds) = IF ds.connected \/ lo = hi THEN ds
          ELSE [parent |-> parent, children |-> children, connected |-> connected]
    BY DEF Connect, LowRoot, HighRoot
  <1> HIDE DEF lo, hi
  <1>4. ds.parent \in [T -> T] /\ ds.children \in [T -> SUBSET T] /\ ds.connected \in BOOLEAN
    BY DEF SetsType
  <1>5. moved \subseteq T
    BY <1>2, <1>4
  <1> HIDE DEF moved
  <1>6. parent \in [T -> T]
    BY <1>2, <1>4
  <1>7. children \in [T -> SUBSET T]
    BY <1>2, <1>4, <1>5
  <1>8. connected \in BOOLEAN
    OBVIOUS
  <1> HIDE DEF parent, children, connected
  <1> QED BY <1>3, <1>6, <1>7, <1>8 DEF SetsType

\* Connecting a pair joins the classes of its trees and no others.
LEMMA ConnectPartitions ==
  ASSUME NEW T, IsTrees(T), NEW pairs, NEW ds, Partitions(ds, T, pairs), NEW p, IsPair(p, T)
  PROVE  Partitions(Connect(p, ds), T, pairs \cup {p})
  <1>1. PICK i \in T, j \in T : p = {i, j}
    BY DEF IsPair
  <1> DEFINE roots == {ds.parent[k] : k \in p}
             lo == LowRoot(roots)
             hi == HighRoot(roots)
             moved == {hi} \cup ds.children[hi]
             parent == [k \in DOMAIN ds.parent |-> IF k \in moved THEN lo ELSE ds.parent[k]]
             children == [ds.children EXCEPT ![lo] = @ \cup moved, ![hi] = {}]
             connected == \A k \in DOMAIN ds.parent : parent[k] = parent[0]
             all == pairs \cup {p}
             ds2 == Connect(p, ds)
  <1>2. ds2 \in SetsType(T)
    BY ConnectType DEF Partitions
  <1>3. ds \in SetsType(T) /\ ds.parent \in [T -> T] /\ ds.children \in [T -> SUBSET T]
        /\ ds.connected \in BOOLEAN
    BY DEF Partitions, SetsType
  <1>4. {ds.parent[i], ds.parent[j]} = {lo, hi} /\ lo \in T /\ hi \in T
    <2>1. roots = {ds.parent[i], ds.parent[j]}
      BY <1>1
    <2>2. ds.parent[i] \in T /\ ds.parent[j] \in T /\ T \subseteq Nat
      BY <1>3 DEF IsTrees
    <2> HIDE DEF roots
    <2>3. roots = {LowRoot(roots), HighRoot(roots)}
      <3>1. ds.parent[i] \in Nat /\ ds.parent[j] \in Nat
        BY <2>2
      <3> QED BY <2>1, <3>1, RootsOf
    <2>4. roots = {lo, hi}
      BY <2>3
    <2> QED BY <2>1, <2>2, <2>4
  <1>5. /\ \A k \in T : ds.parent[ds.parent[k]] = ds.parent[k]
        /\ \A r \in T : ds.children[r] = {k \in T \ {r} : ds.parent[k] = r}
        /\ \A q \in pairs : IsPair(q, T) /\ \A k, l \in q : ds.parent[k] = ds.parent[l]
        /\ \A C \in SUBSET T : Closed(C, pairs) =>
             \A k, l \in T : ds.parent[k] = ds.parent[l] => (k \in C <=> l \in C)
        /\ ds.connected <=> \A k \in T : ds.parent[k] = ds.parent[0]
    BY DEF Partitions
  <1>6. \A C : Closed(C, all) => Closed(C, pairs) /\ (i \in C <=> j \in C)
    BY <1>1 DEF Closed
  <1>7. ds2 = IF ds.connected \/ lo = hi THEN ds
              ELSE [parent |-> parent, children |-> children, connected |-> connected]
    BY DEF Connect, LowRoot, HighRoot
  <1> HIDE DEF lo, hi, ds2
  <1>8. CASE ds.connected \/ lo = hi
    <2>1. ds.parent[i] = ds.parent[j]
      BY <1>4, <1>5, <1>8
    <2>2. ds2 = ds
      BY <1>7, <1>8
    <2>3. \A q \in all : IsPair(q, T) /\ \A k, l \in q : ds.parent[k] = ds.parent[l]
      BY <1>1, <1>5, <2>1
    <2>4. \A C \in SUBSET T : Closed(C, all) =>
            \A k, l \in T : ds.parent[k] = ds.parent[l] => (k \in C <=> l \in C)
      BY <1>5, <1>6
    <2> HIDE DEF all
    <2>5. Partitions(ds, T, all)
      BY <1>3, <1>5, <2>3, <2>4 DEF Partitions
    <2> QED BY <2>2, <2>5 DEF all, ds2
  <1>9. CASE ~ds.connected /\ lo # hi
    <2>1. ds2.parent = parent /\ ds2.children = children /\ ds2.connected = connected
      BY <1>7, <1>9
    <2>2. ds.parent[hi] = hi /\ ds.parent[lo] = lo
      BY <1>4, <1>5
    <2>3. moved = {k \in T : ds.parent[k] = hi}
      BY <1>3, <1>4, <1>5, <2>2
    <2>4. ds2.parent = [k \in T |-> IF ds.parent[k] = hi THEN lo ELSE ds.parent[k]]
      <3> HIDE DEF moved
      <3> QED BY <1>3, <2>1, <2>3
    <2>5. ds2.children = [ds.children EXCEPT ![lo] = @ \cup moved, ![hi] = {}]
      BY <2>1
    <2>6. ds2.connected <=> \A k \in T : ds2.parent[k] = ds2.parent[0]
      <3>1. DOMAIN ds.parent = T /\ (connected <=> \A k \in T : parent[k] = parent[0])
        BY <1>3
      <3> HIDE DEF parent, connected
      <3> QED BY <2>1, <3>1
    <2> HIDE DEF parent, children, connected, moved
    <2>7. \A k \in T : ds2.parent[k] = IF ds.parent[k] = hi THEN lo ELSE ds.parent[k]
      BY <2>4
    <2>8. \A k \in T : ds2.parent[ds2.parent[k]] = ds2.parent[k]
      BY <1>3, <1>4, <1>5, <1>9, <2>2, <2>7
    <2>9. ASSUME NEW r \in T PROVE ds2.children[r] = {k \in T \ {r} : ds2.parent[k] = r}
      <3>1. CASE r = lo
        <4>1. ds2.children[r] = ds.children[lo] \cup moved
          BY <1>3, <1>4, <1>9, <2>5, <3>1
        <4>2. \A k \in T : ds2.parent[k] = lo <=> ds.parent[k] = lo \/ ds.parent[k] = hi
          BY <1>9, <2>7
        <4> QED BY <1>4, <1>5, <1>9, <2>2, <2>3, <3>1, <4>1, <4>2
      <3>2. CASE r = hi
        <4>1. ds2.children[r] = {}
          BY <1>3, <1>4, <2>5, <3>2
        <4>2. \A k \in T : ds2.parent[k] # hi
          BY <1>9, <2>7
        <4> QED BY <3>2, <4>1, <4>2
      <3>3. CASE r # lo /\ r # hi
        <4>1. ds2.children[r] = ds.children[r]
          BY <1>3, <2>5, <3>3
        <4>2. \A k \in T : ds2.parent[k] = r <=> ds.parent[k] = r
          BY <2>7, <3>3
        <4> QED BY <1>5, <4>1, <4>2
      <3> QED BY <3>1, <3>2, <3>3
    <2>10. \A q \in pairs : q \subseteq T
      BY <1>5 DEF IsPair
    <2>11. \A q \in all : IsPair(q, T) /\ \A k, l \in q : ds2.parent[k] = ds2.parent[l]
      <3>1. \A q \in pairs : \A k, l \in q : ds2.parent[k] = ds2.parent[l]
        BY <1>5, <2>7, <2>10
      <3>2. \A m \in T : ds.parent[m] \in {lo, hi} => ds2.parent[m] = lo
        BY <2>7
      <3>3. ds2.parent[i] = lo /\ ds2.parent[j] = lo
        BY <1>4, <3>2
      <3> QED BY <1>1, <1>5, <3>1, <3>3
    <2>12. ASSUME NEW C \in SUBSET T, Closed(C, all), NEW k \in T, NEW l \in T,
                  ds2.parent[k] = ds2.parent[l]
           PROVE  k \in C <=> l \in C
      <3>1. \A m, n \in T : ds.parent[m] = ds.parent[n] => (m \in C <=> n \in C)
        BY <1>5, <1>6, <2>12
      <3>2. \A m \in T : m \in C <=> ds.parent[m] \in C
        BY <1>3, <1>5, <3>1
      <3>3. lo \in C <=> hi \in C
        BY <1>4, <1>6, <2>12, <3>2
      <3>4. \A m \in T : m \in C <=> ds2.parent[m] \in C
        BY <2>7, <3>2, <3>3
      <3> QED BY <2>12, <3>4
    <2>13. \A C \in SUBSET T : Closed(C, all) =>
             \A k, l \in T : ds2.parent[k] = ds2.parent[l] => (k \in C <=> l \in C)
      BY <2>12
    <2>14. Partitions(ds2, T, all)
      <3> HIDE DEF all
      <3> QED BY <1>2, <2>6, <2>8, <2>9, <2>11, <2>13 DEF Partitions
    <2> QED BY <2>14 DEF ds2
  <1> QED BY <1>8, <1>9

\* At first every tree is alone.
LEMMA NewSetsPartition ==
  ASSUME NEW T, IsTrees(T), NEW i \in T, i # 0
  PROVE  Partitions(NewSets(T), T, {})
  <1> DEFINE ds == NewSets(T)
  <1>1. /\ ds.parent = [k \in T |-> k] /\ ds.children = [k \in T |-> {}]
        /\ ds.connected = FALSE /\ ds \in SetsType(T)
    BY DEF NewSets, SetsType
  <1> HIDE DEF ds
  <1>2. ~ \A k \in T : ds.parent[k] = ds.parent[0]
    BY <1>1 DEF IsTrees
  <1>3. Partitions(ds, T, {})
    BY <1>1, <1>2 DEF Partitions
  <1> QED BY <1>3 DEF ds

\* Connecting a finite set of pairs, in whatever order.
LEMMA FoldConnects ==
  ASSUME NEW T, IsTrees(T), NEW pairs, NEW ds, Partitions(ds, T, pairs),
         NEW Q, IsFiniteSet(Q), \A p \in Q : IsPair(p, T)
  PROVE  Partitions(FoldSet(Connect, ds, Q), T, pairs \cup Q)
  <1> DEFINE V == SetsType(T)
             pick == [s \in SUBSET Q |-> CHOOSE p \in s : TRUE]
             h == [x \in Q \X V |-> Connect(x[1], x[2])]
             step(g) == [s \in SUBSET Q |->
                           IF s = {} THEN ds
                           ELSE LET p == CHOOSE p \in s : TRUE IN Connect(p, g[s \ {p}])]
  <1>1. ds \in V
    BY DEF Partitions
  <1>2. \A s \in SUBSET Q : s # {} => pick[s] \in s
    OBVIOUS
  <1>3. \A p \in Q : \A v \in V : Connect(p, v) \in V
    BY ConnectType
  <1>4. h \in [Q \X V -> V]
    BY <1>3
  <1>5. PICK f : IsFold(f, Q, V, ds, pick, h)
    <2> HIDE DEF V, pick, h
    <2> QED BY <1>1, <1>2, <1>4, FoldRecursion
  <1>6. /\ f \in [SUBSET Q -> V]
        /\ \A s \in SUBSET Q :
             f[s] = IF s = {} THEN ds ELSE h[<<pick[s], f[s \ {pick[s]}]>>]
    BY <1>5 DEF IsFold
  <1>7. ASSUME NEW s \in SUBSET Q, s # {}
        PROVE  /\ pick[s] \in s /\ pick[s] = (CHOOSE p \in s : TRUE)
               /\ f[s] = Connect(pick[s], f[s \ {pick[s]}])
    <2>1. pick[s] \in s /\ pick[s] = (CHOOSE p \in s : TRUE)
      BY <1>2, <1>7
    <2>2. f[s \ {pick[s]}] \in V /\ pick[s] \in Q
      <3> HIDE DEF V, pick
      <3> QED BY <1>6, <2>1
    <2> HIDE DEF pick, V
    <2>3. h[<<pick[s], f[s \ {pick[s]}]>>] = Connect(pick[s], f[s \ {pick[s]}])
      BY <2>2
    <2> QED BY <1>6, <1>7, <2>1, <2>3
  <1>8. f = step(f)
    <2>1. \A s \in SUBSET Q : f[s] = step(f)[s]
      <3> HIDE DEF pick, h, V
      <3> QED BY <1>6, <1>7
    <2> HIDE DEF pick, h, V
    <2> QED BY <1>6, <2>1
  <1> DEFINE iter == CHOOSE g : g = step(g)
  <1>9. iter = step(iter)
    <2> HIDE DEF step
    <2> QED BY <1>8
  <1>10. FoldSet(Connect, ds, Q) = iter[Q]
    BY DEF FoldSet, MapThenFoldSet
  <1> HIDE DEF iter
  <1>11. iter[{}] = ds
    BY <1>9
  <1>12. ASSUME NEW s \in SUBSET Q, s # {}
         PROVE  \E p \in s : iter[s] = Connect(p, iter[s \ {p}])
    <2>1. iter[s] = Connect((CHOOSE p \in s : TRUE), iter[s \ {(CHOOSE p \in s : TRUE)}])
      BY <1>9, <1>12
    <2> QED BY <1>12, <2>1
  <1> DEFINE Good == {s \in SUBSET Q : Partitions(iter[s], T, pairs \cup s)}
  <1>13. {} \in Good
    <2>1. pairs \cup {} = pairs
      OBVIOUS
    <2> QED BY <1>11, <2>1
  <1>14. ASSUME NEW s \in SUBSET Q, s # {}
         PROVE  \E p \in s : (s \ {p} \in Good => s \in Good)
    <2>1. PICK p \in s : iter[s] = Connect(p, iter[s \ {p}])
      BY <1>12, <1>14
    <2>2. ASSUME s \ {p} \in Good PROVE s \in Good
      <3>1. Partitions(iter[s \ {p}], T, pairs \cup (s \ {p})) /\ IsPair(p, T)
        BY <2>2
      <3>2. Partitions(Connect(p, iter[s \ {p}]), T, (pairs \cup (s \ {p})) \cup {p})
        BY <3>1, ConnectPartitions
      <3>3. (pairs \cup (s \ {p})) \cup {p} = pairs \cup s
        OBVIOUS
      <3> QED BY <2>1, <3>2, <3>3
    <2> QED BY <2>2
  <1>15. SUBSET Q \subseteq Good
    <2> HIDE DEF Good
    <2> QED BY <1>13, <1>14, FiniteSetInduction
  <1> QED BY <1>10, <1>15

=============================================================================
