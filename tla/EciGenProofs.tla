----------------------------- MODULE EciGenProofs -----------------------------
(***************************************************************************)
(* The relaxed TSP solver: for every matrix, all settings and all bounds   *)
(* its sequences lose no destination and use no link that does not exist,  *)
(* the cost added up by insertions is the length of the tour, the answer's *)
(* cost can be had and its sequence is at most a tenth dearer; the brute   *)
(* force beside it answers a walk past all destinations, least where the   *)
(* matrix lets it.                                                         *)
(***************************************************************************)
EXTENDS EciGen, ShortestProofs, SequenceTheorems

-----------------------------------------------------------------------------
(* Partial sums                                                           *)

\* Partial sums do not fall.
LEMMA SumsGrow ==
  ASSUME NEW w, \A e \in DOMAIN w : w[e] \in Nat, NEW s, Len(s) \in Nat \ {0},
         NEW f, AddsUp(f, w, s), NEW j \in 1..Len(s), NEW m \in j..Len(s)
  PROVE  f[j] \in Nat /\ f[m] \in Nat /\ f[j] <= f[m]
  <1> DEFINE N == Len(s)
             Good == {k \in Nat : j + k <= N => f[j] <= f[j + k]}
  <1>1. /\ N \in Nat \ {0} /\ f \in [1..N -> Nat]
        /\ \A k \in 1..(N - 1) : f[k] <= f[k + 1]
    <2>1. /\ N \in Nat \ {0} /\ f \in [1..N -> Nat]
          /\ \A k \in 1..(N - 1) :
               <<s[k], s[k + 1]>> \in DOMAIN w /\ f[k + 1] = f[k] + w[<<s[k], s[k + 1]>>]
      BY DEF AddsUp
    <2>2. ASSUME NEW k \in 1..(N - 1) PROVE f[k] <= f[k + 1]
      <3>1. k \in 1..N
        BY <2>1
      <3> HIDE DEF N
      <3>2. f[k] \in Nat /\ w[<<s[k], s[k + 1]>>] \in Nat /\ f[k + 1] = f[k] + w[<<s[k], s[k + 1]>>]
        BY <2>1, <3>1
      <3> QED BY <3>2
    <2> QED BY <2>1, <2>2
  <1> HIDE DEF N
  <1>2. j \in 1..N /\ m \in j..N
    BY DEF N
  <1>3. 0 \in Good
    BY <1>1, <1>2
  <1>4. ASSUME NEW k \in Nat, k \in Good PROVE k + 1 \in Good
    <2> SUFFICES ASSUME j + (k + 1) <= N PROVE f[j] <= f[j + (k + 1)]
      OBVIOUS
    <2>1. /\ j + k \in 1..(N - 1) /\ (j + k) + 1 = j + (k + 1) /\ j + k <= N
          /\ j + k \in 1..N /\ j + (k + 1) \in 1..N
      BY <1>1, <1>2
    <2>2. f[j] <= f[j + k] /\ f[j + k] <= f[j + (k + 1)]
      BY <1>1, <1>4, <2>1
    <2>3. f[j] \in Nat /\ f[j + k] \in Nat /\ f[j + (k + 1)] \in Nat
      BY <1>1, <1>2, <2>1
    <2> QED BY <2>2, <2>3
  <1>5. Nat \subseteq Good
    <2> HIDE DEF Good
    <2> QED BY <1>3, <1>4, NatSetInduction
  <1>6. m - j \in Nat /\ j + (m - j) = m /\ m <= N /\ m \in 1..N
    BY <1>1, <1>2
  <1>7. m - j \in Good
    BY <1>5, <1>6
  <1> QED BY <1>1, <1>2, <1>6, <1>7

\* r is s with what lies between its ith and its jth element exchanged for other
\* elements, D more; h adds up the legs from the ith on, over the exchanged ones.
Exchanged(w, s, f, r, i, j, D, h) ==
  /\ i \in 1..Len(s) /\ j \in i..Len(s) /\ D \in Nat /\ Len(r) = Len(s) + D
  /\ \A m \in 1..i : r[m] = s[m]
  /\ \A m \in j..Len(s) : r[m + D] = s[m]
  /\ h[i] = f[i]
  /\ \A m \in i..(j + D - 1) :
       /\ <<r[m], r[m + 1]>> \in DOMAIN w
       /\ h[m] \in Nat /\ h[m + 1] = h[m] + w[<<r[m], r[m + 1]>>]

\* The rest keeps its length.
LEMMA ExchangedLeads ==
  ASSUME NEW V, NEW w, \A e \in DOMAIN w : w[e] \in Nat,
         NEW s \in Seq(V), s # <<>>, NEW f, AddsUp(f, w, s),
         NEW r \in Seq(V), NEW i, NEW j, NEW D, NEW h, Exchanged(w, s, f, r, i, j, D, h)
  PROVE  Leads(V, w, r, s[1], s[Len(s)], f[Len(s)] + (h[j + D] - f[j]))
  <1> DEFINE N == Len(s)
             M == Len(r)
  <1>1. /\ N \in Nat \ {0} /\ f \in [1..N -> Nat] /\ f[1] = 0
        /\ \A k \in 1..(N - 1) :
             <<s[k], s[k + 1]>> \in DOMAIN w /\ f[k + 1] = f[k] + w[<<s[k], s[k + 1]>>]
    BY DEF AddsUp
  <1>2. /\ i \in 1..N /\ j \in i..N /\ D \in Nat /\ M = N + D
        /\ \A m \in 1..i : r[m] = s[m]
        /\ \A m \in j..N : r[m + D] = s[m]
        /\ h[i] = f[i]
        /\ \A m \in i..(j + D - 1) :
             /\ <<r[m], r[m + 1]>> \in DOMAIN w
             /\ h[m] \in Nat /\ h[m + 1] = h[m] + w[<<r[m], r[m + 1]>>]
    BY DEF Exchanged
  <1>3. \A m \in j..N : f[j] \in Nat /\ f[m] \in Nat /\ f[j] <= f[m]
    <2> SUFFICES ASSUME NEW m \in j..N PROVE f[j] \in Nat /\ f[m] \in Nat /\ f[j] <= f[m]
      OBVIOUS
    <2>1. j \in 1..N
      BY <1>1, <1>2
    <2> QED BY <1>1, <2>1, SumsGrow
  <1>4. \A m \in i..(j + D) : h[m] \in Nat
    <2> SUFFICES ASSUME NEW m \in i..(j + D) PROVE h[m] \in Nat
      OBVIOUS
    <2>1. CASE m < j + D
      <3>1. m \in i..(j + D - 1)
        BY <1>1, <1>2, <2>1
      <3> HIDE DEF N, M
      <3> QED BY <1>2, <3>1
    <2>2. CASE m = j + D /\ m = i
      BY <1>1, <1>2, <2>2
    <2>3. CASE m = j + D /\ m # i
      <3> DEFINE k == m - 1
      <3>1. k \in i..(j + D - 1) /\ k + 1 = m
        BY <1>1, <1>2, <2>3
      <3> HIDE DEF k
      <3>2. h[k] \in Nat /\ w[<<r[k], r[k + 1]>>] \in Nat /\ h[k + 1] = h[k] + w[<<r[k], r[k + 1]>>]
        BY <1>2, <3>1
      <3> QED BY <3>1, <3>2
    <2>4. m \in Int /\ j + D \in Int /\ m <= j + D
      BY <1>1, <1>2
    <2> QED BY <2>1, <2>2, <2>3, <2>4
  <1> HIDE DEF N, M
  <1> DEFINE g == [m \in 1..M |-> IF m <= i THEN f[m]
                                  ELSE IF m <= j + D THEN h[m]
                                  ELSE (f[m - D] - f[j]) + h[j + D]]
  <1>5. M \in Nat \ {0} /\ 1 \in 1..M /\ M \in 1..M /\ j + D \in i..(j + D) /\ N \in j..N
    BY <1>1, <1>2
  <1>6. ASSUME NEW m \in 1..M, m <= i PROVE g[m] = f[m] /\ r[m] = s[m] /\ m \in 1..N
    BY <1>1, <1>2, <1>6
  <1>7. ASSUME NEW m \in i..(j + D) PROVE g[m] = h[m] /\ m \in 1..M
    <2>1. m \in 1..M /\ m <= j + D /\ m >= i /\ m \in Int
      BY <1>1, <1>2
    <2>2. CASE m = i
      BY <1>2, <2>1, <2>2
    <2>3. CASE m # i
      <3>1. ~ m <= i
        BY <1>2, <2>1, <2>3
      <3> QED BY <2>1, <3>1
    <2> QED BY <2>1, <2>2, <2>3
  <1>8. ASSUME NEW m \in (j + D)..M
        PROVE  /\ g[m] = (f[m - D] - f[j]) + h[j + D] /\ m \in 1..M /\ m - D \in j..N
               /\ (m - D) + D = m
    <2>1. /\ m \in 1..M /\ m >= j + D /\ m \in Int /\ m - D \in j..N /\ (m - D) + D = m
          /\ j + D \in i..(j + D) /\ (j + D) - D = j
      BY <1>1, <1>2
    <2>2. CASE m = j + D
      <3>1. g[m] = h[m]
        BY <1>7, <2>1, <2>2
      <3>2. f[j] \in Nat /\ h[m] \in Nat
        BY <1>3, <1>4, <2>1, <2>2
      <3> HIDE DEF g
      <3> QED BY <2>1, <2>2, <3>1, <3>2
    <2>3. CASE m # j + D
      <3>1. ~ m <= i /\ ~ m <= j + D
        BY <1>2, <2>1, <2>3
      <3> QED BY <2>1, <3>1
    <2> QED BY <2>2, <2>3
  <1>9. \A m \in 1..M : m \in 1..i \/ m \in i..(j + D) \/ m \in (j + D)..M
    BY <1>1, <1>2
  <1>10. g \in [1..M -> Nat]
    <2>1. ASSUME NEW m \in 1..M PROVE g[m] \in Nat
      <3> HIDE DEF g
      <3>1. CASE m \in 1..i
        <4>1. m <= i
          BY <3>1
        <4> QED BY <1>1, <1>6, <4>1
      <3>2. CASE m \in i..(j + D)
        BY <1>4, <1>7, <3>2
      <3>3. CASE m \in (j + D)..M
        <4>1. g[m] = (f[m - D] - f[j]) + h[j + D] /\ m - D \in j..N
          BY <1>8, <3>3
        <4>2. f[m - D] \in Nat /\ f[j] \in Nat /\ f[j] <= f[m - D] /\ h[j + D] \in Nat
          BY <1>3, <1>4, <1>5, <4>1
        <4> QED BY <4>1, <4>2
      <3> QED BY <1>9, <3>1, <3>2, <3>3
    <2> QED BY <2>1
  <1> HIDE DEF g
  <1>11. ASSUME NEW m \in 1..(M - 1)
         PROVE  <<r[m], r[m + 1]>> \in DOMAIN w /\ g[m + 1] = g[m] + w[<<r[m], r[m + 1]>>]
    <2>1. m \in 1..M /\ m + 1 \in 1..M /\ m \in Int
      BY <1>5
    <2>2. CASE m < i
      <3>1. m + 1 <= i /\ m <= i /\ m \in 1..(N - 1)
        BY <1>1, <1>2, <2>1, <2>2
      <3>2. g[m] = f[m] /\ r[m] = s[m] /\ g[m + 1] = f[m + 1] /\ r[m + 1] = s[m + 1]
        BY <1>6, <2>1, <3>1
      <3> QED BY <1>1, <3>1, <3>2
    <2>3. CASE m >= i /\ m < j + D
      <3>1. m \in i..(j + D) /\ m + 1 \in i..(j + D) /\ m \in i..(j + D - 1)
        BY <1>2, <2>1, <2>3
      <3>2. g[m] = h[m] /\ g[m + 1] = h[m + 1]
        BY <1>7, <3>1
      <3> QED BY <1>2, <3>1, <3>2
    <2>4. CASE m >= j + D
      <3> DEFINE k == m - D
      <3>1. /\ m \in (j + D)..M /\ m + 1 \in (j + D)..M /\ k \in j..N /\ k + 1 \in j..N
            /\ k \in 1..(N - 1) /\ k + D = m /\ (k + 1) + D = m + 1 /\ (m + 1) - D = k + 1
        BY <1>1, <1>2, <2>1, <2>4
      <3>2. g[m] = (f[k] - f[j]) + h[j + D] /\ g[m + 1] = (f[k + 1] - f[j]) + h[j + D]
        BY <1>8, <3>1
      <3> HIDE DEF k
      <3>3. r[m] = s[k] /\ r[m + 1] = s[k + 1]
        BY <1>2, <3>1
      <3>4. /\ <<s[k], s[k + 1]>> \in DOMAIN w /\ f[k + 1] = f[k] + w[<<s[k], s[k + 1]>>]
            /\ w[<<s[k], s[k + 1]>>] \in Nat
        BY <1>1, <3>1
      <3>5. f[k] \in Nat /\ f[k + 1] \in Nat /\ f[j] \in Nat /\ h[j + D] \in Nat
        BY <1>3, <1>4, <1>5, <3>1
      <3> DEFINE x == w[<<s[k], s[k + 1]>>]
      <3>6. w[<<r[m], r[m + 1]>>] = x /\ x \in Nat /\ f[k + 1] = f[k] + x
        BY <3>3, <3>4
      <3> HIDE DEF x
      <3>7. g[m + 1] = g[m] + x
        BY <3>2, <3>5, <3>6
      <3> QED BY <3>3, <3>4, <3>6, <3>7
    <2>5. i \in Int /\ j + D \in Int
      BY <1>2
    <2> QED BY <2>1, <2>2, <2>3, <2>4, <2>5
  <1>12. AddsUp(g, w, r)
    <2>1. g[1] = 0
      <3>1. 1 <= i /\ 1 \in 1..M
        BY <1>1, <1>2, <1>5
      <3> QED BY <1>1, <1>6, <3>1
    <2> QED BY <1>10, <1>11, <2>1 DEF AddsUp, M
  <1>13. r[1] = s[1] /\ r[M] = s[N] /\ g[M] = f[N] + (h[j + D] - f[j])
    <2>1. 1 \in 1..i /\ M \in (j + D)..M /\ M - D = N /\ N + D = M
      BY <1>1, <1>2
    <2>2. g[M] = (f[N] - f[j]) + h[j + D]
      BY <1>8, <2>1
    <2>3. f[N] \in Nat /\ f[j] \in Nat /\ h[j + D] \in Nat
      BY <1>3, <1>4, <1>5
    <2>4. r[M] = s[N]
      BY <1>2, <1>5, <2>1
    <2>5. g[M] = f[N] + (h[j + D] - f[j])
      BY <2>2, <2>3
    <2>6. r[1] = s[1]
      BY <1>2, <2>1
    <2> QED BY <2>4, <2>5, <2>6
  <1> QED BY <1>5, <1>12, <1>13 DEF Leads, M, N

\* A list of at most four legs adds up to what they add up to.
LEMMA TotalOfFew ==
  ASSUME NEW w, NEW N \in 0..4, NEW L, DOMAIN L = 1..N, \A k \in 1..N : w[L[k]] \in Nat
  PROVE  Total(w, L) = (IF N >= 1 THEN w[L[1]] ELSE 0) + (IF N >= 2 THEN w[L[2]] ELSE 0)
                         + (IF N >= 3 THEN w[L[3]] ELSE 0) + (IF N >= 4 THEN w[L[4]] ELSE 0)
  <1> DEFINE v == [k \in 1..N |-> w[L[k]]]
             a == IF N >= 1 THEN w[L[1]] ELSE 0
             b == IF N >= 2 THEN w[L[2]] ELSE 0
             c == IF N >= 3 THEN w[L[3]] ELSE 0
             d == IF N >= 4 THEN w[L[4]] ELSE 0
             f == [k \in 1..5 |-> IF k = 1 THEN 0 ELSE IF k = 2 THEN a ELSE IF k = 3 THEN a + b
                                  ELSE IF k = 4 THEN (a + b) + c ELSE ((a + b) + c) + d]
  <1>1. AreLengths(w, L, N, v)
    BY DEF AreLengths
  <1>2. PICK F : IsSum(F, 1..N, v) /\ Total(w, L) = F[1..N]
    <2> HIDE DEF v
    <2> QED BY <1>1, TotalIsSum
  <1>3. /\ a \in Nat /\ b \in Nat /\ c \in Nat /\ d \in Nat
        /\ N >= 1 => v[1] = a
        /\ N >= 2 => v[2] = b
        /\ N >= 3 => v[3] = c
        /\ N >= 4 => v[4] = d
        /\ ~ N >= 1 => a = 0
        /\ ~ N >= 2 => b = 0
        /\ ~ N >= 3 => c = 0
        /\ ~ N >= 4 => d = 0
    OBVIOUS
  <1>4. v \in [1..N -> Nat] /\ N \in Nat
    OBVIOUS
  <1> HIDE DEF v, a, b, c, d
  <1>5. IsPartialSums(f, N, v)
    <2>1. f[1] = 0 /\ f[2] = a /\ f[3] = a + b /\ f[4] = (a + b) + c /\ f[5] = ((a + b) + c) + d
      OBVIOUS
    <2> HIDE DEF f
    <2>2. ASSUME NEW k \in 1..N PROVE f[k] \in Int /\ f[k + 1] = f[k] + v[k]
      <3>1. k = 1 \/ k = 2 \/ k = 3 \/ k = 4
        OBVIOUS
      <3>2. CASE k = 1
        BY <1>3, <2>1, <3>2
      <3>3. CASE k = 2
        BY <1>3, <2>1, <3>3
      <3>4. CASE k = 3
        BY <1>3, <2>1, <3>4
      <3>5. CASE k = 4
        BY <1>3, <2>1, <3>5
      <3> QED BY <3>1, <3>2, <3>3, <3>4, <3>5
    <2> QED BY <2>1, <2>2 DEF IsPartialSums
  <1>6. F[1..N] = f[N + 1]
    <2> HIDE DEF f
    <2> QED BY <1>2, <1>4, <1>5, SumOfSteps
  <1>7. f[N + 1] = ((a + b) + c) + d
    <2>1. N = 0 \/ N = 1 \/ N = 2 \/ N = 3 \/ N = 4
      OBVIOUS
    <2> QED BY <1>3, <2>1
  <1> QED BY <1>2, <1>6, <1>7 DEF a, b, c, d

-----------------------------------------------------------------------------
(* A sequence with a stop put in                                          *)

\* A part of a list.
LEMMA PartFacts ==
  ASSUME NEW V, NEW p \in Seq(V), NEW i \in 1..(Len(p) + 1), NEW j \in (i - 1)..Len(p)
  PROVE  /\ SubSeq(p, i, j) \in Seq(V) /\ Len(SubSeq(p, i, j)) = (j - i) + 1
         /\ \A m \in 1..((j - i) + 1) : SubSeq(p, i, j)[m] = p[(i - 1) + m]
  <1> DEFINE N == Len(p)
  <1>1. N \in Nat /\ p \in [1..N -> V]
    OBVIOUS
  <1>2. i \in Nat /\ j \in Nat /\ i >= 1 /\ j <= N /\ (j - i) + 1 \in Nat /\ i <= N + 1
        /\ i - 1 <= j
    BY <1>1
  <1> HIDE DEF N
  <1>3. \A m \in 1..((j - i) + 1) : (i + m) - 1 = (i - 1) + m /\ (i - 1) + m \in 1..N
    BY <1>1, <1>2
  <1>4. SubSeq(p, i, j) \in Seq(V)
    BY <1>1, <1>2 DEF N
  <1>5. Len(SubSeq(p, i, j)) = (j - i) + 1
    <2>1. CASE i <= j
      BY <1>1, <1>2, <2>1 DEF N
    <2>2. CASE ~ i <= j
      BY <1>1, <1>2, <2>2 DEF N
    <2> QED BY <2>1, <2>2
  <1>6. ASSUME NEW m \in 1..((j - i) + 1) PROVE SubSeq(p, i, j)[m] = p[(i - 1) + m]
    <2>1. SubSeq(p, i, j)[m] = p[(i + m) - 1]
      BY <1>1, <1>2 DEF N
    <2> QED BY <1>3, <2>1
  <1> QED BY <1>4, <1>5, <1>6

IsPlace(V, p, x, k, j) == p \in Seq(V) /\ x \in V /\ k \in 1..Len(p) /\ j \in k..(Len(p) + 1)

\* r is the start of p, x, and p from j on.
IsPut(V, p, x, k, j, r) ==
  /\ r \in Seq(V) /\ Len(r) = (k + 1) + ((Len(p) - j) + 1)
  /\ \A m \in 1..k : r[m] = p[m]
  /\ r[k + 1] = x
  /\ \A m \in j..Len(p) : r[m + ((k + 2) - j)] = p[m]

\* That is what the parts of p make with x between them.
LEMMA PutBetween ==
  ASSUME NEW V, NEW p, NEW x, NEW k, NEW j, IsPlace(V, p, x, k, j)
  PROVE  IsPut(V, p, x, k, j, SubSeq(p, 1, k) \o <<x>> \o SubSeq(p, j, Len(p)))
  <1> DEFINE N == Len(p)
             a == SubSeq(p, 1, k)
             b == SubSeq(p, j, N)
             c == a \o <<x>>
             r == c \o b
             L == (N - j) + 1
  <1>0. p \in Seq(V) /\ x \in V /\ k \in 1..N /\ j \in k..(N + 1)
    BY DEF IsPlace
  <1>1. N \in Nat /\ k \in Nat /\ j \in Nat /\ k <= N /\ j >= k /\ k >= 1 /\ j <= N + 1 /\ L \in Nat
    BY <1>0
  <1>2. a \in Seq(V) /\ Len(a) = k /\ \A m \in 1..k : a[m] = p[m]
    <2>1. 1 \in 1..(N + 1) /\ k \in (1 - 1)..N /\ (k - 1) + 1 = k /\ \A m \in 1..k : (1 - 1) + m = m
      BY <1>1
    <2>2. /\ a \in Seq(V) /\ Len(a) = (k - 1) + 1
          /\ \A m \in 1..((k - 1) + 1) : a[m] = p[(1 - 1) + m]
      BY <1>0, <2>1, PartFacts
    <2> QED BY <2>1, <2>2
  <1>3. b \in Seq(V) /\ Len(b) = L /\ \A m \in 1..L : b[m] = p[(j - 1) + m]
    <2>1. j \in 1..(N + 1) /\ N \in (j - 1)..N
      BY <1>1
    <2> QED BY <1>0, <2>1, PartFacts
  <1> HIDE DEF a, b
  <1>4. /\ c \in Seq(V) /\ Len(c) = k + 1
        /\ \A m \in 1..(k + 1) : c[m] = IF m <= k THEN a[m] ELSE <<x>>[m - k]
    <2>1. <<x>> \in Seq(V) /\ Len(<<x>>) = 1
      BY <1>0
    <2>2. /\ c \in Seq(V) /\ Len(c) = Len(a) + Len(<<x>>)
          /\ \A m \in 1..(Len(a) + Len(<<x>>)) :
               c[m] = IF m <= Len(a) THEN a[m] ELSE <<x>>[m - Len(a)]
      BY <1>2, <2>1, ListsJoined
    <2> QED BY <1>2, <2>1, <2>2
  <1>5. (\A m \in 1..k : c[m] = p[m]) /\ c[k + 1] = x
    <2>1. \A m \in 1..k : c[m] = p[m]
      BY <1>1, <1>2, <1>4
    <2>2. c[k + 1] = x
      <3>1. k + 1 \in 1..(k + 1) /\ ~ k + 1 <= k /\ (k + 1) - k = 1 /\ <<x>>[1] = x
        BY <1>1
      <3> QED BY <1>4, <3>1
    <2> QED BY <2>1, <2>2
  <1> HIDE DEF c
  <1>6. /\ r \in Seq(V) /\ Len(r) = (k + 1) + L
        /\ \A m \in 1..((k + 1) + L) : r[m] = IF m <= k + 1 THEN c[m] ELSE b[m - (k + 1)]
    <2>1. /\ r \in Seq(V) /\ Len(r) = Len(c) + Len(b)
          /\ \A m \in 1..(Len(c) + Len(b)) : r[m] = IF m <= Len(c) THEN c[m] ELSE b[m - Len(c)]
      BY <1>3, <1>4, ListsJoined
    <2> QED BY <1>3, <1>4, <2>1
  <1> HIDE DEF r
  <1>7. (\A m \in 1..k : r[m] = p[m]) /\ r[k + 1] = x
    <2>1. /\ k + 1 \in 1..((k + 1) + L) /\ k + 1 <= k + 1
          /\ \A m \in 1..k : m \in 1..((k + 1) + L) /\ m <= k + 1
      BY <1>1
    <2> QED BY <1>5, <1>6, <2>1
  <1>8. ASSUME NEW m \in j..N PROVE r[m + ((k + 2) - j)] = p[m]
    <2> DEFINE i == m + ((k + 2) - j)
    <2>1. /\ i \in 1..((k + 1) + L) /\ ~ i <= k + 1
          /\ i - (k + 1) \in 1..L /\ (j - 1) + (i - (k + 1)) = m
      BY <1>1
    <2> HIDE DEF i
    <2>2. r[i] = b[i - (k + 1)] /\ b[i - (k + 1)] = p[(j - 1) + (i - (k + 1))]
      BY <1>3, <1>6, <2>1
    <2> QED BY <2>1, <2>2 DEF i
  <1> QED BY <1>6, <1>7, <1>8 DEF r, c, a, b, N, L, IsPut

\* The tour after the swaps a way asks for.
Swapped(s, k, w) ==
  LET l == IF w.left THEN [s EXCEPT ![k - 1] = s[k], ![k] = s[k - 1]] ELSE s
  IN  IF w.right THEN [l EXCEPT ![k + 1] = s[k + 2], ![k + 2] = s[k + 1]] ELSE l

\* It has the same stops, two or four of them elsewhere.
LEMMA SwappedFacts ==
  ASSUME NEW V, NEW s \in Seq(V), NEW k \in 1..Len(s), NEW w \in Way, Fits(s, k, w),
         w.kind = "sequence"
  PROVE  LET p == Swapped(s, k, w)
         IN  /\ p \in Seq(V) /\ Len(p) = Len(s)
             /\ \A m \in 1..Len(s) :
                  p[m] = IF w.left /\ m = k - 1 THEN s[k]
                         ELSE IF w.left /\ m = k THEN s[k - 1]
                         ELSE IF w.right /\ m = k + 1 THEN s[k + 2]
                         ELSE IF w.right /\ m = k + 2 THEN s[k + 1]
                         ELSE s[m]
  <1> DEFINE N == Len(s)
             l == IF w.left THEN [s EXCEPT ![k - 1] = s[k], ![k] = s[k - 1]] ELSE s
             p == IF w.right THEN [l EXCEPT ![k + 1] = s[k + 2], ![k + 2] = s[k + 1]] ELSE l
  <1>1. /\ N \in Nat /\ s \in [1..N -> V] /\ k \in 1..N
        /\ w.left \in BOOLEAN /\ w.right \in BOOLEAN /\ k < N
        /\ w.left => k > 2
        /\ w.right => k + 3 <= N
    <2>1. w.left \in BOOLEAN /\ w.right \in BOOLEAN
      BY DEF Way
    <2>2. k < N /\ (w.left => k > 2) /\ (w.right => k + 3 <= N)
      BY DEF Fits
    <2> QED BY <2>1, <2>2
  <1> HIDE DEF N
  <1>2. /\ l \in [1..N -> V]
        /\ \A m \in 1..N : l[m] = IF w.left /\ m = k - 1 THEN s[k]
                                  ELSE IF w.left /\ m = k THEN s[k - 1] ELSE s[m]
    <2>1. CASE w.left
      <3>1. k - 1 \in 1..N /\ k \in 1..N /\ k - 1 # k
        BY <1>1, <2>1
      <3>2. s[k] \in V /\ s[k - 1] \in V
        BY <1>1, <3>1
      <3>3. l = [m \in 1..N |-> IF m = k THEN s[k - 1] ELSE IF m = k - 1 THEN s[k] ELSE s[m]]
        BY <1>1, <2>1, <3>1
      <3> HIDE DEF l
      <3> QED BY <1>1, <2>1, <3>1, <3>2, <3>3
    <2>2. CASE ~ w.left
      BY <1>1, <2>2
    <2> QED BY <2>1, <2>2
  <1> HIDE DEF l
  <1>3. /\ p \in [1..N -> V]
        /\ \A m \in 1..N : p[m] = IF w.right /\ m = k + 1 THEN s[k + 2]
                                  ELSE IF w.right /\ m = k + 2 THEN s[k + 1] ELSE l[m]
    <2>1. CASE w.right
      <3>1. k + 1 \in 1..N /\ k + 2 \in 1..N /\ k + 1 # k + 2
        BY <1>1, <2>1
      <3>2. s[k + 1] \in V /\ s[k + 2] \in V
        BY <1>1, <3>1
      <3>3. p = [m \in 1..N |-> IF m = k + 2 THEN s[k + 1] ELSE IF m
            = k + 1 THEN s[k + 2] ELSE l[m]]
        BY <1>2, <2>1, <3>1
      <3> HIDE DEF p
      <3> QED BY <1>2, <2>1, <3>1, <3>2, <3>3
    <2>2. CASE ~ w.right
      BY <1>2, <2>2
    <2> QED BY <2>1, <2>2
  <1> HIDE DEF p
  <1>4. ASSUME NEW m \in 1..N
        PROVE  p[m] = IF w.left /\ m = k - 1 THEN s[k]
                         ELSE IF w.left /\ m = k THEN s[k - 1]
                         ELSE IF w.right /\ m = k + 1 THEN s[k + 2]
                         ELSE IF w.right /\ m = k + 2 THEN s[k + 1]
                         ELSE s[m]
    <2>1. k - 1 # k + 1 /\ k - 1 # k + 2 /\ k # k + 1 /\ k # k + 2
      BY <1>1
    <2> QED BY <1>2, <1>3, <2>1
  <1>5. p \in Seq(V) /\ Len(p) = N
    BY <1>1, <1>3
  <1> QED BY <1>4, <1>5 DEF Swapped, p, l, N

\* The tour with x inserted: the swapped one with x after its kth stop, or x and the
\* kth stop once more.
LEMMA InsertedFacts ==
  ASSUME NEW V, NEW s \in Seq(V), NEW k \in 1..Len(s), NEW w \in Way, Fits(s, k, w), NEW x \in V
  PROVE  LET r == Inserted(s, k, x, w)
             p == IF w.kind = "revisit" THEN s ELSE Swapped(s, k, w)
             D == IF w.kind = "revisit" THEN 2 ELSE 1
         IN  /\ r \in Seq(V) /\ Len(r) = Len(s) + D
             /\ \A m \in 1..k : r[m] = p[m]
             /\ r[k + 1] = x
             /\ \A m \in (k + 2 - D)..Len(s) : r[m + D] = p[m]
  <1> DEFINE N == Len(s)
             r == Inserted(s, k, x, w)
  <1>1. N \in Nat /\ k \in 1..N /\ (w.kind = "revisit" \/ w.kind = "sequence")
    <2>1. \/ w \in [kind : {"revisit"}, left : {FALSE}, right : {FALSE}]
          \/ w \in [kind : {"sequence"}, left : BOOLEAN, right : BOOLEAN]
      BY DEF Way
    <2>2. w.kind = "revisit" \/ w.kind = "sequence"
      BY <2>1
    <2> QED BY <2>2
  <1>2. CASE w.kind = "revisit"
    <2>1. r = SubSeq(s, 1, k) \o <<x>> \o SubSeq(s, k, N)
      BY <1>2 DEF Inserted
    <2>2. k \in k..(N + 1) /\ (k + 2) - k = 2 /\ (k + 1) + ((N - k) + 1) = N + 2
      BY <1>1
    <2>3. /\ r \in Seq(V) /\ Len(r) = (k + 1) + ((N - k) + 1)
          /\ \A m \in 1..k : r[m] = s[m]
          /\ r[k + 1] = x
          /\ \A m \in k..N : r[m + ((k + 2) - k)] = s[m]
      <3> HIDE DEF r
      <3>1. IsPlace(V, s, x, k, k)
        BY <1>1, <2>2 DEF IsPlace
      <3>2. IsPut(V, s, x, k, k, r)
        BY <2>1, <3>1, PutBetween
      <3> QED BY <3>2 DEF IsPut
    <2> HIDE DEF r
    <2>4. k + 2 - 2 = k
      BY <1>1
    <2> QED BY <1>2, <2>2, <2>3, <2>4 DEF r
  <1>3. CASE w.kind = "sequence"
    <2> DEFINE p == Swapped(s, k, w)
    <2>0. k < N
      BY <1>3 DEF Fits
    <2>1. p \in Seq(V) /\ Len(p) = N
      BY <1>3, SwappedFacts
    <2>2. r = SubSeq(p, 1, k) \o <<x>> \o SubSeq(p, k + 1, N)
      <3>1. r = InsertAt(p, k + 1, x)
        BY <1>3 DEF Inserted, Swapped
      <3>2. (k + 1) - 1 = k
        BY <1>1
      <3> HIDE DEF r, p
      <3> QED BY <2>1, <3>1, <3>2 DEF InsertAt
    <2> DEFINE j == k + 1
    <2>3. /\ j \in k..(Len(p) + 1) /\ (k + 2) - j = 1 /\ (k + 1) + ((N - j) + 1) = N + 1
          /\ k \in 1..Len(p) /\ k + 2 - 1 = j /\ r = SubSeq(p, 1, k) \o <<x>>
               \o SubSeq(p, j, Len(p))
      BY <1>1, <2>0, <2>1, <2>2
    <2> HIDE DEF r, p, j
    <2>4. /\ r \in Seq(V) /\ Len(r) = (k + 1) + ((Len(p) - j) + 1)
          /\ \A m \in 1..k : r[m] = p[m]
          /\ r[k + 1] = x
          /\ \A m \in j..Len(p) : r[m + ((k + 2) - j)] = p[m]
      <3>1. IsPlace(V, p, x, k, j)
        BY <2>1, <2>3 DEF IsPlace
      <3>2. IsPut(V, p, x, k, j, r)
        BY <2>3, <3>1, PutBetween
      <3> QED BY <3>2 DEF IsPut
    <2> QED BY <1>3, <2>1, <2>3, <2>4 DEF r, p
  <1> QED BY <1>1, <1>2, <1>3

\* Partial sums of up to six numbers.
LEMMA SixSums ==
  ASSUME NEW i \in Int, NEW a \in Nat, NEW t \in [1..6 -> Nat]
  PROVE  \E h : /\ h[i] = a
                /\ \A m \in 0..5 : h[i + m] \in Nat /\ h[(i + m) + 1] = h[i + m] + t[m + 1]
                /\ h[i + 6] = a + (((((t[1] + t[2]) + t[3]) + t[4]) + t[5]) + t[6])
  <1> DEFINE s1 == a + t[1]
             s2 == s1 + t[2]
             s3 == s2 + t[3]
             s4 == s3 + t[4]
             s5 == s4 + t[5]
             s6 == s5 + t[6]
             h == [m \in i..(i + 6) |->
                     IF m = i THEN a ELSE IF m = i + 1 THEN s1 ELSE IF m = i + 2 THEN s2
                     ELSE IF m = i + 3 THEN s3 ELSE IF m = i + 4 THEN s4
                     ELSE IF m = i + 5 THEN s5 ELSE s6]
  <1>1. /\ t[1] \in Nat /\ t[2] \in Nat /\ t[3] \in Nat /\ t[4] \in Nat /\ t[5] \in Nat
             /\ t[6] \in Nat
        /\ s1 \in Nat /\ s2 \in Nat /\ s3 \in Nat /\ s4 \in Nat /\ s5 \in Nat /\ s6 \in Nat
    OBVIOUS
  <1>2. s6 = a + (((((t[1] + t[2]) + t[3]) + t[4]) + t[5]) + t[6])
    BY <1>1
  <1>3. /\ s1 = a + t[1] /\ s2 = s1 + t[2] /\ s3 = s2 + t[3] /\ s4 = s3 + t[4]
        /\ s5 = s4 + t[5] /\ s6 = s5 + t[6]
    OBVIOUS
  <1> HIDE DEF s1, s2, s3, s4, s5, s6
  <1>4. /\ h[i] = a /\ h[i + 1] = s1 /\ h[i + 2] = s2 /\ h[i + 3] = s3
        /\ h[i + 4] = s4 /\ h[i + 5] = s5 /\ h[i + 6] = s6
    OBVIOUS
  <1> HIDE DEF h
  <1>5. ASSUME NEW m \in 0..5
        PROVE  h[i + m] \in Nat /\ h[(i + m) + 1] = h[i + m] + t[m + 1]
    <2>1. m = 0 \/ m = 1 \/ m = 2 \/ m = 3 \/ m = 4 \/ m = 5
      OBVIOUS
    <2>2. /\ i + 0 = i /\ (i + 0) + 1 = i + 1 /\ (i + 1) + 1 = i + 2 /\ (i + 2) + 1 = i + 3
          /\ (i + 3) + 1 = i + 4 /\ (i + 4) + 1 = i + 5 /\ (i + 5) + 1 = i + 6
      OBVIOUS
    <2>3. CASE m = 0
      BY <1>1, <1>3, <1>4, <2>2, <2>3
    <2>4. CASE m = 1
      BY <1>1, <1>3, <1>4, <2>2, <2>4
    <2>5. CASE m = 2
      BY <1>1, <1>3, <1>4, <2>2, <2>5
    <2>6. CASE m = 3
      BY <1>1, <1>3, <1>4, <2>2, <2>6
    <2>7. CASE m = 4
      BY <1>1, <1>3, <1>4, <2>2, <2>7
    <2>8. CASE m = 5
      BY <1>1, <1>3, <1>4, <2>2, <2>8
    <2> QED BY <2>1, <2>3, <2>4, <2>5, <2>6, <2>7, <2>8
  <1> QED BY <1>2, <1>4, <1>5

\* r is s with what lies between its ith and its jth element exchanged, D more; from
\* the ith on there are L legs, of the lengths t, in place of legs of the length e.
InPlaceOf(w, s, r, i, j, D, L, t, e) ==
  /\ i \in 1..Len(s) /\ j \in i..Len(s) /\ D \in Nat /\ Len(r) = Len(s) + D
  /\ \A m \in 1..i : r[m] = s[m]
  /\ \A m \in j..Len(s) : r[m + D] = s[m]
  /\ L \in 0..6 /\ i + L = j + D /\ t \in [1..6 -> Nat]
  /\ \A m \in 1..L : /\ <<r[(i + m) - 1], r[i + m]>> \in DOMAIN w
                     /\ w[<<r[(i + m) - 1], r[i + m]>>] = t[m]
  /\ \A m \in (L + 1)..6 : t[m] = 0
  /\ e \in Nat /\ \A f : AddsUp(f, w, s) => f[j] = f[i] + e

\* The length changes by what the legs differ.
LEMMA InPlaceLeads ==
  ASSUME NEW V, NEW w, \A p \in DOMAIN w : w[p] \in Nat,
         NEW s, NEW a, NEW b, NEW c, Leads(V, w, s, a, b, c),
         NEW r \in Seq(V), NEW i, NEW j, NEW D, NEW L, NEW t, NEW e,
         InPlaceOf(w, s, r, i, j, D, L, t, e)
  PROVE  Leads(V, w, r, a, b, c + ((((((t[1] + t[2]) + t[3]) + t[4]) + t[5]) + t[6]) - e))
  <1> DEFINE N == Len(s)
             T == ((((t[1] + t[2]) + t[3]) + t[4]) + t[5]) + t[6]
  <1>1. PICK f : AddsUp(f, w, s) /\ f[N] = c
    BY DEF Leads
  <1>2. /\ s \in Seq(V) /\ N \in Nat \ {0} /\ s # <<>> /\ s[1] = a /\ s[N] = b
        /\ f \in [1..N -> Nat]
    <2>1. s \in Seq(V) /\ N \in Nat \ {0} /\ s[1] = a /\ s[N] = b
      BY DEF Leads
    <2>2. f \in [1..N -> Nat]
      BY <1>1 DEF AddsUp
    <2>3. s # <<>>
      BY <2>1
    <2> QED BY <2>1, <2>2, <2>3
  <1>3. /\ i \in 1..N /\ j \in i..N /\ D \in Nat /\ Len(r) = N + D
        /\ \A m \in 1..i : r[m] = s[m]
        /\ \A m \in j..N : r[m + D] = s[m]
        /\ L \in 0..6 /\ i + L = j + D /\ t \in [1..6 -> Nat]
        /\ \A m \in 1..L : /\ <<r[(i + m) - 1], r[i + m]>> \in DOMAIN w
                           /\ w[<<r[(i + m) - 1], r[i + m]>>] = t[m]
        /\ \A m \in (L + 1)..6 : t[m] = 0
        /\ e \in Nat /\ f[j] = f[i] + e
    BY <1>1 DEF InPlaceOf
  <1>11. /\ i \in 1..N /\ j \in i..N /\ D \in Nat /\ L \in 0..6 /\ i + L = j + D
         /\ t \in [1..6 -> Nat] /\ e \in Nat /\ f[j] = f[i] + e
         /\ N \in Nat \ {0} /\ f \in [1..N -> Nat]
    BY <1>2, <1>3
  <1> HIDE DEF N
  <1>12. /\ \A m \in 1..L : /\ <<r[(i + m) - 1], r[i + m]>> \in DOMAIN w
                            /\ w[<<r[(i + m) - 1], r[i + m]>>] = t[m]
         /\ \A m \in (L + 1)..6 : t[m] = 0
    BY <1>3
  <1>4. i \in Int /\ f[i] \in Nat /\ f[j] \in Nat /\ j \in 1..N /\ f[N] \in Nat
    <2>1. i \in Int /\ j \in 1..N /\ N \in 1..N
      BY <1>11
    <2> QED BY <1>11, <2>1
  <1>5. PICK h : /\ h[i] = f[i]
                 /\ \A m \in 0..5 : h[i + m] \in Nat /\ h[(i + m) + 1] = h[i + m] + t[m + 1]
                 /\ h[i + 6] = f[i] + T
    BY <1>4, <1>11, SixSums
  <1>6. /\ t[1] \in Nat /\ t[2] \in Nat /\ t[3] \in Nat /\ t[4] \in Nat /\ t[5] \in Nat
        /\ t[6] \in Nat /\ T \in Nat
    <2>1. /\ t[1] \in Nat /\ t[2] \in Nat /\ t[3] \in Nat /\ t[4] \in Nat /\ t[5] \in Nat
          /\ t[6] \in Nat
      BY <1>11
    <2>2. \A x1, x2, x3, x4, x5, x6 \in Nat : ((((x1 + x2) + x3) + x4) + x5) + x6 \in Nat
      OBVIOUS
    <2>3. T \in Nat
      BY <2>1, <2>2
    <2> QED BY <2>1, <2>3
  <1> HIDE DEF T
  <1>7. h[i + L] = f[i] + T
    <2>1. /\ h[i + 1] = h[i] + t[1] /\ h[i + 2] = h[i + 1] + t[2] /\ h[i + 3] = h[i + 2] + t[3]
          /\ h[i + 4] = h[i + 3] + t[4] /\ h[i + 5] = h[i + 4] + t[5] /\ h[i + 6] = h[i + 5] + t[6]
          /\ h[i] \in Nat /\ h[i + 1] \in Nat /\ h[i + 2] \in Nat /\ h[i + 3] \in Nat
          /\ h[i + 4] \in Nat /\ h[i + 5] \in Nat
      <3>1. /\ h[i + 0] \in Nat /\ h[(i + 0) + 1] = h[i + 0] + t[0 + 1]
            /\ h[i + 1] \in Nat /\ h[(i + 1) + 1] = h[i + 1] + t[1 + 1]
            /\ h[i + 2] \in Nat /\ h[(i + 2) + 1] = h[i + 2] + t[2 + 1]
            /\ h[i + 3] \in Nat /\ h[(i + 3) + 1] = h[i + 3] + t[3 + 1]
            /\ h[i + 4] \in Nat /\ h[(i + 4) + 1] = h[i + 4] + t[4 + 1]
            /\ h[i + 5] \in Nat /\ h[(i + 5) + 1] = h[i + 5] + t[5 + 1]
        BY <1>5
      <3>2. /\ i + 0 = i /\ (i + 0) + 1 = i + 1 /\ (i + 1) + 1 = i + 2 /\ (i + 2) + 1 = i + 3
            /\ (i + 3) + 1 = i + 4 /\ (i + 4) + 1 = i + 5 /\ (i + 5) + 1 = i + 6
        BY <1>4
      <3> QED BY <3>1, <3>2
    <2>2. /\ (L = 0 \/ L = 1 \/ L = 2 \/ L = 3 \/ L = 4 \/ L = 5 \/ L = 6)
          /\ (L <= 0 => t[1] = 0) /\ (L <= 1 => t[2] = 0) /\ (L <= 2 => t[3] = 0)
          /\ (L <= 3 => t[4] = 0) /\ (L <= 4 => t[5] = 0) /\ (L <= 5 => t[6] = 0)
          /\ i + 0 = i
      <3>1. L \in 0..6 /\ \A m \in (L + 1)..6 : t[m] = 0
        BY <1>11, <1>12
      <3>2. i + 0 = i
        BY <1>4
      <3> QED BY <3>1, <3>2
    <2>3. /\ L <= 5 => h[i + 6] = h[i + 5]
          /\ L <= 4 => h[i + 5] = h[i + 4]
          /\ L <= 3 => h[i + 4] = h[i + 3]
          /\ L <= 2 => h[i + 3] = h[i + 2]
          /\ L <= 1 => h[i + 2] = h[i + 1]
          /\ L <= 0 => h[i + 1] = h[i]
      BY <2>1, <2>2
    <2>4. h[i + L] = h[i + 6]
      <3>1. CASE L = 0
        BY <2>2, <2>3, <3>1
      <3>2. CASE L = 1
        BY <2>3, <3>2
      <3>3. CASE L = 2
        BY <2>3, <3>3
      <3>4. CASE L = 3
        BY <2>3, <3>4
      <3>5. CASE L = 4
        BY <2>3, <3>5
      <3>6. CASE L = 5
        BY <2>3, <3>6
      <3>7. CASE L = 6
        BY <3>7
      <3> QED BY <2>2, <3>1, <3>2, <3>3, <3>4, <3>5, <3>6, <3>7
    <2> QED BY <1>5, <2>4
  <1>8. Exchanged(w, s, f, r, i, j, D, h)
    <2>1. ASSUME NEW m \in i..(j + D - 1)
          PROVE  /\ <<r[m], r[m + 1]>> \in DOMAIN w
                 /\ h[m] \in Nat /\ h[m + 1] = h[m] + w[<<r[m], r[m + 1]>>]
      <3> DEFINE k == m - i
      <3>1. k \in 0..5 /\ k + 1 \in 1..L /\ i + k = m /\ (i + (k + 1)) - 1 = m /\ i + (k + 1)
            = m + 1
        <4>1. i \in Int /\ L \in 0..6 /\ i + L = j + D /\ j \in Int /\ D \in Int
          BY <1>4, <1>11
        <4>2. m \in i..(i + L - 1)
          BY <4>1
        <4> QED BY <4>1, <4>2
      <3> HIDE DEF k
      <3>2. h[i + k] \in Nat /\ h[(i + k) + 1] = h[i + k] + t[k + 1]
        BY <1>5, <3>1
      <3>3. <<r[m], r[m + 1]>> \in DOMAIN w /\ w[<<r[m], r[m + 1]>>] = t[k + 1]
        <4> DEFINE n == k + 1
        <4>1. n \in 1..L /\ (i + n) - 1 = m /\ i + n = m + 1
          BY <3>1
        <4> HIDE DEF n
        <4>2. <<r[(i + n) - 1], r[i + n]>> \in DOMAIN w /\ w[<<r[(i + n) - 1], r[i + n]>>] = t[n]
          BY <1>12, <4>1
        <4> QED BY <4>1, <4>2 DEF n
      <3> QED BY <3>1, <3>2, <3>3
    <2> QED BY <1>3, <1>5, <2>1 DEF Exchanged, N
  <1>9. Leads(V, w, r, s[1], s[N], f[N] + (h[j + D] - f[j]))
    BY <1>1, <1>2, <1>8, ExchangedLeads DEF N
  <1>10. f[N] + (h[j + D] - f[j]) = c + (T - e)
    <2>1. h[i + L] = h[j + D]
      BY <1>11
    <2>2. f[j] = f[i] + e /\ e \in Nat
      BY <1>11
    <2>3. h[j + D] = f[i] + T /\ f[N] = c
      BY <1>1, <1>7, <2>1
    <2> QED BY <1>4, <1>6, <2>2, <2>3
  <1> QED BY <1>2, <1>9, <1>10 DEF T

\* Lists of one and two, one after the other.
LEMMA ShortLists ==
  ASSUME NEW W, NEW a \in W, NEW b \in W, NEW c \in W, NEW d \in W
  PROVE  /\ LET u == <<a>> \o <<b>>
            IN  u \in Seq(W) /\ Len(u) = 2 /\ u[1] = a /\ u[2] = b
         /\ LET u == <<a, b>> \o <<c>>
            IN  u \in Seq(W) /\ Len(u) = 3 /\ u[1] = a /\ u[2] = b /\ u[3] = c
         /\ LET u == <<a>> \o <<b, c>>
            IN  u \in Seq(W) /\ Len(u) = 3 /\ u[1] = a /\ u[2] = b /\ u[3] = c
         /\ LET u == <<a, b>> \o <<c, d>>
            IN  u \in Seq(W) /\ Len(u) = 4 /\ u[1] = a /\ u[2] = b /\ u[3] = c /\ u[4] = d
  <1>1. LET u == <<a>> \o <<b>>
        IN  u \in Seq(W) /\ Len(u) = 2 /\ u[1] = a /\ u[2] = b
    OBVIOUS
  <1>2. LET u == <<a, b>> \o <<c>>
        IN  u \in Seq(W) /\ Len(u) = 3 /\ u[1] = a /\ u[2] = b /\ u[3] = c
    OBVIOUS
  <1>3. LET u == <<a>> \o <<b, c>>
        IN  u \in Seq(W) /\ Len(u) = 3 /\ u[1] = a /\ u[2] = b /\ u[3] = c
    OBVIOUS
  <1>4. LET u == <<a, b>> \o <<c, d>>
        IN  u \in Seq(W) /\ Len(u) = 4 /\ u[1] = a /\ u[2] = b /\ u[3] = c /\ u[4] = d
    OBVIOUS
  <1> QED BY <1>1, <1>2, <1>3, <1>4

\* Lengths that are the same both ways.
IsTwoWayLength(en) ==
  /\ \A p \in DOMAIN en : en[p] \in Nat
  /\ \A a, b : <<a, b>> \in DOMAIN en => <<b, a>> \in DOMAIN en /\ en[<<b, a>>] = en[<<a, b>>]

\* x can go into s at k in the way w.
CanInsert(V, en, s, k, x, w) ==
  /\ s \in Seq(V) /\ k \in 1..Len(s) /\ x \in V /\ w \in Way /\ Fits(s, k, w)
  /\ ToSet(Added(s, k, x, w)) \subseteq DOMAIN en

\* A list of at most four legs adds up to what they add up to.
LEMMA ShortTotals ==
  ASSUME NEW en, IsTwoWayLength(en), NEW W, NEW L \in Seq(W), Len(L) \in 0..4,
         ToSet(L) \subseteq DOMAIN en
  PROVE  /\ \A k \in 1..Len(L) : L[k] \in DOMAIN en /\ en[L[k]] \in Nat
         /\ Len(L) = 0 => Total(en, L) = 0
         /\ Len(L) = 1 => Total(en, L) = en[L[1]]
         /\ Len(L) = 2 => Total(en, L) = en[L[1]] + en[L[2]]
         /\ Len(L) = 3 => Total(en, L) = (en[L[1]] + en[L[2]]) + en[L[3]]
         /\ Len(L) = 4 => Total(en, L) = ((en[L[1]] + en[L[2]]) + en[L[3]]) + en[L[4]]
  <1> DEFINE N == Len(L)
  <1>1. DOMAIN L = 1..N /\ N \in 0..4
    OBVIOUS
  <1> HIDE DEF N
  <1>2. \A k \in 1..N : L[k] \in DOMAIN en /\ en[L[k]] \in Nat
    BY <1>1 DEF ToSet, IsTwoWayLength
  <1>3. Total(en, L) = (IF N >= 1 THEN en[L[1]] ELSE 0) + (IF N >= 2 THEN en[L[2]] ELSE 0)
                         + (IF N >= 3 THEN en[L[3]] ELSE 0) + (IF N >= 4 THEN en[L[4]] ELSE 0)
    BY <1>1, <1>2, TotalOfFew
  <1>4. N = 0 => Total(en, L) = 0
    BY <1>3
  <1>5. N = 1 => Total(en, L) = en[L[1]]
    BY <1>2, <1>3
  <1>6. N = 2 => Total(en, L) = en[L[1]] + en[L[2]]
    BY <1>2, <1>3
  <1>7. N = 3 => Total(en, L) = (en[L[1]] + en[L[2]]) + en[L[3]]
    BY <1>2, <1>3
  <1>8. N = 4 => Total(en, L) = ((en[L[1]] + en[L[2]]) + en[L[3]]) + en[L[4]]
    BY <1>2, <1>3
  <1> QED BY <1>2, <1>4, <1>5, <1>6, <1>7, <1>8 DEF N

-----------------------------------------------------------------------------
(* What is added and what is taken away, written out                      *)

\* Short lists written out.
LEMMA ListsWritten ==
  ASSUME NEW W, NEW a \in W, NEW b \in W, NEW c \in W
  PROVE  /\ <<a>> \o <<>> = <<a>> /\ <<a, b>> \o <<>> = <<a, b>>
         /\ <<a>> \o <<b>> = <<a, b>> /\ <<a, b>> \o <<c>> = <<a, b, c>>
         /\ <<a>> \o <<b, c>> = <<a, b, c>>
  <1>1. <<a>> \o <<>> = <<a>>
    OBVIOUS
  <1>2. <<a, b>> \o <<>> = <<a, b>>
    OBVIOUS
  <1>3. <<a>> \o <<b>> = <<a, b>>
    <2> DEFINE u == <<a>> \o <<b>>
               v == <<a, b>>
    <2>1. u \in Seq(W) /\ Len(u) = 2 /\ u[1] = a /\ u[2] = b
      BY ShortLists
    <2>2. v \in Seq(W) /\ Len(v) = 2 /\ v[1] = a /\ v[2] = b
      OBVIOUS
    <2> HIDE DEF u, v
    <2>3. \A i \in 1..2 : i = 1 \/ i = 2
      OBVIOUS
    <2>4. \A i \in 1..Len(u) : u[i] = v[i]
      BY <2>1, <2>2, <2>3
    <2>5. u = v
      BY <2>1, <2>2, <2>4, SeqEqual
    <2> QED BY <2>5 DEF u, v
  <1>4. <<a, b>> \o <<c>> = <<a, b, c>>
    <2> DEFINE u == <<a, b>> \o <<c>>
               v == <<a, b, c>>
    <2>1. u \in Seq(W) /\ Len(u) = 3 /\ u[1] = a /\ u[2] = b /\ u[3] = c
      BY ShortLists
    <2>2. v \in Seq(W) /\ Len(v) = 3 /\ v[1] = a /\ v[2] = b /\ v[3] = c
      OBVIOUS
    <2> HIDE DEF u, v
    <2>3. \A i \in 1..3 : i = 1 \/ i = 2 \/ i = 3
      OBVIOUS
    <2>4. \A i \in 1..Len(u) : u[i] = v[i]
      BY <2>1, <2>2, <2>3
    <2>5. u = v
      BY <2>1, <2>2, <2>4, SeqEqual
    <2> QED BY <2>5 DEF u, v
  <1>5. <<a>> \o <<b, c>> = <<a, b, c>>
    <2> DEFINE u == <<a>> \o <<b, c>>
               v == <<a, b, c>>
    <2>1. u \in Seq(W) /\ Len(u) = 3 /\ u[1] = a /\ u[2] = b /\ u[3] = c
      BY ShortLists
    <2>2. v \in Seq(W) /\ Len(v) = 3 /\ v[1] = a /\ v[2] = b /\ v[3] = c
      OBVIOUS
    <2> HIDE DEF u, v
    <2>3. \A i \in 1..3 : i = 1 \/ i = 2 \/ i = 3
      OBVIOUS
    <2>4. \A i \in 1..Len(u) : u[i] = v[i]
      BY <2>1, <2>2, <2>3
    <2>5. u = v
      BY <2>1, <2>2, <2>4, SeqEqual
    <2> QED BY <2>5 DEF u, v
  <1> QED BY <1>1, <1>2, <1>3, <1>4, <1>5

\* One of four.
LEMMA FourWritten ==
  ASSUME NEW W, NEW a \in W, NEW b \in W, NEW c \in W, NEW d \in W
  PROVE  <<a, b>> \o <<c, d>> = <<a, b, c, d>>
  <1> DEFINE u == <<a, b>> \o <<c, d>>
             v == <<a, b, c, d>>
  <1>1. u \in Seq(W) /\ Len(u) = 4 /\ u[1] = a /\ u[2] = b /\ u[3] = c /\ u[4] = d
    BY ShortLists
  <1>2. v \in Seq(W) /\ Len(v) = 4 /\ v[1] = a /\ v[2] = b /\ v[3] = c /\ v[4] = d
    OBVIOUS
  <1> HIDE DEF u, v
  <1>3. \A i \in 1..4 : i = 1 \/ i = 2 \/ i = 3 \/ i = 4
    OBVIOUS
  <1>4. \A i \in 1..Len(u) : u[i] = v[i]
    BY <1>1, <1>2, <1>3
  <1>5. u = v
    BY <1>1, <1>2, <1>4, SeqEqual
  <1> QED BY <1>5 DEF u, v

\* What is added and what is taken away, written out.
LEMMA WaysWritten ==
  ASSUME NEW s, NEW k, NEW x, NEW w
  PROVE  /\ w.kind = "revisit" =>
              /\ Added(s, k, x, w) = <<<<x, s[k]>>, <<x, s[k]>>>> /\ Removed(s, k, w) = <<>>
         /\ w.kind # "revisit" /\ ~w.left /\ ~w.right =>
              /\ Added(s, k, x, w) = <<<<s[k], x>>, <<x, s[k + 1]>>>>
              /\ Removed(s, k, w) = <<<<s[k], s[k + 1]>>>>
         /\ w.kind # "revisit" /\ w.left /\ ~w.right =>
              /\ Added(s, k, x, w) = <<<<s[k - 1], x>>, <<s[k - 2], s[k]>>, <<x, s[k + 1]>>>>
              /\ Removed(s, k, w) = <<<<s[k], s[k + 1]>>, <<s[k - 2], s[k - 1]>>>>
         /\ w.kind # "revisit" /\ ~w.left /\ w.right =>
              /\ Added(s, k, x, w) = <<<<s[k], x>>, <<s[k + 2], x>>, <<s[k + 3], s[k + 1]>>>>
              /\ Removed(s, k, w) = <<<<s[k], s[k + 1]>>, <<s[k + 3], s[k + 2]>>>>
         /\ w.kind # "revisit" /\ w.left /\ w.right =>
              /\ Added(s, k, x, w) = <<<<s[k - 1], x>>, <<s[k - 2], s[k]>>, <<s[k + 2], x>>,
                                       <<s[k + 3], s[k + 1]>>>>
              /\ Removed(s, k, w) = <<<<s[k], s[k + 1]>>, <<s[k - 2], s[k - 1]>>,
                                      <<s[k + 3], s[k + 2]>>>>
  <1> DEFINE W == {<<s[k], x>>, <<x, s[k + 1]>>, <<s[k - 1], x>>, <<s[k - 2], s[k]>>,
                   <<s[k + 2], x>>, <<s[k + 3], s[k + 1]>>, <<s[k], s[k + 1]>>,
                   <<s[k - 2], s[k - 1]>>, <<s[k + 3], s[k + 2]>>}
  <1>1. /\ <<s[k], x>> \in W /\ <<x, s[k + 1]>> \in W /\ <<s[k - 1], x>> \in W
        /\ <<s[k - 2], s[k]>> \in W /\ <<s[k + 2], x>> \in W /\ <<s[k + 3], s[k + 1]>> \in W
        /\ <<s[k], s[k + 1]>> \in W /\ <<s[k - 2], s[k - 1]>> \in W /\ <<s[k + 3], s[k + 2]>> \in W
    OBVIOUS
  <1> HIDE DEF W
  <1>2. CASE w.kind = "revisit"
    BY <1>2 DEF Added, Removed
  <1>3. CASE w.kind # "revisit" /\ ~w.left /\ ~w.right
    BY <1>1, <1>3, ListsWritten DEF Added, Removed
  <1>4. CASE w.kind # "revisit" /\ w.left /\ ~w.right
    <2>1. Added(s, k, x, w) = <<<<s[k - 1], x>>, <<s[k - 2], s[k]>>>> \o <<<<x, s[k + 1]>>>>
      BY <1>4 DEF Added
    <2>2. <<<<s[k - 1], x>>, <<s[k - 2], s[k]>>>> \o <<<<x, s[k + 1]>>>>
          = <<<<s[k - 1], x>>, <<s[k - 2], s[k]>>, <<x, s[k + 1]>>>>
      <3> DEFINE a == <<s[k - 1], x>>
                 b == <<s[k - 2], s[k]>>
                 c == <<x, s[k + 1]>>
      <3>1. a \in W /\ b \in W /\ c \in W
        BY <1>1
      <3> HIDE DEF a, b, c
      <3>2. <<a, b>> \o <<c>> = <<a, b, c>>
        BY <3>1, ListsWritten
      <3> QED BY <3>2 DEF a, b, c
    <2>3. Removed(s, k, w) = (<<<<s[k], s[k + 1]>>>> \o <<<<s[k - 2], s[k - 1]>>>>) \o <<>>
      BY <1>4 DEF Removed
    <2>4. <<<<s[k], s[k + 1]>>>> \o <<<<s[k - 2], s[k - 1]>>>>
          = <<<<s[k], s[k + 1]>>, <<s[k - 2], s[k - 1]>>>>
      BY <1>1, ListsWritten
    <2>5. <<<<s[k], s[k + 1]>>, <<s[k - 2], s[k - 1]>>>> \o <<>>
          = <<<<s[k], s[k + 1]>>, <<s[k - 2], s[k - 1]>>>>
      BY <1>1, ListsWritten
    <2> QED BY <1>4, <2>1, <2>2, <2>3, <2>4, <2>5
  <1>5. CASE w.kind # "revisit" /\ ~w.left /\ w.right
    <2>1. Added(s, k, x, w) = <<<<s[k], x>>>> \o <<<<s[k + 2], x>>, <<s[k + 3], s[k + 1]>>>>
      BY <1>5 DEF Added
    <2>2. <<<<s[k], x>>>> \o <<<<s[k + 2], x>>, <<s[k + 3], s[k + 1]>>>>
          = <<<<s[k], x>>, <<s[k + 2], x>>, <<s[k + 3], s[k + 1]>>>>
      <3> DEFINE a == <<s[k], x>>
                 b == <<s[k + 2], x>>
                 c == <<s[k + 3], s[k + 1]>>
      <3>1. a \in W /\ b \in W /\ c \in W
        BY <1>1
      <3> HIDE DEF a, b, c
      <3>2. <<a>> \o <<b, c>> = <<a, b, c>>
        BY <3>1, ListsWritten
      <3> QED BY <3>2 DEF a, b, c
    <2>3. Removed(s, k, w) = (<<<<s[k], s[k + 1]>>>> \o <<>>) \o <<<<s[k + 3], s[k + 2]>>>>
      BY <1>5 DEF Removed
    <2>4. <<<<s[k], s[k + 1]>>>> \o <<>> = <<<<s[k], s[k + 1]>>>>
      BY <1>1, ListsWritten
    <2>5. <<<<s[k], s[k + 1]>>>> \o <<<<s[k + 3], s[k + 2]>>>>
          = <<<<s[k], s[k + 1]>>, <<s[k + 3], s[k + 2]>>>>
      BY <1>1, ListsWritten
    <2> QED BY <1>5, <2>1, <2>2, <2>3, <2>4, <2>5
  <1>6. CASE w.kind # "revisit" /\ w.left /\ w.right
    <2>1. Added(s, k, x, w) = <<<<s[k - 1], x>>, <<s[k - 2], s[k]>>>>
          \o <<<<s[k + 2], x>>, <<s[k + 3], s[k + 1]>>>>
      BY <1>6 DEF Added
    <2>2. <<<<s[k - 1], x>>, <<s[k - 2], s[k]>>>>
          \o <<<<s[k + 2], x>>, <<s[k + 3], s[k + 1]>>>>
          = <<<<s[k - 1], x>>, <<s[k - 2], s[k]>>, <<s[k + 2], x>>, <<s[k + 3], s[k + 1]>>>>
      <3> DEFINE a == <<s[k - 1], x>>
                 b == <<s[k - 2], s[k]>>
                 c == <<s[k + 2], x>>
                 d == <<s[k + 3], s[k + 1]>>
      <3>1. a \in W /\ b \in W /\ c \in W /\ d \in W
        BY <1>1
      <3> HIDE DEF a, b, c, d
      <3>2. <<a, b>> \o <<c, d>> = <<a, b, c, d>>
        BY <3>1, FourWritten
      <3> QED BY <3>2 DEF a, b, c, d
    <2>3. Removed(s, k, w) = (<<<<s[k], s[k + 1]>>>> \o <<<<s[k - 2], s[k - 1]>>>>)
          \o <<<<s[k + 3], s[k + 2]>>>>
      BY <1>6 DEF Removed
    <2>4. <<<<s[k], s[k + 1]>>>> \o <<<<s[k - 2], s[k - 1]>>>>
          = <<<<s[k], s[k + 1]>>, <<s[k - 2], s[k - 1]>>>>
      BY <1>1, ListsWritten
    <2>5. <<<<s[k], s[k + 1]>>, <<s[k - 2], s[k - 1]>>>> \o <<<<s[k + 3], s[k + 2]>>>>
          = <<<<s[k], s[k + 1]>>, <<s[k - 2], s[k - 1]>>, <<s[k + 3], s[k + 2]>>>>
      <3> DEFINE a == <<s[k], s[k + 1]>>
                 b == <<s[k - 2], s[k - 1]>>
                 c == <<s[k + 3], s[k + 2]>>
      <3>1. a \in W /\ b \in W /\ c \in W
        BY <1>1
      <3> HIDE DEF a, b, c
      <3>2. <<a, b>> \o <<c>> = <<a, b, c>>
        BY <3>1, ListsWritten
      <3> QED BY <3>2 DEF a, b, c
    <2> QED BY <1>6, <2>1, <2>2, <2>3, <2>4, <2>5
  <1> QED BY <1>2, <1>3, <1>4, <1>5, <1>6

\* Lists of up to four legs and their lengths, written out.
LEMMA NoneTotal ==
  ASSUME NEW en, IsTwoWayLength(en)
  PROVE  Total(en, <<>>) = 0
  <1> DEFINE W == {}
  <1> DEFINE L == <<>>
  <1>1. L \in Seq(W) /\ Len(L) = 0 /\ Len(L) \in 0..4 /\ ToSet(L) \subseteq DOMAIN en
    BY DEF ToSet
  <1> HIDE DEF L
  <1>2. Total(en, L) = 0
    BY <1>1, ShortTotals
  <1> QED BY <1>2 DEF L

\* The total over one pair.
LEMMA OneTotal ==
  ASSUME NEW en, IsTwoWayLength(en), NEW a, ToSet(<<a>>) \subseteq DOMAIN en
  PROVE  a \in DOMAIN en /\ en[a] \in Nat /\ Total(en, <<a>>) = en[a]
  <1> DEFINE W == {a}
  <1>9. a \in W
    OBVIOUS
  <1> HIDE DEF W
  <1> DEFINE L == <<a>>
  <1>1. L \in Seq(W) /\ Len(L) = 1 /\ L[1] = a
    BY <1>9
  <1>2. ToSet(L) \subseteq DOMAIN en
    OBVIOUS
  <1> HIDE DEF L
  <1>3. Len(L) \in 0..4
    BY <1>1
  <1>4. /\ \A k \in 1..Len(L) : L[k] \in DOMAIN en /\ en[L[k]] \in Nat
        /\ Len(L) = 1 => Total(en, L) = en[L[1]]
    BY <1>1, <1>2, <1>3, ShortTotals
  <1>5. 1 \in 1..Len(L)
    BY <1>1
  <1>6. /\ a \in DOMAIN en /\ en[a] \in Nat
        /\ Total(en, L) = en[a]
    BY <1>1, <1>4, <1>5
  <1> QED BY <1>6 DEF L

\* Over two pairs.
LEMMA TwoTotal ==
  ASSUME NEW en, IsTwoWayLength(en), NEW a, NEW b, ToSet(<<a, b>>) \subseteq DOMAIN en
  PROVE  /\ {a, b} \subseteq DOMAIN en /\ en[a] \in Nat /\ en[b] \in Nat
         /\ Total(en, <<a, b>>) = en[a] + en[b]
  <1> DEFINE W == {a, b}
  <1>9. a \in W /\ b \in W
    OBVIOUS
  <1> HIDE DEF W
  <1> DEFINE L == <<a, b>>
  <1>1. L \in Seq(W) /\ Len(L) = 2 /\ L[1] = a /\ L[2] = b
    BY <1>9
  <1>2. ToSet(L) \subseteq DOMAIN en
    OBVIOUS
  <1> HIDE DEF L
  <1>3. Len(L) \in 0..4
    BY <1>1
  <1>4. /\ \A k \in 1..Len(L) : L[k] \in DOMAIN en /\ en[L[k]] \in Nat
        /\ Len(L) = 2 => Total(en, L) = en[L[1]] + en[L[2]]
    BY <1>1, <1>2, <1>3, ShortTotals
  <1>5. 1 \in 1..Len(L) /\ 2 \in 1..Len(L)
    BY <1>1
  <1>6. /\ {a, b} \subseteq DOMAIN en /\ en[a] \in Nat /\ en[b] \in Nat
        /\ Total(en, L) = en[a] + en[b]
    BY <1>1, <1>4, <1>5
  <1> QED BY <1>6 DEF L

\* Over three pairs.
LEMMA ThreeTotal ==
  ASSUME NEW en, IsTwoWayLength(en), NEW a, NEW b, NEW c, ToSet(<<a, b, c>>) \subseteq DOMAIN en
  PROVE  /\ {a, b, c} \subseteq DOMAIN en /\ en[a] \in Nat /\ en[b] \in Nat /\ en[c] \in Nat
         /\ Total(en, <<a, b, c>>) = (en[a] + en[b]) + en[c]
  <1> DEFINE W == {a, b, c}
  <1>9. a \in W /\ b \in W /\ c \in W
    OBVIOUS
  <1> HIDE DEF W
  <1> DEFINE L == <<a, b, c>>
  <1>1. L \in Seq(W) /\ Len(L) = 3 /\ L[1] = a /\ L[2] = b /\ L[3] = c
    BY <1>9
  <1>2. ToSet(L) \subseteq DOMAIN en
    OBVIOUS
  <1> HIDE DEF L
  <1>3. Len(L) \in 0..4
    BY <1>1
  <1>4. /\ \A k \in 1..Len(L) : L[k] \in DOMAIN en /\ en[L[k]] \in Nat
        /\ Len(L) = 3 => Total(en, L) = (en[L[1]] + en[L[2]]) + en[L[3]]
    BY <1>1, <1>2, <1>3, ShortTotals
  <1>5. 1 \in 1..Len(L) /\ 2 \in 1..Len(L) /\ 3 \in 1..Len(L)
    BY <1>1
  <1>6. /\ {a, b, c} \subseteq DOMAIN en /\ en[a] \in Nat /\ en[b] \in Nat /\ en[c] \in Nat
        /\ Total(en, L) = (en[a] + en[b]) + en[c]
    BY <1>1, <1>4, <1>5
  <1> QED BY <1>6 DEF L

\* Over four pairs.
LEMMA FourTotal ==
  ASSUME NEW en, IsTwoWayLength(en), NEW a, NEW b, NEW c,
         NEW d, ToSet(<<a, b, c, d>>) \subseteq DOMAIN en
  PROVE  /\ {a, b, c, d} \subseteq DOMAIN en
         /\ en[a] \in Nat /\ en[b] \in Nat /\ en[c] \in Nat /\ en[d] \in Nat
         /\ Total(en, <<a, b, c, d>>) = ((en[a] + en[b]) + en[c]) + en[d]
  <1> DEFINE W == {a, b, c, d}
  <1>9. a \in W /\ b \in W /\ c \in W /\ d \in W
    OBVIOUS
  <1> HIDE DEF W
  <1> DEFINE L == <<a, b, c, d>>
  <1>1. L \in Seq(W) /\ Len(L) = 4 /\ L[1] = a /\ L[2] = b /\ L[3] = c /\ L[4] = d
    BY <1>9
  <1>2. ToSet(L) \subseteq DOMAIN en
    OBVIOUS
  <1> HIDE DEF L
  <1>3. Len(L) \in 0..4
    BY <1>1
  <1>4. /\ \A k \in 1..Len(L) : L[k] \in DOMAIN en /\ en[L[k]] \in Nat
        /\ Len(L) = 4 => Total(en, L) = ((en[L[1]] + en[L[2]]) + en[L[3]]) + en[L[4]]
    BY <1>1, <1>2, <1>3, ShortTotals
  <1>5. 1 \in 1..Len(L) /\ 2 \in 1..Len(L) /\ 3 \in 1..Len(L) /\ 4 \in 1..Len(L)
    BY <1>1
  <1>6. /\ {a, b, c, d} \subseteq DOMAIN en
        /\ en[a] \in Nat /\ en[b] \in Nat /\ en[c] \in Nat /\ en[d] \in Nat
        /\ Total(en, L) = ((en[a] + en[b]) + en[c]) + en[d]
    BY <1>1, <1>4, <1>5
  <1> QED BY <1>6 DEF L

-----------------------------------------------------------------------------
(* Legs and their lengths                                                 *)

\* r is s but for what lies between its ith and its jth element, D more.
IsAround(s, r, i, j, D) ==
  /\ i \in 1..Len(s) /\ j \in i..Len(s) /\ D \in Nat /\ Len(r) = Len(s) + D
  /\ \A m \in 1..i : r[m] = s[m]
  /\ \A m \in j..Len(s) : r[m + D] = s[m]

\* <<a, b>> is a leg of length u.
HasLength(w, a, b, u) == <<a, b>> \in DOMAIN w /\ w[<<a, b>>] = u /\ u \in Nat

\* u1, u2, ... are the lengths of L legs from the ith element on.
AreLegs(w, r, i, L, u1, u2, u3, u4, u5, u6) ==
  /\ L \in 0..6
  /\ u1 \in Nat /\ u2 \in Nat /\ u3 \in Nat /\ u4 \in Nat /\ u5 \in Nat /\ u6 \in Nat
  /\ IF L >= 1 THEN HasLength(w, r[i], r[i + 1], u1) ELSE u1 = 0
  /\ IF L >= 2 THEN HasLength(w, r[i + 1], r[i + 2], u2) ELSE u2 = 0
  /\ IF L >= 3 THEN HasLength(w, r[i + 2], r[i + 3], u3) ELSE u3 = 0
  /\ IF L >= 4 THEN HasLength(w, r[i + 3], r[i + 4], u4) ELSE u4 = 0
  /\ IF L >= 5 THEN HasLength(w, r[i + 4], r[i + 5], u5) ELSE u5 = 0
  /\ IF L >= 6 THEN HasLength(w, r[i + 5], r[i + 6], u6) ELSE u6 = 0

\* From the ith to the jth stop of s the length is e.
IsStretch(w, s, i, j, e) == e \in Nat /\ \A f : AddsUp(f, w, s) => f[j] = f[i] + e

\* The legs between written out.
LEMMA InPlaceWritten ==
  ASSUME NEW V, NEW w, \A p \in DOMAIN w : w[p] \in Nat,
         NEW s, NEW a, NEW b, NEW c, Leads(V, w, s, a, b, c),
         NEW r \in Seq(V), NEW i, NEW j, NEW D, IsAround(s, r, i, j, D),
         NEW L, i + L = j + D,
         NEW u1, NEW u2, NEW u3, NEW u4, NEW u5, NEW u6,
         AreLegs(w, r, i, L, u1, u2, u3, u4, u5, u6),
         NEW e, IsStretch(w, s, i, j, e)
  PROVE  Leads(V, w, r, a, b, c + ((((((u1 + u2) + u3) + u4) + u5) + u6) - e))
  <1> DEFINE t == [m \in 1..6 |-> IF m = 1 THEN u1 ELSE IF m = 2 THEN u2 ELSE IF m = 3 THEN u3
                                  ELSE IF m = 4 THEN u4 ELSE IF m = 5 THEN u5 ELSE u6]
  <1>0. /\ L \in 0..6 /\ e \in Nat /\ \A f : AddsUp(f, w, s) => f[j] = f[i] + e
        /\ u1 \in Nat /\ u2 \in Nat /\ u3 \in Nat /\ u4 \in Nat /\ u5 \in Nat /\ u6 \in Nat
    BY DEF AreLegs, IsStretch
  <1>10. /\ IF L >= 1 THEN HasLength(w, r[i], r[i + 1], u1) ELSE u1 = 0
         /\ IF L >= 2 THEN HasLength(w, r[i + 1], r[i + 2], u2) ELSE u2 = 0
         /\ IF L >= 3 THEN HasLength(w, r[i + 2], r[i + 3], u3) ELSE u3 = 0
         /\ IF L >= 4 THEN HasLength(w, r[i + 3], r[i + 4], u4) ELSE u4 = 0
         /\ IF L >= 5 THEN HasLength(w, r[i + 4], r[i + 5], u5) ELSE u5 = 0
         /\ IF L >= 6 THEN HasLength(w, r[i + 5], r[i + 6], u6) ELSE u6 = 0
    BY DEF AreLegs
  <1>1. /\ t \in [1..6 -> Nat] /\ t[1] = u1 /\ t[2] = u2 /\ t[3] = u3 /\ t[4] = u4
        /\ t[5] = u5 /\ t[6] = u6
    BY <1>0
  <1> HIDE DEF t
  <1>2. i \in Int
    BY DEF IsAround
  <1>3. /\ (i + 1) - 1 = i /\ (i + 2) - 1 = i + 1 /\ (i + 3) - 1 = i + 2
        /\ (i + 4) - 1 = i + 3 /\ (i + 5) - 1 = i + 4 /\ (i + 6) - 1 = i + 5
    BY <1>2
  <1>4. ASSUME NEW m \in 1..6
        PROVE  m = 1 \/ m = 2 \/ m = 3 \/ m = 4 \/ m = 5 \/ m = 6
    OBVIOUS
  <1>5. \A m \in 1..6 : IF L >= m THEN HasLength(w, r[(i + m) - 1], r[i + m], t[m]) ELSE t[m] = 0
    <2> TAKE m \in 1..6
    <2>1. CASE m = 1
      BY <1>1, <1>3, <1>10, <2>1
    <2>2. CASE m = 2
      BY <1>1, <1>3, <1>10, <2>2
    <2>3. CASE m = 3
      BY <1>1, <1>3, <1>10, <2>3
    <2>4. CASE m = 4
      BY <1>1, <1>3, <1>10, <2>4
    <2>5. CASE m = 5
      BY <1>1, <1>3, <1>10, <2>5
    <2>6. CASE m = 6
      BY <1>1, <1>3, <1>10, <2>6
    <2> QED BY <1>4, <2>1, <2>2, <2>3, <2>4, <2>5, <2>6
  <1>6. \A m \in 1..L : /\ <<r[(i + m) - 1], r[i + m]>> \in DOMAIN w
                        /\ w[<<r[(i + m) - 1], r[i + m]>>] = t[m]
    <2> TAKE m \in 1..L
    <2>1. m \in 1..6 /\ L >= m
      <3>1. \A n \in 0..6 : \A h \in 1..n : h \in 1..6 /\ n >= h
        OBVIOUS
      <3> QED BY <1>0, <3>1
    <2> QED BY <1>5, <2>1 DEF HasLength
  <1>7. \A m \in (L + 1)..6 : t[m] = 0
    <2> TAKE m \in (L + 1)..6
    <2>1. m \in 1..6 /\ ~(L >= m)
      BY <1>0
    <2> QED BY <1>5, <2>1
  <1>8. InPlaceOf(w, s, r, i, j, D, L, t, e)
    BY <1>0, <1>1, <1>6, <1>7 DEF InPlaceOf, IsAround
  <1>9. Leads(V, w, r, a, b, c + ((((((t[1] + t[2]) + t[3]) + t[4]) + t[5]) + t[6]) - e))
    BY <1>8, InPlaceLeads
  <1> QED BY <1>1, <1>9

\* A walk's legs, one by one.
LEMMA LegOf ==
  ASSUME NEW V, NEW w, \A p \in DOMAIN w : w[p] \in Nat, NEW s \in Seq(V), NEW f, AddsUp(f, w, s),
         NEW n \in 1..(Len(s) - 1)
  PROVE  /\ HasLength(w, s[n], s[n + 1], w[<<s[n], s[n + 1]>>])
         /\ f[n] \in Nat /\ f[n + 1] = f[n] + w[<<s[n], s[n + 1]>>]
  <1>1. n \in 1..Len(s)
    OBVIOUS
  <1>2. f[n] \in Nat
    BY <1>1 DEF AddsUp
  <1>3. <<s[n], s[n + 1]>> \in DOMAIN w /\ f[n + 1] = f[n] + w[<<s[n], s[n + 1]>>]
    BY DEF AddsUp
  <1> QED BY <1>2, <1>3 DEF HasLength

\* The k-th leg of s has the length g, which is what the sums grow by there.
IsLegOf(w, s, k, g) ==
  /\ HasLength(w, s[k], s[k + 1], g)
  /\ \A f : AddsUp(f, w, s) => f[k] \in Nat /\ f[k + 1] = f[k] + g

\* So it is of every leg.
LEMMA LegsOf ==
  ASSUME NEW V, NEW w, IsTwoWayLength(w), NEW s \in Seq(V), NEW h, AddsUp(h, w, s),
         NEW n \in 1..(Len(s) - 1)
  PROVE  IsLegOf(w, s, n, w[<<s[n], s[n + 1]>>])
  <1>1. \A p \in DOMAIN w : w[p] \in Nat
    BY DEF IsTwoWayLength
  <1>2. HasLength(w, s[n], s[n + 1], w[<<s[n], s[n + 1]>>])
    BY <1>1, LegOf
  <1>3. ASSUME NEW f, AddsUp(f, w, s)
        PROVE  f[n] \in Nat /\ f[n + 1] = f[n] + w[<<s[n], s[n + 1]>>]
    BY <1>1, <1>3, LegOf
  <1> QED BY <1>2, <1>3 DEF IsLegOf

-----------------------------------------------------------------------------
(* Insertion                                                              *)

\* What the insertion of x at k in the way w costs.
InsertionCost(en, s, k, x, w) == Total(en, Added(s, k, x, w)) - Total(en, Removed(s, k, w))

\* r is p, the swapped s, with x after its kth stop and, from there on, D more.
IsPutIn(V, s, k, x, r, p, D) ==
  /\ r \in Seq(V) /\ Len(r) = Len(s) + D
  /\ \A m \in 1..k : r[m] = p[m]
  /\ r[k + 1] = x
  /\ \A m \in (k + 2 - D)..Len(s) : r[m + D] = p[m]

\* That is what insertion makes of a sequence.
LEMMA InsertedParts ==
  ASSUME NEW V, NEW en, NEW s, NEW k, NEW x, NEW w, CanInsert(V, en, s, k, x, w)
  PROVE  /\ w.kind = "revisit" => IsPutIn(V, s, k, x, Inserted(s, k, x, w), s, 2)
         /\ w.kind # "revisit" => IsPutIn(V, s, k, x, Inserted(s, k, x, w), Swapped(s, k, w), 1)
  <1>1. s \in Seq(V) /\ k \in 1..Len(s) /\ x \in V /\ w \in Way /\ Fits(s, k, w)
    BY DEF CanInsert
  <1> DEFINE r == Inserted(s, k, x, w)
             p == IF w.kind = "revisit" THEN s ELSE Swapped(s, k, w)
             D == IF w.kind = "revisit" THEN 2 ELSE 1
  <1>2. /\ r \in Seq(V) /\ Len(r) = Len(s) + D
        /\ \A m \in 1..k : r[m] = p[m]
        /\ r[k + 1] = x
        /\ \A m \in (k + 2 - D)..Len(s) : r[m + D] = p[m]
    BY <1>1, InsertedFacts
  <1> HIDE DEF r
  <1>3. IsPutIn(V, s, k, x, r, p, D)
    BY <1>2 DEF IsPutIn
  <1> QED BY <1>3 DEF r

\* To x and back from the kth stop.
LEMMA RevisitLeads ==
  ASSUME NEW V, NEW en, IsTwoWayLength(en), NEW s, NEW a, NEW b, NEW c, Leads(V, en, s, a, b, c),
         NEW k, NEW x, NEW w, CanInsert(V, en, s, k, x, w), w.kind = "revisit"
  PROVE  /\ Leads(V, en, Inserted(s, k, x, w), a, b, c + InsertionCost(en, s, k, x, w))
         /\ InsertionCost(en, s, k, x, w) \in Int
  <1> DEFINE r == Inserted(s, k, x, w)
  <1>1. /\ s \in Seq(V) /\ k \in 1..Len(s) /\ x \in V /\ w \in Way /\ Fits(s, k, w)
        /\ ToSet(Added(s, k, x, w)) \subseteq DOMAIN en
    BY DEF CanInsert
  <1>2. /\ r \in Seq(V) /\ Len(r) = Len(s) + 2
        /\ \A m \in 1..k : r[m] = s[m]
        /\ r[k + 1] = x
        /\ \A m \in k..Len(s) : r[m + 2] = s[m]
    <2>3. IsPutIn(V, s, k, x, r, s, 2)
      BY InsertedParts
    <2>1. /\ r \in Seq(V) /\ Len(r) = Len(s) + 2
          /\ \A m \in 1..k : r[m] = s[m]
          /\ r[k + 1] = x
          /\ \A m \in (k + 2 - 2)..Len(s) : r[m + 2] = s[m]
      BY <2>3 DEF IsPutIn
    <2>2. k + 2 - 2 = k
      BY <1>1
    <2> QED BY <2>1, <2>2
  <1>3. Added(s, k, x, w) = <<<<x, s[k]>>, <<x, s[k]>>>> /\ Removed(s, k, w) = <<>>
    BY WaysWritten
  <1> DEFINE u == en[<<x, s[k]>>]
  <1>4. u \in Nat /\ <<x, s[k]>> \in DOMAIN en /\ InsertionCost(en, s, k, x, w) = (u + u) - 0
    <2> DEFINE p == <<x, s[k]>>
    <2>1. ToSet(<<p, p>>) \subseteq DOMAIN en
      BY <1>1, <1>3
    <2>2. p \in DOMAIN en /\ en[p] \in Nat /\ Total(en, <<p, p>>) = en[p] + en[p]
      <3> HIDE DEF p
      <3> QED BY <2>1, TwoTotal
    <2>3. Total(en, <<>>) = 0
      BY NoneTotal
    <2> QED BY <1>3, <2>2, <2>3 DEF InsertionCost
  <1>5. HasLength(en, s[k], x, u) /\ HasLength(en, x, s[k], u)
    BY <1>4 DEF HasLength, IsTwoWayLength
  <1> HIDE DEF u, r
  <1>6. k \in 1..k /\ k \in k..Len(s) /\ r[k] = s[k] /\ r[k + 2] = s[k] /\ r[k + 1] = x
    BY <1>1, <1>2
  <1>7. IsAround(s, r, k, k, 2)
    BY <1>1, <1>2, <1>6 DEF IsAround
  <1>8. \A f : AddsUp(f, en, s) => f[k] = f[k] + 0
    BY <1>1 DEF AddsUp
  <1>9. \A p \in DOMAIN en : en[p] \in Nat
    BY DEF IsTwoWayLength
  <1>10. HasLength(en, r[k], r[k + 1], u) /\ HasLength(en, r[k + 1], r[k + 2], u)
    BY <1>5, <1>6
  <1>11. Leads(V, en, r, a, b, c + ((((((u + u) + 0) + 0) + 0) + 0) - 0))
    <2>1. AreLegs(en, r, k, 2, u, u, 0, 0, 0, 0)
      BY <1>4, <1>10 DEF AreLegs
    <2>2. IsStretch(en, s, k, k, 0)
      BY <1>4, <1>8 DEF IsStretch
    <2>3. r \in Seq(V) /\ k + 2 = k + 2
      BY <1>2
    <2> HIDE DEF InsertionCost
    <2> QED BY <1>7, <1>9, <2>1, <2>2, <2>3, InPlaceWritten
  <1>12. ((((((u + u) + 0) + 0) + 0) + 0) - 0) = (u + u) - 0
    BY <1>4
  <1>13. InsertionCost(en, s, k, x, w) \in Int
    BY <1>4
  <1> QED BY <1>4, <1>11, <1>12, <1>13 DEF r

\* Between the kth stop and the next.
LEMMA BetweenLeads ==
  ASSUME NEW V, NEW en, IsTwoWayLength(en), NEW s, NEW a, NEW b, NEW c, Leads(V, en, s, a, b, c),
         NEW k, NEW x, NEW w, CanInsert(V, en, s, k, x, w), w.kind # "revisit", ~w.left, ~w.right
  PROVE  /\ Leads(V, en, Inserted(s, k, x, w), a, b, c + InsertionCost(en, s, k, x, w))
         /\ InsertionCost(en, s, k, x, w) \in Int
  <1> DEFINE r == Inserted(s, k, x, w)
  <1>1. /\ s \in Seq(V) /\ k \in 1..Len(s) /\ x \in V /\ w \in Way /\ Fits(s, k, w)
        /\ ToSet(Added(s, k, x, w)) \subseteq DOMAIN en /\ w.kind = "sequence"
    BY DEF CanInsert, Way
  <1>0. k < Len(s) /\ k \in 1..(Len(s) - 1) /\ k + 1 \in 1..Len(s) /\ k + 1 \in k..Len(s)
    BY <1>1 DEF Fits
  <1>2. /\ r \in Seq(V) /\ Len(r) = Len(s) + 1
        /\ \A m \in 1..k : r[m] = s[m]
        /\ r[k + 1] = x
        /\ \A m \in (k + 1)..Len(s) : r[m + 1] = s[m]
    <2>1. \A m \in 1..Len(s) : Swapped(s, k, w)[m] = s[m]
      BY <1>1, SwappedFacts
    <2>4. IsPutIn(V, s, k, x, r, Swapped(s, k, w), 1)
      BY InsertedParts
    <2>2. /\ r \in Seq(V) /\ Len(r) = Len(s) + 1
          /\ \A m \in 1..k : r[m] = Swapped(s, k, w)[m]
          /\ r[k + 1] = x
          /\ \A m \in (k + 2 - 1)..Len(s) : r[m + 1] = Swapped(s, k, w)[m]
      BY <2>4 DEF IsPutIn
    <2>3. /\ k + 2 - 1 = k + 1 /\ \A m \in 1..k : m \in 1..Len(s)
          /\ \A m \in (k + 1)..Len(s) : m \in 1..Len(s)
      BY <1>1
    <2> QED BY <2>1, <2>2, <2>3
  <1>3. /\ Added(s, k, x, w) = <<<<s[k], x>>, <<x, s[k + 1]>>>>
        /\ Removed(s, k, w) = <<<<s[k], s[k + 1]>>>>
    BY WaysWritten
  <1> DEFINE u1 == en[<<s[k], x>>]
             u2 == en[<<x, s[k + 1]>>]
             g == en[<<s[k], s[k + 1]>>]
  <1>9. \A p \in DOMAIN en : en[p] \in Nat
    BY DEF IsTwoWayLength
  <1>8. /\ HasLength(en, s[k], s[k + 1], g)
        /\ \A f : AddsUp(f, en, s) => f[k + 1] = f[k] + g
    <2>1. PICK f : AddsUp(f, en, s)
      BY DEF Leads
    <2>2. HasLength(en, s[k], s[k + 1], g)
      BY <1>0, <1>1, <1>9, <2>1, LegOf
    <2>3. \A h : AddsUp(h, en, s) => h[k + 1] = h[k] + g
      BY <1>0, <1>1, <1>9, LegOf
    <2> QED BY <2>2, <2>3
  <1>4. /\ u1 \in Nat /\ u2 \in Nat /\ g \in Nat
        /\ <<s[k], x>> \in DOMAIN en /\ <<x, s[k + 1]>> \in DOMAIN en
        /\ InsertionCost(en, s, k, x, w) = (u1 + u2) - g
    <2> DEFINE p == <<s[k], s[k + 1]>>
               p1 == <<s[k], x>>
               p2 == <<x, s[k + 1]>>
    <2>1. ToSet(<<p>>) \subseteq DOMAIN en /\ ToSet(<<p1, p2>>) \subseteq DOMAIN en
      <3>1. p \in DOMAIN en
        BY <1>8 DEF HasLength
      <3>2. ToSet(<<p>>) = {p}
        BY DEF ToSet
      <3>3. ToSet(<<p1, p2>>) \subseteq DOMAIN en
        BY <1>1, <1>3
      <3> QED BY <3>1, <3>2, <3>3
    <2>4. /\ Total(en, <<p>>) = en[p] /\ en[p] \in Nat
          /\ {p1, p2} \subseteq DOMAIN en /\ en[p1] \in Nat /\ en[p2] \in Nat
          /\ Total(en, <<p1, p2>>) = en[p1] + en[p2]
      <3> HIDE DEF p, p1, p2
      <3>1. Total(en, <<p>>) = en[p] /\ en[p] \in Nat
        BY <2>1, OneTotal
      <3>2. /\ {p1, p2} \subseteq DOMAIN en /\ en[p1] \in Nat /\ en[p2] \in Nat
            /\ Total(en, <<p1, p2>>) = en[p1] + en[p2]
        BY <2>1, TwoTotal
      <3> QED BY <3>1, <3>2
    <2>2. Total(en, Removed(s, k, w)) = g /\ g \in Nat
      BY <1>3, <2>4
    <2>3. /\ u1 \in Nat /\ u2 \in Nat /\ Total(en, Added(s, k, x, w)) = u1 + u2
          /\ <<s[k], x>> \in DOMAIN en /\ <<x, s[k + 1]>> \in DOMAIN en
      BY <1>3, <2>4
    <2> QED BY <2>2, <2>3 DEF InsertionCost
  <1>5. HasLength(en, s[k], x, u1) /\ HasLength(en, x, s[k + 1], u2)
    BY <1>4 DEF HasLength
  <1> HIDE DEF u1, u2, g, r
  <1>6. /\ k \in 1..k /\ k + 1 \in (k + 1)..Len(s) /\ (k + 1) + 1 = k + 2
        /\ r[k] = s[k] /\ r[k + 2] = s[k + 1] /\ r[k + 1] = x
    <2>1. k \in 1..k /\ k + 1 \in (k + 1)..Len(s) /\ (k + 1) + 1 = k + 2
      BY <1>0, <1>1
    <2> QED BY <1>2, <2>1
  <1>7. IsAround(s, r, k, k + 1, 1)
    BY <1>0, <1>1, <1>2 DEF IsAround
  <1>10. HasLength(en, r[k], r[k + 1], u1) /\ HasLength(en, r[k + 1], r[k + 2], u2)
    BY <1>5, <1>6
  <1>11. Leads(V, en, r, a, b, c + ((((((u1 + u2) + 0) + 0) + 0) + 0) - g))
    <2>1. AreLegs(en, r, k, 2, u1, u2, 0, 0, 0, 0)
      BY <1>4, <1>10 DEF AreLegs
    <2>2. IsStretch(en, s, k, k + 1, g)
      BY <1>4, <1>8 DEF IsStretch
    <2>3. k + 2 = (k + 1) + 1
      BY <1>1
    <2> QED BY <1>2, <1>7, <1>9, <2>1, <2>2, <2>3, InPlaceWritten
  <1>12. ((((((u1 + u2) + 0) + 0) + 0) + 0) - g) = (u1 + u2) - g
    BY <1>4
  <1>13. InsertionCost(en, s, k, x, w) \in Int
    BY <1>4
  <1> QED BY <1>4, <1>11, <1>12, <1>13 DEF r

\* The kth stop and the one before it exchanged.
LEMMA LeftLeads ==
  ASSUME NEW V, NEW en, IsTwoWayLength(en), NEW s, NEW a, NEW b, NEW c, Leads(V, en, s, a, b, c),
         NEW k, NEW x, NEW w, CanInsert(V, en, s, k, x, w), w.kind # "revisit", w.left, ~w.right
  PROVE  /\ Leads(V, en, Inserted(s, k, x, w), a, b, c + InsertionCost(en, s, k, x, w))
         /\ InsertionCost(en, s, k, x, w) \in Int
  <1> DEFINE r == Inserted(s, k, x, w)
  <1>1. /\ s \in Seq(V) /\ k \in 1..Len(s) /\ x \in V /\ w \in Way /\ Fits(s, k, w)
        /\ ToSet(Added(s, k, x, w)) \subseteq DOMAIN en /\ w.kind = "sequence"
    BY DEF CanInsert, Way
  <1>0. /\ k \in Nat /\ k >= 1 /\ Len(s) \in Nat /\ k < Len(s) /\ k > 2
    BY <1>1 DEF Fits
  <1>2. /\ r \in Seq(V) /\ Len(r) = Len(s) + 1
        /\ \A m \in 1..(k - 2) : r[m] = s[m]
        /\ r[k - 2] = s[k - 2]
        /\ r[k - 1] = s[k]
        /\ r[k] = s[k - 1]
        /\ r[k + 1] = x
        /\ r[k + 2] = s[k + 1]
        /\ \A m \in (k + 1)..Len(s) : r[m + 1] = s[m]
    <2> DEFINE p == Swapped(s, k, w)
    <2>1. \A m \in 1..Len(s) :
            p[m] = IF w.left /\ m = k - 1 THEN s[k]
                   ELSE IF w.left /\ m = k THEN s[k - 1]
                   ELSE IF w.right /\ m = k + 1 THEN s[k + 2]
                   ELSE IF w.right /\ m = k + 2 THEN s[k + 1]
                   ELSE s[m]
      BY <1>1, SwappedFacts
    <2>2. IsPutIn(V, s, k, x, r, p, 1)
      BY InsertedParts
    <2> HIDE DEF p, r
    <2>3. /\ r \in Seq(V) /\ Len(r) = Len(s) + 1
          /\ \A m \in 1..k : r[m] = p[m]
          /\ r[k + 1] = x
          /\ \A m \in (k + 2 - 1)..Len(s) : r[m + 1] = p[m]
      BY <2>2 DEF IsPutIn
    <2>4. \A m \in 1..(k - 2) : r[m] = s[m]
      <3> TAKE m \in 1..(k - 2)
      <3>1. m \in 1..k /\ m \in 1..Len(s) /\ m # k + 1 /\ m # k + 2 /\ m # k /\ m # k - 1
        BY <1>0
      <3> QED BY <2>1, <2>3, <3>1
    <2>5. \A m \in (k + 1)..Len(s) : r[m + 1] = s[m]
      <3> TAKE m \in (k + 1)..Len(s)
      <3>1. m \in (k + 2 - 1)..Len(s) /\ m \in 1..Len(s) /\ m # k /\ m # k - 1
        BY <1>0
      <3> QED BY <2>1, <2>3, <3>1
    <2>6. r[k - 2] = s[k - 2]
      <3>1. k - 2 \in 1..k /\ k - 2 \in 1..Len(s)
        BY <1>0
      <3>2. p[k - 2] = s[k - 2]
        BY <1>0, <2>1, <3>1
      <3> QED BY <2>3, <3>1, <3>2
    <2>7. r[k - 1] = s[k]
      <3>1. k - 1 \in 1..k /\ k - 1 \in 1..Len(s)
        BY <1>0
      <3>2. p[k - 1] = s[k]
        BY <1>0, <2>1, <3>1
      <3> QED BY <2>3, <3>1, <3>2
    <2>8. r[k] = s[k - 1]
      <3>1. k \in 1..k /\ k \in 1..Len(s)
        BY <1>0
      <3>2. p[k] = s[k - 1]
        BY <1>0, <2>1, <3>1
      <3> QED BY <2>3, <3>1, <3>2
    <2>9. r[k + 2] = s[k + 1]
      <3>1. k + 1 \in (k + 2 - 1)..Len(s) /\ k + 1 \in 1..Len(s) /\ (k + 1) + 1 = k + 2
        BY <1>0
      <3>2. p[k + 1] = s[k + 1]
        BY <1>0, <2>1, <3>1
      <3>3. r[(k + 1) + 1] = p[k + 1]
        BY <2>3, <3>1
      <3> QED BY <3>1, <3>2, <3>3
    <2> QED BY <2>3, <2>4, <2>5, <2>6, <2>7, <2>8, <2>9 DEF r
  <1>3. /\ Added(s, k, x, w) = <<<<s[k - 1], x>>, <<s[k - 2], s[k]>>, <<x, s[k + 1]>>>>
        /\ Removed(s, k, w) = <<<<s[k], s[k + 1]>>, <<s[k - 2], s[k - 1]>>>>
    BY WaysWritten
  <1> DEFINE p1 == en[<<s[k - 1], x>>]
             p2 == en[<<s[k - 2], s[k]>>]
             p3 == en[<<x, s[k + 1]>>]
             g1 == en[<<s[k - 2], s[k - 1]>>]
             g2 == en[<<s[k - 1], s[k]>>]
             g3 == en[<<s[k], s[k + 1]>>]
  <1>9. \A p \in DOMAIN en : en[p] \in Nat
    BY DEF IsTwoWayLength
  <1>8. /\ HasLength(en, s[k - 2], s[k - 1], g1)
        /\ HasLength(en, s[k - 1], s[k], g2)
        /\ HasLength(en, s[k], s[k + 1], g3)
        /\ \A f : AddsUp(f, en, s) => f[k + 1] = f[k - 2] + ((g1 + g2) + g3)
    <2>1. PICK f : AddsUp(f, en, s)
      BY DEF Leads
    <2>2. k - 2 \in 1..(Len(s) - 1) /\ k - 1 \in 1..(Len(s) - 1) /\ k \in 1..(Len(s) - 1)
      BY <1>0
    <2>3. (k - 2) + 1 = k - 1 /\ (k - 1) + 1 = k
      BY <1>0
    <2>4. /\ HasLength(en, s[k - 2], s[k - 1], g1)
          /\ \A h : AddsUp(h, en, s) => h[k - 2] \in Nat /\ h[k - 1] = h[k - 2] + g1
      <3> DEFINE n == k - 2
      <3>1. n \in 1..(Len(s) - 1) /\ n + 1 = k - 1
        BY <2>2, <2>3
      <3> HIDE DEF n
      <3>2. s \in Seq(V)
        BY <1>1
      <3>3. IsLegOf(en, s, n, en[<<s[n], s[n + 1]>>])
        BY <2>1, <3>1, <3>2, LegsOf
      <3> QED BY <3>1, <3>3 DEF n, IsLegOf
    <2>5. /\ HasLength(en, s[k - 1], s[k], g2)
          /\ \A h : AddsUp(h, en, s) => h[k - 1] \in Nat /\ h[k] = h[k - 1] + g2
      <3> DEFINE n == k - 1
      <3>1. n \in 1..(Len(s) - 1) /\ n + 1 = k
        BY <2>2, <2>3
      <3> HIDE DEF n
      <3>2. s \in Seq(V)
        BY <1>1
      <3>3. IsLegOf(en, s, n, en[<<s[n], s[n + 1]>>])
        BY <2>1, <3>1, <3>2, LegsOf
      <3> QED BY <3>1, <3>3 DEF n, IsLegOf
    <2>6. /\ HasLength(en, s[k], s[k + 1], g3)
          /\ \A h : AddsUp(h, en, s) => h[k] \in Nat /\ h[k + 1] = h[k] + g3
      <3> DEFINE n == k
      <3>1. n \in 1..(Len(s) - 1) /\ n + 1 = k + 1
        BY <2>2, <2>3
      <3> HIDE DEF n
      <3>2. s \in Seq(V)
        BY <1>1
      <3>3. IsLegOf(en, s, n, en[<<s[n], s[n + 1]>>])
        BY <2>1, <3>1, <3>2, LegsOf
      <3> QED BY <3>1, <3>3 DEF n, IsLegOf
    <2> HIDE DEF g1, g2, g3
    <2>10. ASSUME NEW h, AddsUp(h, en, s)
          PROVE  h[k + 1] = h[k - 2] + ((g1 + g2) + g3)
      <3>1. g1 \in Nat /\ g2 \in Nat /\ g3 \in Nat
        BY <2>4, <2>5, <2>6 DEF HasLength
      <3>2. /\ h[k - 2] \in Nat
            /\ h[k - 1] = h[k - 2] + g1
            /\ h[k] = h[k - 1] + g2
            /\ h[k + 1] = h[k] + g3
        BY <2>10, <2>4, <2>5, <2>6
      <3> QED BY <3>1, <3>2
    <2> QED BY <2>10, <2>4, <2>5, <2>6
  <1>4. /\ p1 \in Nat /\ p2 \in Nat /\ p3 \in Nat /\ g1 \in Nat /\ g2 \in Nat /\ g3 \in Nat
        /\ {<<s[k - 1], x>>, <<s[k - 2], s[k]>>, <<x, s[k + 1]>>} \subseteq DOMAIN en
        /\ InsertionCost(en, s, k, x, w) = ((p1 + p2) + p3) - (g3 + g1)
    <2> DEFINE q1 == <<s[k - 1], x>>
               q2 == <<s[k - 2], s[k]>>
               q3 == <<x, s[k + 1]>>
               e1 == <<s[k], s[k + 1]>>
               e2 == <<s[k - 2], s[k - 1]>>
    <2>1. ToSet(<<q1, q2, q3>>) \subseteq DOMAIN en
      BY <1>1, <1>3
    <2>2. e1 \in DOMAIN en /\ e2 \in DOMAIN en
      BY <1>8 DEF HasLength, IsTwoWayLength
    <2>3. ToSet(<<e1, e2>>) \subseteq DOMAIN en
      <3> HIDE DEF e1, e2
      <3> QED BY <2>2 DEF ToSet
    <2>4. /\ {q1, q2, q3} \subseteq DOMAIN en /\ en[q1] \in Nat /\ en[q2] \in Nat /\ en[q3] \in Nat
          /\ Total(en, <<q1, q2, q3>>) = (en[q1] + en[q2]) + en[q3]
      <3> HIDE DEF q1, q2, q3
      <3> QED BY <2>1, ThreeTotal
    <2>5. Total(en, <<e1, e2>>) = en[e1] + en[e2]
      <3> HIDE DEF e1, e2
      <3> QED BY <2>3, TwoTotal
    <2>6. en[e1] = g3 /\ en[e2] = g1
      BY <1>8 DEF HasLength, IsTwoWayLength
    <2>7. g1 \in Nat /\ g2 \in Nat /\ g3 \in Nat
      BY <1>8 DEF HasLength
    <2>8. Total(en, Removed(s, k, w)) = (g3 + g1)
      BY <1>3, <2>5, <2>6
    <2>9. Total(en, Added(s, k, x, w)) = ((p1 + p2) + p3)
      BY <1>3, <2>4
    <2> QED BY <2>4, <2>7, <2>8, <2>9 DEF InsertionCost
  <1>5. /\ HasLength(en, s[k - 2], s[k], p2)
        /\ HasLength(en, s[k], s[k - 1], g2)
        /\ HasLength(en, s[k - 1], x, p1)
        /\ HasLength(en, x, s[k + 1], p3)
    BY <1>4, <1>8 DEF HasLength, IsTwoWayLength
  <1> HIDE DEF p1, p2, p3, g1, g2, g3, r
  <1> DEFINE i == k - 2
             j == k + 1
  <1>6. /\ i \in 1..Len(s) /\ j \in i..Len(s) /\ i + 4 = j + 1
        /\ i + 1 = k - 1 /\ i + 2 = k /\ i + 3 = k + 1 /\ i + 4 = k + 2
    BY <1>0
  <1>7. IsAround(s, r, i, j, 1) /\ r[i] = s[k - 2]
    BY <1>2, <1>6 DEF IsAround
  <1>10. IsStretch(en, s, i, j, ((g1 + g2) + g3))
    BY <1>4, <1>8 DEF IsStretch
  <1> HIDE DEF i, j
  <1>11. AreLegs(en, r, i, 4, p2, g2, p1, p3, 0, 0)
    <2>1. /\ r[i + 1] = s[k] /\ r[i + 2] = s[k - 1] /\ r[i + 3] = x /\ r[i + 4] = s[k + 1]
      BY <1>2, <1>6
    <2>2. /\ HasLength(en, r[i], r[i + 1], p2)
          /\ HasLength(en, r[i + 1], r[i + 2], g2)
          /\ HasLength(en, r[i + 2], r[i + 3], p1)
          /\ HasLength(en, r[i + 3], r[i + 4], p3)
      BY <1>5, <1>7, <2>1
    <2> QED BY <1>4, <2>2 DEF AreLegs
  <1>12. Leads(V, en, r, a, b, c + ((((((p2 + g2) + p1) + p3) + 0) + 0) - ((g1 + g2) + g3)))
    <2>1. r \in Seq(V) /\ i + 4 = j + 1 /\ IsAround(s, r, i, j, 1)
      BY <1>2, <1>6, <1>7
    <2> QED BY <1>9, <1>10, <1>11, <2>1, InPlaceWritten
  <1>13. (((((p2 + g2) + p1) + p3) + 0) + 0) - ((g1 + g2) + g3) = ((p1 + p2) + p3) - (g3 + g1)
    BY <1>4
  <1>14. InsertionCost(en, s, k, x, w) \in Int
    BY <1>4
  <1> QED BY <1>4, <1>12, <1>13, <1>14 DEF r

\* The two stops after the kth exchanged.
LEMMA RightLeads ==
  ASSUME NEW V, NEW en, IsTwoWayLength(en), NEW s, NEW a, NEW b, NEW c, Leads(V, en, s, a, b, c),
         NEW k, NEW x, NEW w, CanInsert(V, en, s, k, x, w), w.kind # "revisit", ~w.left, w.right
  PROVE  /\ Leads(V, en, Inserted(s, k, x, w), a, b, c + InsertionCost(en, s, k, x, w))
         /\ InsertionCost(en, s, k, x, w) \in Int
  <1> DEFINE r == Inserted(s, k, x, w)
  <1>1. /\ s \in Seq(V) /\ k \in 1..Len(s) /\ x \in V /\ w \in Way /\ Fits(s, k, w)
        /\ ToSet(Added(s, k, x, w)) \subseteq DOMAIN en /\ w.kind = "sequence"
    BY DEF CanInsert, Way
  <1>0. /\ k \in Nat /\ k >= 1 /\ Len(s) \in Nat /\ k < Len(s) /\ k + 3 <= Len(s)
    BY <1>1 DEF Fits
  <1>2. /\ r \in Seq(V) /\ Len(r) = Len(s) + 1
        /\ \A m \in 1..(k) : r[m] = s[m]
        /\ r[k] = s[k]
        /\ r[k + 1] = x
        /\ r[k + 2] = s[k + 2]
        /\ r[k + 3] = s[k + 1]
        /\ r[k + 4] = s[k + 3]
        /\ \A m \in (k + 3)..Len(s) : r[m + 1] = s[m]
    <2> DEFINE p == Swapped(s, k, w)
    <2>1. \A m \in 1..Len(s) :
            p[m] = IF w.left /\ m = k - 1 THEN s[k]
                   ELSE IF w.left /\ m = k THEN s[k - 1]
                   ELSE IF w.right /\ m = k + 1 THEN s[k + 2]
                   ELSE IF w.right /\ m = k + 2 THEN s[k + 1]
                   ELSE s[m]
      BY <1>1, SwappedFacts
    <2>2. IsPutIn(V, s, k, x, r, p, 1)
      BY InsertedParts
    <2> HIDE DEF p, r
    <2>3. /\ r \in Seq(V) /\ Len(r) = Len(s) + 1
          /\ \A m \in 1..k : r[m] = p[m]
          /\ r[k + 1] = x
          /\ \A m \in (k + 2 - 1)..Len(s) : r[m + 1] = p[m]
      BY <2>2 DEF IsPutIn
    <2>4. \A m \in 1..(k) : r[m] = s[m]
      <3> TAKE m \in 1..(k)
      <3>1. m \in 1..k /\ m \in 1..Len(s) /\ m # k + 1 /\ m # k + 2
        BY <1>0
      <3> QED BY <2>1, <2>3, <3>1
    <2>5. \A m \in (k + 3)..Len(s) : r[m + 1] = s[m]
      <3> TAKE m \in (k + 3)..Len(s)
      <3>1. m \in (k + 2 - 1)..Len(s) /\ m \in 1..Len(s) /\ m # k /\ m # k - 1 /\ m # k + 1
            /\ m # k + 2
        BY <1>0
      <3> QED BY <2>1, <2>3, <3>1
    <2>6. r[k] = s[k]
      <3>1. k \in 1..k /\ k \in 1..Len(s)
        BY <1>0
      <3>2. p[k] = s[k]
        BY <1>0, <2>1, <3>1
      <3> QED BY <2>3, <3>1, <3>2
    <2>7. r[k + 2] = s[k + 2]
      <3>1. k + 1 \in (k + 2 - 1)..Len(s) /\ k + 1 \in 1..Len(s) /\ (k + 1) + 1 = k + 2
        BY <1>0
      <3>2. p[k + 1] = s[k + 2]
        BY <1>0, <2>1, <3>1
      <3>3. r[(k + 1) + 1] = p[k + 1]
        BY <2>3, <3>1
      <3> QED BY <3>1, <3>2, <3>3
    <2>8. r[k + 3] = s[k + 1]
      <3>1. k + 2 \in (k + 2 - 1)..Len(s) /\ k + 2 \in 1..Len(s) /\ (k + 2) + 1 = k + 3
        BY <1>0
      <3>2. p[k + 2] = s[k + 1]
        BY <1>0, <2>1, <3>1
      <3>3. r[(k + 2) + 1] = p[k + 2]
        BY <2>3, <3>1
      <3> QED BY <3>1, <3>2, <3>3
    <2>9. r[k + 4] = s[k + 3]
      <3>1. k + 3 \in (k + 2 - 1)..Len(s) /\ k + 3 \in 1..Len(s) /\ (k + 3) + 1 = k + 4
        BY <1>0
      <3>2. p[k + 3] = s[k + 3]
        BY <1>0, <2>1, <3>1
      <3>3. r[(k + 3) + 1] = p[k + 3]
        BY <2>3, <3>1
      <3> QED BY <3>1, <3>2, <3>3
    <2> QED BY <2>3, <2>4, <2>5, <2>6, <2>7, <2>8, <2>9 DEF r
  <1>3. /\ Added(s, k, x, w) = <<<<s[k], x>>, <<s[k + 2], x>>, <<s[k + 3], s[k + 1]>>>>
        /\ Removed(s, k, w) = <<<<s[k], s[k + 1]>>, <<s[k + 3], s[k + 2]>>>>
    BY WaysWritten
  <1> DEFINE p1 == en[<<s[k], x>>]
             p2 == en[<<s[k + 2], x>>]
             p3 == en[<<s[k + 3], s[k + 1]>>]
             g1 == en[<<s[k], s[k + 1]>>]
             g2 == en[<<s[k + 1], s[k + 2]>>]
             g3 == en[<<s[k + 2], s[k + 3]>>]
  <1>9. \A p \in DOMAIN en : en[p] \in Nat
    BY DEF IsTwoWayLength
  <1>8. /\ HasLength(en, s[k], s[k + 1], g1)
        /\ HasLength(en, s[k + 1], s[k + 2], g2)
        /\ HasLength(en, s[k + 2], s[k + 3], g3)
        /\ \A f : AddsUp(f, en, s) => f[k + 3] = f[k] + ((g1 + g2) + g3)
    <2>1. PICK f : AddsUp(f, en, s)
      BY DEF Leads
    <2>2. k \in 1..(Len(s) - 1) /\ k + 1 \in 1..(Len(s) - 1) /\ k + 2 \in 1..(Len(s) - 1)
      BY <1>0
    <2>3. (k + 1) + 1 = k + 2 /\ (k + 2) + 1 = k + 3
      BY <1>0
    <2>4. /\ HasLength(en, s[k], s[k + 1], g1)
          /\ \A h : AddsUp(h, en, s) => h[k] \in Nat /\ h[k + 1] = h[k] + g1
      <3> DEFINE n == k
      <3>1. n \in 1..(Len(s) - 1) /\ n + 1 = k + 1
        BY <2>2, <2>3
      <3> HIDE DEF n
      <3>2. s \in Seq(V)
        BY <1>1
      <3>3. IsLegOf(en, s, n, en[<<s[n], s[n + 1]>>])
        BY <2>1, <3>1, <3>2, LegsOf
      <3> QED BY <3>1, <3>3 DEF n, IsLegOf
    <2>5. /\ HasLength(en, s[k + 1], s[k + 2], g2)
          /\ \A h : AddsUp(h, en, s) => h[k + 1] \in Nat /\ h[k + 2] = h[k + 1] + g2
      <3> DEFINE n == k + 1
      <3>1. n \in 1..(Len(s) - 1) /\ n + 1 = k + 2
        BY <2>2, <2>3
      <3> HIDE DEF n
      <3>2. s \in Seq(V)
        BY <1>1
      <3>3. IsLegOf(en, s, n, en[<<s[n], s[n + 1]>>])
        BY <2>1, <3>1, <3>2, LegsOf
      <3> QED BY <3>1, <3>3 DEF n, IsLegOf
    <2>6. /\ HasLength(en, s[k + 2], s[k + 3], g3)
          /\ \A h : AddsUp(h, en, s) => h[k + 2] \in Nat /\ h[k + 3] = h[k + 2] + g3
      <3> DEFINE n == k + 2
      <3>1. n \in 1..(Len(s) - 1) /\ n + 1 = k + 3
        BY <2>2, <2>3
      <3> HIDE DEF n
      <3>2. s \in Seq(V)
        BY <1>1
      <3>3. IsLegOf(en, s, n, en[<<s[n], s[n + 1]>>])
        BY <2>1, <3>1, <3>2, LegsOf
      <3> QED BY <3>1, <3>3 DEF n, IsLegOf
    <2> HIDE DEF g1, g2, g3
    <2>10. ASSUME NEW h, AddsUp(h, en, s)
          PROVE  h[k + 3] = h[k] + ((g1 + g2) + g3)
      <3>1. g1 \in Nat /\ g2 \in Nat /\ g3 \in Nat
        BY <2>4, <2>5, <2>6 DEF HasLength
      <3>2. /\ h[k] \in Nat
            /\ h[k + 1] = h[k] + g1
            /\ h[k + 2] = h[k + 1] + g2
            /\ h[k + 3] = h[k + 2] + g3
        BY <2>10, <2>4, <2>5, <2>6
      <3> QED BY <3>1, <3>2
    <2> QED BY <2>10, <2>4, <2>5, <2>6
  <1>4. /\ p1 \in Nat /\ p2 \in Nat /\ p3 \in Nat /\ g1 \in Nat /\ g2 \in Nat /\ g3 \in Nat
        /\ {<<s[k], x>>, <<s[k + 2], x>>, <<s[k + 3], s[k + 1]>>} \subseteq DOMAIN en
        /\ InsertionCost(en, s, k, x, w) = ((p1 + p2) + p3) - (g1 + g3)
    <2> DEFINE q1 == <<s[k], x>>
               q2 == <<s[k + 2], x>>
               q3 == <<s[k + 3], s[k + 1]>>
               e1 == <<s[k], s[k + 1]>>
               e2 == <<s[k + 3], s[k + 2]>>
    <2>1. ToSet(<<q1, q2, q3>>) \subseteq DOMAIN en
      BY <1>1, <1>3
    <2>2. e1 \in DOMAIN en /\ e2 \in DOMAIN en
      BY <1>8 DEF HasLength, IsTwoWayLength
    <2>3. ToSet(<<e1, e2>>) \subseteq DOMAIN en
      <3> HIDE DEF e1, e2
      <3> QED BY <2>2 DEF ToSet
    <2>4. /\ {q1, q2, q3} \subseteq DOMAIN en /\ en[q1] \in Nat /\ en[q2] \in Nat /\ en[q3] \in Nat
          /\ Total(en, <<q1, q2, q3>>) = (en[q1] + en[q2]) + en[q3]
      <3> HIDE DEF q1, q2, q3
      <3> QED BY <2>1, ThreeTotal
    <2>5. Total(en, <<e1, e2>>) = en[e1] + en[e2]
      <3> HIDE DEF e1, e2
      <3> QED BY <2>3, TwoTotal
    <2>6. en[e1] = g1 /\ en[e2] = g3
      BY <1>8 DEF HasLength, IsTwoWayLength
    <2>7. g1 \in Nat /\ g2 \in Nat /\ g3 \in Nat
      BY <1>8 DEF HasLength
    <2>8. Total(en, Removed(s, k, w)) = (g1 + g3)
      BY <1>3, <2>5, <2>6
    <2>9. Total(en, Added(s, k, x, w)) = ((p1 + p2) + p3)
      BY <1>3, <2>4
    <2> QED BY <2>4, <2>7, <2>8, <2>9 DEF InsertionCost
  <1>5. /\ HasLength(en, s[k], x, p1)
        /\ HasLength(en, x, s[k + 2], p2)
        /\ HasLength(en, s[k + 2], s[k + 1], g2)
        /\ HasLength(en, s[k + 1], s[k + 3], p3)
    BY <1>4, <1>8 DEF HasLength, IsTwoWayLength
  <1> HIDE DEF p1, p2, p3, g1, g2, g3, r
  <1> DEFINE i == k
             j == k + 3
  <1>6. /\ i \in 1..Len(s) /\ j \in i..Len(s) /\ i + 4 = j + 1
        /\ i + 1 = k + 1 /\ i + 2 = k + 2 /\ i + 3 = k + 3 /\ i + 4 = k + 4
    BY <1>0
  <1>7. IsAround(s, r, i, j, 1) /\ r[i] = s[k]
    BY <1>2, <1>6 DEF IsAround
  <1>10. IsStretch(en, s, i, j, ((g1 + g2) + g3))
    BY <1>4, <1>8 DEF IsStretch
  <1> HIDE DEF i, j
  <1>11. AreLegs(en, r, i, 4, p1, p2, g2, p3, 0, 0)
    <2>1. /\ r[i + 1] = x /\ r[i + 2] = s[k + 2] /\ r[i + 3] = s[k + 1] /\ r[i + 4] = s[k + 3]
      BY <1>2, <1>6
    <2>2. /\ HasLength(en, r[i], r[i + 1], p1)
          /\ HasLength(en, r[i + 1], r[i + 2], p2)
          /\ HasLength(en, r[i + 2], r[i + 3], g2)
          /\ HasLength(en, r[i + 3], r[i + 4], p3)
      BY <1>5, <1>7, <2>1
    <2> QED BY <1>4, <2>2 DEF AreLegs
  <1>12. Leads(V, en, r, a, b, c + ((((((p1 + p2) + g2) + p3) + 0) + 0) - ((g1 + g2) + g3)))
    <2>1. r \in Seq(V) /\ i + 4 = j + 1 /\ IsAround(s, r, i, j, 1)
      BY <1>2, <1>6, <1>7
    <2> QED BY <1>9, <1>10, <1>11, <2>1, InPlaceWritten
  <1>13. (((((p1 + p2) + g2) + p3) + 0) + 0) - ((g1 + g2) + g3) = ((p1 + p2) + p3) - (g1 + g3)
    BY <1>4
  <1>14. InsertionCost(en, s, k, x, w) \in Int
    BY <1>4
  <1> QED BY <1>4, <1>12, <1>13, <1>14 DEF r

\* Both.
LEMMA BothLeads ==
  ASSUME NEW V, NEW en, IsTwoWayLength(en), NEW s, NEW a, NEW b, NEW c, Leads(V, en, s, a, b, c),
         NEW k, NEW x, NEW w, CanInsert(V, en, s, k, x, w), w.kind # "revisit", w.left, w.right
  PROVE  /\ Leads(V, en, Inserted(s, k, x, w), a, b, c + InsertionCost(en, s, k, x, w))
         /\ InsertionCost(en, s, k, x, w) \in Int
  <1> DEFINE r == Inserted(s, k, x, w)
  <1>1. /\ s \in Seq(V) /\ k \in 1..Len(s) /\ x \in V /\ w \in Way /\ Fits(s, k, w)
        /\ ToSet(Added(s, k, x, w)) \subseteq DOMAIN en /\ w.kind = "sequence"
    BY DEF CanInsert, Way
  <1>0. /\ k \in Nat /\ k >= 1 /\ Len(s) \in Nat /\ k < Len(s) /\ k > 2 /\ k + 3 <= Len(s)
    BY <1>1 DEF Fits
  <1>2. /\ r \in Seq(V) /\ Len(r) = Len(s) + 1
        /\ \A m \in 1..(k - 2) : r[m] = s[m]
        /\ r[k - 2] = s[k - 2]
        /\ r[k - 1] = s[k]
        /\ r[k] = s[k - 1]
        /\ r[k + 1] = x
        /\ r[k + 2] = s[k + 2]
        /\ r[k + 3] = s[k + 1]
        /\ r[k + 4] = s[k + 3]
        /\ \A m \in (k + 3)..Len(s) : r[m + 1] = s[m]
    <2> DEFINE p == Swapped(s, k, w)
    <2>1. \A m \in 1..Len(s) :
            p[m] = IF w.left /\ m = k - 1 THEN s[k]
                   ELSE IF w.left /\ m = k THEN s[k - 1]
                   ELSE IF w.right /\ m = k + 1 THEN s[k + 2]
                   ELSE IF w.right /\ m = k + 2 THEN s[k + 1]
                   ELSE s[m]
      BY <1>1, SwappedFacts
    <2>2. IsPutIn(V, s, k, x, r, p, 1)
      BY InsertedParts
    <2> HIDE DEF p, r
    <2>3. /\ r \in Seq(V) /\ Len(r) = Len(s) + 1
          /\ \A m \in 1..k : r[m] = p[m]
          /\ r[k + 1] = x
          /\ \A m \in (k + 2 - 1)..Len(s) : r[m + 1] = p[m]
      BY <2>2 DEF IsPutIn
    <2>4. \A m \in 1..(k - 2) : r[m] = s[m]
      <3> TAKE m \in 1..(k - 2)
      <3>1. m \in 1..k /\ m \in 1..Len(s) /\ m # k + 1 /\ m # k + 2 /\ m # k /\ m # k - 1
        BY <1>0
      <3> QED BY <2>1, <2>3, <3>1
    <2>5. \A m \in (k + 3)..Len(s) : r[m + 1] = s[m]
      <3> TAKE m \in (k + 3)..Len(s)
      <3>1. m \in (k + 2 - 1)..Len(s) /\ m \in 1..Len(s) /\ m # k /\ m # k - 1 /\ m # k + 1
            /\ m # k + 2
        BY <1>0
      <3> QED BY <2>1, <2>3, <3>1
    <2>6. r[k - 2] = s[k - 2]
      <3>1. k - 2 \in 1..k /\ k - 2 \in 1..Len(s)
        BY <1>0
      <3>2. p[k - 2] = s[k - 2]
        BY <1>0, <2>1, <3>1
      <3> QED BY <2>3, <3>1, <3>2
    <2>7. r[k - 1] = s[k]
      <3>1. k - 1 \in 1..k /\ k - 1 \in 1..Len(s)
        BY <1>0
      <3>2. p[k - 1] = s[k]
        BY <1>0, <2>1, <3>1
      <3> QED BY <2>3, <3>1, <3>2
    <2>8. r[k] = s[k - 1]
      <3>1. k \in 1..k /\ k \in 1..Len(s)
        BY <1>0
      <3>2. p[k] = s[k - 1]
        BY <1>0, <2>1, <3>1
      <3> QED BY <2>3, <3>1, <3>2
    <2>9. r[k + 2] = s[k + 2]
      <3>1. k + 1 \in (k + 2 - 1)..Len(s) /\ k + 1 \in 1..Len(s) /\ (k + 1) + 1 = k + 2
        BY <1>0
      <3>2. p[k + 1] = s[k + 2]
        BY <1>0, <2>1, <3>1
      <3>3. r[(k + 1) + 1] = p[k + 1]
        BY <2>3, <3>1
      <3> QED BY <3>1, <3>2, <3>3
    <2>10. r[k + 3] = s[k + 1]
      <3>1. k + 2 \in (k + 2 - 1)..Len(s) /\ k + 2 \in 1..Len(s) /\ (k + 2) + 1 = k + 3
        BY <1>0
      <3>2. p[k + 2] = s[k + 1]
        BY <1>0, <2>1, <3>1
      <3>3. r[(k + 2) + 1] = p[k + 2]
        BY <2>3, <3>1
      <3> QED BY <3>1, <3>2, <3>3
    <2>11. r[k + 4] = s[k + 3]
      <3>1. k + 3 \in (k + 2 - 1)..Len(s) /\ k + 3 \in 1..Len(s) /\ (k + 3) + 1 = k + 4
        BY <1>0
      <3>2. p[k + 3] = s[k + 3]
        BY <1>0, <2>1, <3>1
      <3>3. r[(k + 3) + 1] = p[k + 3]
        BY <2>3, <3>1
      <3> QED BY <3>1, <3>2, <3>3
    <2> QED BY <2>3, <2>4, <2>5, <2>6, <2>7, <2>8, <2>9, <2>10, <2>11 DEF r
  <1>3. /\ Added(s, k, x, w)
             = <<<<s[k - 1], x>>, <<s[k - 2], s[k]>>, <<s[k + 2], x>>, <<s[k + 3], s[k + 1]>>>>
        /\ Removed(s, k, w) = <<<<s[k], s[k + 1]>>, <<s[k - 2], s[k - 1]>>, <<s[k + 3], s[k + 2]>>>>
    BY WaysWritten
  <1> DEFINE p1 == en[<<s[k - 1], x>>]
             p2 == en[<<s[k - 2], s[k]>>]
             p3 == en[<<s[k + 2], x>>]
             p4 == en[<<s[k + 3], s[k + 1]>>]
             g1 == en[<<s[k - 2], s[k - 1]>>]
             g2 == en[<<s[k - 1], s[k]>>]
             g3 == en[<<s[k], s[k + 1]>>]
             g4 == en[<<s[k + 1], s[k + 2]>>]
             g5 == en[<<s[k + 2], s[k + 3]>>]
  <1>9. \A p \in DOMAIN en : en[p] \in Nat
    BY DEF IsTwoWayLength
  <1>8. /\ HasLength(en, s[k - 2], s[k - 1], g1)
        /\ HasLength(en, s[k - 1], s[k], g2)
        /\ HasLength(en, s[k], s[k + 1], g3)
        /\ HasLength(en, s[k + 1], s[k + 2], g4)
        /\ HasLength(en, s[k + 2], s[k + 3], g5)
        /\ \A f : AddsUp(f, en, s) => f[k + 3] = f[k - 2] + ((((g1 + g2) + g3) + g4) + g5)
    <2>1. PICK f : AddsUp(f, en, s)
      BY DEF Leads
    <2>2. k - 2 \in 1..(Len(s) - 1) /\ k - 1 \in 1..(Len(s) - 1) /\ k \in 1..(Len(s) - 1)
          /\ k + 1 \in 1..(Len(s) - 1) /\ k + 2 \in 1..(Len(s) - 1)
      BY <1>0
    <2>3. (k - 2) + 1 = k - 1 /\ (k - 1) + 1 = k /\ (k + 1) + 1 = k + 2 /\ (k + 2) + 1 = k + 3
      BY <1>0
    <2>4. /\ HasLength(en, s[k - 2], s[k - 1], g1)
          /\ \A h : AddsUp(h, en, s) => h[k - 2] \in Nat /\ h[k - 1] = h[k - 2] + g1
      <3> DEFINE n == k - 2
      <3>1. n \in 1..(Len(s) - 1) /\ n + 1 = k - 1
        BY <2>2, <2>3
      <3> HIDE DEF n
      <3>2. s \in Seq(V)
        BY <1>1
      <3>3. IsLegOf(en, s, n, en[<<s[n], s[n + 1]>>])
        BY <2>1, <3>1, <3>2, LegsOf
      <3> QED BY <3>1, <3>3 DEF n, IsLegOf
    <2>5. /\ HasLength(en, s[k - 1], s[k], g2)
          /\ \A h : AddsUp(h, en, s) => h[k - 1] \in Nat /\ h[k] = h[k - 1] + g2
      <3> DEFINE n == k - 1
      <3>1. n \in 1..(Len(s) - 1) /\ n + 1 = k
        BY <2>2, <2>3
      <3> HIDE DEF n
      <3>2. s \in Seq(V)
        BY <1>1
      <3>3. IsLegOf(en, s, n, en[<<s[n], s[n + 1]>>])
        BY <2>1, <3>1, <3>2, LegsOf
      <3> QED BY <3>1, <3>3 DEF n, IsLegOf
    <2>6. /\ HasLength(en, s[k], s[k + 1], g3)
          /\ \A h : AddsUp(h, en, s) => h[k] \in Nat /\ h[k + 1] = h[k] + g3
      <3> DEFINE n == k
      <3>1. n \in 1..(Len(s) - 1) /\ n + 1 = k + 1
        BY <2>2, <2>3
      <3> HIDE DEF n
      <3>2. s \in Seq(V)
        BY <1>1
      <3>3. IsLegOf(en, s, n, en[<<s[n], s[n + 1]>>])
        BY <2>1, <3>1, <3>2, LegsOf
      <3> QED BY <3>1, <3>3 DEF n, IsLegOf
    <2>7. /\ HasLength(en, s[k + 1], s[k + 2], g4)
          /\ \A h : AddsUp(h, en, s) => h[k + 1] \in Nat /\ h[k + 2] = h[k + 1] + g4
      <3> DEFINE n == k + 1
      <3>1. n \in 1..(Len(s) - 1) /\ n + 1 = k + 2
        BY <2>2, <2>3
      <3> HIDE DEF n
      <3>2. s \in Seq(V)
        BY <1>1
      <3>3. IsLegOf(en, s, n, en[<<s[n], s[n + 1]>>])
        BY <2>1, <3>1, <3>2, LegsOf
      <3> QED BY <3>1, <3>3 DEF n, IsLegOf
    <2>8. /\ HasLength(en, s[k + 2], s[k + 3], g5)
          /\ \A h : AddsUp(h, en, s) => h[k + 2] \in Nat /\ h[k + 3] = h[k + 2] + g5
      <3> DEFINE n == k + 2
      <3>1. n \in 1..(Len(s) - 1) /\ n + 1 = k + 3
        BY <2>2, <2>3
      <3> HIDE DEF n
      <3>2. s \in Seq(V)
        BY <1>1
      <3>3. IsLegOf(en, s, n, en[<<s[n], s[n + 1]>>])
        BY <2>1, <3>1, <3>2, LegsOf
      <3> QED BY <3>1, <3>3 DEF n, IsLegOf
    <2> HIDE DEF g1, g2, g3, g4, g5
    <2>10. ASSUME NEW h, AddsUp(h, en, s)
          PROVE  h[k + 3] = h[k - 2] + ((((g1 + g2) + g3) + g4) + g5)
      <3>1. g1 \in Nat /\ g2 \in Nat /\ g3 \in Nat /\ g4 \in Nat /\ g5 \in Nat
        BY <2>4, <2>5, <2>6, <2>7, <2>8 DEF HasLength
      <3>2. /\ h[k - 2] \in Nat
            /\ h[k - 1] = h[k - 2] + g1
            /\ h[k] = h[k - 1] + g2
            /\ h[k + 1] = h[k] + g3
            /\ h[k + 2] = h[k + 1] + g4
            /\ h[k + 3] = h[k + 2] + g5
        BY <2>10, <2>4, <2>5, <2>6, <2>7, <2>8
      <3> QED BY <3>1, <3>2
    <2> QED BY <2>10, <2>4, <2>5, <2>6, <2>7, <2>8
  <1>4. /\ p1 \in Nat /\ p2 \in Nat /\ p3 \in Nat /\ p4 \in Nat /\ g1 \in Nat /\ g2 \in Nat
             /\ g3 \in Nat /\ g4 \in Nat /\ g5 \in Nat
        /\ {<<s[k - 1], x>>, <<s[k - 2], s[k]>>, <<s[k + 2], x>>, <<s[k + 3], s[k + 1]>>} \subseteq DOMAIN en
        /\ InsertionCost(en, s, k, x, w) = (((p1 + p2) + p3) + p4) - ((g3 + g1) + g5)
    <2> DEFINE q1 == <<s[k - 1], x>>
               q2 == <<s[k - 2], s[k]>>
               q3 == <<s[k + 2], x>>
               q4 == <<s[k + 3], s[k + 1]>>
               e1 == <<s[k], s[k + 1]>>
               e2 == <<s[k - 2], s[k - 1]>>
               e3 == <<s[k + 3], s[k + 2]>>
    <2>1. ToSet(<<q1, q2, q3, q4>>) \subseteq DOMAIN en
      BY <1>1, <1>3
    <2>2. e1 \in DOMAIN en /\ e2 \in DOMAIN en /\ e3 \in DOMAIN en
      BY <1>8 DEF HasLength, IsTwoWayLength
    <2>3. ToSet(<<e1, e2, e3>>) \subseteq DOMAIN en
      <3> HIDE DEF e1, e2, e3
      <3> QED BY <2>2 DEF ToSet
    <2>4. /\ {q1, q2, q3, q4} \subseteq DOMAIN en /\ en[q1] \in Nat /\ en[q2] \in Nat
               /\ en[q3] \in Nat /\ en[q4] \in Nat
          /\ Total(en, <<q1, q2, q3, q4>>) = ((en[q1] + en[q2]) + en[q3]) + en[q4]
      <3> HIDE DEF q1, q2, q3, q4
      <3> QED BY <2>1, FourTotal
    <2>5. Total(en, <<e1, e2, e3>>) = (en[e1] + en[e2]) + en[e3]
      <3> HIDE DEF e1, e2, e3
      <3> QED BY <2>3, ThreeTotal
    <2>6. en[e1] = g3 /\ en[e2] = g1 /\ en[e3] = g5
      BY <1>8 DEF HasLength, IsTwoWayLength
    <2>7. g1 \in Nat /\ g2 \in Nat /\ g3 \in Nat /\ g4 \in Nat /\ g5 \in Nat
      BY <1>8 DEF HasLength
    <2>8. Total(en, Removed(s, k, w)) = ((g3 + g1) + g5)
      BY <1>3, <2>5, <2>6
    <2>9. Total(en, Added(s, k, x, w)) = (((p1 + p2) + p3) + p4)
      BY <1>3, <2>4
    <2> QED BY <2>4, <2>7, <2>8, <2>9 DEF InsertionCost
  <1>5. /\ HasLength(en, s[k - 2], s[k], p2)
        /\ HasLength(en, s[k], s[k - 1], g2)
        /\ HasLength(en, s[k - 1], x, p1)
        /\ HasLength(en, x, s[k + 2], p3)
        /\ HasLength(en, s[k + 2], s[k + 1], g4)
        /\ HasLength(en, s[k + 1], s[k + 3], p4)
    BY <1>4, <1>8 DEF HasLength, IsTwoWayLength
  <1> HIDE DEF p1, p2, p3, p4, g1, g2, g3, g4, g5, r
  <1> DEFINE i == k - 2
             j == k + 3
  <1>6. /\ i \in 1..Len(s) /\ j \in i..Len(s) /\ i + 6 = j + 1
        /\ i + 1 = k - 1 /\ i + 2 = k /\ i + 3 = k + 1 /\ i + 4 = k + 2 /\ i + 5 = k + 3
             /\ i + 6 = k + 4
    BY <1>0
  <1>7. IsAround(s, r, i, j, 1) /\ r[i] = s[k - 2]
    BY <1>2, <1>6 DEF IsAround
  <1>10. IsStretch(en, s, i, j, ((((g1 + g2) + g3) + g4) + g5))
    BY <1>4, <1>8 DEF IsStretch
  <1> HIDE DEF i, j
  <1>11. AreLegs(en, r, i, 6, p2, g2, p1, p3, g4, p4)
    <2>1. /\ r[i + 1] = s[k] /\ r[i + 2] = s[k - 1] /\ r[i + 3] = x /\ r[i + 4] = s[k + 2]
               /\ r[i + 5] = s[k + 1] /\ r[i + 6] = s[k + 3]
      BY <1>2, <1>6
    <2>2. /\ HasLength(en, r[i], r[i + 1], p2)
          /\ HasLength(en, r[i + 1], r[i + 2], g2)
          /\ HasLength(en, r[i + 2], r[i + 3], p1)
          /\ HasLength(en, r[i + 3], r[i + 4], p3)
          /\ HasLength(en, r[i + 4], r[i + 5], g4)
          /\ HasLength(en, r[i + 5], r[i + 6], p4)
      BY <1>5, <1>7, <2>1
    <2> QED BY <1>4, <2>2 DEF AreLegs
  <1>12. Leads(V, en, r, a, b, c + ((((((p2 + g2) + p1) + p3) + g4) + p4) - ((((g1 + g2) + g3) + g4) + g5)))
    <2>1. r \in Seq(V) /\ i + 6 = j + 1 /\ IsAround(s, r, i, j, 1)
      BY <1>2, <1>6, <1>7
    <2> QED BY <1>9, <1>10, <1>11, <2>1, InPlaceWritten
  <1>13. (((((p2 + g2) + p1) + p3) + g4) + p4) - ((((g1 + g2) + g3) + g4) + g5)
         = (((p1 + p2) + p3) + p4) - ((g3 + g1) + g5)
    BY <1>4
  <1>14. InsertionCost(en, s, k, x, w) \in Int
    BY <1>4
  <1> QED BY <1>4, <1>12, <1>13, <1>14 DEF r

\* Inserting adds to the length what it costs (rtsp/eci_gen.rs:292).
LEMMA InsertedLeads ==
  ASSUME NEW V, NEW en, IsTwoWayLength(en), NEW s, NEW a, NEW b, NEW c, Leads(V, en, s, a, b, c),
         NEW k, NEW x, NEW w, CanInsert(V, en, s, k, x, w)
  PROVE  /\ Leads(V, en, Inserted(s, k, x, w), a, b, c + InsertionCost(en, s, k, x, w))
         /\ InsertionCost(en, s, k, x, w) \in Int
  <1>1. w.left \in BOOLEAN /\ w.right \in BOOLEAN
    BY DEF CanInsert, Way
  <1>2. CASE w.kind = "revisit"
    BY <1>2, RevisitLeads
  <1>3. CASE w.kind # "revisit" /\ ~w.left /\ ~w.right
    BY <1>3, BetweenLeads
  <1>4. CASE w.kind # "revisit" /\ w.left /\ ~w.right
    BY <1>4, LeftLeads
  <1>5. CASE w.kind # "revisit" /\ ~w.left /\ w.right
    BY <1>5, RightLeads
  <1>6. CASE w.kind # "revisit" /\ w.left /\ w.right
    BY <1>6, BothLeads
  <1> QED BY <1>1, <1>2, <1>3, <1>4, <1>5, <1>6

\* What a sequence holds.
LEMMA SetOf ==
  ASSUME NEW V, NEW s \in Seq(V)
  PROVE  /\ Len(s) \in Nat /\ DOMAIN s = 1..Len(s)
         /\ ToSet(s) = {s[m] : m \in 1..Len(s)} /\ ToSet(s) \in SUBSET V
  <1>1. Len(s) \in Nat /\ DOMAIN s = 1..Len(s) /\ \A m \in 1..Len(s) : s[m] \in V
    OBVIOUS
  <1> QED BY <1>1 DEF ToSet

\* The same stops, in whatever order.
SameStops(s, p) ==
  /\ \A m \in 1..Len(s) : \E n \in 1..Len(s) : p[m] = s[n]
  /\ \A m \in 1..Len(s) : \E n \in 1..Len(s) : s[m] = p[n]

\* Exchanging stops leaves all of them in.
LEMMA SwappedSet ==
  ASSUME NEW V, NEW en, NEW s, NEW k, NEW x, NEW w, CanInsert(V, en, s, k, x, w),
         w.kind # "revisit"
  PROVE  SameStops(s, Swapped(s, k, w))
  <1> DEFINE p == Swapped(s, k, w)
             N == Len(s)
             sigma(m) == IF w.left /\ m = k - 1 THEN k
                         ELSE IF w.left /\ m = k THEN k - 1
                         ELSE IF w.right /\ m = k + 1 THEN k + 2
                         ELSE IF w.right /\ m = k + 2 THEN k + 1
                         ELSE m
  <1>1. /\ s \in Seq(V) /\ k \in 1..N /\ x \in V /\ w \in Way /\ Fits(s, k, w)
        /\ w.kind = "sequence" /\ w.left \in BOOLEAN /\ w.right \in BOOLEAN
    BY DEF CanInsert, Way
  <1>2. /\ k \in Nat /\ N \in Nat /\ k <= N /\ 1 <= k
        /\ w.left => k > 2
        /\ w.right => k + 3 <= N
    BY <1>1 DEF Fits
  <1>3. \A m \in 1..N :
          p[m] = IF w.left /\ m = k - 1 THEN s[k]
                 ELSE IF w.left /\ m = k THEN s[k - 1]
                 ELSE IF w.right /\ m = k + 1 THEN s[k + 2]
                 ELSE IF w.right /\ m = k + 2 THEN s[k + 1]
                 ELSE s[m]
    BY <1>1, SwappedFacts
  <1> HIDE DEF p, N
  <1>4. \A m \in 1..N : p[m] = s[sigma(m)]
    BY <1>3
  <1>5. \A m \in 1..N : sigma(m) \in 1..N /\ sigma(sigma(m)) = m
    BY <1>2
  <1> HIDE DEF sigma
  <1>6. ASSUME NEW m \in 1..N
        PROVE  (\E n \in 1..N : p[m] = s[n]) /\ (\E n \in 1..N : s[m] = p[n])
    <2>1. p[m] = s[sigma(m)] /\ sigma(m) \in 1..N
      BY <1>4, <1>5
    <2>2. p[sigma(m)] = s[sigma(sigma(m))] /\ sigma(sigma(m)) = m
      BY <1>4, <1>5
    <2> QED BY <2>1, <2>2
  <1> QED BY <1>6 DEF p, N, SameStops

\* What x is put into holds x besides.
LEMMA PutInSet ==
  ASSUME NEW V, NEW s \in Seq(V), NEW k \in 1..Len(s), NEW x, NEW r, NEW p, NEW D \in {1, 2},
         IsPutIn(V, s, k, x, r, p, D), SameStops(s, p)
  PROVE  ToSet(r) = ToSet(s) \cup {x}
  <1> DEFINE N == Len(s)
  <1>1. /\ N \in Nat /\ ToSet(s) = {s[m] : m \in 1..N} /\ k \in 1..N
    BY SetOf
  <1>2. /\ r \in Seq(V) /\ Len(r) = N + D
        /\ \A m \in 1..k : r[m] = p[m]
        /\ r[k + 1] = x
        /\ \A m \in (k + 2 - D)..N : r[m + D] = p[m]
    BY DEF IsPutIn
  <1>3. ToSet(r) = {r[m] : m \in 1..(N + D)}
    BY <1>2, SetOf
  <1>4. /\ \A m \in 1..N : \E n \in 1..N : p[m] = s[n]
        /\ \A m \in 1..N : \E n \in 1..N : s[m] = p[n]
    BY DEF SameStops
  <1>10. D = 1 \/ D = 2
    OBVIOUS
  <1> HIDE DEF N
  <1>5. ASSUME NEW m \in 1..(N + D)
        PROVE  r[m] = x \/ \E n \in 1..N : r[m] = p[n]
    <2>1. CASE m <= k
      <3>1. m \in 1..k /\ m \in 1..N
        BY <1>1, <2>1
      <3> QED BY <1>2, <3>1
    <2>2. CASE m = k + 1
      BY <1>2, <2>2
    <2>3. CASE m > k + 1
      <3> DEFINE n == m - D
      <3>1. n \in (k + 2 - D)..N /\ n \in 1..N /\ n + D = m
        BY <1>1, <2>3
      <3> HIDE DEF n
      <3> QED BY <1>2, <3>1
    <2> QED BY <1>1, <2>1, <2>2, <2>3
  <1>6. ASSUME NEW n \in 1..N
        PROVE  \E m \in 1..(N + D) : r[m] = p[n]
    <2>1. CASE n <= k
      <3>1. n \in 1..k /\ n \in 1..(N + D)
        BY <1>1, <2>1
      <3> QED BY <1>2, <3>1
    <2>2. CASE n > k
      <3> DEFINE m == n + D
      <3>1. n \in (k + 2 - D)..N /\ m \in 1..(N + D) /\ n + D = m
        BY <1>1, <1>10, <2>2
      <3> HIDE DEF m
      <3> QED BY <1>2, <3>1
    <2> QED BY <1>1, <2>1, <2>2
  <1>7. k + 1 \in 1..(N + D)
    BY <1>1
  <1>8. ToSet(r) \subseteq ToSet(s) \cup {x}
    <2>1. ASSUME NEW m \in 1..(N + D)
          PROVE  r[m] \in ToSet(s) \cup {x}
      BY <1>1, <1>4, <1>5
    <2>2. \A h \in ToSet(r) : \E m \in 1..(N + D) : h = r[m]
      BY <1>3
    <2> QED BY <2>1, <2>2
  <1>9. ToSet(s) \cup {x} \subseteq ToSet(r)
    <2>1. ASSUME NEW m \in 1..N
          PROVE  s[m] \in ToSet(r)
      <3>1. PICK n \in 1..N : s[m] = p[n]
        BY <1>4
      <3>2. PICK h \in 1..(N + D) : r[h] = p[n]
        BY <1>6
      <3> QED BY <1>3, <3>1, <3>2
    <2>2. x \in ToSet(r)
      BY <1>2, <1>3, <1>7
    <2> QED BY <1>1, <2>1, <2>2
  <1> QED BY <1>8, <1>9

\* Inserting x puts it in and leaves all else in.
LEMMA InsertedSet ==
  ASSUME NEW V, NEW en, NEW s, NEW k, NEW x, NEW w, CanInsert(V, en, s, k, x, w)
  PROVE  ToSet(Inserted(s, k, x, w)) = ToSet(s) \cup {x}
  <1>1. s \in Seq(V) /\ k \in 1..Len(s)
    BY DEF CanInsert
  <1>2. CASE w.kind = "revisit"
    <2>1. IsPutIn(V, s, k, x, Inserted(s, k, x, w), s, 2)
      BY <1>2, InsertedParts
    <2>2. SameStops(s, s)
      BY DEF SameStops
    <2>3. 2 \in {1, 2}
      OBVIOUS
    <2> QED BY <1>1, <2>1, <2>2, <2>3, PutInSet
  <1>3. CASE w.kind # "revisit"
    <2> DEFINE p == Swapped(s, k, w)
    <2>1. IsPutIn(V, s, k, x, Inserted(s, k, x, w), p, 1)
      BY <1>3, InsertedParts
    <2>2. SameStops(s, p)
      BY <1>3, SwappedSet
    <2>3. 1 \in {1, 2}
      OBVIOUS
    <2> HIDE DEF p
    <2> QED BY <1>1, <2>1, <2>2, <2>3, PutInSet
  <1> QED BY <1>2, <1>3

\* No leg from a stop to itself.
Moves(s) == \A k \in DOMAIN Legs(s) : Legs(s)[k][1] # Legs(s)[k][2]

\* That is, no stop twice in a row.
LEMMA MovesOn ==
  ASSUME NEW s, Len(s) \in Nat
  PROVE  Moves(s) <=> \A m \in 1..(Len(s) - 1) : s[m] # s[m + 1]
  <1>1. /\ DOMAIN Legs(s) = 1..(Len(s) - 1)
        /\ \A k \in 1..(Len(s) - 1) : Legs(s)[k] = <<s[k], s[k + 1]>>
    BY DEF Legs
  <1> DEFINE l == Legs(s)
  <1>2. ASSUME NEW k \in 1..(Len(s) - 1)
        PROVE  l[k][1] = s[k] /\ l[k][2] = s[k + 1]
    BY <1>1
  <1>3. DOMAIN l = 1..(Len(s) - 1)
    BY <1>1
  <1>4. Moves(s) <=> \A k \in DOMAIN l : l[k][1] # l[k][2]
    BY DEF Moves
  <1> HIDE DEF l
  <1> QED BY <1>2, <1>3, <1>4

\* Without swaps a new stop is next to others only.
LEMMA InsertedMoves ==
  ASSUME NEW V, NEW en, NEW s, NEW k, NEW x, NEW w, CanInsert(V, en, s, k, x, w),
         ~w.left, ~w.right, x \notin ToSet(s), Moves(s)
  PROVE  Moves(Inserted(s, k, x, w))
  <1> DEFINE r == Inserted(s, k, x, w)
             D == IF w.kind = "revisit" THEN 2 ELSE 1
             N == Len(s)
  <1>1. /\ s \in Seq(V) /\ k \in 1..N /\ w \in Way /\ N \in Nat /\ Fits(s, k, w)
        /\ (w.kind = "revisit" \/ w.kind = "sequence")
    <2>1. s \in Seq(V) /\ k \in 1..N /\ w \in Way /\ Fits(s, k, w)
      BY DEF CanInsert
    <2>2. w.kind = "revisit" \/ w.kind = "sequence"
      BY <2>1 DEF Way
    <2> QED BY <2>1, <2>2
  <1>2. /\ \A m \in 1..(N - 1) : s[m] # s[m + 1]
        /\ \A m \in 1..N : s[m] # x
    <2>1. \A m \in 1..N : s[m] # x
      BY <1>1, SetOf
    <2> QED BY <1>1, <2>1, MovesOn
  <1>3. IsPutIn(V, s, k, x, r, s, D)
    <2>1. CASE w.kind = "revisit"
      BY <2>1, InsertedParts
    <2>2. CASE w.kind # "revisit"
      <3> DEFINE p == Swapped(s, k, w)
      <3>1. IsPutIn(V, s, k, x, r, p, 1)
        BY <2>2, InsertedParts
      <3>2. p = s
        BY DEF Swapped
      <3> HIDE DEF p, r
      <3> QED BY <2>2, <3>1, <3>2
    <2> QED BY <2>1, <2>2
  <1>4. /\ Len(r) = N + D
        /\ \A m \in 1..k : r[m] = s[m]
        /\ r[k + 1] = x
        /\ \A m \in (k + 2 - D)..N : r[m + D] = s[m]
    BY <1>3 DEF IsPutIn
  <1>5. D \in {1, 2} /\ (D = 1 => k < N)
    BY <1>1 DEF Fits
  <1> HIDE DEF r, D, N
  <1>6. ASSUME NEW m \in 1..((N + D) - 1)
        PROVE  r[m] # r[m + 1]
    <2>1. CASE m < k
      <3>1. m \in 1..k /\ m + 1 \in 1..k /\ m \in 1..(N - 1)
        BY <1>1, <2>1
      <3> QED BY <1>2, <1>4, <3>1
    <2>2. CASE m = k
      <3>1. k \in 1..k
        BY <1>1
      <3> QED BY <1>1, <1>2, <1>4, <2>2, <3>1
    <2>3. CASE m = k + 1
      <3> DEFINE n == k + 2 - D
      <3>1. n \in (k + 2 - D)..N /\ n \in 1..N /\ n + D = m + 1
        BY <1>1, <1>5, <2>3
      <3> HIDE DEF n
      <3>2. r[m + 1] = s[n]
        BY <1>4, <3>1
      <3> QED BY <1>2, <1>4, <2>3, <3>1, <3>2
    <2>4. CASE m > k + 1
      <3> DEFINE n == m - D
      <3>1. /\ n \in (k + 2 - D)..N /\ n + 1 \in (k + 2 - D)..N /\ n \in 1..(N - 1)
            /\ n + D = m /\ (n + 1) + D = m + 1
        BY <1>1, <1>5, <2>4
      <3> HIDE DEF n
      <3>2. r[m] = s[n] /\ r[m + 1] = s[n + 1]
        BY <1>4, <3>1
      <3> QED BY <1>2, <3>1, <3>2
    <2> QED BY <1>1, <2>1, <2>2, <2>3, <2>4
  <1>7. Len(r) \in Nat
    BY <1>1, <1>4, <1>5
  <1> QED BY <1>4, <1>6, <1>7, MovesOn DEF r

-----------------------------------------------------------------------------
(* Walks past all stops                                                   *)

\* r[1..N + 1] leads from s to t past S and whatever else, f at least the lengths up to
\* each of its stops.
LeadsPast(V, d, S, s, t, N, r, f) ==
  /\ N \in Nat /\ r[1] = s /\ r[N + 1] = t /\ s \notin S
  /\ \A k \in 1..(N + 1) : r[k] \in V /\ f[k] \in Nat
  /\ S \subseteq {r[k] : k \in 1..(N + 1)}
  /\ f[1] = 0 /\ \A k \in 1..N : f[k] + d[<<r[k], r[k + 1]>>] <= f[k + 1]

\* From x, g along, all but the rest of the tour is done by its jth stop z, h along.
IsDoneTo(d, best, S, s, rest, x, g, z, h) ==
  /\ x \in S \cup {s} /\ g \in Nat /\ best[S][s] <= g + best[rest][x] /\ g + d[<<x, z>>] <= h

\* One stop more.
LEMMA DoneOneMore ==
  ASSUME NEW V, NEW d, IsMeasure(V, d), NEW S \in SUBSET V, NEW s \in V, NEW t \in V,
         NEW best, IsBest(best, d, S, s, t), NEW rest \in SUBSET S,
         NEW x, NEW g, NEW z \in V, NEW h \in Nat, IsDoneTo(d, best, S, s, rest, x, g, z, h),
         NEW y \in V, NEW i \in Nat, h + d[<<z, y>>] <= i
  PROVE  \E u, e : IsDoneTo(d, best, S, s, rest \ {y}, u, e, y, i)
  <1> DEFINE A == S \cup {s}
             a == best[S][s]
             b == best[rest][x]
             c == best[rest \ {y}][y]
             p == d[<<x, z>>]
             q == d[<<z, y>>]
             k == d[<<x, y>>]
  <1>1. \A u \in SUBSET S : \A v \in A : best[u][v] \in Nat
    <2>1. \A u \in SUBSET S : best[u] \in [A -> Nat]
      BY DEF IsBest
    <2> QED BY <2>1
  <1>2. x \in A /\ g \in Nat /\ a <= g + b /\ g + p <= h /\ x \in V
    BY DEF IsDoneTo
  <1>3. p \in Nat /\ q \in Nat /\ k \in Nat /\ k <= p + q /\ d[<<y, y>>] = 0
    BY <1>2 DEF IsMeasure
  <1>4. a \in Nat /\ b \in Nat
    BY <1>1, <1>2
  <1>5. g + k <= i
    <2> HIDE DEF p, q, k
    <2>1. h + q <= i
      BY DEF q
    <2> QED BY <1>2, <1>3, <2>1
  <1>6. CASE y \in S
    <2>1. b <= k + c /\ c \in Nat
      <3>1. b <= k + c
        BY <1>2, <1>6, BestByWay
      <3>2. rest \ {y} \in SUBSET S /\ y \in A
        BY <1>6
      <3> HIDE DEF A
      <3> QED BY <1>1, <3>1, <3>2
    <2> HIDE DEF a, b, c, k
    <2>2. a <= (g + k) + c /\ (g + k) + 0 <= i /\ g + k \in Nat
      BY <1>2, <1>3, <1>4, <1>5, <2>1
    <2>3. IsDoneTo(d, best, S, s, rest \ {y}, y, g + k, y, i)
      BY <1>3, <1>6, <2>2 DEF IsDoneTo, a, c
    <2> QED BY <2>3
  <1>7. CASE y \notin S
    <2>1. rest \ {y} = rest
      BY <1>7
    <2>2. IsDoneTo(d, best, S, s, rest, x, g, y, i)
      BY <1>2, <1>5 DEF IsDoneTo
    <2> QED BY <2>1, <2>2
  <1> QED BY <1>6, <1>7

\* No walk past all of them is shorter than the reference, whatever else it passes.
LEMMA BestOfWalks ==
  ASSUME NEW V, NEW d, IsMeasure(V, d), NEW S \in SUBSET V, NEW s \in V, NEW t \in V,
         NEW best, IsBest(best, d, S, s, t),
         NEW N, NEW r, NEW f, LeadsPast(V, d, S, s, t, N, r, f)
  PROVE  best[S][s] <= f[N + 1]
  <1> DEFINE past(k) == S \ {r[i] : i \in 1..k}
             Good == {k \in Nat : k <= N =>
                        \E x, g : IsDoneTo(d, best, S, s, past(k + 1), x, g, r[k + 1], f[k + 1])}
  <1>1. \A u \in SUBSET S : \A a \in S \cup {s} : best[u][a] \in Nat
    <2>1. \A u \in SUBSET S : best[u] \in [S \cup {s} -> Nat]
      BY DEF IsBest
    <2> QED BY <2>1
  <1>2. /\ N \in Nat /\ r[1] = s /\ r[N + 1] = t /\ s \notin S /\ f[1] = 0
        /\ \A k \in 1..(N + 1) : r[k] \in V /\ f[k] \in Nat
        /\ \A k \in 1..N : f[k] + d[<<r[k], r[k + 1]>>] <= f[k + 1]
        /\ S \subseteq {r[k] : k \in 1..(N + 1)}
    BY DEF LeadsPast
  <1>3. 0 \in Good
    <2>1. past(0 + 1) = S
      <3>1. 1..(0 + 1) = {1}
        OBVIOUS
      <3>2. {r[i] : i \in 1..(0 + 1)} = {s}
        BY <1>2, <3>1
      <3> QED BY <1>2, <3>2
    <2>2. best[S][s] \in Nat /\ d[<<s, s>>] = 0
      BY <1>1 DEF IsMeasure
    <2>3. IsDoneTo(d, best, S, s, S, s, 0, s, 0)
      BY <2>2 DEF IsDoneTo
    <2>4. r[0 + 1] = s /\ f[0 + 1] = 0
      BY <1>2
    <2> HIDE DEF past
    <2> QED BY <2>1, <2>3, <2>4
  <1>4. ASSUME NEW k \in Nat, k \in Good PROVE k + 1 \in Good
    <2> SUFFICES ASSUME k + 1 <= N
                 PROVE  \E x, g : IsDoneTo(d, best, S, s, past((k + 1) + 1), x, g,
                                           r[(k + 1) + 1], f[(k + 1) + 1])
      OBVIOUS
    <2> DEFINE j == k + 1
               y == r[j + 1]
    <2>1. j \in 1..N /\ j \in 1..(N + 1) /\ j + 1 \in 1..(N + 1) /\ j \in Nat /\ j >= 1
      BY <1>2
    <2>2. PICK x, g : IsDoneTo(d, best, S, s, past(j), x, g, r[j], f[j])
      <3>1. k <= N /\ j = k + 1
        BY <1>2
      <3> HIDE DEF past, j
      <3>2. \E u, e : IsDoneTo(d, best, S, s, past(k + 1), u, e, r[k + 1], f[k + 1])
        BY <1>4, <3>1
      <3> QED BY <3>1, <3>2
    <2>3. past(j + 1) = past(j) \ {y}
      <3>1. 1..(j + 1) = (1..j) \cup {j + 1}
        <4> HIDE DEF j
        <4> QED BY <2>1
      <3> DEFINE U == 1..(j + 1)
                 W == 1..j
      <3>2. {r[i] : i \in U} = {r[i] : i \in W} \cup {y}
        <4>1. U = W \cup {j + 1} /\ y = r[j + 1]
          BY <3>1
        <4> HIDE DEF U, W, j, y
        <4> QED BY <4>1
      <3> HIDE DEF j, y
      <3> QED BY <3>2
    <2>4. past(j) \in SUBSET S
      OBVIOUS
    <2>5. f[j] + d[<<r[j], y>>] <= f[j + 1]
      BY <1>2, <2>1
    <2>6. r[j] \in V /\ f[j] \in Nat /\ y \in V /\ f[j + 1] \in Nat
      BY <1>2, <2>1
    <2> HIDE DEF j, y, past
    <2>7. \E u, e : IsDoneTo(d, best, S, s, past(j) \ {y}, u, e, y, f[j + 1])
      BY <2>2, <2>4, <2>5, <2>6, DoneOneMore
    <2> QED BY <2>3, <2>7 DEF j, y
  <1>5. PICK x, g : IsDoneTo(d, best, S, s, past(N + 1), x, g, r[N + 1], f[N + 1])
    <2> HIDE DEF Good
    <2>1. Nat \subseteq Good
      BY <1>3, <1>4, NatSetInduction
    <2>2. N \in Good /\ N <= N
      BY <1>2, <2>1
    <2> HIDE DEF past
    <2> QED BY <2>2 DEF Good
  <1>6. past(N + 1) = {}
    BY <1>2
  <1>7. /\ x \in S \cup {s} /\ g \in Nat /\ best[S][s] <= g + best[{}][x]
        /\ g + d[<<x, t>>] <= f[N + 1]
    <2> HIDE DEF past
    <2> QED BY <1>2, <1>5, <1>6 DEF IsDoneTo
  <1>8. best[{}][x] = d[<<x, t>>] /\ d[<<x, t>>] \in Nat
    BY <1>7 DEF IsBest, IsMeasure
  <1>9. best[S][s] \in Nat /\ f[N + 1] \in Nat
    <2>1. N + 1 \in 1..(N + 1)
      BY <1>2
    <2> QED BY <1>1, <1>2, <2>1
  <1> QED BY <1>7, <1>8, <1>9

-----------------------------------------------------------------------------
(* The problem                                                            *)

\* What is assumed of a problem, of the one in hand.
IsProblem ==
  /\ settings \in Setting
  /\ matrix.size \in Nat \ {0, 1}
  /\ \A e \in DOMAIN matrix.weight :
       /\ e \in (0..(matrix.size - 1)) \X (0..(matrix.size - 1)) /\ e[1] # e[2]
       /\ <<e[2], e[1]>> \in DOMAIN matrix.weight
       /\ matrix.weight[e] \in Nat /\ matrix.weight[<<e[2], e[1]>>] = matrix.weight[e]
  /\ LET d == Distances(matrix.size, matrix.weight)
     IN  \A e \in DOMAIN d : d[e] < Far

\* The entries of its matrix.
LEMMA EntryFacts ==
  ASSUME IsProblem
  PROVE  /\ matrix.size \in Nat /\ matrix.size >= 2
         /\ Stops = Vertices(matrix.size) /\ 0 \in Stops /\ Target \in Stops /\ Target # 0
         /\ IsWeighted(matrix.size, matrix.weight) /\ IsWeighted(matrix.size, Entry)
         /\ IsTwoWayLength(Entry)
         /\ \A a \in Stops : <<a, a>> \in DOMAIN Entry /\ Entry[<<a, a>>] = 0
         /\ \A e \in DOMAIN matrix.weight : e \in DOMAIN Entry /\ Entry[e] = matrix.weight[e]
  <1> DEFINE n == matrix.size
             w == matrix.weight
             en == Entry
  <1>1. /\ n \in Nat /\ n >= 2 /\ Stops = Vertices(n) /\ 0 \in Stops /\ Target \in Stops
        /\ Target # 0
    BY DEF IsProblem, Stops, Target, Vertices
  <1>2. \A e \in DOMAIN w : e \in Stops \X Stops /\ e[1] # e[2] /\ <<e[2], e[1]>> \in DOMAIN w
                            /\ w[e] \in Nat /\ w[<<e[2], e[1]>>] = w[e]
    BY DEF IsProblem, Stops, Target
  <1>3. IsWeighted(n, w)
    BY <1>1, <1>2 DEF IsWeighted, Cells
  <1>4. /\ DOMAIN en = {<<a, a>> : a \in Stops} \cup DOMAIN w
        /\ \A e \in DOMAIN en : en[e] = IF e[1] = e[2] THEN 0 ELSE w[e]
    BY DEF Entry
  <1> HIDE DEF n, w, en
  <1>5. \A a \in Stops : <<a, a>> \in DOMAIN en /\ en[<<a, a>>] = 0
    BY <1>4
  <1>6. \A e \in DOMAIN w : e \in DOMAIN en /\ en[e] = w[e]
    BY <1>2, <1>4
  <1>7. ASSUME NEW e \in DOMAIN en
        PROVE  /\ e \in Stops \X Stops /\ en[e] \in Nat
               /\ <<e[2], e[1]>> \in DOMAIN en /\ en[<<e[2], e[1]>>] = en[e]
    <2>1. CASE e \in DOMAIN w
      BY <1>2, <1>6, <2>1
    <2>2. CASE e \notin DOMAIN w
      <3>1. PICK a \in Stops : e = <<a, a>>
        BY <1>4, <2>2
      <3> QED BY <1>5, <3>1
    <2> QED BY <2>1, <2>2
  <1>8. IsWeighted(n, en)
    BY <1>1, <1>7 DEF IsWeighted, Cells
  <1>9. IsTwoWayLength(en)
    <2>1. ASSUME NEW a, NEW b, <<a, b>> \in DOMAIN en
          PROVE  <<b, a>> \in DOMAIN en /\ en[<<b, a>>] = en[<<a, b>>]
      <3> DEFINE e == <<a, b>>
      <3>1. e \in DOMAIN en /\ e[1] = a /\ e[2] = b
        BY <2>1
      <3> HIDE DEF e
      <3>2. <<e[2], e[1]>> \in DOMAIN en /\ en[<<e[2], e[1]>>] = en[e]
        BY <1>7, <3>1
      <3> QED BY <3>1, <3>2 DEF e
    <2> QED BY <1>7, <2>1 DEF IsTwoWayLength
  <1> QED BY <1>1, <1>3, <1>5, <1>6, <1>8, <1>9 DEF n, w, en

\* A walk over the matrix is one over its entries.
LEMMA MatrixLeads ==
  ASSUME IsProblem, NEW q, NEW a, NEW b, NEW c, Leads(Stops, matrix.weight, q, a, b, c)
  PROVE  Leads(Stops, Entry, q, a, b, c)
  <1>1. \A e \in DOMAIN matrix.weight : e \in DOMAIN Entry /\ Entry[e] = matrix.weight[e]
    BY EntryFacts
  <1>2. PICK f : AddsUp(f, matrix.weight, q) /\ f[Len(q)] = c
    BY DEF Leads
  <1>3. AddsUp(f, Entry, q)
    BY <1>1, <1>2 DEF AddsUp
  <1> QED BY <1>2, <1>3 DEF Leads

\* No entry is shorter than the way there is.
LEMMA EntryIsNotShorter ==
  ASSUME IsProblem, NEW a \in Stops, NEW b \in Stops, <<a, b>> \in DOMAIN Entry
  PROVE  Distances(matrix.size, matrix.weight)[<<a, b>>] <= Entry[<<a, b>>]
  <1>1. /\ Stops = Vertices(matrix.size) /\ IsWeighted(matrix.size, matrix.weight)
        /\ \A e \in DOMAIN matrix.weight : Entry[e] = matrix.weight[e]
        /\ Entry[<<a, a>>] = 0
    BY EntryFacts
  <1>2. \A e \in DOMAIN matrix.weight : matrix.weight[e] \in Nat
    BY <1>1 DEF IsWeighted
  <1>3. CASE <<a, b>> \in DOMAIN matrix.weight
    <2>1. Leads(Stops, matrix.weight, <<a, b>>, a, b, matrix.weight[<<a, b>>])
      BY <1>2, <1>3, ShortLeads
    <2> QED BY <1>1, <1>3, <2>1, TableIsLeast
  <1>4. CASE <<a, b>> \notin DOMAIN matrix.weight
    <2>1. a = b
      BY <1>4 DEF Entry
    <2>2. Leads(Stops, matrix.weight, <<a>>, a, a, 0)
      BY ShortLeads
    <2> QED BY <1>1, <2>1, <2>2, TableIsLeast
  <1> QED BY <1>3, <1>4

BestCost == BestTour(Distances(matrix.size, matrix.weight), 0, Stops \ {0, Target}, Target)

\* Lengths none of which is shorter than the way there is.
NoneShorter(u) ==
  \A a, b \in Stops : <<a, b>> \in DOMAIN u =>
    u[<<a, b>>] \in Nat /\ Distances(matrix.size, matrix.weight)[<<a, b>>] <= u[<<a, b>>]

\* No walk past all stops over such lengths is shorter than the reference.
LEMMA WalkPastAllCosts ==
  ASSUME IsProblem, NEW u, NoneShorter(u), NEW q, NEW c,
         Leads(Stops, u, q, 0, Target, c), ToSet(q) = Stops
  PROVE  BestCost <= c
  <1> DEFINE d == Distances(matrix.size, matrix.weight)
             S == Stops \ {0, Target}
             N == Len(q) - 1
  <1>1. /\ matrix.size \in Nat /\ Stops = Vertices(matrix.size) /\ 0 \in Stops /\ Target \in Stops
        /\ IsWeighted(matrix.size, matrix.weight)
    BY EntryFacts
  <1>2. IsMeasure(Stops, d)
    BY <1>1, TableIsMeasure
  <1>3. S \in SUBSET Stops /\ IsFiniteSet(S)
    <2>1. IsFiniteSet(Stops)
      <3>1. matrix.size - 1 \in Int /\ 0 \in Int
        BY <1>1
      <3> QED BY <3>1, FS_Interval DEF Stops, Target
    <2> QED BY <2>1, FS_Subset
  <1>4. PICK best : IsBest(best, d, S, 0, Target) /\ BestTour(d, 0, S, Target) = best[S][0]
    <2>1. \A x, y \in Stops : d[<<x, y>>] \in Nat
      BY <1>2 DEF IsMeasure
    <2> HIDE DEF d, S
    <2> QED BY <1>1, <1>3, <2>1, BestTourIsBest
  <1>5. PICK f : AddsUp(f, u, q) /\ f[Len(q)] = c
    BY DEF Leads
  <1>6. /\ q \in Seq(Stops) /\ N \in Nat /\ N + 1 = Len(q) /\ q[1] = 0 /\ q[N + 1] = Target
        /\ ToSet(q) = {q[k] : k \in 1..(N + 1)}
        /\ \A k \in 1..(N + 1) : q[k] \in Stops
    <2>1. q \in Seq(Stops) /\ Len(q) \in Nat \ {0} /\ q[1] = 0 /\ q[Len(q)] = Target
      BY DEF Leads
    <2>2. N \in Nat /\ N + 1 = Len(q)
      BY <2>1
    <2>3. ToSet(q) = {q[k] : k \in 1..Len(q)}
      BY <2>1, SetOf
    <2> HIDE DEF N
    <2> QED BY <2>1, <2>2, <2>3
  <1> HIDE DEF d, S, N
  <1>7. ASSUME NEW k \in 1..N
        PROVE  f[k] + d[<<q[k], q[k + 1]>>] <= f[k + 1]
    <2>1. /\ <<q[k], q[k + 1]>> \in DOMAIN u /\ f[k + 1] = f[k] + u[<<q[k], q[k + 1]>>]
          /\ f[k] \in Nat
      <3>1. k \in 1..(Len(q) - 1) /\ k \in 1..Len(q)
        <4>1. N \in Nat /\ Len(q) = N + 1
          BY <1>6
        <4> QED BY <4>1
      <3> QED BY <1>5, <3>1 DEF AddsUp
    <2>2. q[k] \in Stops /\ q[k + 1] \in Stops
      <3>1. k \in 1..(N + 1) /\ k + 1 \in 1..(N + 1)
        BY <1>6
      <3> QED BY <1>6, <3>1
    <2>3. d[<<q[k], q[k + 1]>>] <= u[<<q[k], q[k + 1]>>]
      BY <2>1, <2>2 DEF NoneShorter, d
    <2>4. d[<<q[k], q[k + 1]>>] \in Nat /\ u[<<q[k], q[k + 1]>>] \in Nat
      BY <1>1, <1>2, <2>1, <2>2 DEF IsMeasure, NoneShorter
    <2> QED BY <2>1, <2>3, <2>4
  <1>8. \A k \in 1..(N + 1) : f[k] \in Nat
    BY <1>5, <1>6 DEF AddsUp
  <1>9. LeadsPast(Stops, d, S, 0, Target, N, q, f)
    <2>1. f[1] = 0
      BY <1>5 DEF AddsUp
    <2>2. S \subseteq {q[k] : k \in 1..(N + 1)} /\ 0 \notin S
      BY <1>6 DEF S
    <2> QED BY <1>6, <1>7, <1>8, <2>1, <2>2 DEF LeadsPast
  <1>10. best[S][0] <= f[N + 1]
    BY <1>1, <1>2, <1>3, <1>4, <1>9, BestOfWalks
  <1> QED BY <1>4, <1>5, <1>6, <1>10 DEF BestCost, d, S

\* No walk over the entries past all stops is shorter than the reference.
LEMMA WholeWalkCosts ==
  ASSUME IsProblem, NEW q, NEW c, Leads(Stops, Entry, q, 0, Target, c), ToSet(q) = Stops
  PROVE  BestCost <= c
  <1>1. IsTwoWayLength(Entry)
    BY EntryFacts
  <1>2. \A a, b \in Stops : <<a, b>> \in DOMAIN Entry => Entry[<<a, b>>] \in Nat
    BY <1>1 DEF IsTwoWayLength
  <1>3. NoneShorter(Entry)
    BY <1>2, EntryIsNotShorter DEF NoneShorter
  <1> QED BY <1>3, WalkPastAllCosts

-----------------------------------------------------------------------------
(* The insertions a turn chooses from                                     *)

RankOf(w) ==
  IF w.kind = "revisit" THEN 1
  ELSE 2 + (IF w.left THEN 1 ELSE 0) + (IF w.right THEN 2 ELSE 0)

\* A way in is known by its rank.
LEMMA WayOfRank ==
  /\ \A w \in Way : RankOf(w) \in Nat
  /\ \A w, v \in Way : RankOf(w) = RankOf(v) => w = v
  <1>1. ASSUME NEW w \in Way
        PROVE  /\ w = [kind |-> w.kind, left |-> w.left, right |-> w.right]
               /\ w.left \in BOOLEAN /\ w.right \in BOOLEAN
               /\ \/ w.kind = "revisit" /\ ~w.left /\ ~w.right
                  \/ w.kind = "sequence"
    <2>1. CASE w \in [kind : {"revisit"}, left : {FALSE}, right : {FALSE}]
      BY <2>1
    <2>2. CASE w \in [kind : {"sequence"}, left : BOOLEAN, right : BOOLEAN]
      BY <2>2
    <2> QED BY <2>1, <2>2 DEF Way
  <1>2. ASSUME NEW w \in Way
        PROVE  /\ RankOf(w) \in 1..5
               /\ RankOf(w) = 1 <=> w.kind = "revisit"
               /\ RankOf(w) = 2 <=> w.kind = "sequence" /\ ~w.left /\ ~w.right
               /\ RankOf(w) = 3 <=> w.kind = "sequence" /\ w.left /\ ~w.right
               /\ RankOf(w) = 4 <=> w.kind = "sequence" /\ ~w.left /\ w.right
               /\ RankOf(w) = 5 <=> w.kind = "sequence" /\ w.left /\ w.right
    <2>1. /\ w.left \in BOOLEAN /\ w.right \in BOOLEAN
          /\ \/ w.kind = "revisit" /\ ~w.left /\ ~w.right
             \/ w.kind = "sequence"
      BY <1>1
    <2>2. CASE w.kind = "revisit"
      BY <2>1, <2>2 DEF RankOf
    <2>3. CASE w.kind = "sequence" /\ ~w.left /\ ~w.right
      BY <2>3 DEF RankOf
    <2>4. CASE w.kind = "sequence" /\ w.left /\ ~w.right
      BY <2>4 DEF RankOf
    <2>5. CASE w.kind = "sequence" /\ ~w.left /\ w.right
      BY <2>5 DEF RankOf
    <2>6. CASE w.kind = "sequence" /\ w.left /\ w.right
      BY <2>6 DEF RankOf
    <2> QED BY <2>1, <2>2, <2>3, <2>4, <2>5, <2>6
  <1>3. ASSUME NEW w \in Way, NEW v \in Way, RankOf(w) = RankOf(v)
        PROVE  w = v
    <2>1. w.kind = v.kind /\ w.left = v.left /\ w.right = v.right
      <3>1. RankOf(w) = 1 \/ RankOf(w) = 2 \/ RankOf(w) = 3 \/ RankOf(w) = 4 \/ RankOf(w) = 5
        BY <1>2
      <3>2. /\ w.left \in BOOLEAN /\ w.right \in BOOLEAN /\ v.left \in BOOLEAN
                 /\ v.right \in BOOLEAN
            /\ (w.kind = "revisit" /\ ~w.left /\ ~w.right) \/ w.kind = "sequence"
            /\ (v.kind = "revisit" /\ ~v.left /\ ~v.right) \/ v.kind = "sequence"
        BY <1>1
      <3>3. CASE RankOf(w) = 1
        BY <1>2, <1>3, <3>2, <3>3
      <3>4. CASE RankOf(w) = 2
        BY <1>2, <1>3, <3>2, <3>4
      <3>5. CASE RankOf(w) = 3
        BY <1>2, <1>3, <3>2, <3>5
      <3>6. CASE RankOf(w) = 4
        BY <1>2, <1>3, <3>2, <3>6
      <3>7. CASE RankOf(w) = 5
        BY <1>2, <1>3, <3>2, <3>7
      <3> QED BY <3>1, <3>3, <3>4, <3>5, <3>6, <3>7
    <2>2. /\ w = [kind |-> w.kind, left |-> w.left, right |-> w.right]
          /\ v = [kind |-> v.kind, left |-> v.left, right |-> v.right]
      BY <1>1
    <2> QED BY <2>1, <2>2
  <1>4. \A w \in Way : RankOf(w) \in Nat
    <2>1. \A w \in Way : RankOf(w) \in 1..5
      BY <1>2
    <2>2. \A m \in 1..5 : m \in Nat
      OBVIOUS
    <2> QED BY <2>1, <2>2
  <1> QED BY <1>3, <1>4

\* The insertion of x at k in the way w.
InsertionOf(x, k, w) ==
  [id |-> x, at |-> k, way |-> w, rank |-> RankOf(w), cost |-> InsertionCost(Entry, tour, k, x, w)]

\* They are what Insertions is made of.
LEMMA InsertionsAre ==
  ASSUME NEW V, tour \in Seq(V), NEW x \in V
  PROVE  /\ \A i \in Insertions(x) :
              \E k, w : CanInsert(V, Entry, tour, k, x, w) /\ i = InsertionOf(x, k, w)
         /\ \A k, w : CanInsert(V, Entry, tour, k, x, w) => InsertionOf(x, k, w) \in Insertions(x)
  <1> DEFINE C == {c \in (DOMAIN tour) \X Way :
                     Fits(tour, c[1], c[2])
                       /\ ToSet(Added(tour, c[1], x, c[2])) \subseteq DOMAIN Entry}
             Of(c) == [id |-> x, at |-> c[1], way |-> c[2], rank |-> RankOf(c[2]),
                       cost |-> Total(Entry, Added(tour, c[1], x, c[2]))
                                  - Total(Entry, Removed(tour, c[1], c[2]))]
  <1>1. Insertions(x) = {Of(c) : c \in C}
    BY DEF Insertions, RankOf
  <1>2. \A k, w : Of(<<k, w>>) = InsertionOf(x, k, w)
    BY DEF InsertionOf, InsertionCost
  <1>3. \A k, w : <<k, w>> \in C <=> CanInsert(V, Entry, tour, k, x, w)
    BY DEF CanInsert
  <1>4. \A c \in C : c = <<c[1], c[2]>>
    OBVIOUS
  <1> HIDE DEF C, Of
  <1>5. ASSUME NEW i \in Insertions(x)
        PROVE  \E k, w : CanInsert(V, Entry, tour, k, x, w) /\ i = InsertionOf(x, k, w)
    <2>1. PICK c \in C : i = Of(c)
      BY <1>1
    <2>2. CanInsert(V, Entry, tour, c[1], x, c[2]) /\ i = InsertionOf(x, c[1], c[2])
      BY <1>2, <1>3, <1>4, <2>1
    <2> QED BY <2>2
  <1>6. ASSUME NEW k, NEW w, CanInsert(V, Entry, tour, k, x, w)
        PROVE  InsertionOf(x, k, w) \in Insertions(x)
    BY <1>1, <1>2, <1>3, <1>6
  <1> QED BY <1>5, <1>6

\* The walk in hand, over the entries.
IsOnTheWay == Leads(Stops, Entry, tour, 0, Target, PathCost(tour)) /\ missing \subseteq Stops

\* Of the ways to put x in one comes before all others.
LEMMA FirstInsertion ==
  ASSUME IsProblem, IsOnTheWay, NEW x \in Stops, Insertions(x) # {}
  PROVE  \E i \in Insertions(x) : \A j \in Insertions(x) \ {i} : Before(i, j)
  <1> DEFINE I == Insertions(x)
             c == PathCost(tour)
             Costs == {c + i.cost : i \in I}
  <1>1. /\ tour \in Seq(Stops) /\ IsTwoWayLength(Entry) /\ c \in Nat
        /\ \A p \in DOMAIN Entry : Entry[p] \in Nat
        /\ Leads(Stops, Entry, tour, 0, Target, c)
    <2>1. IsTwoWayLength(Entry)
      BY EntryFacts
    <2>2. \A p \in DOMAIN Entry : Entry[p] \in Nat
      BY <2>1 DEF IsTwoWayLength
    <2>3. tour \in Seq(Stops) /\ Leads(Stops, Entry, tour, 0, Target, c)
      BY DEF IsOnTheWay, Leads
    <2>4. c \in Nat
      BY <2>2, <2>3, LeadsIsWalk
    <2> QED BY <2>1, <2>2, <2>3, <2>4
  <1>2. ASSUME NEW i \in I
        PROVE  /\ \E k, w : CanInsert(Stops, Entry, tour, k, x, w) /\ i = InsertionOf(x, k, w)
               /\ c + i.cost \in Nat /\ i.cost \in Int /\ i.at \in Nat /\ i.way \in Way
               /\ i.rank = RankOf(i.way) /\ i.rank \in Nat /\ i = InsertionOf(x, i.at, i.way)
    <2>1. PICK k, w : CanInsert(Stops, Entry, tour, k, x, w) /\ i = InsertionOf(x, k, w)
      BY <1>1, InsertionsAre
    <2>2. /\ i.at = k /\ i.way = w /\ i.rank = RankOf(w)
          /\ i.cost = InsertionCost(Entry, tour, k, x, w)
      BY <2>1 DEF InsertionOf
    <2>3. k \in Nat /\ w \in Way /\ RankOf(w) \in Nat
      <3>1. k \in 1..Len(tour) /\ w \in Way
        BY <2>1 DEF CanInsert
      <3> QED BY <3>1, WayOfRank
    <2>4. c + i.cost \in Nat
      <3>1. Leads(Stops, Entry, Inserted(tour, k, x, w), 0, Target,
                  c + InsertionCost(Entry, tour, k, x, w))
        BY <1>1, <2>1, InsertedLeads
      <3>2. c + InsertionCost(Entry, tour, k, x, w) \in Nat
        BY <1>1, <3>1, LeadsIsWalk
      <3> QED BY <2>2, <3>2
    <2>5. i.cost \in Int
      <3>1. InsertionCost(Entry, tour, k, x, w) \in Int
        BY <1>1, <2>1, InsertedLeads
      <3> QED BY <2>2, <3>1
    <2> QED BY <2>1, <2>2, <2>3, <2>4, <2>5
  <1> HIDE DEF I, c
  <1>3. PICK m \in Costs : \A n \in Costs : m <= n
    <2>1. Costs \in SUBSET Nat /\ Costs # {}
      BY <1>2 DEF I
    <2> HIDE DEF Costs
    <2> QED BY <2>1, LeastNatural
  <1> DEFINE I2 == {i \in I : c + i.cost = m}
             Ats == {i.at : i \in I2}
  <1>4. /\ I2 # {} /\ m \in Nat /\ \A i \in I : m <= c + i.cost
    BY <1>2, <1>3
  <1>5. PICK a \in Ats : \A n \in Ats : a <= n
    <2>1. Ats \in SUBSET Nat /\ Ats # {}
      BY <1>2, <1>4
    <2> HIDE DEF Ats
    <2> QED BY <2>1, LeastNatural
  <1> DEFINE I3 == {i \in I2 : i.at = a}
             Ranks == {i.rank : i \in I3}
  <1>6. I3 # {} /\ a \in Nat /\ \A i \in I2 : a <= i.at
    BY <1>2, <1>5
  <1>7. PICK r \in Ranks : \A n \in Ranks : r <= n
    <2>1. Ranks \in SUBSET Nat /\ Ranks # {}
      BY <1>2, <1>6
    <2> HIDE DEF Ranks
    <2> QED BY <2>1, LeastNatural
  <1>8. PICK i \in I3 : i.rank = r
    BY <1>7
  <1>9. ASSUME NEW j \in I \ {i}
        PROVE  Before(i, j)
    <2>1. i \in I /\ c + i.cost = m /\ i.at = a /\ i.rank = r
      BY <1>8
    <2>2. /\ c \in Nat /\ i.cost \in Int /\ j.cost \in Int /\ i.at \in Nat /\ j.at \in Nat
          /\ i.rank \in Nat /\ j.rank \in Nat /\ m \in Nat
      BY <1>1, <1>2, <1>4, <2>1 DEF c
    <2>3. m <= c + j.cost
      BY <1>4
    <2>4. j.cost = i.cost => a <= j.at
      BY <1>6, <2>1
    <2>5. j.cost = i.cost /\ j.at = i.at => r <= j.rank
      BY <1>7, <2>1
    <2>6. ~(j.cost = i.cost /\ j.at = i.at /\ j.rank = i.rank)
      <3> SUFFICES ASSUME j.at = i.at, j.rank = i.rank PROVE j = i
        OBVIOUS
      <3>1. /\ i.rank = RankOf(i.way) /\ j.rank = RankOf(j.way) /\ i.way \in Way /\ j.way \in Way
            /\ i = InsertionOf(x, i.at, i.way) /\ j = InsertionOf(x, j.at, j.way)
        BY <1>2, <2>1
      <3>2. i.way = j.way
        BY <3>1, WayOfRank
      <3> QED BY <3>1, <3>2
    <2>7. i.cost <= j.cost
      BY <2>1, <2>2, <2>3
    <2>8. CASE i.cost < j.cost
      BY <2>8 DEF Before
    <2>9. CASE i.cost = j.cost
      <3>1. i.at <= j.at /\ (i.at = j.at => i.rank <= j.rank /\ i.rank # j.rank)
        BY <2>1, <2>4, <2>5, <2>6, <2>9
      <3>2. i.at < j.at \/ (i.at = j.at /\ i.rank < j.rank)
        BY <2>2, <3>1
      <3> QED BY <2>9, <3>2 DEF Before
    <2> QED BY <2>2, <2>7, <2>8, <2>9
  <1>10. i \in I
    BY <1>8
  <1> QED BY <1>9, <1>10 DEF I

\* A turn's choice puts a missing stop in, at the cost it says.
LEMMA BestInsertionFacts ==
  ASSUME IsProblem, IsOnTheWay, NEW i \in BestInsertions
  PROVE  /\ i.id \in missing /\ CanInsert(Stops, Entry, tour, i.at, i.id, i.way)
         /\ i.cost = InsertionCost(Entry, tour, i.at, i.id, i.way)
  <1> DEFINE first(x) == CHOOSE h \in Insertions(x) : \A j \in Insertions(x) \ {h} : Before(h, j)
  <1>1. PICK x \in missing : Insertions(x) # {} /\ i = first(x)
    BY DEF BestInsertions
  <1>2. x \in Stops /\ tour \in Seq(Stops)
    BY DEF IsOnTheWay, Leads
  <1>3. first(x) \in Insertions(x)
    <2>1. \E h \in Insertions(x) : \A j \in Insertions(x) \ {h} : Before(h, j)
      BY <1>1, <1>2, FirstInsertion
    <2> QED BY <2>1
  <1> HIDE DEF first
  <1>4. PICK k, w : CanInsert(Stops, Entry, tour, k, x, w) /\ i = InsertionOf(x, k, w)
    BY <1>1, <1>2, <1>3, InsertionsAre
  <1>5. /\ i.id = x /\ i.at = k /\ i.way = w
        /\ i.cost = InsertionCost(Entry, tour, k, x, w)
    BY <1>4 DEF InsertionOf
  <1> QED BY <1>1, <1>4, <1>5

-----------------------------------------------------------------------------
(* Shortcuts                                                              *)

\* A list of values, each from the one before and its number.
AreSteps(f, N, W, start, h) ==
  f \in [0..N -> W] /\ f[0] = start /\ \A n \in 1..N : f[n] = h[<<n, f[n - 1]>>]

\* There is one.
LEMMA StepsExist ==
  ASSUME NEW N \in Nat, NEW W, NEW start \in W, NEW h \in [(1..N) \X W -> W]
  PROVE  \E f : AreSteps(f, N, W, start, h)
  <1> DEFINE P == Nat \X W
             next(p) == <<p[1] + 1, IF p[1] + 1 <= N THEN h[<<p[1] + 1, p[2]>>] ELSE p[2]>>
             k == [p \in P |-> next(p)]
             a == <<0, start>>
  <1>1. a \in P
    OBVIOUS
  <1>2. \A p \in P : next(p) \in P
    <2> TAKE p \in P
    <2>1. p[1] \in Nat /\ p[2] \in W /\ p[1] + 1 \in Nat
      OBVIOUS
    <2>2. CASE p[1] + 1 <= N
      <3>1. p[1] + 1 \in 1..N
        BY <2>1, <2>2
      <3>2. h[<<p[1] + 1, p[2]>>] \in W
        BY <2>1, <3>1
      <3> QED BY <2>1, <2>2, <3>2
    <2>3. CASE ~(p[1] + 1 <= N)
      BY <2>1, <2>3
    <2> QED BY <2>2, <2>3
  <1>3. k \in [P -> P]
    <2> HIDE DEF P, next
    <2> QED BY <1>2
  <1>4. PICK g : g \in [Nat -> P] /\ g[0] = a /\ \A n \in Nat : g[n + 1] = k[g[n]]
    <2>1. \E g : IsIteration(g, P, a, k)
      <3> HIDE DEF P, k, a
      <3> QED BY <1>1, <1>3, Iteration
    <2> HIDE DEF P, k, a
    <2> QED BY <2>1 DEF IsIteration
  <1>5. \A n \in Nat : g[n] \in P /\ g[n + 1] = next(g[n])
    <2>1. \A p \in P : k[p] = next(p)
      <3> HIDE DEF P, next
      <3> QED OBVIOUS
    <2> HIDE DEF P, k, next
    <2> QED BY <1>4, <2>1
  <1> DEFINE Good == {n \in Nat : g[n][1] = n}
  <1>6. Nat \subseteq Good
    <2>1. 0 \in Good
      BY <1>4
    <2>2. ASSUME NEW n \in Nat, n \in Good PROVE n + 1 \in Good
      <3>1. g[n][1] = n /\ g[n + 1] = next(g[n]) /\ n + 1 \in Nat
        BY <1>5, <2>2
      <3>2. next(g[n])[1] = g[n][1] + 1
        OBVIOUS
      <3> HIDE DEF next
      <3> QED BY <3>1, <3>2
    <2> HIDE DEF Good
    <2> QED BY <2>1, <2>2, NatSetInduction
  <1> DEFINE f == [n \in 0..N |-> g[n][2]]
  <1>7. f \in [0..N -> W]
    <2>1. \A n \in 0..N : g[n][2] \in W
      <3> TAKE n \in 0..N
      <3>1. g[n] \in P
        <4>1. n \in Nat
          OBVIOUS
        <4> HIDE DEF P, next
        <4> QED BY <1>5, <4>1
      <3> QED BY <3>1
    <2> QED BY <2>1
  <1>8. f[0] = start
    BY <1>4
  <1>9. ASSUME NEW n \in 1..N
        PROVE  f[n] = h[<<n, f[n - 1]>>]
    <2> DEFINE m == n - 1
    <2>1. m \in Nat /\ m + 1 = n /\ m \in 0..N /\ n \in 0..N /\ n <= N
      OBVIOUS
    <2>2. f[n] = g[n][2] /\ f[m] = g[m][2]
      BY <2>1
    <2> HIDE DEF m
    <2>3. g[m][1] = m /\ g[m + 1] = next(g[m])
      BY <1>5, <1>6, <2>1
    <2>4. g[n][2] = h[<<n, g[m][2]>>]
      BY <2>1, <2>3
    <2> HIDE DEF f
    <2>5. f[n] = h[<<n, f[m]>>]
      BY <2>2, <2>4
    <2> QED BY <2>5 DEF m
  <1> HIDE DEF f
  <1> QED BY <1>7, <1>8, <1>9 DEF AreSteps

-----------------------------------------------------------------------------
(* Shortcuts                                                                *)

\* One turn of refine_sequence.
RefineTurn(s, q) ==
  LET item == s[q.at]
      jump == Ahead(s, q.out, q.at)
  IN  CASE q.at >= Len(s) -> q
        [] q.at < Len(s) /\ item \notin ToSet(q.out) ->
             [at |-> q.at + 1, out |-> Append(q.out, item)]
        [] q.at < Len(s) /\ item \in ToSet(q.out) /\ jump # q.at ->
             [at |-> jump + 1, out |-> Append(q.out, s[jump])]
        [] OTHER ->
             [at |-> q.at + 1,
              out |-> IF Last(q.out) = item THEN q.out ELSE Append(q.out, item)]

RefineStart == [at |-> 1, out |-> <<>>]

\* Where a jump goes.
IsJump(s, out, i, j) ==
  /\ j \in (i + 2)..Len(s) /\ s[j] \notin ToSet(out) /\ <<Last(out), s[j]>> \in DOMAIN Entry
  /\ \A m \in (i + 1)..(j - 1) : s[m] \in ToSet(out) \/ \E h \in (m + 1)..Len(s) : s[h] = s[m]

\* There is one, or there is none.
LEMMA AheadFacts ==
  ASSUME NEW s, Len(s) \in Nat, NEW out, NEW i \in Nat
  PROVE  Ahead(s, out, i) # i => IsJump(s, out, i, Ahead(s, out, i))
  <1> DEFINE pass(j) == /\ <<Last(out), s[j]>> \notin DOMAIN Entry
                        /\ s[j] \in ToSet(out) \/ \E m \in (j + 1)..Len(s) : s[m] = s[j]
             goal == {j \in (i + 2)..Len(s) :
                        /\ s[j] \notin ToSet(out) /\ <<Last(out), s[j]>> \in DOMAIN Entry
                        /\ \A m \in (i + 1)..(j - 1) : pass(m)}
             jump == IF goal = {} THEN i ELSE CHOOSE j \in goal : \A m \in goal : j <= m
  <1>1. Ahead(s, out, i) = jump
    BY DEF Ahead
  <1> SUFFICES ASSUME goal # {} PROVE IsJump(s, out, i, jump)
    BY <1>1
  <1>2. goal \in SUBSET Nat
    OBVIOUS
  <1>3. jump \in goal
    <2>1. \E j \in goal : \A m \in goal : j <= m
      <3> HIDE DEF goal
      <3> QED BY <1>2, LeastNatural
    <2> HIDE DEF goal
    <2> QED BY <2>1
  <1> HIDE DEF jump
  <1> QED BY <1>3 DEF IsJump

RefineStates(V, L) == [at : 1..(L + 1), out : Seq(V)]

\* A turn leads from such a state to another.
LEMMA RefineTurnType ==
  ASSUME NEW V, NEW s \in Seq(V), NEW q \in RefineStates(V, Len(s))
  PROVE  RefineTurn(s, q) \in RefineStates(V, Len(s))
  <1> DEFINE L == Len(s)
             item == s[q.at]
             jump == Ahead(s, q.out, q.at)
  <1>1. /\ q.at \in 1..(L + 1) /\ q.out \in Seq(V) /\ L \in Nat /\ q.at \in Nat
        /\ \A m \in 1..L : s[m] \in V
    BY DEF RefineStates
  <1>2. ASSUME NEW p \in V PROVE Append(q.out, p) \in Seq(V)
    BY <1>1
  <1>3. jump # q.at => IsJump(s, q.out, q.at, jump)
    BY <1>1, AheadFacts
  <1>4. CASE q.at >= L
    <2>1. ~(q.at < L)
      BY <1>1, <1>4
    <2>2. RefineTurn(s, q) = q
      BY <1>4, <2>1 DEF RefineTurn
    <2> QED BY <2>2
  <1>5. CASE q.at < L /\ item \notin ToSet(q.out)
    <2>1. RefineTurn(s, q) = [at |-> q.at + 1, out |-> Append(q.out, item)]
      BY <1>1, <1>5 DEF RefineTurn
    <2>2. q.at + 1 \in 1..(L + 1) /\ item \in V
      BY <1>1, <1>5
    <2> HIDE DEF item
    <2> QED BY <1>2, <2>1, <2>2 DEF RefineStates
  <1>6. CASE q.at < L /\ item \in ToSet(q.out) /\ jump # q.at
    <2>1. RefineTurn(s, q) = [at |-> jump + 1, out |-> Append(q.out, s[jump])]
      BY <1>1, <1>6 DEF RefineTurn
    <2>2. jump + 1 \in 1..(L + 1) /\ s[jump] \in V
      <3>1. jump \in (q.at + 2)..L
        BY <1>3, <1>6 DEF IsJump
      <3> HIDE DEF jump
      <3> QED BY <1>1, <3>1
    <2> HIDE DEF jump
    <2> QED BY <1>2, <2>1, <2>2 DEF RefineStates
  <1>7. CASE q.at < L /\ item \in ToSet(q.out) /\ jump = q.at
    <2>1. RefineTurn(s, q) = [at |-> q.at + 1,
                              out |-> IF Last(q.out) = item THEN q.out ELSE Append(q.out, item)]
      BY <1>1, <1>7 DEF RefineTurn
    <2>2. q.at + 1 \in 1..(L + 1) /\ item \in V
      BY <1>1, <1>7
    <2> HIDE DEF item
    <2> QED BY <1>1, <1>2, <2>1, <2>2 DEF RefineStates
  <1> QED BY <1>1, <1>4, <1>5, <1>6, <1>7

\* What refine_sequence goes through.
LEMMA RefinedTurns ==
  ASSUME NEW V, NEW s \in Seq(V)
  PROVE  \E f : /\ f \in [0..Len(s) -> RefineStates(V, Len(s))] /\ f[0] = RefineStart
                /\ \A n \in 1..Len(s) : f[n] = RefineTurn(s, f[n - 1])
                /\ Refined(s) = LET out == f[Len(s)].out
                                IN  IF Last(out) = Last(s) THEN out ELSE Append(out, Last(s))
  <1> DEFINE L == Len(s)
             W == RefineStates(V, L)
             h == [p \in (1..L) \X W |-> RefineTurn(s, p[2])]
             step(f) == [n \in 0..L |->
               IF n = 0 THEN [at |-> 1, out |-> <<>>]
               ELSE LET q == f[n - 1]
                        item == s[q.at]
                        jump == Ahead(s, q.out, q.at)
                    IN  CASE q.at >= L -> q
                          [] q.at < L /\ item \notin ToSet(q.out) ->
                               [at |-> q.at + 1, out |-> Append(q.out, item)]
                          [] q.at < L /\ item \in ToSet(q.out) /\ jump # q.at ->
                               [at |-> jump + 1, out |-> Append(q.out, s[jump])]
                          [] OTHER ->
                               [at |-> q.at + 1,
                                out |-> IF Last(q.out) = item THEN q.out ELSE Append(q.out, item)]]
             iter == CHOOSE f : f = step(f)
  <1>1. L \in Nat /\ RefineStart \in W
    BY DEF RefineStart, RefineStates
  <1>2. \A q \in W : RefineTurn(s, q) \in W
    BY RefineTurnType
  <1> HIDE DEF W
  <1>3. h \in [(1..L) \X W -> W]
    <2>1. \A p \in (1..L) \X W : RefineTurn(s, p[2]) \in W
      BY <1>2
    <2> QED BY <2>1
  <1>4. PICK f : AreSteps(f, L, W, RefineStart, h)
    <2> HIDE DEF h, L
    <2> QED BY <1>1, <1>3, StepsExist
  <1>5. /\ f \in [0..L -> W] /\ f[0] = RefineStart
        /\ \A n \in 1..L : f[n] = RefineTurn(s, f[n - 1])
    <2>1. /\ f \in [0..L -> W] /\ f[0] = RefineStart
          /\ \A n \in 1..L : f[n] = h[<<n, f[n - 1]>>]
      <3> HIDE DEF h, L
      <3> QED BY <1>4 DEF AreSteps
    <2>2. ASSUME NEW n \in 1..L PROVE h[<<n, f[n - 1]>>] = RefineTurn(s, f[n - 1])
      <3>1. n - 1 \in 0..L
        BY <1>1
      <3>2. f[n - 1] \in W
        BY <2>1, <3>1
      <3> QED BY <3>2
    <2> HIDE DEF h
    <2> QED BY <2>1, <2>2
  <1>6. /\ \A g : DOMAIN step(g) = 0..L /\ step(g)[0] = RefineStart
        /\ \A g : \A n \in 1..L : step(g)[n] = RefineTurn(s, g[n - 1])
    <2>1. 0 \in 0..L /\ \A n \in 1..L : n \in 0..L /\ n # 0
      BY <1>1
    <2>2. ASSUME NEW g PROVE DOMAIN step(g) = 0..L /\ step(g)[0] = RefineStart
      BY <2>1 DEF RefineStart
    <2>3. ASSUME NEW g, NEW n \in 1..L PROVE step(g)[n] = RefineTurn(s, g[n - 1])
      BY <2>1 DEF RefineTurn
    <2> HIDE DEF step
    <2> QED BY <2>2, <2>3
  <1>7. f = step(f)
    <2>1. ASSUME NEW n \in 0..L PROVE step(f)[n] = f[n]
      <3> HIDE DEF step
      <3>1. CASE n = 0
        BY <1>5, <1>6, <3>1
      <3>2. CASE n # 0
        <4>1. n \in 1..L
          BY <1>1, <3>2
        <4> QED BY <1>5, <1>6, <4>1
      <3> QED BY <3>1, <3>2
    <2>2. step(f) = [n \in 0..L |-> step(f)[n]] /\ f = [n \in 0..L |-> f[n]]
      <3>1. step(f) = [n \in 0..L |-> step(f)[n]]
        OBVIOUS
      <3> HIDE DEF step, L
      <3> QED BY <1>5, <3>1
    <2> HIDE DEF step
    <2> QED BY <2>1, <2>2
  <1>8. iter = step(iter)
    <2> HIDE DEF step
    <2> QED BY <1>7
  <1>9. Refined(s) = LET out == iter[L].out
                     IN  IF Last(out) = Last(s) THEN out ELSE Append(out, Last(s))
    BY DEF Refined
  <1> HIDE DEF iter, step
  <1>10. \A n \in 0..L : iter[n] \in W
    <2> DEFINE Good == {n \in Nat : n <= L => iter[n] \in W}
    <2>1. 0 \in Good
      BY <1>1, <1>6, <1>8
    <2>2. ASSUME NEW n \in Nat, n \in Good PROVE n + 1 \in Good
      <3> SUFFICES ASSUME n + 1 <= L PROVE iter[n + 1] \in W
        OBVIOUS
      <3>1. n + 1 \in 1..L /\ (n + 1) - 1 = n /\ n <= L
        BY <1>1
      <3>2. iter[n + 1] = RefineTurn(s, iter[(n + 1) - 1])
        BY <1>6, <1>8, <3>1
      <3> QED BY <1>2, <2>2, <3>1, <3>2
    <2>3. Nat \subseteq Good
      <3> HIDE DEF Good
      <3> QED BY <2>1, <2>2, NatSetInduction
    <2> QED BY <1>1, <2>3
  <1>11. iter \in [0..L -> W]
    <2>1. DOMAIN iter = 0..L /\ iter = [n \in 0..L |-> iter[n]]
      <3>1. DOMAIN step(iter) = 0..L /\ step(iter) = [n \in 0..L |-> step(iter)[n]]
        BY <1>6 DEF step
      <3> QED BY <1>8, <3>1
    <2> QED BY <1>10, <2>1
  <1>12. /\ iter[0] = RefineStart
         /\ \A n \in 1..L : iter[n] = RefineTurn(s, iter[n - 1])
    BY <1>6, <1>8
  <1> QED BY <1>9, <1>11, <1>12 DEF W

\* out begins as s does, with stops of s, never one twice in a row; over links if s is.
IsRowOf(V, s, out) ==
  /\ out \in Seq(V) /\ ToSet(out) \subseteq ToSet(s)
  /\ out # <<>> => out[1] = s[1]
  /\ \A m \in 1..(Len(out) - 1) :
       out[m] # out[m + 1] /\ (IsWalk(Entry, s) => <<out[m], out[m + 1]>> \in DOMAIN Entry)

\* Each stop before the one at "at" is in out or comes again.
IsCovered(s, at, out) ==
  \A m \in 1..(at - 1) : s[m] \in ToSet(out) \/ \E h \in at..Len(s) : s[h] = s[m]

\* What the nth turn of refine_sequence leaves.
IsRefining(V, s, n, q) ==
  /\ q \in RefineStates(V, Len(s)) /\ (q.at >= Len(s) \/ q.at >= n + 1)
  /\ q.at = 1 => q.out = <<>>
  /\ q.at > 1 => q.out # <<>> /\ Last(q.out) = s[q.at - 1]
  /\ IsRowOf(V, s, q.out) /\ IsCovered(s, q.at, q.out)

\* A list and one more.
LEMMA AppendFacts ==
  ASSUME NEW V, NEW q \in Seq(V), NEW p \in V
  PROVE  /\ Append(q, p) \in Seq(V) /\ Len(Append(q, p)) = Len(q) + 1 /\ Append(q, p) # <<>>
         /\ \A m \in 1..Len(q) : Append(q, p)[m] = q[m]
         /\ Append(q, p)[Len(q) + 1] = p /\ Last(Append(q, p)) = p
         /\ ToSet(Append(q, p)) = ToSet(q) \cup {p}
  <1> DEFINE r == Append(q, p)
             N == Len(q)
  <1>1. /\ r \in Seq(V) /\ Len(r) = N + 1 /\ N \in Nat /\ r[N + 1] = p
        /\ \A m \in 1..N : r[m] = q[m]
    OBVIOUS
  <1>2. ToSet(q) = {q[m] : m \in 1..N}
    BY SetOf
  <1> HIDE DEF r, N
  <1>3. ToSet(r) = {r[m] : m \in 1..(N + 1)}
    BY <1>1, SetOf
  <1>4. 1..(N + 1) = (1..N) \cup {N + 1}
    BY <1>1
  <1>5. ToSet(r) = ToSet(q) \cup {p}
    BY <1>1, <1>2, <1>3, <1>4
  <1>6. Last(r) = p /\ r # <<>>
    <2>1. r # <<>>
      BY <1>1
    <2> QED BY <1>1, <2>1 DEF Last
  <1> QED BY <1>1, <1>5, <1>6 DEF r, N

\* One more in the row.
LEMMA RowGrows ==
  ASSUME NEW V, NEW s, NEW out, IsRowOf(V, s, out), NEW p \in V, p \in ToSet(s),
         out = <<>> => p = s[1],
         out # <<>> => Last(out) # p /\ (IsWalk(Entry, s) => <<Last(out), p>> \in DOMAIN Entry)
  PROVE  IsRowOf(V, s, Append(out, p))
  <1> DEFINE r == Append(out, p)
             N == Len(out)
  <1>1. /\ out \in Seq(V) /\ ToSet(out) \subseteq ToSet(s) /\ N \in Nat
        /\ (out # <<>> => out[1] = s[1])
        /\ \A m \in 1..(N - 1) :
             out[m] # out[m + 1] /\ (IsWalk(Entry, s) => <<out[m], out[m + 1]>> \in DOMAIN Entry)
    BY DEF IsRowOf
  <1>2. /\ r \in Seq(V) /\ Len(r) = N + 1 /\ r # <<>>
        /\ \A m \in 1..N : r[m] = out[m]
        /\ r[N + 1] = p /\ ToSet(r) = ToSet(out) \cup {p}
    BY <1>1, AppendFacts
  <1>3. (out = <<>> <=> N = 0) /\ Last(out) = out[N]
    BY <1>1 DEF Last
  <1> HIDE DEF r, N
  <1>4. r[1] = s[1]
    <2>1. CASE N = 0
      BY <1>2, <1>3, <2>1
    <2>2. CASE N # 0
      <3>1. 1 \in 1..N
        BY <1>1, <2>2
      <3> QED BY <1>1, <1>2, <1>3, <2>2, <3>1
    <2> QED BY <2>1, <2>2
  <1>5. ASSUME NEW m \in 1..((N + 1) - 1)
        PROVE  r[m] # r[m + 1] /\ (IsWalk(Entry, s) => <<r[m], r[m + 1]>> \in DOMAIN Entry)
    <2>1. CASE m = N
      <3>1. N # 0 /\ N \in 1..N
        BY <1>1, <2>1
      <3>2. r[m] = Last(out) /\ r[m + 1] = p
        BY <1>2, <1>3, <2>1, <3>1
      <3> QED BY <1>3, <3>1, <3>2
    <2>2. CASE m # N
      <3>1. m \in 1..(N - 1) /\ m \in 1..N /\ m + 1 \in 1..N
        BY <1>1, <2>2
      <3> QED BY <1>1, <1>2, <3>1
    <2> QED BY <2>1, <2>2
  <1>6. ToSet(r) \subseteq ToSet(s)
    BY <1>1, <1>2
  <1> QED BY <1>2, <1>4, <1>5, <1>6 DEF IsRowOf, r

\* The next stop is passed.
LEMMA CoveredOn ==
  ASSUME NEW s, Len(s) \in Nat, NEW at \in 1..Len(s), NEW out, IsCovered(s, at, out),
         NEW r, ToSet(out) \subseteq ToSet(r), s[at] \in ToSet(r)
  PROVE  IsCovered(s, at + 1, r)
  <1> SUFFICES ASSUME NEW m \in 1..((at + 1) - 1), s[m] \notin ToSet(r)
               PROVE  \E h \in (at + 1)..Len(s) : s[h] = s[m]
    BY DEF IsCovered
  <1>1. m # at
    OBVIOUS
  <1>2. m \in 1..(at - 1)
    BY <1>1
  <1>3. PICK h \in at..Len(s) : s[h] = s[m]
    BY <1>2 DEF IsCovered
  <1>4. h # at
    BY <1>3
  <1> QED BY <1>3, <1>4

\* A jump passes over no stop for good.
LEMMA CoveredJump ==
  ASSUME NEW V, NEW s \in Seq(V), NEW at \in 1..Len(s), NEW out, IsCovered(s, at, out),
         s[at] \in ToSet(out), NEW j, IsJump(s, out, at, j),
         NEW r, ToSet(r) = ToSet(out) \cup {s[j]}
  PROVE  IsCovered(s, j + 1, r)
  <1> DEFINE L == Len(s)
  <1>1. /\ L \in Nat /\ at \in 1..L /\ j \in (at + 2)..L
        /\ \A m \in (at + 1)..(j - 1) : s[m] \in ToSet(out) \/ \E h \in (m + 1)..L : s[h] = s[m]
        /\ \A m \in 1..(at - 1) : s[m] \in ToSet(out) \/ \E h \in at..L : s[h] = s[m]
    BY DEF IsJump, IsCovered
  <1> HIDE DEF L
  <1> SUFFICES ASSUME NEW m \in 1..((j + 1) - 1), s[m] \notin ToSet(r)
               PROVE  \E h \in (j + 1)..L : s[h] = s[m]
    BY DEF IsCovered, L
  <1> DEFINE T == {h \in 1..L : s[h] = s[m]}
  <1>2. m \in T /\ T \in SUBSET Nat /\ \A h \in T : h <= L
    BY <1>1
  <1>3. PICK h \in T : \A i \in T : i <= h
    <2> HIDE DEF T
    <2>1. T # {}
      BY <1>2
    <2> QED BY <1>1, <1>2, <2>1, GreatestNatural
  <1>4. h \in 1..L /\ s[h] = s[m] /\ s[h] \notin ToSet(out) /\ s[h] # s[j]
    BY <1>3
  <1>5. \A i \in (h + 1)..L : s[i] # s[h]
    <2> SUFFICES ASSUME NEW i \in (h + 1)..L, s[i] = s[h] PROVE FALSE
      OBVIOUS
    <2>1. i \in T
      BY <1>1, <1>4
    <2>2. i <= h
      BY <1>3, <2>1
    <2> QED BY <1>1, <1>4, <2>2
  <1>6. h > j
    <2>1. h # at /\ h # j
      BY <1>4
    <2>2. ~(h \in (at + 1)..(j - 1))
      BY <1>1, <1>4, <1>5
    <2>3. ~(h \in 1..(at - 1))
      <3> SUFFICES ASSUME h \in 1..(at - 1) PROVE FALSE
        OBVIOUS
      <3>1. PICK i \in at..L : s[i] = s[h]
        BY <1>1, <1>4
      <3>2. i \in (h + 1)..L
        BY <1>1
      <3> QED BY <1>5, <3>1, <3>2
    <2> QED BY <1>1, <1>4, <2>1, <2>2, <2>3
  <1>7. h \in (j + 1)..L
    BY <1>1, <1>4, <1>6
  <1> QED BY <1>4, <1>7

\* A turn keeps all this.
LEMMA RefiningOn ==
  ASSUME NEW V, NEW s \in Seq(V), NEW n \in Nat, NEW q, IsRefining(V, s, n, q)
  PROVE  IsRefining(V, s, n + 1, RefineTurn(s, q))
  <1> DEFINE L == Len(s)
             out == q.out
             at == q.at
             item == s[at]
             jump == Ahead(s, out, at)
             u == RefineTurn(s, q)
  <1> SUFFICES IsRefining(V, s, n + 1, u)
    OBVIOUS
  <1>1. /\ q \in RefineStates(V, L) /\ (at >= L \/ at >= n + 1)
        /\ (at = 1 => out = <<>>)
        /\ (at > 1 => out # <<>> /\ Last(out) = s[at - 1])
        /\ IsRowOf(V, s, out) /\ IsCovered(s, at, out)
    BY DEF IsRefining
  <1>2. at \in 1..(L + 1) /\ out \in Seq(V) /\ L \in Nat /\ at \in Nat
    BY <1>1 DEF RefineStates
  <1>3. u \in RefineStates(V, L)
    BY <1>1, RefineTurnType
  <1>4. \A m \in 1..L : s[m] \in V /\ s[m] \in ToSet(s)
    BY SetOf
  <1>5. CASE at >= L
    <2>1. ~(at < L)
      BY <1>2, <1>5
    <2>2. u = q
      BY <1>5, <2>1 DEF RefineTurn
    <2> QED BY <1>1, <1>5, <2>2 DEF IsRefining
  <1>6. ASSUME at < L, NEW r, u = [at |-> at + 1, out |-> r], IsRowOf(V, s, r), r # <<>>,
               Last(r) = item, ToSet(out) \subseteq ToSet(r), item \in ToSet(r)
        PROVE  IsRefining(V, s, n + 1, u)
    <2>1. u.at = at + 1 /\ u.out = r
      BY <1>6
    <2>2. at \in 1..L /\ (at + 1) - 1 = at /\ at + 1 > 1 /\ at + 1 # 1
      BY <1>2, <1>6
    <2>3. IsCovered(s, at + 1, r)
      BY <1>1, <1>2, <1>6, <2>2, CoveredOn
    <2>4. at + 1 >= L \/ at + 1 >= (n + 1) + 1
      BY <1>1, <1>2, <1>6
    <2> HIDE DEF u, at, out, item
    <2> QED BY <1>3, <1>6, <2>1, <2>2, <2>3, <2>4 DEF IsRefining, item, L
  <1>7. at \in 1..L => item \in V /\ item \in ToSet(s)
    BY <1>4
  <1>8. ASSUME at < L, Last(out) # item \/ out = <<>>
        PROVE  /\ IsRowOf(V, s, Append(out, item)) /\ Append(out, item) # <<>>
               /\ Last(Append(out, item)) = item /\ ToSet(out) \subseteq ToSet(Append(out, item))
               /\ item \in ToSet(Append(out, item))
    <2>1. at \in 1..L /\ item \in V /\ item \in ToSet(s)
      BY <1>2, <1>7, <1>8
    <2>2. out = <<>> => item = s[1]
      <3>1. out = <<>> => at = 1
        BY <1>1, <1>2
      <3> QED BY <3>1
    <2>3. out # <<>> => Last(out) # item /\ (IsWalk(Entry, s)
          => <<Last(out), item>> \in DOMAIN Entry)
      <3> SUFFICES ASSUME out # <<>>, IsWalk(Entry, s) PROVE <<Last(out), item>> \in DOMAIN Entry
        BY <1>8
      <3>1. at > 1 /\ Last(out) = s[at - 1]
        BY <1>1, <1>2
      <3> DEFINE k == at - 1
      <3>2. k \in 1..(L - 1) /\ k + 1 = at
        BY <1>2, <1>8, <3>1
      <3> HIDE DEF k
      <3>3. <<s[k], s[k + 1]>> \in DOMAIN Entry
        BY <3>2 DEF IsWalk, Legs
      <3> QED BY <3>1, <3>2, <3>3 DEF k
    <2> HIDE DEF item, out
    <2>4. IsRowOf(V, s, Append(out, item))
      BY <1>1, <2>1, <2>2, <2>3, RowGrows
    <2>5. /\ Append(out, item) # <<>> /\ Last(Append(out, item)) = item
          /\ ToSet(Append(out, item)) = ToSet(out) \cup {item}
      BY <1>2, <2>1, AppendFacts
    <2> QED BY <2>4, <2>5
  <1>9. at > 1 => Last(out) \in ToSet(out)
    <2>1. out # <<>> => Len(out) \in 1..Len(out) /\ ToSet(out) = {out[m] : m \in 1..Len(out)}
      BY <1>2, SetOf
    <2>2. Last(out) = out[Len(out)]
      BY DEF Last
    <2> HIDE DEF out
    <2> QED BY <1>1, <2>1, <2>2
  <1>10. CASE at < L /\ item \notin ToSet(out)
    <2>1. u = [at |-> at + 1, out |-> Append(out, item)]
      BY <1>2, <1>10 DEF RefineTurn
    <2>2. Last(out) # item \/ out = <<>>
      <3>1. at > 1 => Last(out) # item
        BY <1>9, <1>10
      <3>2. at = 1 => out = <<>>
        BY <1>1
      <3> QED BY <1>2, <3>1, <3>2
    <2>3. /\ IsRowOf(V, s, Append(out, item)) /\ Append(out, item) # <<>>
          /\ Last(Append(out, item)) = item /\ ToSet(out) \subseteq ToSet(Append(out, item))
          /\ item \in ToSet(Append(out, item))
      BY <1>8, <1>10, <2>2
    <2> HIDE DEF u, at, out, item
    <2> QED BY <1>6, <1>10, <2>1, <2>3
  <1>11. CASE at < L /\ item \in ToSet(out) /\ jump # at
    <2>1. u = [at |-> jump + 1, out |-> Append(out, s[jump])]
      BY <1>2, <1>11 DEF RefineTurn
    <2>2. IsJump(s, out, at, jump)
      BY <1>2, <1>11, AheadFacts
    <2> HIDE DEF jump
    <2>3. /\ jump \in (at + 2)..L /\ s[jump] \notin ToSet(out)
          /\ <<Last(out), s[jump]>> \in DOMAIN Entry
      BY <2>2 DEF IsJump
    <2>4. /\ jump \in 1..L /\ jump \in Nat /\ (jump + 1) - 1 = jump /\ jump + 1 > 1 /\ jump + 1 # 1
          /\ at \in 1..L
      BY <1>2, <1>11, <2>3
    <2>5. s[jump] \in V /\ s[jump] \in ToSet(s)
      BY <1>4, <2>4
    <2> DEFINE p == s[jump]
               r == Append(out, p)
    <2>6. out # <<>> /\ Last(out) # p
      <3>1. out # <<>>
        BY <1>11 DEF ToSet
      <3>2. at # 1
        BY <1>1, <3>1
      <3>3. at > 1
        BY <1>2, <3>2
      <3> QED BY <1>9, <2>3, <3>1, <3>3
    <2> HIDE DEF p, out, at, u, item
    <2>7. IsRowOf(V, s, r)
      BY <1>1, <2>3, <2>5, <2>6, RowGrows DEF p
    <2>8. r # <<>> /\ Last(r) = p /\ ToSet(r) = ToSet(out) \cup {p}
      BY <1>2, <2>5, AppendFacts DEF p
    <2>9. IsCovered(s, jump + 1, r)
      <3> HIDE DEF r
      <3> QED BY <1>1, <1>11, <2>2, <2>4, <2>8, CoveredJump DEF item, p
    <2>10. u.at = jump + 1 /\ u.out = r
      BY <2>1 DEF p
    <2>11. jump + 1 >= L \/ jump + 1 >= (n + 1) + 1
      <3>1. jump >= at + 2 /\ jump \in Nat /\ at \in Nat /\ L \in Nat
        BY <1>2, <2>3, <2>4
      <3> HIDE DEF L
      <3> QED BY <1>1, <1>11, <3>1
    <2> HIDE DEF r
    <2> QED BY <1>3, <2>4, <2>7, <2>8, <2>9, <2>10, <2>11 DEF IsRefining, p, L
  <1>12. CASE at < L /\ item \in ToSet(out) /\ jump = at
    <2>1. u = [at |-> at + 1, out |-> IF Last(out) = item THEN out ELSE Append(out, item)]
      BY <1>2, <1>12 DEF RefineTurn
    <2>2. out # <<>>
      BY <1>12 DEF ToSet
    <2>3. CASE Last(out) = item
      <3>1. u = [at |-> at + 1, out |-> out]
        BY <2>1, <2>3
      <3> HIDE DEF u, at, out, item, jump
      <3> QED BY <1>1, <1>6, <1>12, <2>2, <2>3, <3>1
    <2>4. CASE Last(out) # item
      <3>1. u = [at |-> at + 1, out |-> Append(out, item)]
        BY <2>1, <2>4
      <3>2. /\ IsRowOf(V, s, Append(out, item)) /\ Append(out, item) # <<>>
            /\ Last(Append(out, item)) = item /\ ToSet(out) \subseteq ToSet(Append(out, item))
            /\ item \in ToSet(Append(out, item))
        BY <1>8, <1>12, <2>4
      <3> HIDE DEF u, at, out, item, jump
      <3> QED BY <1>6, <1>12, <3>1, <3>2
    <2> QED BY <2>3, <2>4
  <1> QED BY <1>2, <1>5, <1>10, <1>11, <1>12

\* What refine_sequence makes of a sequence that does not end where it begins: the same
\* ends and the same stops, never one twice in a row, over links if it was.
LEMMA RefinedFacts ==
  ASSUME NEW V, NEW s \in Seq(V), Len(s) >= 2
  PROVE  LET r == Refined(s)
         IN  /\ r \in Seq(V) /\ r # <<>> /\ r[1] = s[1] /\ Last(r) = Last(s)
             /\ ToSet(r) = ToSet(s)
             /\ \A m \in 1..(Len(r) - 1) : r[m] # r[m + 1]
             /\ IsWalk(Entry, s) => IsWalk(Entry, r)
  <1> DEFINE L == Len(s)
             end == Last(s)
  <1>1. PICK f : /\ f \in [0..L -> RefineStates(V, L)] /\ f[0] = RefineStart
                 /\ \A n \in 1..L : f[n] = RefineTurn(s, f[n - 1])
                 /\ Refined(s) = LET out == f[L].out
                                 IN  IF Last(out) = Last(s) THEN out ELSE Append(out, Last(s))
    BY RefinedTurns
  <1>2. L \in Nat /\ L >= 2 /\ L \in 1..L /\ end = s[L] /\ \A m \in 1..L : s[m] \in V
    BY DEF Last
  <1>3. ToSet(s) = {s[m] : m \in 1..L}
    BY SetOf
  <1> DEFINE Good == {n \in Nat : n <= L => IsRefining(V, s, n, f[n])}
  <1>4. 0 \in Good
    <2> DEFINE q == RefineStart
    <2>1. q.at = 1 /\ q.out = <<>> /\ q \in RefineStates(V, L)
      BY <1>2 DEF RefineStart, RefineStates
    <2>2. Len(<<>>) = 0 /\ ToSet(<<>>) = {} /\ <<>> \in Seq(V) /\ 1..(0 - 1) = {} /\ 1..(1 - 1) = {}
      BY DEF ToSet
    <2>3. IsRowOf(V, s, <<>>)
      BY <2>2 DEF IsRowOf
    <2>4. IsCovered(s, 1, <<>>)
      BY <2>2 DEF IsCovered
    <2> HIDE DEF q
    <2>5. IsRefining(V, s, 0, q)
      BY <2>1, <2>3, <2>4 DEF IsRefining
    <2> QED BY <1>1, <2>5 DEF q
  <1>5. ASSUME NEW n \in Nat, n \in Good PROVE n + 1 \in Good
    <2> SUFFICES ASSUME n + 1 <= L PROVE IsRefining(V, s, n + 1, f[n + 1])
      OBVIOUS
    <2>1. n + 1 \in 1..L /\ (n + 1) - 1 = n /\ n <= L
      BY <1>2
    <2>2. f[n + 1] = RefineTurn(s, f[(n + 1) - 1])
      BY <1>1, <2>1
    <2>3. IsRefining(V, s, n, f[n])
      BY <1>5, <2>1
    <2> QED BY <2>1, <2>2, <2>3, RefiningOn
  <1>6. IsRefining(V, s, L, f[L])
    <2> HIDE DEF Good
    <2>1. Nat \subseteq Good
      BY <1>4, <1>5, NatSetInduction
    <2>2. L \in Good /\ L <= L
      BY <1>2, <2>1
    <2> HIDE DEF L
    <2> QED BY <2>2 DEF Good
  <1> DEFINE q == f[L]
             out == q.out
             at == q.at
             r == IF Last(out) = end THEN out ELSE Append(out, end)
  <1>7. /\ q \in RefineStates(V, L) /\ (at >= L \/ at >= L + 1)
        /\ (at > 1 => out # <<>> /\ Last(out) = s[at - 1])
        /\ IsRowOf(V, s, out) /\ IsCovered(s, at, out)
    BY <1>6 DEF IsRefining
  <1>8. Refined(s) = r
    BY <1>1
  <1> HIDE DEF q, L
  <1>9. /\ at \in Nat /\ (at = L \/ at = L + 1) /\ at > 1 /\ out \in Seq(V) /\ out # <<>>
        /\ Last(out) = s[at - 1]
    <2>1. at \in 1..(L + 1) /\ out \in Seq(V)
      BY <1>7 DEF RefineStates
    <2> HIDE DEF at
    <2>2. at \in Nat /\ (at = L \/ at = L + 1) /\ at > 1
      BY <1>2, <1>7, <2>1
    <2> QED BY <1>7, <2>1, <2>2
  <1> HIDE DEF end, out, at
  <1>10. Last(out) # end => at = L
    BY <1>2, <1>9
  <1>11. IsRowOf(V, s, r) /\ r # <<>> /\ Last(r) = end /\ ToSet(out) \subseteq ToSet(r)
         /\ end \in ToSet(r)
    <2>1. CASE Last(out) = end
      <3>1. Last(out) \in ToSet(out)
        <4>1. Len(out) \in 1..Len(out) /\ ToSet(out) = {out[m] : m \in 1..Len(out)}
          BY <1>9, SetOf
        <4>2. Last(out) = out[Len(out)]
          BY DEF Last
        <4> QED BY <4>1, <4>2
      <3> QED BY <1>7, <1>9, <2>1, <3>1
    <2>2. CASE Last(out) # end
      <3>1. end \in V /\ end \in ToSet(s)
        BY <1>2, <1>3
      <3>2. IsWalk(Entry, s) => <<Last(out), end>> \in DOMAIN Entry
        <4> SUFFICES ASSUME IsWalk(Entry, s) PROVE <<Last(out), end>> \in DOMAIN Entry
          OBVIOUS
        <4> DEFINE k == L - 1
        <4>1. k \in 1..(L - 1) /\ k + 1 = L
          BY <1>2
        <4> HIDE DEF k
        <4>2. <<s[k], s[k + 1]>> \in DOMAIN Entry
          BY <4>1 DEF IsWalk, Legs, L
        <4> QED BY <1>2, <1>9, <1>10, <2>2, <4>1, <4>2 DEF k
      <3>3. IsRowOf(V, s, Append(out, end))
        BY <1>7, <1>9, <2>2, <3>1, <3>2, RowGrows
      <3>4. /\ Append(out, end) # <<>> /\ Last(Append(out, end)) = end
            /\ ToSet(Append(out, end)) = ToSet(out) \cup {end}
        BY <1>9, <3>1, AppendFacts
      <3> QED BY <2>2, <3>3, <3>4
    <2> QED BY <2>1, <2>2
  <1> HIDE DEF r
  <1>12. ToSet(s) \subseteq ToSet(r)
    <2> SUFFICES ASSUME NEW m \in 1..L PROVE s[m] \in ToSet(r)
      BY <1>3
    <2>1. CASE m = L
      BY <1>2, <1>11, <2>1
    <2>2. CASE m # L
      <3>1. m \in 1..(at - 1)
        BY <1>2, <1>9, <2>2
      <3>2. s[m] \in ToSet(out) \/ \E h \in at..L : s[h] = s[m]
        BY <1>7, <3>1 DEF IsCovered, L
      <3>3. \A h \in at..L : h = L
        BY <1>2, <1>9
      <3> QED BY <1>2, <1>11, <3>2, <3>3
    <2> QED BY <2>1, <2>2
  <1>13. /\ r \in Seq(V) /\ ToSet(r) \subseteq ToSet(s) /\ r[1] = s[1]
         /\ \A m \in 1..(Len(r) - 1) :
              r[m] # r[m + 1] /\ (IsWalk(Entry, s) => <<r[m], r[m + 1]>> \in DOMAIN Entry)
    BY <1>11 DEF IsRowOf
  <1>14. IsWalk(Entry, s) => IsWalk(Entry, r)
    BY <1>13 DEF IsWalk, Legs
  <1> QED BY <1>8, <1>11, <1>12, <1>13, <1>14 DEF end

\* A sequence of stops from the source to the target past every destination.
IsWhole(s) ==
  s \in Seq(Stops) /\ s # <<>> /\ s[1] = 0 /\ Last(s) = Target /\ ToSet(s) = Stops

\* It has two stops at least, as the matrix has.
LEMMA WholeFacts ==
  ASSUME IsProblem, NEW s, IsWhole(s)
  PROVE  Len(s) \in Nat /\ Len(s) >= 2 /\ s[Len(s)] = Target /\ Head(s) = 0
  <1>1. /\ s \in Seq(Stops) /\ s # <<>> /\ s[1] = 0 /\ s[Len(s)] = Target
    BY DEF IsWhole, Last
  <1>2. Target # 0
    BY EntryFacts
  <1>3. Len(s) \in Nat /\ Len(s) # 0 /\ Head(s) = s[1]
    BY <1>1
  <1>4. Len(s) # 1
    BY <1>1, <1>2
  <1>5. Len(s) >= 2
    BY <1>3, <1>4
  <1> QED BY <1>1, <1>3, <1>5

\* A stop twice in a row takes room for one that is not there.
LEMMA RowTakesRoom ==
  ASSUME NEW V, NEW s \in Seq(V), ToSet(s) = V, NEW m \in 1..(Len(s) - 1), s[m] = s[m + 1]
  PROVE  Cardinality(V) <= Len(s) - 1
  <1> DEFINE N == Len(s) - 1
             g == [i \in 1..N |-> IF i <= m THEN s[i] ELSE s[i + 1]]
  <1>1. /\ Len(s) \in Nat /\ N \in Nat /\ N + 1 = Len(s) /\ m \in 1..N
        /\ V = {s[i] : i \in 1..Len(s)}
        /\ \A i \in 1..Len(s) : s[i] \in V
    <2>1. Len(s) \in Nat /\ \A i \in 1..Len(s) : s[i] \in V
      OBVIOUS
    <2>2. V = {s[i] : i \in 1..Len(s)}
      BY SetOf
    <2>3. N \in Nat /\ N + 1 = Len(s) /\ m \in 1..N
      BY <2>1
    <2> HIDE DEF N
    <2> QED BY <2>1, <2>2, <2>3
  <1>2. g \in [1..N -> V]
    <2>1. \A i \in 1..N : i \in 1..Len(s) /\ i + 1 \in 1..Len(s)
      BY <1>1
    <2> QED BY <1>1, <2>1
  <1>3. ASSUME NEW v \in V
        PROVE  \E i \in 1..N : g[i] = v
    <2>1. PICK i \in 1..Len(s) : s[i] = v
      BY <1>1
    <2>2. CASE i <= m
      <3>1. i \in 1..N
        BY <1>1, <2>2
      <3>2. g[i] = v
        BY <2>1, <2>2, <3>1
      <3> QED BY <3>1, <3>2
    <2>3. CASE i = m + 1
      <3>1. g[m] = s[m]
        BY <1>1
      <3> QED BY <1>1, <2>1, <2>3, <3>1
    <2>4. CASE i > m + 1
      <3> DEFINE j == i - 1
      <3>1. j \in 1..N /\ ~(j <= m) /\ j + 1 = i
        BY <1>1, <2>4
      <3> HIDE DEF j
      <3>2. g[j] = s[j + 1]
        BY <3>1
      <3> HIDE DEF g
      <3> QED BY <2>1, <3>1, <3>2
    <2> QED BY <1>1, <2>2, <2>3, <2>4
  <1> HIDE DEF g, N
  <1>4. g \in Surjection(1..N, V)
    BY <1>2, <1>3 DEF Surjection
  <1>5. ExistsSurjection(1..N, V)
    BY <1>4 DEF ExistsSurjection
  <1>6. Cardinality(V) <= N
    BY <1>1, <1>5, FS_SurjCardinalityBound
  <1> QED BY <1>6 DEF N

\* A shortcut loses no stop and neither end, uses links only, and moves on with each leg
\* (apply_shortcut, rtsp/eci_gen.rs:643).
LEMMA ShortcutFacts ==
  ASSUME IsProblem, NEW s, IsWhole(s)
  PROVE  /\ IsWhole(Shortcut(s)) /\ (Finite(s) => Finite(Shortcut(s)))
         /\ settings.shortcut => Moves(Shortcut(s))
         /\ ~settings.shortcut => Shortcut(s) = s
  <1> DEFINE n == matrix.size
             r == Refined(s)
  <1>1. /\ Len(s) \in Nat /\ Len(s) >= 2 /\ n \in Nat
        /\ s \in Seq(Stops) /\ s[1] = 0 /\ Last(s) = Target /\ ToSet(s) = Stops
    BY WholeFacts, EntryFacts DEF IsWhole
  <1>2. CASE settings.shortcut /\ Len(s) > n
    <2>1. Shortcut(s) = r
      BY <1>2 DEF Shortcut
    <2>2. /\ r \in Seq(Stops) /\ r # <<>> /\ r[1] = s[1] /\ Last(r) = Last(s)
          /\ ToSet(r) = ToSet(s)
          /\ \A m \in 1..(Len(r) - 1) : r[m] # r[m + 1]
          /\ IsWalk(Entry, s) => IsWalk(Entry, r)
      BY <1>1, RefinedFacts
    <2> HIDE DEF r
    <2>3. Moves(r)
      <3>1. Len(r) \in Nat
        BY <2>2
      <3> QED BY <2>2, <3>1, MovesOn
    <2> QED BY <1>1, <1>2, <2>1, <2>2, <2>3 DEF IsWhole, Finite
  <1>3. CASE ~(settings.shortcut /\ Len(s) > n)
    <2>1. Shortcut(s) = s
      BY <1>3 DEF Shortcut
    <2>2. settings.shortcut => Moves(s)
      <3> SUFFICES ASSUME settings.shortcut, NEW m \in 1..(Len(s) - 1), s[m] = s[m + 1]
                   PROVE  FALSE
        BY <1>1, MovesOn
      <3>1. Cardinality(Stops) <= Len(s) - 1
        BY <1>1, RowTakesRoom
      <3>2. Cardinality(Stops) = n
        <4>1. 0 \in Int /\ n - 1 \in Int /\ n >= 2 /\ n \in Nat
          BY <1>1, EntryFacts
        <4>2. Stops = 0..(n - 1)
          BY DEF Stops, Target
        <4> HIDE DEF n
        <4>3. Cardinality(0..(n - 1)) = IF 0 > n - 1 THEN 0 ELSE (n - 1) - 0 + 1
          BY <4>1, FS_Interval
        <4> QED BY <4>1, <4>2, <4>3
      <3> QED BY <1>1, <1>3, <3>1, <3>2
    <2> QED BY <2>1, <2>2
  <1> QED BY <1>2, <1>3

-----------------------------------------------------------------------------
(* The genetic search                                                     *)

\* One list after another.
LEMMA ThenFacts ==
  ASSUME NEW V, NEW a \in Seq(V), NEW b \in Seq(V)
  PROVE  /\ a \o b \in Seq(V) /\ ToSet(a \o b) = ToSet(a) \cup ToSet(b)
         /\ a # <<>> => a \o b # <<>> /\ (a \o b)[1] = a[1]
         /\ b # <<>> => a \o b # <<>> /\ Last(a \o b) = Last(b)
  <1> DEFINE r == a \o b
             A == Len(a)
             B == Len(b)
  <1>1. /\ r \in Seq(V) /\ Len(r) = A + B /\ A \in Nat /\ B \in Nat
        /\ \A k \in 1..(A + B) : r[k] = IF k <= A THEN a[k] ELSE b[k - A]
    BY ListsJoined
  <1>2. (a = <<>> <=> A = 0) /\ (b = <<>> <=> B = 0) /\ (r = <<>> <=> Len(r) = 0)
    BY <1>1
  <1>3. /\ ToSet(a) = {a[k] : k \in 1..A} /\ ToSet(b) = {b[k] : k \in 1..B}
        /\ ToSet(r) = {r[k] : k \in 1..(A + B)}
    <2>1. ToSet(a) = {a[k] : k \in 1..A} /\ ToSet(b) = {b[k] : k \in 1..B}
      BY SetOf
    <2>2. ToSet(r) = {r[k] : k \in 1..(A + B)}
      <3> HIDE DEF r
      <3> QED BY <1>1, SetOf
    <2> QED BY <2>1, <2>2
  <1>4. Last(r) = r[A + B] /\ Last(b) = b[B]
    BY <1>1 DEF Last
  <1> HIDE DEF r, A, B
  <1>5. ASSUME NEW k \in 1..A PROVE k \in 1..(A + B) /\ r[k] = a[k]
    BY <1>1
  <1>6. ASSUME NEW k \in 1..B PROVE k + A \in 1..(A + B) /\ r[k + A] = b[k]
    BY <1>1
  <1>7. ASSUME NEW k \in 1..(A + B)
        PROVE  (k \in 1..A /\ r[k] = a[k]) \/ (k - A \in 1..B /\ r[k] = b[k - A])
    BY <1>1
  <1>8. ToSet(r) = ToSet(a) \cup ToSet(b)
    BY <1>3, <1>5, <1>6, <1>7
  <1>9. a # <<>> => r # <<>> /\ r[1] = a[1]
    <2> SUFFICES ASSUME a # <<>> PROVE r # <<>> /\ r[1] = a[1]
      OBVIOUS
    <2>1. 1 \in 1..A /\ A + B # 0
      BY <1>1, <1>2
    <2> QED BY <1>1, <1>2, <1>5, <2>1
  <1>10. b # <<>> => r # <<>> /\ Last(r) = Last(b)
    <2> SUFFICES ASSUME b # <<>> PROVE r # <<>> /\ Last(r) = Last(b)
      OBVIOUS
    <2>1. B \in 1..B /\ A + B # 0 /\ B + A = A + B
      BY <1>1, <1>2
    <2> QED BY <1>1, <1>2, <1>4, <1>6, <2>1
  <1> QED BY <1>1, <1>8, <1>9, <1>10 DEF r

\* What a part of a list holds.
LEMMA PartSet ==
  ASSUME NEW V, NEW p \in Seq(V), NEW i \in 1..(Len(p) + 1), NEW j \in (i - 1)..Len(p)
  PROVE  /\ SubSeq(p, i, j) \in Seq(V) /\ ToSet(SubSeq(p, i, j)) = {p[m] : m \in i..j}
         /\ i <= j => /\ SubSeq(p, i, j) # <<>> /\ SubSeq(p, i, j)[1] = p[i]
                      /\ Last(SubSeq(p, i, j)) = p[j]
  <1> DEFINE r == SubSeq(p, i, j)
             N == (j - i) + 1
  <1>1. /\ r \in Seq(V) /\ Len(r) = N /\ \A m \in 1..N : r[m] = p[(i - 1) + m]
    BY PartFacts
  <1>2. ToSet(r) = {r[m] : m \in 1..N} /\ (r = <<>> <=> N = 0)
    <2> HIDE DEF r, N
    <2>1. ToSet(r) = {r[m] : m \in 1..Len(r)}
      BY <1>1, SetOf
    <2> QED BY <1>1, <2>1
  <1>3. i \in Nat /\ j \in Int /\ N \in Nat /\ j = (i - 1) + N
    OBVIOUS
  <1> HIDE DEF r, N
  <1>4. ASSUME NEW m \in 1..N PROVE (i - 1) + m \in i..j /\ r[m] = p[(i - 1) + m]
    BY <1>1, <1>3
  <1>5. ASSUME NEW m \in i..j PROVE m - (i - 1) \in 1..N /\ r[m - (i - 1)] = p[m]
    BY <1>1, <1>3
  <1>6. ToSet(r) = {p[m] : m \in i..j}
    BY <1>2, <1>4, <1>5
  <1>7. i <= j => r # <<>> /\ r[1] = p[i] /\ Last(r) = p[j]
    <2> SUFFICES ASSUME i <= j PROVE r # <<>> /\ r[1] = p[i] /\ Last(r) = p[j]
      OBVIOUS
    <2>1. 1 \in 1..N /\ N \in 1..N /\ N # 0 /\ (i - 1) + 1 = i
      BY <1>3
    <2> QED BY <1>1, <1>2, <1>3, <2>1 DEF Last
  <1> QED BY <1>1, <1>6, <1>7 DEF r

\* The other way around.
LEMMA ReverseFacts ==
  ASSUME NEW V, NEW s \in Seq(V)
  PROVE  Reverse(s) \in Seq(V) /\ ToSet(Reverse(s)) = ToSet(s)
  <1> DEFINE r == Reverse(s)
             N == Len(s)
  <1>1. r = [i \in 1..N |-> s[(N - i) + 1]] /\ N \in Nat /\ \A i \in 1..N : s[i] \in V
    BY DEF Reverse
  <1>2. \A i \in 1..N : (N - i) + 1 \in 1..N
    BY <1>1
  <1>3. r \in Seq(V) /\ Len(r) = N
    <2>1. r \in [1..N -> V]
      BY <1>1, <1>2
    <2> HIDE DEF r, N
    <2> QED BY <1>1, <2>1
  <1>4. ToSet(r) = {r[m] : m \in 1..N}
    <2> HIDE DEF r, N
    <2> QED BY <1>3, SetOf
  <1>5. ToSet(s) = {s[m] : m \in 1..N}
    BY SetOf
  <1> HIDE DEF r, N
  <1>6. \A i \in 1..N : r[i] = s[(N - i) + 1] /\ (N - i) + 1 \in 1..N /\ (N - ((N - i) + 1)) + 1 = i
    BY <1>1, <1>2
  <1>7. ToSet(r) = ToSet(s)
    BY <1>4, <1>5, <1>6
  <1> QED BY <1>3, <1>7 DEF r

\* The stops of s that are not in T, and no others.
LEMMA WithoutFacts ==
  ASSUME NEW V, NEW s \in Seq(V), NEW T
  PROVE  Without(s, T) \in Seq(V) /\ ToSet(Without(s, T)) = ToSet(s) \ T
  <1> DEFINE L == Len(s)
             W == Seq(V)
             h == [p \in (1..L) \X W |-> IF s[p[1]] \in T THEN p[2] ELSE Append(p[2], s[p[1]])]
             step(f) == [k \in 0..L |->
               IF k = 0 THEN <<>>
               ELSE IF s[k] \in T THEN f[k - 1] ELSE Append(f[k - 1], s[k])]
             iter == CHOOSE f : f = step(f)
  <1>1. L \in Nat /\ <<>> \in W /\ \A m \in 1..L : s[m] \in V
    OBVIOUS
  <1>2. h \in [(1..L) \X W -> W]
    <2>1. \A m \in 1..L : \A q \in W : Append(q, s[m]) \in W
      BY <1>1
    <2> HIDE DEF W
    <2> QED BY <2>1
  <1>3. PICK f : AreSteps(f, L, W, <<>>, h)
    <2> HIDE DEF h, L, W
    <2> QED BY <1>1, <1>2, StepsExist
  <1>4. /\ f \in [0..L -> W] /\ f[0] = <<>>
        /\ \A n \in 1..L : f[n] = IF s[n] \in T THEN f[n - 1] ELSE Append(f[n - 1], s[n])
    <2>1. /\ f \in [0..L -> W] /\ f[0] = <<>>
          /\ \A n \in 1..L : f[n] = h[<<n, f[n - 1]>>]
      <3> HIDE DEF h, L, W
      <3> QED BY <1>3 DEF AreSteps
    <2>2. ASSUME NEW n \in 1..L
          PROVE  h[<<n, f[n - 1]>>] = IF s[n] \in T THEN f[n - 1] ELSE Append(f[n - 1], s[n])
      <3>1. n - 1 \in 0..L
        BY <1>1
      <3>2. f[n - 1] \in W
        BY <2>1, <3>1
      <3> HIDE DEF W
      <3> QED BY <3>2
    <2> HIDE DEF h
    <2> QED BY <2>1, <2>2
  <1>5. ASSUME NEW g
        PROVE  /\ DOMAIN step(g) = 0..L /\ step(g)[0] = <<>>
               /\ step(g) = [n \in 0..L |-> step(g)[n]]
               /\ \A n \in 1..L :
                    step(g)[n] = IF s[n] \in T THEN g[n - 1] ELSE Append(g[n - 1], s[n])
    <2>1. 0 \in 0..L /\ \A n \in 1..L : n \in 0..L /\ n # 0
      BY <1>1
    <2> QED BY <2>1
  <1>6. f = step(f)
    <2>1. ASSUME NEW n \in 0..L PROVE step(f)[n] = f[n]
      <3>1. CASE n = 0
        <4> HIDE DEF step
        <4> QED BY <1>4, <1>5, <3>1
      <3>2. CASE n # 0
        <4>1. n \in 1..L
          BY <1>1, <3>2
        <4> HIDE DEF step
        <4> QED BY <1>4, <1>5, <4>1
      <3> QED BY <3>1, <3>2
    <2> HIDE DEF step, W, L
    <2> QED BY <1>4, <1>5, <2>1
  <1>7. iter = step(iter)
    <2> HIDE DEF step
    <2> QED BY <1>6
  <1>8. Without(s, T) = iter[L]
    BY DEF Without
  <1> HIDE DEF iter, step
  <1> DEFINE Good == {n \in Nat : n <= L =>
                        iter[n] \in W /\ ToSet(iter[n]) = {s[m] : m \in 1..n} \ T}
  <1>9. 0 \in Good
    <2>1. iter[0] = <<>>
      BY <1>5, <1>7
    <2>2. ToSet(<<>>) = {} /\ {s[m] : m \in 1..0} = {}
      BY DEF ToSet
    <2> HIDE DEF W
    <2> QED BY <1>1, <2>1, <2>2
  <1>10. ASSUME NEW n \in Nat, n \in Good PROVE n + 1 \in Good
    <2> SUFFICES ASSUME n + 1 <= L
                 PROVE  iter[n + 1] \in W /\ ToSet(iter[n + 1]) = {s[m] : m \in 1..(n + 1)} \ T
      OBVIOUS
    <2>1. n + 1 \in 1..L /\ (n + 1) - 1 = n /\ n <= L /\ 1..(n + 1) = (1..n) \cup {n + 1}
      BY <1>1
    <2>2. iter[n] \in W /\ ToSet(iter[n]) = {s[m] : m \in 1..n} \ T
      BY <1>10, <2>1
    <2>3. iter[n + 1] = IF s[n + 1] \in T THEN iter[(n + 1) - 1]
                        ELSE Append(iter[(n + 1) - 1], s[n + 1])
      BY <1>5, <1>7, <2>1
    <2>4. iter[n + 1] = IF s[n + 1] \in T THEN iter[n] ELSE Append(iter[n], s[n + 1])
      BY <2>1, <2>3
    <2>5. {s[m] : m \in 1..(n + 1)} = {s[m] : m \in 1..n} \cup {s[n + 1]}
      BY <2>1
    <2>6. CASE s[n + 1] \in T
      BY <2>2, <2>4, <2>5, <2>6
    <2>7. CASE s[n + 1] \notin T
      <3>1. s[n + 1] \in V
        BY <1>1, <2>1
      <3>2. /\ Append(iter[n], s[n + 1]) \in W
            /\ ToSet(Append(iter[n], s[n + 1])) = ToSet(iter[n]) \cup {s[n + 1]}
        BY <2>2, <3>1, AppendFacts
      <3> QED BY <2>2, <2>4, <2>5, <2>7, <3>2
    <2> QED BY <2>6, <2>7
  <1>11. iter[L] \in W /\ ToSet(iter[L]) = {s[m] : m \in 1..L} \ T
    <2>1. Nat \subseteq Good
      <3> HIDE DEF Good
      <3> QED BY <1>9, <1>10, NatSetInduction
    <2>2. L \in Nat /\ L <= L
      BY <1>1
    <2> HIDE DEF L, W
    <2>3. L \in Good
      <3> HIDE DEF Good
      <3> QED BY <2>1, <2>2
    <2> QED BY <2>2, <2>3
  <1> QED BY <1>8, <1>11, SetOf

\* Five lists, one after another.
AreJoined(V, a, b, c, d, e, t) ==
  /\ a \in Seq(V) /\ b \in Seq(V) /\ c \in Seq(V) /\ d \in Seq(V) /\ e \in Seq(V)
  /\ a # <<>> /\ e # <<>> /\ t = a \o b \o c \o d \o e

\* They make one with the first's beginning and the last's end.
LEMMA FiveJoined ==
  ASSUME NEW V, NEW a, NEW b, NEW c, NEW d, NEW e, NEW t, AreJoined(V, a, b, c, d, e, t)
  PROVE  /\ t \in Seq(V) /\ t # <<>> /\ t[1] = a[1] /\ Last(t) = Last(e)
         /\ ToSet(t) = ToSet(a) \cup ToSet(b) \cup ToSet(c) \cup ToSet(d) \cup ToSet(e)
  <1> DEFINE p == a \o b
             q == p \o c
             r == q \o d
             u == r \o e
  <1> USE DEF AreJoined
  <1>1. p \in Seq(V) /\ p # <<>> /\ p[1] = a[1] /\ ToSet(p) = ToSet(a) \cup ToSet(b)
    BY ThenFacts
  <1> HIDE DEF p
  <1>2. q \in Seq(V) /\ q # <<>> /\ q[1] = p[1] /\ ToSet(q) = ToSet(p) \cup ToSet(c)
    BY <1>1, ThenFacts
  <1> HIDE DEF q
  <1>3. r \in Seq(V) /\ r # <<>> /\ r[1] = q[1] /\ ToSet(r) = ToSet(q) \cup ToSet(d)
    BY <1>2, ThenFacts
  <1> HIDE DEF r
  <1>4. /\ u \in Seq(V) /\ u # <<>> /\ u[1] = r[1] /\ Last(u) = Last(e)
        /\ ToSet(u) = ToSet(r) \cup ToSet(e)
    BY <1>3, ThenFacts
  <1> HIDE DEF u
  <1>5. t = u
    BY DEF u, r, q, p
  <1> QED BY <1>1, <1>2, <1>3, <1>4, <1>5

\* A mutation keeps all stops and both ends (generate_chromosomes, rtsp/eci_gen.rs:368).
LEMMA MutantsFacts ==
  ASSUME IsProblem, NEW s, IsWhole(s), NEW t \in Mutants(s)
  PROVE  IsWhole(t)
  <1> DEFINE L == Len(s)
             At(i, j) == {s[m] : m \in i..j}
  <1>1. /\ L \in Nat /\ L >= 2 /\ s \in Seq(Stops) /\ s[1] = 0 /\ s[L] = Target
        /\ ToSet(s) = Stops
    BY WholeFacts DEF IsWhole
  <1> DEFINE part(c) == [i \in 1..3 |-> SubSeq(s, c[i] + 1, c[i + 1])]
             Flips(p) == {f \in [1..3 -> {p[1], p[2], p[3],
                                          Reverse(p[1]), Reverse(p[2]), Reverse(p[3])}] :
                            \A i \in 1..3 : f[i] \in {p[i], Reverse(p[i])}}
             Orders == SetToSeqs(1..3) \ {<< 1, 2, 3 >>}
             put(c, flip, o) == SubSeq(s, 1, c[1]) \o flip[o[1]] \o flip[o[2]] \o flip[o[3]]
                                  \o SubSeq(s, c[4] + 1, L)
             all(c) == {put(c, flip, o) : flip \in Flips(part(c)), o \in Orders}
  <1>2. PICK c \in Slices(4, L - 1) : t \in all(c)
    <2>1. Mutants(s) = UNION {all(c) : c \in Slices(4, L - 1)}
      BY DEF Mutants
    <2> HIDE DEF all
    <2> QED BY <2>1
  <1>3. PICK flip, o :
          /\ \A i \in 1..3 : flip[i] = SubSeq(s, c[i] + 1, c[i + 1])
                             \/ flip[i] = Reverse(SubSeq(s, c[i] + 1, c[i + 1]))
          /\ o \in SetToSeqs(1..3)
          /\ t = SubSeq(s, 1, c[1]) \o flip[o[1]] \o flip[o[2]] \o flip[o[3]]
                   \o SubSeq(s, c[4] + 1, L)
    <2>1. PICK flip \in Flips(part(c)), o \in Orders : t = put(c, flip, o)
      <3> HIDE DEF put, Flips, Orders, part
      <3> QED BY <1>2
    <2>2. \A i \in 1..3 : flip[i] \in {part(c)[i], Reverse(part(c)[i])}
      <3> HIDE DEF part
      <3> QED OBVIOUS
    <2>3. \A i \in 1..3 : part(c)[i] = SubSeq(s, c[i] + 1, c[i + 1])
      OBVIOUS
    <2>4. ASSUME NEW i \in 1..3
          PROVE  flip[i] = SubSeq(s, c[i] + 1, c[i + 1])
                   \/ flip[i] = Reverse(SubSeq(s, c[i] + 1, c[i + 1]))
      <3> HIDE DEF part
      <3> QED BY <2>2, <2>3
    <2>5. o \in SetToSeqs(1..3)
      OBVIOUS
    <2> QED BY <2>1, <2>4, <2>5
  <1>4. /\ \A i \in 1..4 : c[i] \in 1..(L - 1)
        /\ \A i \in 1..3 : c[i] <= c[i + 1]
    BY <1>2 DEF Slices
  <1>5. /\ c[1] \in 1..(L - 1) /\ c[2] \in 1..(L - 1) /\ c[3] \in 1..(L - 1) /\ c[4] \in 1..(L - 1)
        /\ c[1] <= c[2] /\ c[2] <= c[3] /\ c[3] <= c[4]
    BY <1>4
  <1> DEFINE Middle(i) == At(c[i] + 1, c[i + 1])
             pre == SubSeq(s, 1, c[1])
             post == SubSeq(s, c[4] + 1, L)
  <1> HIDE DEF L
  <1>6. ASSUME NEW i \in 1..3
        PROVE  flip[i] \in Seq(Stops) /\ ToSet(flip[i]) = Middle(i)
    <2>1. c[i] \in 1..(L - 1) /\ c[i + 1] \in 1..(L - 1) /\ c[i] <= c[i + 1]
      BY <1>4
    <2>2. c[i] + 1 \in 1..(Len(s) + 1) /\ c[i + 1] \in ((c[i] + 1) - 1)..Len(s)
      BY <1>1, <2>1 DEF L
    <2> DEFINE h == SubSeq(s, c[i] + 1, c[i + 1])
    <2>3. h \in Seq(Stops) /\ ToSet(h) = Middle(i)
      BY <1>1, <2>2, PartSet
    <2>4. flip[i] = h \/ flip[i] = Reverse(h)
      BY <1>3
    <2> HIDE DEF h, At
    <2>5. Reverse(h) \in Seq(Stops) /\ ToSet(Reverse(h)) = ToSet(h)
      BY <2>3, ReverseFacts
    <2> QED BY <2>3, <2>4, <2>5
  <1>7. /\ pre \in Seq(Stops) /\ pre # <<>> /\ pre[1] = 0 /\ ToSet(pre) = At(1, c[1])
    <2>1. /\ 1 \in 1..(Len(s) + 1) /\ c[1] \in (1 - 1)..Len(s) /\ 1 <= c[1]
      BY <1>1, <1>5 DEF L
    <2> QED BY <1>1, <2>1, PartSet
  <1>8. /\ post \in Seq(Stops) /\ post # <<>> /\ Last(post) = Target
        /\ ToSet(post) = At(c[4] + 1, L)
    <2>1. /\ c[4] + 1 \in 1..(Len(s) + 1) /\ L \in ((c[4] + 1) - 1)..Len(s) /\ c[4] + 1 <= L
      BY <1>1, <1>5 DEF L
    <2> DEFINE i == c[4] + 1
    <2>2. i \in 1..(Len(s) + 1) /\ L \in (i - 1)..Len(s) /\ i <= L
      BY <2>1
    <2> HIDE DEF i, At
    <2>3. /\ SubSeq(s, i, L) \in Seq(Stops) /\ ToSet(SubSeq(s, i, L)) = {s[m] : m \in i..L}
          /\ SubSeq(s, i, L) # <<>> /\ Last(SubSeq(s, i, L)) = s[L]
      <3>1. s \in Seq(Stops)
        BY <1>1
      <3>2. ASSUME NEW V, s \in Seq(V)
            PROVE  /\ SubSeq(s, i, L) \in Seq(V) /\ ToSet(SubSeq(s, i, L)) = {s[m] : m \in i..L}
                   /\ SubSeq(s, i, L) # <<>> /\ Last(SubSeq(s, i, L)) = s[L]
        BY <2>2, <3>2, PartSet
      <3> QED BY <3>1, <3>2
    <2> QED BY <1>1, <2>3 DEF i, At
  <1>9. /\ o[1] \in 1..3 /\ o[2] \in 1..3 /\ o[3] \in 1..3
        /\ \A i \in 1..3 : i = o[1] \/ i = o[2] \/ i = o[3]
    <2>1. Cardinality(1..3) = 3
      <3>1. 1 \in Int /\ 3 \in Int
        OBVIOUS
      <3>2. Cardinality(1..3) = IF 1 > 3 THEN 0 ELSE 3 - 1 + 1
        BY <3>1, FS_Interval
      <3> QED BY <3>2
    <2>2. o \in [1..3 -> 1..3] /\ \A i, j \in 1..3 : i # j => o[i] # o[j]
      BY <1>3, <2>1 DEF SetToSeqs
    <2>3. /\ o[1] \in 1..3 /\ o[2] \in 1..3 /\ o[3] \in 1..3
          /\ o[1] # o[2] /\ o[1] # o[3] /\ o[2] # o[3]
      BY <2>2
    <2> QED BY <2>3
  <1>10. /\ t \in Seq(Stops) /\ t # <<>> /\ t[1] = pre[1] /\ Last(t) = Last(post)
         /\ ToSet(t) = ToSet(pre) \cup ToSet(flip[o[1]]) \cup ToSet(flip[o[2]])
                         \cup ToSet(flip[o[3]]) \cup ToSet(post)
    <2>1. t = pre \o flip[o[1]] \o flip[o[2]] \o flip[o[3]] \o post
      BY <1>3
    <2>2. flip[o[1]] \in Seq(Stops) /\ flip[o[2]] \in Seq(Stops) /\ flip[o[3]] \in Seq(Stops)
      BY <1>6, <1>9
    <2>3. pre \in Seq(Stops) /\ pre # <<>> /\ post \in Seq(Stops) /\ post # <<>>
      BY <1>7, <1>8
    <2> HIDE DEF pre, post
    <2> DEFINE b == flip[o[1]]
               d == flip[o[2]]
               e == flip[o[3]]
    <2>4. AreJoined(Stops, pre, b, d, e, post, t)
      BY <2>1, <2>2, <2>3 DEF AreJoined
    <2> HIDE DEF b, d, e
    <2>5. /\ t \in Seq(Stops) /\ t # <<>> /\ t[1] = pre[1] /\ Last(t) = Last(post)
          /\ ToSet(t) = ToSet(pre) \cup ToSet(b) \cup ToSet(d) \cup ToSet(e) \cup ToSet(post)
      BY <2>4, FiveJoined
    <2> QED BY <2>5 DEF b, d, e
  <1>11. ToSet(s) = {s[m] : m \in 1..L}
    BY <1>1, SetOf DEF L
  <1> HIDE DEF pre, post
  <1>12. ToSet(t) = ToSet(pre) \cup Middle(1) \cup Middle(2) \cup Middle(3) \cup ToSet(post)
    <2>1. /\ ToSet(flip[o[1]]) = Middle(o[1]) /\ ToSet(flip[o[2]]) = Middle(o[2])
          /\ ToSet(flip[o[3]]) = Middle(o[3])
      BY <1>6, <1>9
    <2>2. Middle(o[1]) \cup Middle(o[2]) \cup Middle(o[3]) = Middle(1) \cup Middle(2) \cup Middle(3)
      <3> HIDE DEF Middle
      <3>1. \A i \in 1..3 : i = 1 \/ i = 2 \/ i = 3
        OBVIOUS
      <3>2. /\ o[1] = 1 \/ o[1] = 2 \/ o[1] = 3
            /\ o[2] = 1 \/ o[2] = 2 \/ o[2] = 3
            /\ o[3] = 1 \/ o[3] = 2 \/ o[3] = 3
        BY <1>9, <3>1
      <3>3. /\ 1 = o[1] \/ 1 = o[2] \/ 1 = o[3]
            /\ 2 = o[1] \/ 2 = o[2] \/ 2 = o[3]
            /\ 3 = o[1] \/ 3 = o[2] \/ 3 = o[3]
        BY <1>9
      <3>4. ASSUME NEW x
            PROVE  (x \in Middle(o[1]) \/ x \in Middle(o[2]) \/ x \in Middle(o[3]))
                     <=> (x \in Middle(1) \/ x \in Middle(2) \/ x \in Middle(3))
        BY <3>2, <3>3
      <3> QED BY <3>4
    <2> HIDE DEF Middle
    <2> QED BY <1>10, <2>1, <2>2
  <1>13. ToSet(t) = ToSet(s)
    <2>1. Middle(1) = At(c[1] + 1, c[2]) /\ Middle(2) = At(c[2] + 1, c[3])
          /\ Middle(3) = At(c[3] + 1, c[4])
      OBVIOUS
    <2> HIDE DEF Middle, At
    <2>2. ToSet(t) = At(1, c[1]) \cup At(c[1] + 1, c[2]) \cup At(c[2] + 1, c[3])
                       \cup At(c[3] + 1, c[4]) \cup At(c[4] + 1, L)
      BY <1>7, <1>8, <1>12, <2>1
    <2>3. /\ L \in Nat /\ L >= 2
          /\ c[1] \in 1..(L - 1) /\ c[2] \in 1..(L - 1) /\ c[3] \in 1..(L - 1)
               /\ c[4] \in 1..(L - 1)
          /\ c[1] <= c[2] /\ c[2] <= c[3] /\ c[3] <= c[4]
      BY <1>1, <1>5
    <2>4. 1..L = (1..c[1]) \cup ((c[1] + 1)..c[2]) \cup ((c[2] + 1)..c[3])
                   \cup ((c[3] + 1)..c[4]) \cup ((c[4] + 1)..L)
      BY <2>3
    <2> QED BY <1>11, <2>2, <2>4 DEF At
  <1> QED BY <1>1, <1>7, <1>8, <1>10, <1>13 DEF IsWhole

\* What is bred of two whole sequences.
IsBredOf(a, b, c, rest, m, middle, s) ==
  /\ c \in Slices(2, Len(a) - 1)
  /\ rest = Without(SubSeq(b, 2, Len(b) - 1), ToSet(SubSeq(a, c[1] + 1, c[2])))
  /\ m \in 0..Len(rest)
  /\ \/ middle = SubSeq(a, c[1] + 1, c[2])
     \/ middle = Reverse(SubSeq(a, c[1] + 1, c[2]))
  /\ s = <<0>> \o SubSeq(rest, 1, m) \o middle \o SubSeq(rest, m + 1, Len(rest))

\* That is what Bred says.
LEMMA BredIsBred ==
  ASSUME NEW a, NEW b, NEW t \in Bred(a, b)
  PROVE  \E c, rest, m, middle, s :
           /\ IsBredOf(a, b, c, rest, m, middle, s)
           /\ t = IF Last(s) = Target THEN s ELSE Append(s, Target)
  <1> DEFINE slice(c) == SubSeq(a, c[1] + 1, c[2])
             longer == IF Len(a) > Len(b) THEN Len(a) ELSE Len(b)
             rest(c) == Without(SubSeq(b, 2, Len(b) - 1), ToSet(slice(c)))
             most(c) == longer - c[2] + c[1] - 2
             Places(c) == {m \in 0..Len(rest(c)) : m <= most(c)}
             Middles(c) == {slice(c), Reverse(slice(c))}
             put(c, m, middle) == <<0>> \o SubSeq(rest(c), 1, m) \o middle
                                    \o SubSeq(rest(c), m + 1, Len(rest(c)))
             bred(c) == {put(c, m, middle) : m \in Places(c), middle \in Middles(c)}
             all(c) == {IF Last(s) = Target THEN s ELSE Append(s, Target) : s \in bred(c)}
  <1>1. PICK c \in Slices(2, Len(a) - 1) : t \in all(c)
    <2>1. Bred(a, b) = UNION {all(c) : c \in Slices(2, Len(a) - 1)}
      BY DEF Bred
    <2> HIDE DEF all
    <2> QED BY <2>1
  <1>2. PICK s \in bred(c) : t = IF Last(s) = Target THEN s ELSE Append(s, Target)
    <2> HIDE DEF bred
    <2> QED BY <1>1
  <1>3. PICK m \in Places(c), middle \in Middles(c) : s = put(c, m, middle)
    <2> HIDE DEF put, Places, Middles
    <2> QED OBVIOUS
  <1>4. m \in 0..Len(rest(c)) /\ (middle = slice(c) \/ middle = Reverse(slice(c)))
    <2> HIDE DEF rest, slice
    <2> QED OBVIOUS
  <1>5. IsBredOf(a, b, c, rest(c), m, middle, s)
    <2> DEFINE r == rest(c)
    <2>1. r = Without(SubSeq(b, 2, Len(b) - 1), ToSet(SubSeq(a, c[1] + 1, c[2])))
      OBVIOUS
    <2>2. \/ middle = SubSeq(a, c[1] + 1, c[2])
          \/ middle = Reverse(SubSeq(a, c[1] + 1, c[2]))
      BY <1>4
    <2>3. s = <<0>> \o SubSeq(r, 1, m) \o middle \o SubSeq(r, m + 1, Len(r))
      BY <1>3
    <2>4. c \in Slices(2, Len(a) - 1) /\ m \in 0..Len(r)
      BY <1>1, <1>4
    <2> HIDE DEF r, slice, longer, rest, most, Places, Middles, put, bred, all
    <2>5. IsBredOf(a, b, c, r, m, middle, s)
      BY <2>1, <2>2, <2>3, <2>4 DEF IsBredOf
    <2> QED BY <2>5 DEF r
  <1> HIDE DEF rest
  <1> QED BY <1>2, <1>5

\* All of a list, in two parts.
LEMMA TwoParts ==
  ASSUME NEW V, NEW r \in Seq(V), NEW m \in 0..Len(r)
  PROVE  /\ SubSeq(r, 1, m) \in Seq(V) /\ SubSeq(r, m + 1, Len(r)) \in Seq(V)
         /\ ToSet(SubSeq(r, 1, m)) \cup ToSet(SubSeq(r, m + 1, Len(r))) = ToSet(r)
  <1> DEFINE N == Len(r)
             i == m + 1
  <1>1. /\ N \in Nat /\ 1 \in 1..(N + 1) /\ m \in (1 - 1)..N /\ i \in 1..(N + 1) /\ N \in (i - 1)..N
        /\ 1..N = (1..m) \cup (i..N)
    OBVIOUS
  <1>2. ToSet(r) = {r[k] : k \in 1..N}
    BY SetOf
  <1> HIDE DEF i
  <1>3. SubSeq(r, 1, m) \in Seq(V) /\ ToSet(SubSeq(r, 1, m)) = {r[k] : k \in 1..m}
    BY <1>1, PartSet
  <1>4. SubSeq(r, i, N) \in Seq(V) /\ ToSet(SubSeq(r, i, N)) = {r[k] : k \in i..N}
    BY <1>1, PartSet
  <1> HIDE DEF N
  <1>5. ToSet(SubSeq(r, 1, m)) \cup ToSet(SubSeq(r, i, N)) = ToSet(r)
    BY <1>1, <1>2, <1>3, <1>4
  <1> QED BY <1>3, <1>4, <1>5 DEF N, i

\* A crossover keeps all stops and both ends (solve_genetic_algorithm, rtsp/eci_gen.rs:409).
LEMMA BredFacts ==
  ASSUME IsProblem, NEW a, IsWhole(a), NEW b, IsWhole(b), NEW t \in Bred(a, b)
  PROVE  IsWhole(t)
  <1>1. PICK c, rest, m, middle, s :
          /\ IsBredOf(a, b, c, rest, m, middle, s)
          /\ t = IF Last(s) = Target THEN s ELSE Append(s, Target)
    BY BredIsBred
  <1> DEFINE A == Len(a)
             B == Len(b)
             slice == SubSeq(a, c[1] + 1, c[2])
             inner == SubSeq(b, 2, B - 1)
             f == SubSeq(rest, 1, m)
             g == SubSeq(rest, m + 1, Len(rest))
  <1>2. /\ c \in Slices(2, A - 1) /\ rest = Without(inner, ToSet(slice)) /\ m \in 0..Len(rest)
        /\ (middle = slice \/ middle = Reverse(slice))
        /\ s = <<0>> \o f \o middle \o g
    BY <1>1 DEF IsBredOf
  <1>3. /\ A \in Nat /\ A >= 2 /\ a \in Seq(Stops) /\ B \in Nat /\ B >= 2 /\ b \in Seq(Stops)
        /\ b[1] = 0 /\ b[B] = Target /\ ToSet(b) = Stops /\ 0 \in Stops /\ Target \in Stops
    BY WholeFacts, EntryFacts DEF IsWhole
  <1>4. slice \in Seq(Stops)
    <2>1. \A i \in 1..2 : c[i] \in 1..(A - 1)
      BY <1>2 DEF Slices
    <2>2. c[1] <= c[2]
      <3>1. \A i \in 1..(2 - 1) : c[i] <= c[i + 1]
        BY <1>2 DEF Slices
      <3>2. 1 \in 1..(2 - 1) /\ 1 + 1 = 2
        OBVIOUS
      <3> QED BY <3>1, <3>2
    <2>3. c[1] \in 1..(A - 1) /\ c[2] \in 1..(A - 1)
      BY <2>1
    <2> DEFINE i == c[1] + 1
               j == c[2]
    <2>4. i \in 1..(Len(a) + 1) /\ j \in (i - 1)..Len(a)
      BY <1>3, <2>2, <2>3
    <2> HIDE DEF i, j
    <2>5. SubSeq(a, i, j) \in Seq(Stops)
      BY <1>3, <2>4, PartSet
    <2> QED BY <2>5 DEF i, j
  <1>5. inner \in Seq(Stops) /\ ToSet(inner) = {b[k] : k \in 2..(B - 1)}
    <2> DEFINE j == B - 1
    <2>1. 2 \in 1..(Len(b) + 1) /\ j \in (2 - 1)..Len(b)
      BY <1>3
    <2> HIDE DEF j
    <2>2. SubSeq(b, 2, j) \in Seq(Stops) /\ ToSet(SubSeq(b, 2, j)) = {b[k] : k \in 2..j}
      BY <1>3, <2>1, PartSet
    <2> QED BY <2>2 DEF j
  <1> HIDE DEF slice, inner
  <1>6. rest \in Seq(Stops) /\ ToSet(rest) = ToSet(inner) \ ToSet(slice)
    BY <1>2, <1>5, WithoutFacts
  <1>7. f \in Seq(Stops) /\ g \in Seq(Stops) /\ ToSet(f) \cup ToSet(g) = ToSet(rest)
    BY <1>2, <1>6, TwoParts
  <1>8. middle \in Seq(Stops) /\ ToSet(middle) = ToSet(slice) /\ ToSet(slice) \subseteq Stops
    <2>1. Reverse(slice) \in Seq(Stops) /\ ToSet(Reverse(slice)) = ToSet(slice)
      BY <1>4, ReverseFacts
    <2>2. ToSet(slice) \subseteq Stops
      BY <1>4, SetOf
    <2> QED BY <1>2, <1>4, <2>1, <2>2
  <1> HIDE DEF f, g
  <1> DEFINE z == <<0>>
             p == z \o f
             q == p \o middle
  <1>9. z \in Seq(Stops) /\ z # <<>> /\ z[1] = 0 /\ ToSet(z) = {0}
    <2>1. z \in Seq(Stops) /\ Len(z) = 1 /\ z[1] = 0 /\ z # <<>> /\ 1..1 = {1}
      BY <1>3
    <2> HIDE DEF z
    <2>2. ToSet(z) = {z[k] : k \in 1..1}
      BY <2>1, SetOf
    <2> QED BY <2>1, <2>2
  <1>10. s = q \o g
    BY <1>2
  <1> HIDE DEF z
  <1>11. p \in Seq(Stops) /\ p # <<>> /\ p[1] = 0 /\ ToSet(p) = {0} \cup ToSet(f)
    BY <1>7, <1>9, ThenFacts
  <1> HIDE DEF p
  <1>12. q \in Seq(Stops) /\ q # <<>> /\ q[1] = 0 /\ ToSet(q) = ToSet(p) \cup ToSet(middle)
    BY <1>8, <1>11, ThenFacts
  <1> HIDE DEF q
  <1>13. s \in Seq(Stops) /\ s # <<>> /\ s[1] = 0 /\ ToSet(s) = ToSet(q) \cup ToSet(g)
    BY <1>7, <1>10, <1>12, ThenFacts
  <1>14. ToSet(s) = {0} \cup ToSet(inner) \cup ToSet(slice)
    BY <1>6, <1>7, <1>8, <1>11, <1>12, <1>13
  <1>15. Stops = {0} \cup ToSet(inner) \cup {Target}
    <2>1. 1..B = {1} \cup (2..(B - 1)) \cup {B}
      BY <1>3
    <2>2. ToSet(b) = {b[k] : k \in 1..B}
      BY <1>3, SetOf
    <2> QED BY <1>3, <1>5, <2>1, <2>2
  <1>16. CASE Last(s) = Target
    <2>1. t = s
      BY <1>1, <1>16
    <2>2. Target \in ToSet(s)
      <3>1. Len(s) \in 1..Len(s) /\ ToSet(s) = {s[k] : k \in 1..Len(s)}
        BY <1>13, SetOf
      <3> QED BY <1>16, <3>1 DEF Last
    <2>3. ToSet(s) = Stops
      BY <1>8, <1>14, <1>15, <2>2
    <2> QED BY <1>13, <1>16, <2>1, <2>3 DEF IsWhole
  <1>17. CASE Last(s) # Target
    <2>1. t = Append(s, Target)
      BY <1>1, <1>17
    <2>2. /\ t \in Seq(Stops) /\ t # <<>> /\ Last(t) = Target /\ ToSet(t) = ToSet(s) \cup {Target}
      BY <1>3, <1>13, <2>1, AppendFacts
    <2>3. t[1] = 0
      <3>1. 1 \in 1..Len(s)
        BY <1>13
      <3>2. \A k \in 1..Len(s) : t[k] = s[k]
        BY <1>3, <1>13, <2>1, AppendFacts
      <3> QED BY <1>13, <3>1, <3>2
    <2>4. ToSet(t) = Stops
      BY <1>8, <1>14, <1>15, <2>2
    <2> QED BY <2>2, <2>3, <2>4 DEF IsWhole
  <1> QED BY <1>16, <1>17

-----------------------------------------------------------------------------
(* The invariant                                                          *)

\* While stops are inserted: a walk from the source to the target of the cost added up,
\* past all stops but those missing.
Inserting ==
  /\ Leads(Stops, Entry, tour, 0, Target, cost) /\ cost = PathCost(tour)
  /\ ToSet(tour) = Stops \ missing
  /\ chromosomes = <<>> /\ offsprings = <<>> /\ generation = 0
  /\ ~settings.swapping => Moves(tour)

\* A sequence the search may hold: whole, over links, and with shortcuts none that stays.
InHand(s) == IsWhole(s) /\ Finite(s) /\ (settings.shortcut => Moves(s))

\* After it: sequences that are whole, those of the next generation at most a tenth dearer
\* than the cost in hand, which is possible.
Answering ==
  /\ missing = {} /\ BestCost <= cost
  /\ chromosomes \in Seq(Seq(Stops)) /\ offsprings \in Seq(Seq(Stops))
  /\ InHand(tour) /\ \A s \in ToSet(chromosomes) \cup ToSet(offsprings) : InHand(s)
  /\ \A s \in ToSet(offsprings) : 10 * PathCost(s) <= 11 * cost
  /\ (~settings.shortcut \/ chromosomes # <<>>) => 10 * PathCost(tour) <= 11 * cost
  /\ ~settings.genetic => phase = "done"
  /\ ~settings.genetic /\ ~settings.swapping => Moves(tour)
  /\ phase = "breed" => generation # Generation
  /\ phase = "mutate" => generation = 0

\* The inductive invariant.
SolverInv ==
  /\ IsProblem /\ cost \in Nat /\ missing \subseteq Stops /\ generation \in 0..Generation
  /\ phase = "insert" \/ phase = "mutate" \/ phase = "breed" \/ phase = "done"
  /\ phase = "insert" => Inserting
  /\ phase # "insert" => Answering

\* The problem stays, and with it all that is defined by it.
LEMMA ProblemStays ==
  ASSUME matrix' = matrix, settings' = settings
  PROVE  /\ Target' = Target /\ Stops' = Stops /\ Entry' = Entry /\ BestCost' = BestCost
         /\ (IsProblem <=> IsProblem')
  <1>1. Target' = Target
    BY DEF Target
  <1>2. Stops' = Stops
    BY <1>1 DEF Stops
  <1>3. Entry' = Entry
    BY <1>2 DEF Entry
  <1>4. BestCost' = BestCost
    BY <1>1, <1>2 DEF BestCost
  <1>5. IsProblem <=> IsProblem'
    BY DEF IsProblem
  <1> QED BY <1>1, <1>2, <1>3, <1>4, <1>5

\* What a sequence in hand costs.
LEMMA InHandCosts ==
  ASSUME IsProblem, NEW s, IsWhole(s), Finite(s)
  PROVE  /\ Leads(Stops, Entry, s, 0, Target, PathCost(s)) /\ PathCost(s) \in Nat
         /\ BestCost <= PathCost(s)
  <1>1. \A e \in DOMAIN Entry : Entry[e] \in Nat
    BY EntryFacts DEF IsTwoWayLength
  <1>2. s \in Seq(Stops) /\ s # <<>> /\ Head(s) = 0 /\ Last(s) = Target /\ ToSet(s) = Stops
    BY WholeFacts DEF IsWhole
  <1>3. IsWalk(Entry, s)
    BY DEF Finite
  <1>4. Leads(Stops, Entry, s, 0, Target, PathCost(s))
    <2>1. Leads(Stops, Entry, s, Head(s), Last(s), Length(Entry, s))
      BY <1>1, <1>2, <1>3, WalkLeads
    <2> QED BY <1>2, <2>1 DEF PathCost
  <1>5. PathCost(s) \in Nat
    BY <1>1, <1>4, LeadsIsWalk
  <1>6. BestCost <= PathCost(s)
    BY <1>2, <1>4, WholeWalkCosts
  <1> QED BY <1>4, <1>5, <1>6

\* The sequence and the cost a generation leaves.
LEMMA ChampionFacts ==
  ASSUME NEW V, offsprings \in Seq(V), offsprings # <<>>
  PROVE  \E s \in ToSet(offsprings) :
           /\ Champion.tour = s
           /\ Champion.cost = cost \/ Champion.cost = PathCost(s)
  <1> DEFINE D == DOMAIN offsprings
             better == {i \in D : /\ PathCost(offsprings[i]) < cost
                                  /\ \A j \in D : PathCost(offsprings[i]) <= PathCost(offsprings[j])}
             first == CHOOSE i \in better : \A j \in better : i <= j
             i == IF better = {} THEN 1 ELSE first
  <1>1. Champion = [tour |-> offsprings[i],
                    cost |-> IF better = {} THEN cost ELSE PathCost(offsprings[i])]
    BY DEF Champion
  <1>2. D = 1..Len(offsprings) /\ Len(offsprings) \in Nat /\ Len(offsprings) # 0
    OBVIOUS
  <1>3. better # {} => first \in better
    <2> SUFFICES ASSUME better # {} PROVE first \in better
      OBVIOUS
    <2>1. better \in SUBSET Nat
      BY <1>2
    <2> HIDE DEF better
    <2>2. \E h \in better : \A j \in better : h <= j
      BY <2>1, LeastNatural
    <2> QED BY <2>2
  <1>4. better \subseteq D /\ 1 \in D
    BY <1>2
  <1> HIDE DEF better, first
  <1>5. i \in D
    BY <1>3, <1>4
  <1>6. offsprings[i] \in ToSet(offsprings)
    BY <1>5 DEF ToSet
  <1> HIDE DEF i
  <1> QED BY <1>1, <1>6

\* A shortest walk over the matrix to begin with.
LEMMA StartFacts ==
  ASSUME IsProblem, NEW s \in StartTours(matrix)
  PROVE  /\ Leads(Stops, Entry, s, 0, Target, PathCost(s)) /\ PathCost(s) \in Nat
         /\ ToSet(s) \subseteq Stops /\ Moves(s)
  <1> DEFINE n == matrix.size
             w == matrix.weight
             Ways == {q \in {<<0>> \o r \o <<n - 1>> :
                               r \in UNION {SetToSeqs(S) : S \in SUBSET (1..(n - 2))}} : IsWalk(w, q)}
  <1>1. /\ n \in Nat /\ n >= 2 /\ 0 \in Stops /\ Target \in Stops /\ Target = n - 1
        /\ IsTwoWayLength(Entry) /\ IsWeighted(n, w)
    BY EntryFacts DEF Target
  <1>2. s \in Ways
    BY DEF StartTours
  <1>3. PICK S, r : /\ S \in SUBSET (1..(n - 2)) /\ r \in SetToSeqs(S)
                    /\ s = <<0>> \o r \o <<n - 1>>
    BY <1>2
  <1>4. IsWalk(w, s)
    BY <1>2
  <1> HIDE DEF Ways
  <1>5. r \in Seq(Stops)
    <2>1. S \subseteq Stops
      <3>1. 1..(n - 2) \subseteq 0..(n - 1)
        BY <1>1
      <3> QED BY <1>1, <1>3, <3>1 DEF Stops
    <2>2. Cardinality(S) \in Nat
      <3>1. n - 2 \in Int /\ 1 \in Int
        BY <1>1
      <3>2. IsFiniteSet(1..(n - 2))
        BY <3>1, FS_Interval
      <3>3. IsFiniteSet(S)
        BY <1>3, <3>2, FS_Subset
      <3> QED BY <3>3, FS_CardinalityType
    <2>3. r \in [1..Cardinality(S) -> S]
      BY <1>3 DEF SetToSeqs
    <2> QED BY <2>1, <2>2, <2>3
  <1> DEFINE a == <<0>>
             b == <<Target>>
             p == a \o r
  <1>6. a \in Seq(Stops) /\ a # <<>> /\ a[1] = 0 /\ b \in Seq(Stops) /\ b # <<>> /\ Last(b) = Target
    BY <1>1 DEF Last
  <1>7. s = p \o b
    BY <1>1, <1>3
  <1> HIDE DEF a, b
  <1>8. p \in Seq(Stops) /\ p # <<>> /\ p[1] = 0
    BY <1>5, <1>6, ThenFacts
  <1> HIDE DEF p
  <1>9. s \in Seq(Stops) /\ s # <<>> /\ s[1] = 0 /\ Last(s) = Target
    BY <1>6, <1>7, <1>8, ThenFacts
  <1>10. Head(s) = 0
    BY <1>9
  <1>11. Leads(Stops, Entry, s, 0, Target, Length(w, s))
    <2>1. \A e \in DOMAIN w : w[e] \in Nat
      BY <1>1 DEF IsWeighted
    <2>2. Leads(Stops, w, s, Head(s), Last(s), Length(w, s))
      BY <1>4, <1>9, <2>1, WalkLeads
    <2> QED BY <1>9, <1>10, <2>2, MatrixLeads
  <1>12. \A e \in DOMAIN Entry : Entry[e] \in Nat
    BY <1>1 DEF IsTwoWayLength
  <1>13. PathCost(s) = Length(w, s) /\ Length(w, s) \in Nat
    BY <1>11, <1>12, LeadsIsWalk DEF PathCost
  <1>14. Moves(s)
    <2>1. \A e \in DOMAIN w : e[1] # e[2]
      BY DEF IsProblem
    <2>2. \A k \in DOMAIN Legs(s) : Legs(s)[k] \in DOMAIN w
      BY <1>4 DEF IsWalk
    <2> QED BY <2>1, <2>2 DEF Moves
  <1>15. ToSet(s) \subseteq Stops
    BY <1>9, SetOf
  <1> QED BY <1>11, <1>13, <1>14, <1>15

-----------------------------------------------------------------------------
(* Init                                                                   *)

\* Where the solver starts.
LEMMA InitSolver == Init => SolverInv
  <1> SUFFICES ASSUME Init PROVE SolverInv
    OBVIOUS
  <1>1. PICK p \in Problem : matrix = p.matrix /\ settings = p.settings
    BY DEF Init
  <1>2. IsProblem
    BY <1>1, ProblemAssumption DEF IsProblem
  <1>3. /\ tour \in StartTours(matrix) /\ cost = PathCost(tour) /\ missing = Stops \ ToSet(tour)
        /\ phase = "insert" /\ chromosomes = <<>> /\ offsprings = <<>> /\ generation = 0
    BY DEF Init
  <1>4. /\ Leads(Stops, Entry, tour, 0, Target, cost) /\ cost \in Nat
        /\ ToSet(tour) \subseteq Stops /\ Moves(tour)
    BY <1>2, <1>3, StartFacts
  <1>5. ToSet(tour) = Stops \ missing /\ missing \subseteq Stops
    BY <1>3, <1>4
  <1>6. generation \in 0..Generation
    BY <1>3, BoundAssumption
  <1>7. Inserting
    BY <1>3, <1>4, <1>5 DEF Inserting
  <1> QED BY <1>2, <1>3, <1>4, <1>5, <1>6, <1>7 DEF SolverInv

\* An insertion adds what it costs to the length.
LEMMA InsertKeeps ==
  ASSUME SolverInv, NEW i \in BestInsertions, Insert(i)
  PROVE  SolverInv'
  <1>1. /\ phase = "insert" /\ tour' = Inserted(tour, i.at, i.id, i.way) /\ cost' = cost + i.cost
        /\ missing' = missing \ {i.id}
        /\ matrix' = matrix /\ settings' = settings /\ phase' = phase
        /\ chromosomes' = chromosomes /\ offsprings' = offsprings /\ generation' = generation
    BY DEF Insert
  <1>2. IsProblem /\ missing \subseteq Stops /\ generation \in 0..Generation /\ Inserting
    BY <1>1 DEF SolverInv
  <1>3. /\ Leads(Stops, Entry, tour, 0, Target, cost) /\ cost = PathCost(tour)
        /\ ToSet(tour) = Stops \ missing
        /\ chromosomes = <<>> /\ offsprings = <<>> /\ generation = 0
        /\ (~settings.swapping => Moves(tour))
    BY <1>2 DEF Inserting
  <1>4. IsOnTheWay
    BY <1>2, <1>3 DEF IsOnTheWay
  <1>5. /\ i.id \in missing /\ CanInsert(Stops, Entry, tour, i.at, i.id, i.way)
        /\ i.cost = InsertionCost(Entry, tour, i.at, i.id, i.way)
    BY <1>2, <1>4, BestInsertionFacts
  <1>6. IsTwoWayLength(Entry) /\ \A e \in DOMAIN Entry : Entry[e] \in Nat
    BY <1>2, EntryFacts DEF IsTwoWayLength
  <1>7. Leads(Stops, Entry, tour', 0, Target, cost')
    <2>1. Leads(Stops, Entry, Inserted(tour, i.at, i.id, i.way), 0, Target,
                cost + InsertionCost(Entry, tour, i.at, i.id, i.way))
      BY <1>3, <1>5, <1>6, InsertedLeads
    <2> QED BY <1>1, <1>5, <2>1
  <1>8. cost' \in Nat /\ Length(Entry, tour') = cost'
    BY <1>6, <1>7, LeadsIsWalk
  <1>9. ToSet(tour') = Stops \ missing'
    <2>1. ToSet(tour') = ToSet(tour) \cup {i.id}
      BY <1>1, <1>5, InsertedSet
    <2> QED BY <1>1, <1>2, <1>3, <1>5, <2>1
  <1>10. ~settings.swapping => Moves(tour')
    <2> SUFFICES ASSUME ~settings.swapping PROVE Moves(tour')
      OBVIOUS
    <2>1. ~i.way.left /\ ~i.way.right
      BY <1>5 DEF CanInsert, Fits
    <2>2. i.id \notin ToSet(tour)
      BY <1>3, <1>5
    <2> QED BY <1>1, <1>3, <1>5, <2>1, <2>2, InsertedMoves
  <1>11. Target' = Target /\ Stops' = Stops /\ Entry' = Entry /\ IsProblem'
    BY <1>1, <1>2, ProblemStays
  <1>12. PathCost(tour)' = Length(Entry, tour')
    BY <1>11 DEF PathCost
  <1>13. Leads(Stops, Entry, tour, 0, Target, cost)'
    BY <1>7, <1>11
  <1>14. Moves(tour)' <=> Moves(tour')
    BY DEF Moves
  <1>15. Inserting'
    BY <1>1, <1>3, <1>8, <1>9, <1>10, <1>11, <1>12, <1>13, <1>14 DEF Inserting
  <1>16. missing' \subseteq Stops'
    BY <1>1, <1>2, <1>11
  <1> QED BY <1>1, <1>2, <1>8, <1>11, <1>15, <1>16 DEF SolverInv

\* What is whole, costs and moves on does so while the problem stays.
LEMMA InHandStays ==
  ASSUME matrix' = matrix, settings' = settings
  PROVE  /\ \A s : InHand(s)' <=> InHand(s)
         /\ \A s : PathCost(s)' = PathCost(s)
  <1>1. Target' = Target /\ Stops' = Stops /\ Entry' = Entry
    BY ProblemStays
  <1>2. ASSUME NEW s PROVE InHand(s)' <=> InHand(s)
    <2>1. IsWhole(s)' <=> IsWhole(s)
      BY <1>1 DEF IsWhole
    <2>2. Finite(s)' <=> Finite(s)
      BY <1>1 DEF Finite
    <2> QED BY <2>1, <2>2 DEF InHand
  <1>3. ASSUME NEW s PROVE PathCost(s)' = PathCost(s)
    BY <1>1 DEF PathCost
  <1> QED BY <1>2, <1>3

-----------------------------------------------------------------------------
(* The steps after insertion                                              *)

\* What a step must leave.
AnswersNext ==
  /\ matrix' = matrix /\ settings' = settings /\ missing' = {} /\ BestCost <= cost'
  /\ chromosomes' \in Seq(Seq(Stops)) /\ offsprings' \in Seq(Seq(Stops))
  /\ InHand(tour') /\ \A s \in ToSet(chromosomes') \cup ToSet(offsprings') : InHand(s)
  /\ \A s \in ToSet(offsprings') : 10 * PathCost(s) <= 11 * cost'
  /\ (~settings.shortcut \/ chromosomes' # <<>>) => 10 * PathCost(tour') <= 11 * cost'
  /\ ~settings.genetic => phase' = "done"
  /\ ~settings.genetic /\ ~settings.swapping => Moves(tour')
  /\ phase' = "breed" => generation' # Generation
  /\ phase' = "mutate" => generation' = 0

\* It is the invariant of the search.
LEMMA AnswersOn ==
  ASSUME AnswersNext
  PROVE  Answering'
  <1>1. /\ Target' = Target /\ Stops' = Stops /\ Entry' = Entry /\ BestCost' = BestCost
        /\ settings' = settings
    BY ProblemStays DEF AnswersNext
  <1>2. /\ \A s : InHand(s)' <=> InHand(s)
        /\ \A s : PathCost(s)' = PathCost(s)
    BY InHandStays DEF AnswersNext
  <1>3. InHand(tour)'
    <2>1. IsWhole(tour') /\ Finite(tour') /\ (settings.shortcut => Moves(tour'))
      BY DEF AnswersNext, InHand
    <2>2. IsWhole(tour)'
      BY <1>1, <2>1 DEF IsWhole
    <2>3. Finite(tour)'
      BY <1>1, <2>1 DEF Finite
    <2>4. (settings.shortcut => Moves(tour))'
      BY <1>1, <2>1 DEF Moves
    <2> QED BY <2>2, <2>3, <2>4 DEF InHand
  <1>4. \A s \in ToSet(chromosomes') \cup ToSet(offsprings') : InHand(s)'
    BY <1>2 DEF AnswersNext
  <1>5. \A s \in ToSet(offsprings') : 10 * PathCost(s)' <= 11 * cost'
    BY <1>2 DEF AnswersNext
  <1>6. ((~settings.shortcut \/ chromosomes # <<>>) => 10 * PathCost(tour) <= 11 * cost)'
    <2>1. PathCost(tour)' = PathCost(tour')
      BY <1>1 DEF PathCost
    <2> QED BY <1>1, <2>1 DEF AnswersNext
  <1>7. (~settings.genetic /\ ~settings.swapping => Moves(tour))'
    <2>1. ~settings.genetic /\ ~settings.swapping => Moves(tour')
      BY DEF AnswersNext
    <2> QED BY <1>1, <2>1 DEF Moves
  <1>8. /\ missing' = {} /\ BestCost' <= cost'
        /\ chromosomes' \in Seq(Seq(Stops')) /\ offsprings' \in Seq(Seq(Stops'))
        /\ (~settings'.genetic => phase' = "done")
        /\ (phase' = "breed" => generation' # Generation)
        /\ (phase' = "mutate" => generation' = 0)
    BY <1>1 DEF AnswersNext
  <1> QED BY <1>3, <1>4, <1>5, <1>6, <1>7, <1>8 DEF Answering

\* The last insertion leaves a whole sequence, shortened or not.
LEMMA EndInsertionKeeps ==
  ASSUME SolverInv, EndInsertion
  PROVE  SolverInv'
  <1> DEFINE s == Shortcut(tour)
  <1>1. /\ phase = "insert" /\ missing = {} /\ tour' = s
        /\ phase' = (IF settings.genetic THEN "mutate" ELSE "done")
        /\ matrix' = matrix /\ settings' = settings /\ cost' = cost /\ missing' = missing
        /\ chromosomes' = chromosomes /\ offsprings' = offsprings /\ generation' = generation
    BY DEF EndInsertion
  <1>2. IsProblem /\ cost \in Nat /\ generation \in 0..Generation /\ Inserting
    BY <1>1 DEF SolverInv
  <1>3. /\ Leads(Stops, Entry, tour, 0, Target, cost) /\ cost = PathCost(tour)
        /\ ToSet(tour) = Stops
        /\ chromosomes = <<>> /\ offsprings = <<>> /\ generation = 0
        /\ (~settings.swapping => Moves(tour))
    BY <1>1, <1>2 DEF Inserting
  <1>4. IsWhole(tour) /\ Finite(tour)
    <2>1. /\ tour \in Seq(Stops) /\ tour # <<>> /\ tour[1] = 0 /\ tour[Len(tour)] = Target
      BY <1>3 DEF Leads
    <2>2. IsWalk(Entry, tour)
      <3>1. \A e \in DOMAIN Entry : Entry[e] \in Nat
        BY <1>2, EntryFacts DEF IsTwoWayLength
      <3> QED BY <1>3, <3>1, LeadsIsWalk
    <2> QED BY <1>3, <2>1, <2>2 DEF IsWhole, Finite, Last
  <1>5. /\ IsWhole(s) /\ Finite(s) /\ (settings.shortcut => Moves(s))
        /\ (~settings.shortcut => s = tour)
    BY <1>2, <1>4, ShortcutFacts
  <1>6. BestCost <= cost
    BY <1>2, <1>3, <1>4, InHandCosts
  <1>7. ToSet(<<>>) = {} /\ <<>> \in Seq(Seq(Stops))
    BY DEF ToSet
  <1>8. InHand(s)
    BY <1>5 DEF InHand
  <1>9. ~settings.shortcut => 10 * PathCost(s) <= 11 * cost
    <2> SUFFICES ASSUME ~settings.shortcut PROVE 10 * PathCost(s) <= 11 * cost
      OBVIOUS
    <2>1. PathCost(s) = cost
      BY <1>3, <1>5
    <2> HIDE DEF s
    <2> QED BY <1>2, <2>1
  <1>10. ~settings.swapping => Moves(s)
    BY <1>3, <1>5
  <1> HIDE DEF s
  <1>11. AnswersNext
    BY <1>1, <1>3, <1>6, <1>7, <1>8, <1>9, <1>10 DEF AnswersNext
  <1>12. Answering'
    BY <1>11, AnswersOn
  <1>13. IsProblem'
    BY <1>1, <1>2, ProblemStays
  <1> QED BY <1>1, <1>2, <1>12, <1>13 DEF SolverInv

\* A new sequence that is kept.
LEMMA KeptKeeps ==
  ASSUME SolverInv, phase = "mutate" \/ phase = "breed", NEW s, IsWhole(s), Kept(Shortcut(s)),
         offsprings' = Append(offsprings, Shortcut(s)),
         UNCHANGED <<matrix, settings, phase, tour, cost, missing, chromosomes, generation>>
  PROVE  SolverInv'
  <1> DEFINE r == Shortcut(s)
  <1>1. /\ matrix' = matrix /\ settings' = settings /\ phase' = phase /\ tour' = tour
             /\ cost' = cost
        /\ missing' = missing /\ chromosomes' = chromosomes /\ generation' = generation
        /\ phase # "insert" /\ offsprings' = Append(offsprings, r)
    OBVIOUS
  <1>2. IsProblem /\ cost \in Nat /\ generation \in 0..Generation /\ Answering
        /\ missing \subseteq Stops
    BY <1>1 DEF SolverInv
  <1>3. InHand(r) /\ 10 * PathCost(r) <= 11 * cost /\ r \in Seq(Stops)
    <2>1. IsWhole(r) /\ (settings.shortcut => Moves(r))
      BY <1>2, ShortcutFacts
    <2>2. Finite(r) /\ 10 * PathCost(r) <= 11 * cost
      BY DEF Kept
    <2> HIDE DEF r
    <2> QED BY <2>1, <2>2 DEF InHand, IsWhole
  <1> HIDE DEF r
  <1>4. offsprings \in Seq(Seq(Stops))
    BY <1>2 DEF Answering
  <1>5. offsprings' \in Seq(Seq(Stops)) /\ ToSet(offsprings') = ToSet(offsprings) \cup {r}
    BY <1>1, <1>3, <1>4, AppendFacts
  <1>6. AnswersNext
    BY <1>1, <1>2, <1>3, <1>5 DEF Answering, AnswersNext
  <1>7. Answering'
    BY <1>6, AnswersOn
  <1>8. IsProblem' /\ Stops' = Stops
    BY <1>1, <1>2, ProblemStays
  <1> QED BY <1>1, <1>2, <1>7, <1>8 DEF SolverInv

\* The next generation.
LEMMA EndGenerationKeeps ==
  ASSUME SolverInv, EndGeneration
  PROVE  SolverInv'
  <1>1. /\ phase = "mutate" \/ phase = "breed"
        /\ chromosomes' = offsprings /\ offsprings' = <<>>
        /\ generation' = (IF phase = "breed" THEN generation + 1 ELSE generation)
        /\ phase' = (IF SearchEnds(generation') THEN "done" ELSE "breed")
        /\ matrix' = matrix /\ settings' = settings /\ missing' = missing /\ phase # "insert"
    BY DEF EndGeneration
  <1>2. /\ offsprings = <<>> => tour' = tour /\ cost' = cost
        /\ offsprings # <<>> => tour' = Champion.tour /\ cost' = Champion.cost
    BY DEF EndGeneration
  <1>3. IsProblem /\ cost \in Nat /\ generation \in 0..Generation /\ Answering
        /\ missing \subseteq Stops
    BY <1>1 DEF SolverInv
  <1>4. /\ missing = {} /\ BestCost <= cost
        /\ chromosomes \in Seq(Seq(Stops)) /\ offsprings \in Seq(Seq(Stops))
        /\ InHand(tour) /\ \A s \in ToSet(offsprings) : InHand(s) /\ 10 * PathCost(s) <= 11 * cost
        /\ ((~settings.shortcut \/ chromosomes # <<>>) => 10 * PathCost(tour) <= 11 * cost)
        /\ settings.genetic /\ (phase = "breed" => generation # Generation)
        /\ (phase = "mutate" => generation = 0)
    BY <1>1, <1>3 DEF Answering
  <1>5. /\ InHand(tour') /\ cost' \in Nat /\ BestCost <= cost'
        /\ ((~settings.shortcut \/ chromosomes' # <<>>) => 10 * PathCost(tour') <= 11 * cost')
    <2>1. CASE offsprings = <<>>
      BY <1>1, <1>2, <1>3, <1>4, <2>1
    <2>2. CASE offsprings # <<>>
      <3>1. PICK s \in ToSet(offsprings) :
              Champion.tour = s /\ (Champion.cost = cost \/ Champion.cost = PathCost(s))
        BY <1>4, <2>2, ChampionFacts
      <3>2. InHand(s) /\ 10 * PathCost(s) <= 11 * cost
        BY <1>4
      <3>3. PathCost(s) \in Nat /\ BestCost <= PathCost(s)
        BY <1>3, <3>2, InHandCosts DEF InHand
      <3>4. 10 * PathCost(s) <= 11 * PathCost(s)
        BY <3>3
      <3> QED BY <1>2, <1>3, <1>4, <2>2, <3>1, <3>2, <3>3, <3>4
    <2> QED BY <2>1, <2>2
  <1>6. generation' \in 0..Generation /\ (phase' = "breed" => generation' # Generation)
    <2>1. Generation \in Nat
      BY BoundAssumption
    <2>2. generation' \in 0..Generation
      BY <1>1, <1>3, <1>4, <2>1
    <2> QED BY <1>1, <2>2 DEF SearchEnds
  <1>7. ToSet(<<>>) = {} /\ <<>> \in Seq(Seq(Stops))
    BY DEF ToSet
  <1>8. phase' = "done" \/ phase' = "breed"
    BY <1>1
  <1>9. AnswersNext
    BY <1>1, <1>4, <1>5, <1>6, <1>7, <1>8 DEF AnswersNext
  <1>10. Answering'
    BY <1>9, AnswersOn
  <1>11. IsProblem' /\ Stops' = Stops
    BY <1>1, <1>3, ProblemStays
  <1> QED BY <1>1, <1>3, <1>5, <1>6, <1>8, <1>10, <1>11 DEF SolverInv

-----------------------------------------------------------------------------
(* Next                                                                   *)

\* Nothing happens.
LEMMA StutterKeeps ==
  ASSUME SolverInv, UNCHANGED vars
  PROVE  SolverInv'
  <1>1. /\ matrix' = matrix /\ settings' = settings /\ phase' = phase /\ tour' = tour
             /\ cost' = cost
        /\ missing' = missing /\ chromosomes' = chromosomes /\ offsprings' = offsprings
        /\ generation' = generation
    BY DEF vars
  <1>2. Target' = Target /\ Stops' = Stops /\ Entry' = Entry /\ BestCost' = BestCost
    BY <1>1, ProblemStays
  <1>3. IsProblem'
    BY <1>1, ProblemStays DEF SolverInv
  <1>4. phase = "insert" => Inserting'
    <2> SUFFICES ASSUME phase = "insert" PROVE Inserting'
      OBVIOUS
    <2>1. Inserting
      BY DEF SolverInv
    <2>2. PathCost(tour)' = PathCost(tour) /\ Moves(tour)' = Moves(tour)
      BY <1>1, <1>2 DEF PathCost, Moves
    <2> QED BY <1>1, <1>2, <2>1, <2>2 DEF Inserting
  <1>5. phase # "insert" => Answering'
    <2> SUFFICES ASSUME phase # "insert" PROVE Answering'
      OBVIOUS
    <2>1. Answering
      BY DEF SolverInv
    <2>2. AnswersNext
      BY <1>1, <2>1 DEF Answering, AnswersNext
    <2> QED BY <2>2, AnswersOn
  <1> QED BY <1>1, <1>2, <1>3, <1>4, <1>5 DEF SolverInv

\* Every step keeps the invariant.
LEMMA NextSolver ==
  ASSUME SolverInv, [Next]_vars
  PROVE  SolverInv'
  <1>1. CASE \E i \in BestInsertions : Insert(i)
    BY <1>1, InsertKeeps
  <1>2. CASE EndInsertion
    BY <1>2, EndInsertionKeeps
  <1>3. CASE phase = "mutate" /\ \E s \in Mutants(tour) : Mutate(s)
    <2>1. PICK s \in Mutants(tour) : Mutate(s)
      BY <1>3
    <2>2. IsProblem /\ IsWhole(tour)
      BY <1>3 DEF SolverInv, Answering, InHand
    <2>3. IsWhole(s)
      BY <2>2, MutantsFacts
    <2> QED BY <1>3, <2>1, <2>3, KeptKeeps DEF Mutate
  <1>4. CASE phase = "breed" /\ \E a, b \in ToSet(chromosomes) : \E s \in Bred(a, b) : Breed(s)
    <2>1. PICK a \in ToSet(chromosomes), b \in ToSet(chromosomes) : \E s \in Bred(a, b) : Breed(s)
      BY <1>4
    <2>2. PICK s \in Bred(a, b) : Breed(s)
      BY <2>1
    <2>3. IsProblem /\ IsWhole(a) /\ IsWhole(b)
      BY <1>4, <2>1 DEF SolverInv, Answering, InHand
    <2>4. IsWhole(s)
      BY <2>2, <2>3, BredFacts
    <2> QED BY <1>4, <2>2, <2>4, KeptKeeps DEF Breed
  <1>5. CASE EndGeneration
    BY <1>5, EndGenerationKeeps
  <1>6. CASE UNCHANGED vars
    BY <1>6, StutterKeeps
  <1> QED BY <1>1, <1>2, <1>3, <1>4, <1>5, <1>6 DEF Next

\* Whatever the matrix, the settings and the bounds, the solver keeps its invariant.
THEOREM SolverKeepsTours == Spec => []SolverInv
  <1>1. SolverInv /\ [Next]_vars => SolverInv'
    BY NextSolver
  <1> QED BY InitSolver, <1>1, PTL DEF Spec

-----------------------------------------------------------------------------
(* What it says of the answer                                               *)

\* Insertions, swaps, shortcuts, mutations and crossovers lose no destination, change
\* neither end and use no link that does not exist.
THEOREM SequencesAreTours == Spec => []TourComplete
  <1>1. SolverInv => TourComplete
    <2> SUFFICES ASSUME SolverInv PROVE TourComplete
      OBVIOUS
    <2>1. IsProblem /\ cost \in Nat /\ missing \subseteq Stops /\ generation \in 0..Generation
      BY DEF SolverInv
    <2>2. CASE phase = "insert"
      <3>1. /\ Leads(Stops, Entry, tour, 0, Target, cost) /\ ToSet(tour) = Stops \ missing
            /\ chromosomes = <<>> /\ offsprings = <<>>
        BY <2>2 DEF SolverInv, Inserting
      <3>2. Head(tour) = 0 /\ Last(tour) = Target /\ IsWalk(Entry, tour)
        <4>1. \A e \in DOMAIN Entry : Entry[e] \in Nat
          BY <2>1, EntryFacts DEF IsTwoWayLength
        <4> QED BY <3>1, <4>1, LeadsIsWalk
      <3>3. ToSet(<<>>) = {}
        BY DEF ToSet
      <3> QED BY <2>1, <3>1, <3>2, <3>3 DEF TourComplete, Finite
    <2>3. CASE phase # "insert"
      <3>1. /\ missing = {} /\ InHand(tour)
            /\ \A s \in ToSet(chromosomes) \cup ToSet(offsprings) : InHand(s)
        BY <2>3 DEF SolverInv, Answering
      <3>2. ASSUME NEW s, InHand(s)
            PROVE  Head(s) = 0 /\ Last(s) = Target /\ Finite(s) /\ ToSet(s) = Stops \ missing
        BY <2>1, <3>1, <3>2, WholeFacts DEF InHand, IsWhole
      <3> QED BY <2>1, <3>1, <3>2 DEF TourComplete
    <2> QED BY <2>2, <2>3
  <1> QED BY SolverKeepsTours, <1>1, PTL

\* The cost added up from the differences of the insertions, whatever they exchange, is
\* the length of the sequence they made.
THEOREM InsertionsAddUp == Spec => []InsertionCostIsLength
  <1>1. SolverInv => InsertionCostIsLength
    BY DEF SolverInv, Inserting, InsertionCostIsLength
  <1> QED BY SolverKeepsTours, <1>1, PTL

\* No tour past all destinations is shorter than the cost answered is: it is one that can
\* be had.
THEOREM CostCanBeHad == Spec => []CostIsPossible
  <1>1. SolverInv => CostIsPossible
    <2> SUFFICES ASSUME SolverInv, phase # "insert"
                 PROVE  cost >= BestTour(Distances(matrix.size, matrix.weight), 0,
                                         Stops \ {0, Target}, Target)
      BY DEF CostIsPossible
    <2>1. BestCost <= cost
      BY DEF SolverInv, Answering
    <2> DEFINE c == BestTour(Distances(matrix.size, matrix.weight), 0, Stops \ {0, Target}, Target)
    <2>2. c <= cost
      BY <2>1 DEF BestCost
    <2> HIDE DEF c
    <2>3. cost >= c
      BY <2>2
    <2> QED BY <2>3 DEF c
  <1> QED BY SolverKeepsTours, <1>1, PTL

\* The sequence answered is at most a tenth dearer than the cost answered, as long as no
\* shortcut was left without a generation after it.
THEOREM AnswersWithinTenth == Spec => []AnswerWithinTenth
  <1>1. SolverInv => AnswerWithinTenth
    BY DEF SolverInv, Answering, AnswerWithinTenth
  <1> QED BY SolverKeepsTours, <1>1, PTL

\* With shortcuts, or without swaps and mutations, no leg of the answer stays where it is.
THEOREM AnswersMove == Spec => []AnswerMoves
  <1>1. SolverInv => AnswerMoves
    <2> SUFFICES ASSUME SolverInv, phase = "done",
                        settings.shortcut \/ ~(settings.swapping \/ settings.genetic)
                 PROVE  Moves(tour)
      BY DEF AnswerMoves, Moves
    <2> QED BY DEF SolverInv, Answering, InHand
  <1> QED BY SolverKeepsTours, <1>1, PTL

-----------------------------------------------------------------------------
(* The brute-force solver                                                 *)

\* l leads from a to b over the matrix, never shorter than the way there is, nor longer if
\* no entry is.
IsLegTo(a, b, l) ==
  LET d == Distances(matrix.size, matrix.weight)
  IN  /\ Leads(Stops, matrix.weight, l.path, a, b, l.cost) /\ l.cost \in Nat
      /\ d[<<a, b>>] <= l.cost
      /\ (\A e \in DOMAIN matrix.weight : matrix.weight[e] = d[e]) => l.cost = d[<<a, b>>]

\* The completed matrix has such legs between all stops (rtsp/greedy.rs:118).
LEMMA CompletedFacts ==
  ASSUME IsProblem
  PROVE  /\ DOMAIN Completed(matrix) = {e \in Stops \X Stops : e[1] # e[2]}
         /\ \A a, b \in Stops : a # b =>
              <<a, b>> \in DOMAIN Completed(matrix) /\ IsLegTo(a, b, Completed(matrix)[<<a, b>>])
  <1> DEFINE n == matrix.size
             w == matrix.weight
             d == Distances(n, w)
             leg == Completed(matrix)
             E == {e \in Stops \X Stops : e[1] # e[2]}
  <1>1. /\ n \in Nat /\ Stops = Vertices(n) /\ IsWeighted(n, w)
        /\ \A e \in DOMAIN w : w[e] \in Nat
    BY EntryFacts DEF IsWeighted
  <1>2. d \in [Cells(n) -> Nat] /\ (\A e \in DOMAIN d : d[e] < Far)
        /\ \A e \in DOMAIN w : d[e] <= w[e]
    BY <1>1, DistancesShortest DEF AreShortest, IsProblem
  <1>3. DOMAIN leg = E /\ \A e \in E : leg[e] = IF e \in DOMAIN w THEN [cost |-> w[e], path |-> e]
                                                ELSE DijkstraPath(n, w, e[1], e[2])
    BY DEF Completed, Stops, Target
  <1> HIDE DEF leg, E
  <1>4. ASSUME NEW a \in Stops, NEW b \in Stops, a # b
        PROVE  <<a, b>> \in E /\ IsLegTo(a, b, leg[<<a, b>>])
    <2> DEFINE p == <<a, b>>
               l == leg[p]
               Tight == \A e \in DOMAIN w : w[e] = d[e]
    <2>1. p \in E
      BY <1>4 DEF E
    <2>2. d[p] \in Nat /\ d[p] < Far
      <3>1. p \in Cells(n)
        BY <1>1 DEF Cells
      <3> HIDE DEF d, p
      <3> QED BY <1>2, <3>1
    <2>3. CASE p \in DOMAIN w
      <3>1. l = [cost |-> w[p], path |-> p]
        BY <1>3, <2>1, <2>3
      <3>2. l.cost = w[p] /\ l.path = <<a, b>>
        BY <3>1
      <3>3. w[p] \in Nat /\ d[p] <= w[p] /\ (Tight => w[p] = d[p])
        BY <1>1, <1>2, <2>3
      <3>4. Leads(Stops, w, <<a, b>>, a, b, w[p])
        BY <2>3, <3>3, ShortLeads
      <3> HIDE DEF l
      <3>5. IsLegTo(a, b, l)
        BY <3>2, <3>3, <3>4 DEF IsLegTo
      <3> QED BY <2>1, <3>5 DEF l
    <2>4. CASE p \notin DOMAIN w
      <3>1. l = DijkstraPath(n, w, a, b)
        BY <1>3, <2>1, <2>4
      <3>2. a \in Vertices(n) /\ b \in Vertices(n)
        BY <1>1
      <3> HIDE DEF l
      <3>3. l # NoPath /\ IsShortestWay(Vertices(n), w, a, b, l) /\ l.cost = d[p]
        <4> HIDE DEF n, w
        <4> QED BY <1>1, <2>2, <3>1, <3>2, DijkstraIsShortest DEF d
      <3>4. Leads(Stops, w, l.path, a, b, l.cost)
        BY <1>1, <3>3 DEF IsShortestWay
      <3>5. IsLegTo(a, b, l)
        BY <2>2, <3>3, <3>4 DEF IsLegTo
      <3> QED BY <2>1, <3>5 DEF l
    <2> QED BY <2>3, <2>4
  <1> QED BY <1>3, <1>4 DEF leg, E

\* What the completed legs cost.
CompletedCost == [e \in DOMAIN Completed(matrix) |-> Completed(matrix)[e].cost]

\* They are never cheaper than the way there is.
LEMMA CompletedCostFacts ==
  ASSUME IsProblem
  PROVE  /\ \A e \in DOMAIN CompletedCost : CompletedCost[e] \in Nat
         /\ NoneShorter(CompletedCost)
  <1> DEFINE leg == Completed(matrix)
             u == CompletedCost
             d == Distances(matrix.size, matrix.weight)
  <1>1. /\ DOMAIN leg = {e \in Stops \X Stops : e[1] # e[2]}
        /\ \A a, b \in Stops : a # b => <<a, b>> \in DOMAIN leg /\ IsLegTo(a, b, leg[<<a, b>>])
    BY CompletedFacts
  <1>2. DOMAIN u = DOMAIN leg /\ \A e \in DOMAIN leg : u[e] = leg[e].cost
    BY DEF CompletedCost
  <1> HIDE DEF u, leg, d
  <1>3. ASSUME NEW a \in Stops, NEW b \in Stops, a # b
        PROVE  u[<<a, b>>] \in Nat /\ d[<<a, b>>] <= u[<<a, b>>]
    BY <1>1, <1>2, <1>3 DEF IsLegTo, d
  <1>4. ASSUME NEW e \in DOMAIN u PROVE u[e] \in Nat
    <2>1. PICK a, b \in Stops : e = <<a, b>> /\ a # b
      BY <1>1, <1>2
    <2> QED BY <1>3, <2>1
  <1>5. ASSUME NEW a \in Stops, NEW b \in Stops, <<a, b>> \in DOMAIN u
        PROVE  a # b
    BY <1>1, <1>2, <1>5
  <1> QED BY <1>3, <1>4, <1>5 DEF NoneShorter, u, d

\* An option of the brute force: the source, the objectives in some order, the target.
IsOption(s, o) ==
  s \in SetToSeqs(1..(matrix.size - 2)) /\ o = <<0>> \o s \o <<matrix.size - 1>>

\* It passes every stop and goes on with each leg.
LEMMA OptionFacts ==
  ASSUME IsProblem, NEW s, NEW o, IsOption(s, o)
  PROVE  /\ o \in Seq(Stops) /\ Len(o) = matrix.size /\ o[1] = 0 /\ o[Len(o)] = Target
         /\ ToSet(o) = Stops
         /\ \A k \in 1..(Len(o) - 1) : o[k] # o[k + 1]
         /\ \A k \in 1..(matrix.size - 2) : o[k + 1] = s[k]
  <1> DEFINE n == matrix.size
             m == n - 2
             I == 1..m
             a == <<0>>
             z == <<n - 1>>
             p == a \o s
  <1>1. /\ n \in Nat /\ n >= 2 /\ m \in Nat /\ m + 2 = n /\ Stops = 0..(n - 1)
        /\ Target = n - 1 /\ 0 \in Stops /\ n - 1 \in Stops /\ I \in SUBSET Stops
    <2>1. n \in Nat /\ n >= 2 /\ Stops = 0..(n - 1) /\ Target = n - 1
      BY EntryFacts DEF Stops, Target
    <2>2. \A i \in I : i \in 0..(n - 1)
      BY <2>1
    <2> QED BY <2>1, <2>2
  <1>2. IsFiniteSet(I) /\ Cardinality(I) = m
    <2>0. m \in Int /\ m \in Nat /\ 1 \in Int
      BY <1>1
    <2> HIDE DEF m
    <2>1. IsFiniteSet(1..m) /\ Cardinality(1..m) = IF 1 > m THEN 0 ELSE m - 1 + 1
      BY <2>0, FS_Interval
    <2> QED BY <2>0, <2>1
  <1>3. o = p \o z /\ s \in SetToSeqs(I)
    BY DEF IsOption
  <1> HIDE DEF n, m
  <1>4. /\ s \in Seq(I) /\ Len(s) = m /\ ToSet(s) = I
        /\ \A i, j \in 1..m : s[i] = s[j] => i = j
    <2> HIDE DEF I
    <2>1. s \in Seq(I) /\ Len(s) = m /\ ToSet(s) = I
          /\ \A i, j \in 1..Len(s) : s[i] = s[j] => i = j
      BY <1>2, <1>3, ListingFacts
    <2> QED BY <2>1
  <1>5. \A k \in 1..m : s[k] \in 1..m
    <2> DEFINE J == 1..m
    <2>1. s \in Seq(J) /\ Len(s) = m
      BY <1>4
    <2> HIDE DEF J
    <2>2. \A k \in 1..m : s[k] \in J
      BY <2>1
    <2> QED BY <2>2 DEF J
  <1>6. /\ s \in Seq(Stops) /\ a \in Seq(Stops) /\ z \in Seq(Stops)
        /\ Len(a) = 1 /\ a[1] = 0 /\ Len(z) = 1 /\ z[1] = n - 1
        /\ ToSet(a) = {0} /\ ToSet(z) = {n - 1}
    <2>1. s \in Seq(Stops)
      <3>1. I \in SUBSET Stops
        BY <1>1
      <3>2. s \in Seq(I)
        BY <1>4
      <3> HIDE DEF I
      <3> QED BY <3>1, <3>2
    <2>2. ToSet(a) = {0} /\ ToSet(z) = {n - 1}
      BY DEF ToSet
    <2> QED BY <1>1, <2>1, <2>2
  <1> HIDE DEF a, z, I
  <1>7. /\ p \in Seq(Stops) /\ Len(p) = 1 + m /\ ToSet(p) = {0} \cup I
        /\ p[1] = 0 /\ \A k \in 1..m : p[1 + k] = s[k]
    <2>1. /\ p \in Seq(Stops) /\ Len(p) = Len(a) + Len(s)
          /\ \A k \in 1..(Len(a) + Len(s)) :
               p[k] = IF k <= Len(a) THEN a[k] ELSE s[k - Len(a)]
      BY <1>6, ListsJoined
    <2>2. ToSet(p) = ToSet(a) \cup ToSet(s)
      BY <1>6, ThenFacts
    <2> HIDE DEF p
    <2>3. p[1] = 0
      <3>1. 1 \in 1..(1 + m)
        BY <1>1
      <3> QED BY <1>4, <1>6, <2>1, <3>1
    <2>4. ASSUME NEW k \in 1..m PROVE p[1 + k] = s[k]
      <3>1. 1 + k \in 1..(1 + m) /\ ~(1 + k <= 1) /\ (1 + k) - 1 = k
        BY <1>1
      <3> QED BY <1>4, <1>6, <2>1, <3>1
    <2> QED BY <1>4, <1>6, <2>1, <2>2, <2>3, <2>4
  <1> HIDE DEF p
  <1>8. /\ o \in Seq(Stops) /\ Len(o) = n /\ ToSet(o) = ({0} \cup I) \cup {n - 1}
        /\ \A k \in 1..(1 + m) : o[k] = p[k]
        /\ o[n] = n - 1
    <2> DEFINE M == 1 + m
    <2>0. M \in Nat /\ M + 1 = n
      BY <1>1
    <2> HIDE DEF M
    <2>1. /\ o \in Seq(Stops) /\ Len(o) = M + 1
          /\ \A k \in 1..(M + 1) : o[k] = IF k <= M THEN p[k] ELSE z[k - M]
      <3>1. /\ o \in Seq(Stops) /\ Len(o) = Len(p) + Len(z)
            /\ \A k \in 1..(Len(p) + Len(z)) :
                 o[k] = IF k <= Len(p) THEN p[k] ELSE z[k - Len(p)]
        <4>1. p \in Seq(Stops) /\ z \in Seq(Stops)
          BY <1>6, <1>7
        <4> DEFINE q == p \o z
        <4>2. /\ q \in Seq(Stops) /\ Len(q) = Len(p) + Len(z)
              /\ \A k \in 1..(Len(p) + Len(z)) :
                   q[k] = IF k <= Len(p) THEN p[k] ELSE z[k - Len(p)]
          BY <4>1, ListsJoined
        <4>3. o = q
          BY <1>3
        <4> HIDE DEF q
        <4> QED BY <4>2, <4>3
      <3> QED BY <1>6, <1>7, <3>1 DEF M
    <2>2. ToSet(o) = ToSet(p) \cup ToSet(z)
      BY <1>3, <1>6, <1>7, ThenFacts
    <2>3. \A k \in 1..M : o[k] = p[k]
      BY <2>0, <2>1
    <2>4. o[M + 1] = z[1]
      BY <2>0, <2>1
    <2> QED BY <1>6, <1>7, <2>0, <2>1, <2>2, <2>3, <2>4 DEF M
  <1>9. o[1] = 0 /\ \A k \in 1..m : o[k + 1] = s[k]
    <2>1. 1 \in 1..(1 + m) /\ \A k \in 1..m : 1 + k \in 1..(1 + m) /\ 1 + k = k + 1
      BY <1>1
    <2> QED BY <1>7, <1>8, <2>1
  <1>10. ToSet(o) = Stops
    <2>1. \A i \in Stops : i = 0 \/ i \in I \/ i = n - 1
      BY <1>1 DEF I
    <2> QED BY <1>1, <1>8, <2>1
  <1>11. ASSUME NEW k \in 1..(n - 1) PROVE o[k] # o[k + 1]
    <2>1. CASE k = 1 /\ m = 0
      BY <1>1, <1>8, <1>9, <2>1
    <2>2. CASE k = 1 /\ m # 0
      <3>1. 1 \in 1..m
        BY <1>1, <2>2
      <3>2. o[2] = s[1] /\ s[1] \in 1..m
        BY <1>5, <1>9, <3>1
      <3> QED BY <1>9, <2>2, <3>2
    <2>3. CASE k # 1 /\ k # n - 1
      <3>1. k - 1 \in 1..m /\ k \in 1..m /\ (k - 1) + 1 = k
        BY <1>1, <2>3
      <3>2. o[k] = s[k - 1] /\ o[k + 1] = s[k]
        <4>1. o[(k - 1) + 1] = s[k - 1]
          BY <1>9, <3>1
        <4> QED BY <1>9, <3>1, <4>1
      <3>3. s[k - 1] # s[k]
        <4>1. k - 1 # k
          BY <3>1
        <4> QED BY <1>4, <3>1, <4>1
      <3> QED BY <3>2, <3>3
    <2>4. CASE k # 1 /\ k = n - 1
      <3>1. k - 1 \in 1..m /\ (k - 1) + 1 = k /\ k + 1 = n
        BY <1>1, <2>4
      <3>2. o[k] = s[k - 1] /\ s[k - 1] \in 1..m
        <4>1. o[(k - 1) + 1] = s[k - 1]
          BY <1>9, <3>1
        <4> QED BY <1>5, <3>1, <4>1
      <3>3. o[k + 1] = n - 1
        BY <1>8, <3>1
      <3>4. n - 1 \notin 1..m
        BY <1>1
      <3> QED BY <3>2, <3>3, <3>4
    <2> QED BY <1>1, <2>1, <2>2, <2>3, <2>4
  <1> QED BY <1>1, <1>8, <1>9, <1>10, <1>11 DEF n, m

\* Its price is the length of a walk over completed legs, and no less than the reference.
LEMMA OptionLeads ==
  ASSUME IsProblem, NEW s, NEW o, IsOption(s, o)
  PROVE  /\ IsWalk(CompletedCost, o)
         /\ Leads(Stops, CompletedCost, o, 0, Target, Length(CompletedCost, o))
         /\ Length(CompletedCost, o) \in Nat /\ BestCost <= Length(CompletedCost, o)
  <1> DEFINE u == CompletedCost
  <1>1. /\ o \in Seq(Stops) /\ Len(o) \in Nat /\ Len(o) >= 2 /\ o[1] = 0 /\ o[Len(o)] = Target
        /\ ToSet(o) = Stops
        /\ \A k \in 1..(Len(o) - 1) : o[k] # o[k + 1]
    BY OptionFacts, EntryFacts
  <1>2. (\A e \in DOMAIN u : u[e] \in Nat) /\ NoneShorter(u)
    BY CompletedCostFacts
  <1>3. DOMAIN u = {e \in Stops \X Stops : e[1] # e[2]}
    BY CompletedFacts DEF CompletedCost
  <1> HIDE DEF u
  <1>4. IsWalk(u, o)
    <2>1. ASSUME NEW k \in 1..(Len(o) - 1) PROVE <<o[k], o[k + 1]>> \in DOMAIN u
      <3>1. k \in 1..Len(o) /\ k + 1 \in 1..Len(o)
        BY <1>1
      <3>2. o[k] \in Stops /\ o[k + 1] \in Stops /\ o[k] # o[k + 1]
        BY <1>1, <3>1
      <3> QED BY <1>3, <3>2
    <2>2. DOMAIN Legs(o) = 1..(Len(o) - 1)
          /\ \A k \in 1..(Len(o) - 1) : Legs(o)[k] = <<o[k], o[k + 1]>>
      BY DEF Legs
    <2> QED BY <2>1, <2>2 DEF IsWalk
  <1>5. Leads(Stops, u, o, 0, Target, Length(u, o))
    <2>1. o # <<>> /\ Head(o) = 0 /\ Last(o) = Target
      BY <1>1 DEF Last
    <2>2. Leads(Stops, u, o, Head(o), Last(o), Length(u, o))
      BY <1>1, <1>2, <1>4, <2>1, WalkLeads
    <2> QED BY <2>1, <2>2
  <1>6. Length(u, o) \in Nat
    BY <1>2, <1>5, LeadsIsWalk
  <1>7. BestCost <= Length(u, o)
    BY <1>1, <1>2, <1>5, WalkPastAllCosts
  <1> QED BY <1>4, <1>5, <1>6, <1>7 DEF u

\* The legs' paths joined along o, as the brute force does from the last to the first.
Joined(o) ==
  FoldRight(LAMBDA e, out : Front(Completed(matrix)[e].path) \o out, Legs(o),
            <<matrix.size - 1>>)

\* The list as it grows, from each of the stops on.
IsJoining(g, o) ==
  /\ g[Len(o)] = <<matrix.size - 1>>
  /\ \A k \in 1..(Len(o) - 1) :
       g[k] = Front(Completed(matrix)[<<o[k], o[k + 1]>>].path) \o g[k + 1]

\* The fold that Joined is takes the legs in their order.
LEMMA JoinedInOrder ==
  ASSUME IsProblem, NEW o, Len(o) \in Nat \ {0},
         \A k \in 1..(Len(o) - 1) : Completed(matrix)[<<o[k], o[k + 1]>>].path \in Seq(Stops)
  PROVE  \E g : IsJoining(g, o) /\ Joined(o) = g[1]
  <1> DEFINE N == Len(o) - 1
             S == 1..N
             V == Stops
             leg == Completed(matrix)
             L == Legs(o)
             end == <<matrix.size - 1>>
             add(x, out) == Front(leg[L[x]].path) \o out
             step(h) == [s \in SUBSET S |->
                           IF s = {} THEN end ELSE LET x == Min(s) IN add(x, h[s \ {x}])]
             iter == CHOOSE h : h = step(h)
             pick == [s \in SUBSET S |-> Min(s)]
             hh == [e \in S \X Seq(V) |-> add(e[1], e[2])]
  <1>1. N \in Nat /\ N + 1 = Len(o) /\ IsFiniteSet(S) /\ end \in Seq(V)
    <2>1. N \in Nat /\ N + 1 = Len(o)
      OBVIOUS
    <2>2. IsFiniteSet(S)
      <3> HIDE DEF N
      <3> QED BY <2>1, FS_Interval
    <2>3. matrix.size - 1 \in V
      BY EntryFacts DEF Target
    <2> QED BY <2>1, <2>2, <2>3
  <1>2. DOMAIN L = S /\ \A k \in S : L[k] = <<o[k], o[k + 1]>>
    BY DEF Legs
  <1> HIDE DEF N
  <1>3. \A k \in S : leg[L[k]].path \in Seq(V)
    <2> HIDE DEF leg, L
    <2> QED BY <1>2 DEF N, leg
  <1>4. \A s \in SUBSET S : s # {} => Min(s) \in s /\ \A y \in s : Min(s) <= y
    <2> SUFFICES ASSUME NEW s \in SUBSET S, s # {}
                 PROVE  \E x \in s : \A y \in s : x <= y
      BY DEF Min
    <2>1. s \in SUBSET Nat
      BY <1>1
    <2> QED BY <2>1, LeastNatural
  <1>5. Joined(o) = iter[S]
    BY <1>2 DEF Joined, FoldRight, MapThenFoldSet
  <1>6. hh \in [S \X Seq(V) -> Seq(V)]
    <2> SUFFICES ASSUME NEW x \in S, NEW out \in Seq(V)
                 PROVE  add(x, out) \in Seq(V)
      OBVIOUS
    <2> DEFINE p == leg[L[x]].path
    <2>1. p \in Seq(V)
      BY <1>3
    <2> HIDE DEF p
    <2>2. Front(p) \in Seq(V)
      <3>1. CASE p = <<>>
        <4>1. Len(p) = 0
          BY <3>1
        <4>2. Front(p) = <<>>
          BY <4>1 DEF Front
        <4> QED BY <4>2
      <3>2. CASE p # <<>>
        <4>1. Len(p) - 1 \in 0..Len(p) /\ 1 \in 1..(Len(p) + 1)
          BY <2>1, <3>2
        <4> QED BY <2>1, <4>1, PartFacts DEF Front
      <3> QED BY <3>1, <3>2
    <2>3. Front(p) \o out \in Seq(V)
      BY <2>2
    <2> QED BY <2>3 DEF p
  <1>7. PICK f : IsFold(f, S, Seq(V), end, pick, hh)
    <2>1. \A s \in SUBSET S : s # {} => pick[s] \in s
      BY <1>4
    <2>2. end \in Seq(V)
      BY <1>1
    <2> HIDE DEF hh, pick, S, end
    <2> QED BY <1>1, <1>6, <2>1, <2>2, FoldRecursion
  <1> HIDE DEF leg, L, end
  <1>8. f = step(f)
    <2>1. ASSUME NEW s \in SUBSET S PROVE f[s] = step(f)[s]
      <3>1. CASE s = {}
        BY <1>7, <3>1 DEF IsFold
      <3>2. CASE s # {}
        <4> DEFINE x == Min(s)
                   t == s \ {x}
        <4>1. x \in S /\ t \in SUBSET S /\ pick[s] = x
          BY <1>4, <3>2
        <4>2. f[t] \in Seq(V) /\ f[s] = hh[<<x, f[t]>>]
          BY <1>7, <3>2, <4>1 DEF IsFold
        <4>3. f[s] = add(x, f[t])
          <5> HIDE DEF x, t
          <5> QED BY <4>1, <4>2
        <4> QED BY <3>2, <4>3
      <3> QED BY <3>1, <3>2
    <2>2. f = [s \in SUBSET S |-> f[s]]
      BY <1>7 DEF IsFold
    <2> QED BY <2>1, <2>2
  <1>9. iter = step(iter)
    <2> HIDE DEF step
    <2> QED BY <1>8
  <1> DEFINE g == [k \in 1..(N + 1) |-> iter[k..N]]
  <1>10. g[N + 1] = end
    <2>1. (N + 1)..N = {} /\ N + 1 \in 1..(N + 1) /\ {} \in SUBSET S
      BY <1>1
    <2>2. iter[{}] = end
      BY <1>9, <2>1
    <2> HIDE DEF iter
    <2> QED BY <2>1, <2>2
  <1>11. ASSUME NEW k \in 1..N PROVE g[k] = add(k, g[k + 1])
    <2>1. k \in 1..(N + 1) /\ k + 1 \in 1..(N + 1) /\ k \in k..N /\ k..N \in SUBSET S
      <3>1. k \in Nat /\ k >= 1 /\ k <= N
        BY <1>1
      <3>2. \A i \in k..N : i \in 1..N
        BY <1>1, <3>1
      <3> QED BY <1>1, <3>1, <3>2
    <2>2. (k..N) \ {k} = (k + 1)..N
      BY <1>1
    <2>3. Min(k..N) = k
      <3>1. Min(k..N) \in k..N /\ Min(k..N) <= k
        BY <1>4, <2>1
      <3> QED BY <1>1, <2>1, <3>1
    <2>4. iter[k..N] = add(Min(k..N), iter[(k..N) \ {Min(k..N)}])
      <3> DEFINE s == k..N
      <3>1. s \in SUBSET S /\ s # {}
        BY <2>1
      <3> HIDE DEF s
      <3>2. iter[s] = step(iter)[s]
        BY <1>9
      <3> HIDE DEF iter
      <3>3. iter[s] = add(Min(s), iter[s \ {Min(s)}])
        BY <3>1, <3>2
      <3> QED BY <3>3 DEF s
    <2> HIDE DEF iter
    <2> QED BY <2>1, <2>2, <2>3, <2>4
  <1>12. Joined(o) = g[1]
    <2>1. 1 \in 1..(N + 1)
      BY <1>1
    <2> HIDE DEF iter
    <2> QED BY <1>5, <2>1
  <1> HIDE DEF g
  <1>13. IsJoining(g, o)
    <2>1. ASSUME NEW k \in 1..N
          PROVE  g[k] = Front(Completed(matrix)[<<o[k], o[k + 1]>>].path) \o g[k + 1]
      BY <1>2, <1>11 DEF leg
    <2>2. g[Len(o)] = <<matrix.size - 1>>
      BY <1>1, <1>10 DEF end
    <2> QED BY <2>1, <2>2 DEF IsJoining, N
  <1> QED BY <1>12, <1>13

\* A walk but for its last stop, then a walk from that stop on: one walk, past what the
\* second passes.
LEMMA FrontLeadsOn ==
  ASSUME NEW V, NEW w, \A e \in DOMAIN w : w[e] \in Nat,
         NEW a, NEW b, NEW c, NEW d, NEW e,
         NEW q, Leads(V, w, q, a, b, d), NEW r, Leads(V, w, r, b, c, e)
  PROVE  /\ Leads(V, w, Front(q) \o r, a, c, d + e)
         /\ ToSet(r) \subseteq ToSet(Front(q) \o r) /\ a \in ToSet(Front(q) \o r)
  <1> DEFINE M == Len(q)
             N == Len(r)
             j == q \o Tail(r)
  <1>1. /\ q \in Seq(V) /\ M \in Nat \ {0} /\ q[1] = a /\ q[M] = b
        /\ r \in Seq(V) /\ N \in Nat \ {0} /\ r[1] = b
    BY DEF Leads
  <1>2. /\ j \in Seq(V) /\ Len(j) = M + (N - 1)
        /\ \A k \in 1..M : j[k] = q[k]
        /\ \A k \in 1..N : j[(M - 1) + k] = r[k]
        /\ Front(q) \o r = j
    BY <1>1, JoinedFacts
  <1>3. Leads(V, w, j, a, c, d + e)
    BY LeadsOn
  <1> HIDE DEF j
  <1>4. ToSet(j) = {j[m] : m \in 1..(M + (N - 1))} /\ ToSet(r) = {r[m] : m \in 1..N}
    <2>1. ToSet(j) = {j[m] : m \in 1..Len(j)}
      BY <1>2, SetOf
    <2>2. ToSet(r) = {r[m] : m \in 1..Len(r)}
      BY <1>1, SetOf
    <2> QED BY <1>2, <2>1, <2>2
  <1>5. ASSUME NEW m \in 1..N PROVE r[m] \in ToSet(j)
    <2>1. (M - 1) + m \in 1..(M + (N - 1)) /\ j[(M - 1) + m] = r[m]
      BY <1>1, <1>2
    <2> QED BY <1>4, <2>1
  <1>6. a \in ToSet(j)
    <2>1. 1 \in 1..M /\ 1 \in 1..(M + (N - 1))
      BY <1>1
    <2>2. j[1] = a
      BY <1>1, <1>2, <2>1
    <2> QED BY <1>4, <2>1, <2>2
  <1> QED BY <1>2, <1>3, <1>4, <1>5, <1>6

\* From the kth stop of an option on, what is joined leads to the target past all that
\* follow; f adds up the prices.
IsJoinedFrom(g, f, o, k) ==
  /\ Leads(Stops, matrix.weight, g[k], o[k], Target, f[Len(o)] - f[k])
  /\ \A i \in k..Len(o) : o[i] \in ToSet(g[k])

\* The brute force answers a walk past all stops, as long as it says.
LEMMA JoinedLeads ==
  ASSUME IsProblem, NEW s, NEW o, IsOption(s, o)
  PROVE  /\ Leads(Stops, matrix.weight, Joined(o), 0, Target, Length(CompletedCost, o))
         /\ ToSet(Joined(o)) = Stops
  <1> DEFINE w == matrix.weight
             leg == Completed(matrix)
             u == CompletedCost
             N == Len(o) - 1
             M == Len(o)
             P(k) == leg[<<o[k], o[k + 1]>>].path
  <1>1. /\ o \in Seq(Stops) /\ M \in Nat /\ M >= 2 /\ o[1] = 0 /\ o[M] = Target
        /\ ToSet(o) = Stops /\ M = matrix.size
        /\ \A k \in 1..(M - 1) : o[k] # o[k + 1]
    BY OptionFacts, EntryFacts
  <1>2. \A e \in DOMAIN w : w[e] \in Nat
    BY EntryFacts DEF IsWeighted
  <1>3. \A e \in DOMAIN u : u[e] \in Nat
    BY CompletedCostFacts
  <1>4. PICK f : AddsUp(f, u, o) /\ f[M] = Length(u, o)
    BY OptionLeads DEF Leads
  <1>5. N \in Nat /\ N >= 1 /\ N + 1 = M /\ M \in Nat \ {0}
    BY <1>1
  <1>6. ASSUME NEW k \in 1..N
        PROVE  /\ Leads(Stops, w, P(k), o[k], o[k + 1], u[<<o[k], o[k + 1]>>])
               /\ f[k] \in Nat /\ f[k + 1] \in Nat /\ f[k + 1] = f[k] + u[<<o[k], o[k + 1]>>]
    <2>1. k \in 1..M /\ k + 1 \in 1..M /\ k \in 1..(M - 1)
      BY <1>5
    <2>2. o[k] \in Stops /\ o[k + 1] \in Stops /\ o[k] # o[k + 1]
      BY <1>1, <2>1
    <2> DEFINE e == <<o[k], o[k + 1]>>
    <2>3. e \in DOMAIN leg /\ IsLegTo(o[k], o[k + 1], leg[e])
      BY <2>2, CompletedFacts
    <2>4. u[e] = leg[e].cost
      BY <2>3 DEF CompletedCost
    <2>5. f[k] \in Nat /\ f[k + 1] \in Nat /\ f[k + 1] = f[k] + u[e]
      BY <1>4, <2>1 DEF AddsUp
    <2> HIDE DEF leg, u
    <2>6. Leads(Stops, w, leg[e].path, o[k], o[k + 1], leg[e].cost)
      BY <2>3 DEF IsLegTo
    <2> QED BY <2>4, <2>5, <2>6
  <1>7. PICK g : IsJoining(g, o) /\ Joined(o) = g[1]
    <2>1. \A k \in 1..N : P(k) \in Seq(Stops)
      BY <1>6 DEF Leads
    <2> QED BY <1>5, <2>1, JoinedInOrder
  <1>8. g[M] = <<Target>> /\ \A k \in 1..N : g[k] = Front(P(k)) \o g[k + 1]
    BY <1>7 DEF IsJoining, Target
  <1> DEFINE Good == {j \in Nat : j <= N => IsJoinedFrom(g, f, o, M - j)}
  <1> HIDE DEF N, M, leg, u, w
  <1>9. 0 \in Good
    <2>1. M - 0 = M /\ f[M] - f[M] = 0
      <3>1. N \in 1..N /\ N + 1 = M
        BY <1>5
      <3>2. f[M] \in Nat
        BY <1>6, <3>1
      <3> QED BY <1>5, <3>2
    <2>2. Leads(Stops, w, <<Target>>, Target, Target, 0)
      BY EntryFacts, ShortLeads
    <2>3. \A i \in M..M : o[i] \in ToSet(<<Target>>)
      <3>1. \A i \in M..M : i = M
        BY <1>5
      <3>2. Target \in ToSet(<<Target>>)
        BY DEF ToSet
      <3> QED BY <1>1, <3>1, <3>2
    <2>4. IsJoinedFrom(g, f, o, M)
      BY <1>1, <1>8, <2>1, <2>2, <2>3 DEF IsJoinedFrom, M, w
    <2> QED BY <2>1, <2>4
  <1>10. ASSUME NEW j \in Nat, j \in Good PROVE j + 1 \in Good
    <2> SUFFICES ASSUME j + 1 <= N PROVE IsJoinedFrom(g, f, o, M - (j + 1))
      OBVIOUS
    <2> DEFINE k == M - (j + 1)
    <2>1. k \in 1..N /\ k + 1 = M - j /\ j <= N
      BY <1>5
    <2>2. IsJoinedFrom(g, f, o, k + 1)
      BY <1>10, <2>1
    <2> HIDE DEF k, Good
    <2>3. /\ Leads(Stops, w, g[k + 1], o[k + 1], Target, f[M] - f[k + 1])
          /\ \A i \in (k + 1)..M : o[i] \in ToSet(g[k + 1])
      BY <2>2 DEF IsJoinedFrom, M, w
    <2> DEFINE x == u[<<o[k], o[k + 1]>>]
               y == f[M] - f[k + 1]
               q == P(k)
               r == g[k + 1]
               b == o[k + 1]
    <2>4. Leads(Stops, w, q, o[k], b, x) /\ Leads(Stops, w, r, b, Target, y)
      BY <1>6, <2>1, <2>3
    <2>5. g[k] = Front(q) \o r
      BY <1>8, <2>1
    <2>6. x + y = f[M] - f[k]
      <3>1. f[k] \in Nat /\ f[k + 1] \in Nat /\ f[k + 1] = f[k] + x
        BY <1>6, <2>1
      <3>2. f[M] \in Nat
        <4>1. N \in 1..N /\ N + 1 = M
          BY <1>5
        <4> QED BY <1>6, <4>1
      <3>3. x \in Nat
        BY <1>2, <2>4, LeadsIsWalk DEF w
      <3> HIDE DEF x
      <3> QED BY <3>1, <3>2, <3>3
    <2>7. \A i \in (k + 1)..M : o[i] \in ToSet(r)
      BY <2>3
    <2> HIDE DEF x, y, q, r, b
    <2>8. /\ Leads(Stops, w, Front(q) \o r, o[k], Target, x + y)
          /\ ToSet(r) \subseteq ToSet(Front(q) \o r) /\ o[k] \in ToSet(Front(q) \o r)
      BY <1>2, <2>4, FrontLeadsOn DEF w
    <2>9. \A i \in k..M : o[i] \in ToSet(g[k])
      <3>1. \A i \in k..M : i = k \/ i \in (k + 1)..M
        BY <1>5, <2>1
      <3> QED BY <2>5, <2>7, <2>8, <3>1
    <2>10. IsJoinedFrom(g, f, o, k)
      BY <2>5, <2>6, <2>8, <2>9 DEF IsJoinedFrom, M, w
    <2> QED BY <2>10 DEF k
  <1>11. IsJoinedFrom(g, f, o, 1)
    <2>1. N \in Good
      <3> HIDE DEF Good
      <3> QED BY <1>5, <1>9, <1>10, NatSetInduction
    <2>2. M - N = 1 /\ N <= N
      BY <1>5
    <2> QED BY <2>1, <2>2
  <1>12. f[1] = 0 /\ f[M] \in Nat /\ f[M] - 0 = f[M]
    <2>1. f[1] = 0 /\ M \in 1..M
      BY <1>4, <1>5 DEF AddsUp
    <2>2. f[M] \in Nat
      BY <1>4, <2>1 DEF AddsUp, M
    <2> QED BY <2>1, <2>2
  <1>13. Leads(Stops, w, Joined(o), 0, Target, Length(u, o))
    <2>1. Leads(Stops, w, g[1], o[1], Target, f[M] - f[1])
      BY <1>11 DEF IsJoinedFrom, M, w
    <2> QED BY <1>1, <1>4, <1>7, <1>12, <2>1
  <1>14. ToSet(Joined(o)) = Stops
    <2>1. \A i \in 1..M : o[i] \in ToSet(Joined(o))
      BY <1>7, <1>11 DEF IsJoinedFrom, M
    <2>2. ToSet(o) = {o[i] : i \in 1..M}
      BY <1>1, SetOf DEF M
    <2>3. ToSet(Joined(o)) \in SUBSET Stops
      <3>1. Joined(o) \in Seq(Stops)
        BY <1>13 DEF Leads
      <3> QED BY <3>1, SetOf
    <2> QED BY <1>1, <2>1, <2>2, <2>3
  <1> QED BY <1>13, <1>14 DEF u, w

\* The order in which the objectives are numbered makes an option.
LEMMA OptionExists ==
  ASSUME IsProblem
  PROVE  \E s, o : IsOption(s, o)
  <1> DEFINE m == matrix.size - 2
             s == [k \in 1..m |-> k]
  <1>1. m \in Nat /\ m \in Int /\ 1 \in Int
    BY EntryFacts
  <1> HIDE DEF m
  <1>2. Cardinality(1..m) = m
    <2>1. Cardinality(1..m) = IF 1 > m THEN 0 ELSE m - 1 + 1
      BY <1>1, FS_Interval
    <2> QED BY <1>1, <2>1
  <1>3. s \in [1..m -> 1..m] /\ \A i, j \in 1..m : i # j => s[i] # s[j]
    OBVIOUS
  <1> HIDE DEF s
  <1>4. s \in SetToSeqs(1..m)
    BY <1>2, <1>3 DEF SetToSeqs
  <1>5. IsOption(s, <<0>> \o s \o <<matrix.size - 1>>)
    BY <1>4 DEF IsOption, m
  <1> QED BY <1>5

\* a is the answer that is made of the option o.
IsMadeOf(a, o) == a.cost = Length(CompletedCost, o) /\ a.path = Joined(o)

\* No option costs less than o.
IsCheapest(o) ==
  \A t, p : IsOption(t, p) => Length(CompletedCost, o) <= Length(CompletedCost, p)

\* What the brute force answers: what is made of the cheapest options, of one at least.
LEMMA BruteForceOptions ==
  ASSUME IsProblem
  PROVE  /\ BruteForce(matrix) # {}
         /\ \A a \in BruteForce(matrix) :
              \E s, o : IsOption(s, o) /\ IsMadeOf(a, o) /\ IsCheapest(o)
  <1> DEFINE O == {<<0>> \o s \o <<matrix.size - 1>> : s \in SetToSeqs(1..(matrix.size - 2))}
             price(o) == Length(CompletedCost, o)
             P == {o \in O : \A k \in DOMAIN Legs(o) : Legs(o)[k] \in DOMAIN Completed(matrix)}
             R == {o \in P : \A p \in P : price(o) <= price(p)}
  <1>1. BruteForce(matrix) = {[cost |-> price(o), path |-> Joined(o)] : o \in R}
    BY DEF BruteForce, CompletedCost, Joined
  <1>2. \A o : o \in O <=> \E s : IsOption(s, o)
    BY DEF IsOption
  <1> HIDE DEF O
  <1>3. P = O
    <2>1. ASSUME NEW o \in O PROVE IsWalk(CompletedCost, o)
      BY <1>2, OptionLeads
    <2>2. DOMAIN CompletedCost = DOMAIN Completed(matrix)
      BY DEF CompletedCost
    <2> QED BY <2>1, <2>2 DEF IsWalk
  <1>4. \A o \in O : price(o) \in Nat
    BY <1>2, OptionLeads
  <1>5. O # {}
    BY <1>2, OptionExists
  <1> HIDE DEF P, price
  <1>6. R # {}
    <2> DEFINE prices == {price(o) : o \in O}
    <2>1. prices \in SUBSET Nat /\ prices # {}
      BY <1>4, <1>5
    <2>2. PICK c \in prices : \A x \in prices : c <= x
      <3> HIDE DEF prices
      <3> QED BY <2>1, LeastNatural
    <2>3. PICK o \in O : c = price(o)
      OBVIOUS
    <2>4. \A p \in O : price(o) <= price(p)
      BY <2>2, <2>3
    <2> QED BY <1>3, <2>4
  <1>7. ASSUME NEW a \in BruteForce(matrix)
        PROVE  \E s, o : IsOption(s, o) /\ IsMadeOf(a, o) /\ IsCheapest(o)
    <2>1. PICK o \in R : a = [cost |-> price(o), path |-> Joined(o)]
      BY <1>1
    <2>2. PICK s : IsOption(s, o)
      BY <1>2, <1>3
    <2>3. a.cost = price(o) /\ a.path = Joined(o)
      BY <2>1
    <2>4. \A p \in O : price(o) <= price(p)
      BY <1>3
    <2>5. IsCheapest(o)
      BY <1>2, <2>4 DEF IsCheapest, price
    <2> QED BY <2>2, <2>3, <2>5 DEF IsMadeOf, price
  <1>8. BruteForce(matrix) # {}
    BY <1>1, <1>6
  <1> QED BY <1>7, <1>8

\* What lists the objectives between the ends, numbered from one, is an option.
LEMMA ListedIsOption ==
  ASSUME IsProblem, NEW q, ListsStops(q, 1, 2..(matrix.size - 1), matrix.size)
  PROVE  \E s : IsOption(s, [k \in 1..matrix.size |-> q[k] - 1])
  <1> DEFINE n == matrix.size
             m == n - 2
             s == [k \in 1..m |-> q[k + 1] - 1]
             o == [k \in 1..n |-> q[k] - 1]
             p == <<0>> \o s \o <<n - 1>>
  <1>1. n \in Nat /\ n >= 2 /\ m \in Nat /\ m + 2 = n /\ Stops = 0..(n - 1) /\ Target = n - 1
    BY EntryFacts DEF Stops, Target
  <1>2. ListsStops(q, 1, 2..(n - 1), n)
    OBVIOUS
  <1> HIDE DEF n, m
  <1>3. Cardinality(2..(n - 1)) = m /\ Cardinality(1..m) = m
    <2>1. n - 1 \in Int /\ 2 \in Int /\ 1 \in Int /\ m \in Int
      BY <1>1
    <2>2. Cardinality(2..(n - 1)) = IF 2 > n - 1 THEN 0 ELSE (n - 1) - 2 + 1
      <3> DEFINE h == n - 1
      <3>1. h \in Int
        BY <2>1
      <3> HIDE DEF h
      <3>2. Cardinality(2..h) = IF 2 > h THEN 0 ELSE h - 2 + 1
        BY <2>1, <3>1, FS_Interval
      <3> QED BY <3>2 DEF h
    <2>3. Cardinality(1..m) = IF 1 > m THEN 0 ELSE m - 1 + 1
      BY <2>1, FS_Interval
    <2> QED BY <1>1, <2>2, <2>3
  <1>4. /\ q \in Seq(1..n) /\ Len(q) = n /\ q[1] = 1 /\ q[n] = n
        /\ \A k \in 2..(n - 1) : q[k] \in 2..(n - 1)
        /\ \A i, j \in 2..(n - 1) : q[i] = q[j] => i = j
    <2>1. Len(q) = n
      BY <1>1, <1>2, <1>3 DEF ListsStops
    <2> QED BY <1>2, <2>1 DEF ListsStops
  <1>5. \A k \in 1..m : k + 1 \in 2..(n - 1) /\ q[k + 1] \in 2..(n - 1) /\ q[k + 1] - 1 \in 1..m
    <2> SUFFICES ASSUME NEW k \in 1..m
                 PROVE  k + 1 \in 2..(n - 1) /\ q[k + 1] \in 2..(n - 1) /\ q[k + 1] - 1 \in 1..m
      OBVIOUS
    <2>1. k + 1 \in 2..(n - 1)
      BY <1>1
    <2>2. q[k + 1] \in 2..(n - 1)
      BY <1>4, <2>1
    <2>3. \A i \in 2..(n - 1) : i - 1 \in 1..m
      BY <1>1
    <2> QED BY <2>1, <2>2, <2>3
  <1>6. s \in [1..m -> 1..m] /\ \A k \in 1..m : s[k] = q[k + 1] - 1
    BY <1>5
  <1>7. ASSUME NEW i \in 1..m, NEW j \in 1..m, i # j PROVE s[i] # s[j]
    <2>1. i + 1 \in 2..(n - 1) /\ j + 1 \in 2..(n - 1) /\ i + 1 # j + 1
      BY <1>5, <1>7, <1>1
    <2>2. q[i + 1] # q[j + 1]
      BY <1>4, <2>1
    <2>3. q[i + 1] \in Int /\ q[j + 1] \in Int
      BY <1>1, <1>5
    <2>4. q[i + 1] - 1 # q[j + 1] - 1
      BY <2>2, <2>3
    <2> QED BY <1>6, <2>4
  <1> HIDE DEF s
  <1>8. s \in SetToSeqs(1..m)
    BY <1>3, <1>6, <1>7 DEF SetToSeqs
  <1>9. IsOption(s, p)
    BY <1>8 DEF IsOption, n, m
  <1> HIDE DEF p
  <1>10. /\ p \in Seq(Stops) /\ Len(p) = n /\ p[1] = 0 /\ p[n] = n - 1
         /\ \A k \in 1..m : p[k + 1] = s[k]
    <2>1. /\ p \in Seq(Stops) /\ Len(p) = n /\ p[1] = 0 /\ p[Len(p)] = Target
          /\ \A k \in 1..m : p[k + 1] = s[k]
      BY <1>9, OptionFacts DEF n, m
    <2> QED BY <1>1, <2>1
  <1>11. ASSUME NEW k \in 1..n PROVE p[k] = q[k] - 1
    <2>1. CASE k = 1
      BY <1>4, <1>10, <2>1
    <2>2. CASE k = n
      BY <1>4, <1>10, <2>2
    <2>3. CASE k # 1 /\ k # n
      <3>1. k - 1 \in 1..m /\ (k - 1) + 1 = k
        BY <1>1, <2>3
      <3>2. p[(k - 1) + 1] = s[k - 1] /\ s[k - 1] = q[(k - 1) + 1] - 1
        BY <1>6, <1>10, <3>1
      <3> QED BY <3>1, <3>2
    <2> QED BY <2>1, <2>2, <2>3
  <1>12. p = [k \in 1..n |-> p[k]]
    BY <1>10
  <1>13. p = o
    BY <1>11, <1>12
  <1> QED BY <1>9, <1>13 DEF n

\* If no entry is longer than a way around, the completed legs cost what the ways do.
LEMMA TightCosts ==
  ASSUME IsProblem,
         \A e \in DOMAIN matrix.weight :
           matrix.weight[e] = Distances(matrix.size, matrix.weight)[e],
         NEW a \in Stops, NEW b \in Stops, a # b
  PROVE  /\ <<a, b>> \in DOMAIN CompletedCost
         /\ CompletedCost[<<a, b>>] = Distances(matrix.size, matrix.weight)[<<a, b>>]
  <1> DEFINE leg == Completed(matrix)
             e == <<a, b>>
  <1>1. e \in DOMAIN leg /\ IsLegTo(a, b, leg[e])
    BY CompletedFacts
  <1>2. e \in DOMAIN CompletedCost /\ CompletedCost[e] = leg[e].cost
    BY <1>1 DEF CompletedCost
  <1> HIDE DEF leg
  <1>3. leg[e].cost = Distances(matrix.size, matrix.weight)[<<a, b>>]
    BY <1>1 DEF IsLegTo
  <1> QED BY <1>2, <1>3

\* Then some option costs what the reference says.
LEMMA TightIsHad ==
  ASSUME IsProblem,
         \A e \in DOMAIN matrix.weight :
           matrix.weight[e] = Distances(matrix.size, matrix.weight)[e]
  PROVE  \E s, o : IsOption(s, o) /\ Length(CompletedCost, o) = BestCost
  <1> DEFINE n == matrix.size
             d == Distances(n, matrix.weight)
             u == CompletedCost
             I == 2..(n - 1)
             N == 1..n
             stops == [i \in N |-> i - 1]
             fee == [e \in N \X N |-> d[<<e[1] - 1, e[2] - 1>>]]
             S == Stops \ {0, Target}
  <1>1. /\ n \in Nat /\ n >= 2 /\ Stops = Vertices(n) /\ IsWeighted(n, matrix.weight)
        /\ 0 \in Stops /\ Target \in Stops /\ Stops = 0..(n - 1) /\ Target = n - 1
    BY EntryFacts DEF Stops, Target
  <1>2. IsMeasure(Stops, d)
    BY <1>1, TableIsMeasure
  <1>3. /\ \A e \in DOMAIN u : u[e] \in Nat
        /\ \A a, b \in Stops : a # b => <<a, b>> \in DOMAIN u /\ u[<<a, b>>] = d[<<a, b>>]
    <2>1. \A e \in DOMAIN u : u[e] \in Nat
      BY CompletedCostFacts
    <2>2. ASSUME NEW a \in Stops, NEW b \in Stops, a # b
          PROVE  <<a, b>> \in DOMAIN u /\ u[<<a, b>>] = d[<<a, b>>]
      BY <2>2, TightCosts
    <2> HIDE DEF u, d
    <2> QED BY <2>1, <2>2
  <1>4. /\ S \in SUBSET Stops /\ IsFiniteSet(S)
    <2>1. IsFiniteSet(Stops)
      <3>1. n - 1 \in Int /\ 0 \in Int
        BY <1>1
      <3> QED BY <3>1, FS_Interval DEF Stops, Target
    <2> QED BY <2>1, FS_Subset
  <1>5. PICK best : IsBest(best, d, S, 0, Target) /\ BestTour(d, 0, S, Target) = best[S][0]
    <2>1. \A x, y \in Stops : d[<<x, y>>] \in Nat
      BY <1>2 DEF IsMeasure
    <2>2. 0 \in Stops /\ Target \in Stops
      BY <1>1
    <2> HIDE DEF d, S, n, I, N, stops, fee
    <2> QED BY <1>4, <2>1, <2>2, BestTourIsBest
  <1>6. /\ 1 \in N /\ n \in N /\ stops[1] = 0 /\ stops[n] = Target
        /\ \A i \in N : stops[i] = i - 1 /\ i - 1 \in Stops
        /\ \A i \in I : i \in N
    <2>1. 1 \in N /\ n \in N /\ \A i \in N : i - 1 \in 0..(n - 1)
      BY <1>1
    <2>2. \A i \in I : i \in N
      BY <1>1
    <2> QED BY <1>1, <2>1, <2>2
  <1>7. S = {stops[i] : i \in I}
    <2>1. ASSUME NEW x \in S PROVE \E i \in I : stops[i] = x
      <3>1. x + 1 \in I /\ x + 1 \in N /\ (x + 1) - 1 = x
        BY <1>1
      <3> QED BY <1>6, <3>1
    <2>2. ASSUME NEW i \in I PROVE stops[i] \in S
      <3>1. i \in N /\ i - 1 # 0 /\ i - 1 # n - 1
        BY <1>1, <1>6
      <3> QED BY <1>1, <1>6, <3>1
    <2> HIDE DEF S, stops
    <2> QED BY <2>1, <2>2
  <1>8. DOMAIN fee = N \X N /\ \A i, j \in N : fee[<<i, j>>] = d[<<i - 1, j - 1>>]
    <2> HIDE DEF N, d
    <2> QED OBVIOUS
  <1> HIDE DEF d, u, S, stops, fee
  <1>9. AreCosts(Stops, d, n, stops, fee)
    <2>1. ASSUME NEW i \in N, NEW j \in N PROVE fee[<<i, j>>] = d[<<stops[i], stops[j]>>]
      <3>1. stops[i] = i - 1 /\ stops[j] = j - 1
        BY <1>6
      <3>2. fee[<<i, j>>] = d[<<i - 1, j - 1>>]
        BY <1>8
      <3> HIDE DEF N
      <3> QED BY <3>1, <3>2
    <2>2. \A i \in N : stops[i] \in Stops
      BY <1>6
    <2> QED BY <1>1, <1>8, <2>1, <2>2 DEF AreCosts
  <1>10. PICK q, c : /\ ListsStops(q, 1, I, n) /\ Leads(N, fee, q, 1, n, c)
                     /\ c <= best[S][0]
    <2>1. IsBest(best, d, S, stops[1], stops[n])
      BY <1>5, <1>6
    <2> HIDE DEF n
    <2>2. \E q, c : /\ ListsStops(q, 1, 2..(n - 1), n) /\ Leads(1..n, fee, q, 1, n, c)
                    /\ c <= best[S][stops[1]]
      BY <1>2, <1>7, <1>9, <2>1, BestIsHad
    <2>3. stops[1] = 0
      BY <1>6
    <2> QED BY <2>2, <2>3
  <1> DEFINE o == [k \in N |-> q[k] - 1]
  <1>11. PICK s : IsOption(s, o)
    BY <1>10, ListedIsOption
  <1>12. Len(q) = n /\ q \in Seq(N) /\ q[1] = 1 /\ q[n] = n
    <2>1. q \in Seq(N) /\ Len(q) \in Nat /\ q[1] = 1 /\ q[Len(q)] = n
          /\ Len(q) = Cardinality(I) + 2
      BY <1>10 DEF ListsStops
    <2>2. Cardinality(I) = (n - 1) - 2 + 1
      <3> DEFINE h == n - 1
      <3>1. h \in Int /\ 2 \in Int /\ (2 > h => h - 2 + 1 = 0)
        BY <1>1
      <3> HIDE DEF h
      <3>2. Cardinality(2..h) = IF 2 > h THEN 0 ELSE h - 2 + 1
        BY <3>1, FS_Interval
      <3>3. Cardinality(2..h) = h - 2 + 1
        BY <3>1, <3>2
      <3> QED BY <3>3 DEF h
    <2> HIDE DEF I, n
    <2> QED BY <1>1, <2>1, <2>2
  <1>13. \A k \in 1..(n - 1) : /\ k \in N /\ k + 1 \in N /\ q[k] \in N /\ q[k + 1] \in N
    <2>1. \A k \in N : q[k] \in N
      <3> HIDE DEF n
      <3> QED BY <1>12
    <2>2. \A k \in 1..(n - 1) : k \in N /\ k + 1 \in N
      BY <1>1
    <2> QED BY <2>1, <2>2
  <1>14. PICK f : AddsUp(f, fee, q) /\ f[n] = c
    BY <1>10, <1>12 DEF Leads
  <1>15. /\ o \in Seq(Stops) /\ Len(o) = n /\ o[1] = 0 /\ o[n] = Target
         /\ \A k \in 1..(n - 1) : o[k] # o[k + 1]
    <2> HIDE DEF o
    <2>1. /\ o \in Seq(Stops) /\ Len(o) = n /\ o[1] = 0 /\ o[Len(o)] = Target
          /\ \A k \in 1..(Len(o) - 1) : o[k] # o[k + 1]
      BY <1>11, OptionFacts
    <2> QED BY <2>1
  <1>16. AddsUp(f, u, o)
    <2>1. f \in [1..n -> Nat] /\ f[1] = 0
      BY <1>12, <1>14 DEF AddsUp
    <2>2. ASSUME NEW k \in 1..(n - 1)
          PROVE  <<o[k], o[k + 1]>> \in DOMAIN u /\ f[k + 1] = f[k] + u[<<o[k], o[k + 1]>>]
      <3> DEFINE a == q[k] - 1
                 b == q[k + 1] - 1
      <3>1. k \in N /\ k + 1 \in N /\ q[k] \in N /\ q[k + 1] \in N
        BY <1>13
      <3>2. f[k + 1] = f[k] + fee[<<q[k], q[k + 1]>>]
        <4>1. k \in 1..(Len(q) - 1)
          BY <1>12
        <4> QED BY <1>14, <4>1 DEF AddsUp
      <3>3. fee[<<q[k], q[k + 1]>>] = d[<<a, b>>]
        BY <1>8, <3>1
      <3>4. o[k] = a /\ o[k + 1] = b
        BY <3>1
      <3>5. a \in Stops /\ b \in Stops /\ a # b
        BY <1>6, <1>15, <3>1, <3>4
      <3> HIDE DEF a, b, o
      <3>6. <<a, b>> \in DOMAIN u /\ u[<<a, b>>] = d[<<a, b>>]
        BY <1>3, <3>5
      <3> QED BY <3>2, <3>3, <3>4, <3>6
    <2> HIDE DEF o
    <2> QED BY <1>15, <2>1, <2>2 DEF AddsUp
  <1> HIDE DEF o
  <1>17. Leads(Stops, u, o, 0, Target, c)
    <2>1. n \in Nat \ {0}
      BY <1>1
    <2> QED BY <1>14, <1>15, <1>16, <2>1 DEF Leads
  <1>18. Length(u, o) = c
    BY <1>3, <1>17, LeadsIsWalk
  <1>19. Length(u, o) = BestCost
    <2>1. BestCost = best[S][0]
      BY <1>5 DEF BestCost, d, S
    <2>2. best[S][0] \in Nat
      <3> DEFINE A == S \cup {0}
      <3>1. best[S] \in [A -> Nat] /\ 0 \in A
        BY <1>5 DEF IsBest
      <3> HIDE DEF A
      <3> QED BY <3>1
    <2>3. c \in Nat
      BY <1>3, <1>17, LeadsIsWalk
    <2>4. BestCost <= Length(u, o)
      BY <1>11, OptionLeads DEF u
    <2> QED BY <1>10, <1>18, <2>1, <2>2, <2>3, <2>4
  <1> QED BY <1>11, <1>19 DEF u

\* The brute force answers a walk past all destinations of the length it states, never
\* shorter than possible, and a shortest one if no entry is longer than a way around
\* (rtsp/greedy.rs).
THEOREM BruteForceIsLeast == Spec => []BruteForceIsOptimum
  <1> DEFINE w == matrix.weight
             d == Distances(matrix.size, matrix.weight)
             Tight == \A e \in DOMAIN w : w[e] = d[e]
             IsGood(a) == /\ IsWalk(w, a.path) /\ Length(w, a.path) = a.cost
                          /\ Head(a.path) = 0 /\ Last(a.path) = Target /\ ToSet(a.path) = Stops
                          /\ a.cost >= BestCost
                          /\ Tight => a.cost = BestCost
  <1>1. ASSUME IsProblem, NEW a \in BruteForce(matrix) PROVE IsGood(a)
    <2>1. PICK s, o : IsOption(s, o) /\ IsMadeOf(a, o) /\ IsCheapest(o)
      BY <1>1, BruteForceOptions
    <2> DEFINE c == Length(CompletedCost, o)
    <2>2. a.cost = c /\ a.path = Joined(o)
      BY <2>1 DEF IsMadeOf
    <2>3. c \in Nat /\ BestCost <= c
      BY <1>1, <2>1, OptionLeads
    <2>4. Leads(Stops, w, Joined(o), 0, Target, c) /\ ToSet(Joined(o)) = Stops
      BY <1>1, <2>1, JoinedLeads
    <2>5. \A e \in DOMAIN w : w[e] \in Nat
      BY <1>1, EntryFacts DEF IsWeighted
    <2> HIDE DEF w, c
    <2>6. /\ IsWalk(w, Joined(o)) /\ Length(w, Joined(o)) = c
          /\ Head(Joined(o)) = 0 /\ Last(Joined(o)) = Target
      BY <2>4, <2>5, LeadsIsWalk
    <2>7. ASSUME Tight PROVE c = BestCost
      <3>1. PICK t, p : IsOption(t, p) /\ Length(CompletedCost, p) = BestCost
        BY <1>1, <2>7, TightIsHad DEF w
      <3>2. c <= Length(CompletedCost, p)
        BY <2>1, <3>1 DEF IsCheapest, c
      <3>3. Length(CompletedCost, p) \in Nat
        BY <1>1, <3>1, OptionLeads
      <3> QED BY <2>3, <3>1, <3>2, <3>3
    <2>8. a.cost >= BestCost /\ (Tight => a.cost = BestCost)
      <3>1. c >= BestCost
        BY <2>3
      <3> HIDE DEF Tight
      <3> QED BY <2>2, <2>7, <3>1
    <2> QED BY <2>2, <2>4, <2>6, <2>8
  <1>2. SolverInv => BruteForceIsOptimum
    <2> SUFFICES ASSUME SolverInv PROVE BruteForceIsOptimum
      OBVIOUS
    <2>1. IsProblem
      BY DEF SolverInv
    <2>2. BruteForce(matrix) # {}
      BY <2>1, BruteForceOptions
    <2>3. \A a \in BruteForce(matrix) : IsGood(a)
      BY <1>1, <2>1
    <2> QED BY <2>2, <2>3 DEF BruteForceIsOptimum, BestCost
  <1> QED BY SolverKeepsTours, <1>2, PTL

=============================================================================
