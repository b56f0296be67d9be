------------------------------ MODULE Shortest ------------------------------
(***************************************************************************)
(* Dijkstra's algorithm as navigation/shortest.rs runs it on a network,    *)
(* and, to compare with, the length of a shortest walk by definition.      *)
(* A weight is a function on directed edges; no edge is no way.            *)
(***************************************************************************)
EXTENDS Integers, Sequences, FiniteSets, SequencesExt

\* Legs that are travelled one after the other, each from where the last one ended.
Legs(walk) == [k \in 1..(Len(walk) - 1) |-> <<walk[k], walk[k + 1]>>]
IsWalk(weight, walk) == \A k \in DOMAIN Legs(walk) : Legs(walk)[k] \in DOMAIN weight
Total(weight, legs) == FoldSeq(LAMBDA e, sum : sum + weight[e], 0, legs)
Length(weight, walk) == Total(weight, Legs(walk))

-----------------------------------------------------------------------------
(* The search: nodes reached with their cost and parent, and those open     *)

\* The cheapest open node, of equals the one with the larger number.
Cheapest(q) == CHOOSE n \in q.open : \A o \in q.open \ {n} :
  q.dist[n] < q.dist[o] \/ (q.dist[n] = q.dist[o] /\ n > o)

\* Faulty variant: the first way found to a node stays.
FirstFound(weight, q, n) ==
  LET better == {e[2] : e \in {e \in DOMAIN weight : e[1] = n /\ e[2] \notin DOMAIN q.dist}}
  IN  [dist |-> [m \in DOMAIN q.dist \cup better |->
                   IF m \in better THEN q.dist[n] + weight[<<n, m>>] ELSE q.dist[m]],
       parent |-> [m \in DOMAIN q.parent \cup better |-> IF m \in better THEN n ELSE q.parent[m]],
       open |-> (q.open \ {n}) \cup better]

Relaxed(weight, q, n) ==
  LET cost(m) == q.dist[n] + weight[<<n, m>>]
      better == {e[2] : e \in {e \in DOMAIN weight :
                   e[1] = n /\ (e[2] \in DOMAIN q.dist => cost(e[2]) < q.dist[e[2]])}}
  IN  [dist |-> [m \in DOMAIN q.dist \cup better |-> IF m \in better THEN cost(m) ELSE q.dist[m]],
       parent |-> [m \in DOMAIN q.parent \cup better |-> IF m \in better THEN n ELSE q.parent[m]],
       open |-> (q.open \ {n}) \cup better]

\* Each turn settles one node, until t is the cheapest open one.
Search(size, weight, s, t) ==
  LET turn[k \in 0..size] ==
        IF k = 0 THEN [dist |-> [m \in {s} |-> 0], parent |-> [m \in {} |-> s], open |-> {s}]
        ELSE LET q == turn[k - 1]
             IN  IF q.open = {} \/ Cheapest(q) = t THEN q ELSE Relaxed(weight, q, Cheapest(q))
  IN  turn[size]

NoPath == [cost |-> -1, path |-> <<>>]

SearchPath(size, weight, s, t) ==
  LET q == Search(size, weight, s, t)
      back[k \in 0..size] ==
        IF k = 0 THEN <<t>>
        ELSE LET p == back[k - 1] IN IF Head(p) = s THEN p ELSE <<q.parent[Head(p)]>> \o p
  IN  IF t \in DOMAIN q.dist THEN [cost |-> q.dist[t], path |-> back[size]] ELSE NoPath

\* dijkstra_path: from a node to itself no node is looked up, known or not.
DijkstraPath(size, weight, s, t) ==
  IF s = t THEN [cost |-> 0, path |-> <<s>>]
  ELSE IF s >= size \/ t >= size THEN NoPath
  ELSE SearchPath(size, weight, s, t)

-----------------------------------------------------------------------------
(* Reference: shortest walks through the nodes below k only, k growing      *)

Far == 1000000

Distances(size, weight) ==
  LET least(a, b) == IF a <= b THEN a ELSE b
      via[k \in 0..size] ==
        IF k = 0
        THEN [e \in (0..(size - 1)) \X (0..(size - 1)) |->
                IF e[1] = e[2] THEN 0 ELSE IF e \in DOMAIN weight THEN weight[e] ELSE Far]
        ELSE LET d == via[k - 1]
             IN  [e \in DOMAIN d |-> least(d[e], d[<<e[1], k - 1>>] + d[<<k - 1, e[2]>>])]
  IN  via[size]

\* The least length of a tour from s to t past all of stops, over walks of length d.
BestTour(d, s, stops, t) ==
  LET best[left \in SUBSET stops] ==
        [at \in stops \cup {s} |->
           IF left = {} THEN d[<<at, t>>]
           ELSE LET on == {d[<<at, n>>] + best[left \ {n}][n] : n \in left}
                IN  CHOOSE c \in on : \A o \in on : c <= o]
  IN  best[stops][s]

=============================================================================
