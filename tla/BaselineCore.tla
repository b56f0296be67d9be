---------------------------- MODULE BaselineCore ----------------------------
(***************************************************************************)
(* What the two baseline planners share (baseline/common.rs): the distance *)
(* matrix between destinations, the disjoint sets of connected ones, and   *)
(* the best tour with its road path.  A planner keeps one tree per pair of *)
(* destinations, and which trees are still to be explored.                 *)
(*                                                                         *)
(* Lengths are whole numbers, so the 0.1 m by which an entry must improve  *)
(* is never a part of one.  A node lies at a place <<x, y>>; the straight  *)
(* distance of two nodes is the heuristic, and the length of their road,   *)
(* as the map loaders set it.  |x| + |y| stands for the great circle.      *)
(***************************************************************************)
EXTENDS DisjointSets, FiniteSets, Shortest

CONSTANTS
  Map,        \* the road networks: [size, weight, place]
  Stop,       \* Stop[i]: the node of destination i, 0 the source
  Refining,   \* settings: shortcut is on (FALSE: shortcut, swapping and genetic are off)
  MaxTour,    \* bound: length of the tours the solver answers, there and back at least
  None        \* infinity, no node, no answer yet

Goal == Cardinality(DOMAIN Stop) - 1
Tree == 0..Goal
Pair == {p \in Tree \X Tree : p[1] < p[2]}

ASSUME StopAssumption ==
  /\ IsFiniteSet(DOMAIN Stop) /\ DOMAIN Stop = Tree /\ Goal > 0
  /\ MaxTour \in Nat /\ MaxTour >= 2 * Goal
  /\ \A i, j \in Tree : Stop[i] = Stop[j] => i = j

Straight(a, b) == LET gap(x, y) == IF x > y THEN x - y ELSE y - x
                  IN  gap(a[1], b[1]) + gap(a[2], b[2])

ASSUME MapAssumption ==
  \A m \in Map :
    /\ m.size \in Nat /\ m.place \in [0..(m.size - 1) -> Int \X Int]
    /\ \A i \in Tree : Stop[i] \in 0..(m.size - 1)
    /\ \A e \in DOMAIN m.weight :
         /\ e \in (0..(m.size - 1)) \X (0..(m.size - 1)) /\ e[1] # e[2]
         /\ m.weight[e] = Straight(m.place[e[1]], m.place[e[2]])
         /\ m.weight[e] > 0 /\ <<e[2], e[1]>> \in DOMAIN m.weight

\* No way on a map is as long as Far, which stands for no way.
ASSUME FarAssumption == \A m \in Map : \A e \in DOMAIN m.weight : m.size * m.weight[e] < Far

ASSUME NoneAssumption == None \notin Nat
ASSUME SettingAssumption == Refining \in BOOLEAN
ASSUME AnswerAssumption == None \notin [cost : Nat, tour : Seq(Nat), path : Seq(Nat)]

VARIABLES
  map,         \* graph
  entry,       \* distance_matrix
  joint,       \* connection_node_matrix
  sets,        \* disjoint_set_parent, disjoint_set_children, is_connected_graph
  updated,     \* is_distance_matrix_updated
  best,        \* sequence_rtsp, shortest_path_cost and shortest_path
  trees,       \* tree_layers, by position
  unexplored,  \* unexplored_tree
  busy,        \* the position of the tree expand_tree works on
  phase        \* of find_shortest_path: "search", "solve", "force" or "done"

core == <<map, entry, joint, sets, updated, best>>
coreVars == <<core, trees, unexplored, busy, phase>>

-----------------------------------------------------------------------------
\* pair_tree_idx
PairTreeIdx(i, j) == IF i > j THEN (i * (i - 1)) \div 2 + j ELSE (j * (j - 1)) \div 2 + i

\* The constructors push the trees row by row: the pair of the tree at position k.
Layer == 0..(Cardinality(Pair) - 1)
Ids(k) == CHOOSE p \in Pair :
  Cardinality({q \in Pair : q[1] < p[1] \/ (q[1] = p[1] /\ q[2] < p[2])}) = k

StartOf(k) == Stop[Ids(k)[1]]
GoalOf(k) == Stop[Ids(k)[2]]
Air(a, b) == Straight(map.place[a], map.place[b])
Nodes == 0..(map.size - 1)
Neighbors(n) == {m \in Nodes : <<n, m>> \in DOMAIN map.weight}

\* The cost and the parent map of a tree: None where there is no entry.
Rooted(root) == [n \in Nodes |-> IF n = root THEN root ELSE None]
Costs(root) == [n \in Nodes |-> IF n = root THEN 0 ELSE None]
Reached(side) == {n \in Nodes : side.parent[n] # None}

\* The neighbours of p that are new or cheaper by way of p.
Better(side, p) ==
  {n \in Neighbors(p) : side.cost[n] # None => side.cost[p] + map.weight[<<p, n>>] < side.cost[n]}

\* Faulty variant: the first way to a node stays its way.
FirstParents(side, p) ==
  [n \in Nodes |-> IF n \in Better(side, p) /\ side.parent[n] = None THEN p ELSE side.parent[n]]

\* Their new costs; and their new parents.
CostsVia(side, p) ==
  [n \in Nodes |-> IF n \in Better(side, p) THEN side.cost[p] + map.weight[<<p, n>>]
                   ELSE side.cost[n]]
ParentsVia(side, p) == [n \in Nodes |-> IF n \in Better(side, p) THEN p ELSE side.parent[n]]

\* The nodes from n up to the root; the code panics where a parent is missing.
Panic == <<>>
Climb(parent, n, root) ==
  LET up[k \in 0..map.size] ==
        IF k = 0 THEN <<n>>
        ELSE LET p == up[k - 1]
             IN  IF p = Panic \/ Last(p) = root THEN p
                 ELSE IF parent[Last(p)] # None THEN Append(p, parent[Last(p)]) ELSE Panic
  IN  up[map.size]

\* update_path of both planners: the legs one after the other, then the target.
JoinedPath(legs) ==
  IF \E k \in DOMAIN legs : legs[k] = Panic THEN Panic
  ELSE FoldRight(LAMBDA leg, rest : Front(leg) \o rest, legs, <<Stop[Goal]>>)

-----------------------------------------------------------------------------
\* The relaxed tours: from the source to the target past every destination.
Tours ==
  {s \in UNION {[1..n -> Tree] : n \in 2..MaxTour} :
     /\ s[1] = 0 /\ s[Len(s)] = Goal /\ ToSet(s) = Tree
     /\ \A k \in DOMAIN Legs(s) : Legs(s)[k][1] # Legs(s)[k][2]}

LinkedTours == {s \in Tours : \A k \in DOMAIN Legs(s) : entry[Legs(s)[k]] # None}

\* What the solver may answer, by what EciGen shows of it: the length of one tour over
\* finite entries with, when it refines its sequence, another tour.
Answers ==
  {[cost |-> Length(entry, p[1]), tour |-> p[2]] :
     p \in {p \in LinkedTours \X LinkedTours : Refining \/ p[1] = p[2]}}

\* solve_rtsp and, when the solver's answer costs less, update_path: paths is what that
\* makes of each tour.
Solve(force, paths) ==
  LET asked == sets.connected /\ (force \/ updated)
  IN  /\ \/ ~asked /\ UNCHANGED <<best, updated>>
         \/ asked /\ \E a \in Answers :
              IF best = None \/ a.cost < best.cost
              THEN /\ best' = [cost |-> a.cost, tour |-> a.tour, path |-> paths[a.tour]]
                   /\ updated' = FALSE
              ELSE UNCHANGED <<best, updated>>
      /\ UNCHANGED <<map, entry, joint, sets, trees, unexplored, busy>>

\* A finished expansion found the destinations of tree k to be d apart.
Shorter(k, d) == d # None /\ (entry[Ids(k)] = None \/ d < entry[Ids(k)])
Record(k, d) ==
  IF Shorter(k, d)
  THEN entry' = [entry EXCEPT ![Ids(k)] = d, ![<<Ids(k)[2], Ids(k)[1]>>] = d] /\ updated' = TRUE
  ELSE UNCHANGED <<entry, updated>>

\* The constructors, but for the trees.
CoreInit ==
  /\ map \in Map
  /\ entry = [q \in Tree \X Tree |-> IF q[1] = q[2] THEN 0 ELSE None]
  /\ joint = [q \in Tree \X Tree |-> None]
  /\ sets = NewSets(Tree) /\ updated = FALSE /\ best = None
  /\ unexplored = {PairTreeIdx(p[1], p[2]) : p \in Pair}
  /\ busy = None /\ phase = "search"

\* The loop of find_shortest_path may end after any turn: max_iter or max_time is over.
EndSearch ==
  /\ phase = "search" /\ busy = None
  /\ phase' = "force"
  /\ UNCHANGED <<core, trees, unexplored, busy>>

\* After each expansion the solver is asked once; at the end ten times, of which each
\* may be the last that matters.
SolveTurn(paths) == phase = "solve" /\ Solve(FALSE, paths) /\ phase' = "search"
SolveAtEnd(paths) == phase = "force" /\ Solve(TRUE, paths) /\ phase' \in {"force", "done"}

=============================================================================
