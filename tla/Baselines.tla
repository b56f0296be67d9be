------------------------------ MODULE Baselines ------------------------------
(***************************************************************************)
(* PlanningSystem::run for the two baseline systems (system/mod.rs): the   *)
(* search of BiAstar or of AnaStar over a road network, to its end.        *)
(***************************************************************************)
EXTENDS BiAstar, AnaStar

VARIABLE system     \* config.general.system

vars == <<coreVars, system>>

Distance == Distances(map.size, map.weight)
MapLinks(i, j) == Distance[<<Stop[i], Stop[j]>>] < Far

\* ANA* is given networks that connect the destinations: see the README.
Init ==
  /\ CoreInit
  /\ system \in {"BiAstar", "AnaStar"}
  /\ IF system = "BiAstar" THEN BiInit ELSE AnaInit /\ \A i, j \in Tree : MapLinks(i, j)

PathOf == [s \in LinkedTours |-> IF system = "BiAstar" THEN BiPath(s) ELSE AnaPath(s)]

Next ==
  /\ \/ system = "BiAstar" /\ BiNext
     \/ system = "AnaStar" /\ AnaNext
     \/ SolveTurn(PathOf)
     \/ SolveAtEnd(PathOf)
     \/ EndSearch
  /\ UNCHANGED system

Spec == Init /\ [][Next]_vars

-----------------------------------------------------------------------------
(* Properties                                                               *)

\* The state has the types of BaselineCore, and the solver is only asked between passes.
TypeOK ==
  /\ entry \in [Tree \X Tree -> Nat \cup {None}] /\ updated \in BOOLEAN
  /\ \A q \in Tree \X Tree : entry[q] = entry[<<q[2], q[1]>>] /\ joint[q] = joint[<<q[2], q[1]>>]
  /\ unexplored \subseteq Layer /\ busy \in Layer \cup {None}
  /\ phase # "search" => busy = None
  /\ busy # None => busy \in unexplored

\* The flag is_connected_graph, on which the solver is asked, says that the entries
\* found so far connect all destinations: the solver has a tour of finite length.
AskedWhenLinked == sets.connected <=> LinkedTours # {}

\* Each finite entry is backed by the tree of its pair, as that tree is now: a road
\* walk between the two destinations, no longer than the entry; no walk is shorter
\* than the shortest.
Leg(i, j) == IF system = "BiAstar" THEN BiLeg(i, j) ELSE AnaLeg(i, j)
EntriesAreWalks ==
  \A p \in Pair : entry[p] # None =>
    LET leg == Leg(p[1], p[2])
    IN  /\ leg # Panic /\ IsWalk(map.weight, leg)
        /\ leg[1] = Stop[p[1]] /\ Last(leg) = Stop[p[2]]
        /\ Distance[<<Stop[p[1]], Stop[p[2]]>>] <= Length(map.weight, leg)
        /\ Length(map.weight, leg) <= entry[p]

\* The answer is a walk on the network from the source to the target that passes the
\* destinations in the order of its tour.
RouteIsWalk ==
  best # None =>
    LET path == best.path
    IN  /\ path # Panic /\ IsWalk(map.weight, path)
        /\ path[1] = Stop[0] /\ Last(path) = Stop[Goal]
        /\ \E at \in [DOMAIN best.tour -> DOMAIN path] :
             \A k \in DOMAIN at : /\ path[at[k]] = Stop[best.tour[k]]
                                  /\ k > 1 => at[k - 1] < at[k]

\* The path is put together from the trees of now, the entries are as old as the ways
\* they were found with: when an answer is kept its path is still no longer than its
\* tour by the entries.  (The cost may be that of another tour.)
RouteWithinTour ==
  [][best' # best => Length(map.weight, best'.path) <= Length(entry', best'.tour)]_vars

\* When every pair was explored BiAstar answers if and only if the network connects
\* the destinations; otherwise make_result reports them as disconnected.
AnswersIffConnected ==
  system = "BiAstar" /\ phase = "done" /\ unexplored = {} =>
    (best # None <=> \A i, j \in Tree : MapLinks(i, j))

\* When nothing is open in a tree of ANA*, its entry is the shortest distance.
ExhaustedIsShortest ==
  system = "AnaStar" =>
    \A k \in Layer : trees[k].open = {} =>
      entry[Ids(k)] = Distance[<<StartOf(k), GoalOf(k)>>]

=============================================================================
