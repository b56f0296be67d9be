------------------------ MODULE MCNavigationSession ------------------------
(* Three junctions in a triangle: "clear" has unit roads, "jam" a slow road   *)
(* 1-3, "cut" leaves 3 unreachable, "other" is a map without junction 3.      *)
EXTENDS NavigationSession, FiniteSetsExt

MCNode == {1, 2, 3}
MCNodesOf(g) == IF g = "other" THEN {1, 2} ELSE MCNode
Infinite == MaxCost + 1

RoadCost(g, u, v) ==
  CASE u = v -> 0
    [] {u, v} = {1, 3} /\ g = "jam" -> 3
    [] 3 \in {u, v} /\ g \in {"cut", "other"} -> Infinite
    [] OTHER -> 1

LegCost(g, u, v) ==
  Min({Infinite, RoadCost(g, u, v)} \cup {RoadCost(g, u, w) + RoadCost(g, w, v) : w \in MCNode})

\* Least cost over the orders in which at most two objectives are visited.
TourCost(g, t) ==
  LET orders == {o \in [1..Cardinality(t.objectives) -> t.objectives] :
                   \A i, j \in DOMAIN o : i # j => o[i] # o[j]}
      stops(o) == <<t.source>> \o o \o <<t.target>>
      length(s) == MapThenSumSet(LAMBDA i : LegCost(g, s[i], s[i + 1]), 1..Len(s) - 1)
  IN  Min({Infinite} \cup {length(stops(o)) : o \in orders})

MCGraphNodes == [g \in Graph |-> MCNodesOf(g)]
MCOptCost == [g \in Graph |-> [t \in Trip |-> TourCost(g, t)]]

Go(s, o, t) == [source |-> s, objectives |-> o, target |-> t]
\* Races under changing traffic: every call succeeds.
RaceGraphs == {"clear", "jam", "cut"}
RaceRequests == {Go(1, {3}, 2)}
RacePositions == {3}

\* Failing calls: a repeated destination, an arrival, a map with other nodes.
FailGraphs == {"clear", "other"}
FailRequests == {Go(1, {3}, 2), Go(1, {}, 1)}
FailPositions == {2, 3}
OneRequest == {Go(1, {3}, 2)}
=============================================================================
