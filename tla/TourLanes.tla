------------------------------ MODULE TourLanes ------------------------------
(***************************************************************************)
(* The greedy and the exact lane of the race (navigation/tour.rs) on the   *)
(* snapshots of the traffic overlay: shortest paths between all terminals, *)
(* an order of the objectives, and the stitched route.                     *)
(* A trip is [source, objectives, target]; terminals are numbered from 1   *)
(* (0 in the code).                                                        *)
(***************************************************************************)
EXTENDS TrafficOverlay, Shortest

CONSTANTS
  Trip,                  \* the trips asked for
  ExactMaxObjectives     \* EXACT_MAX_OBJECTIVES

ASSUME TripAssumption == \A trip \in Trip :
  trip.source \in Nat /\ trip.objectives \in Seq(Nat) /\ trip.target \in Nat
ASSUME LimitAssumption == ExactMaxObjectives \in Nat
ASSUME AnswerAssumption == None \notin [path : Seq(Nat), order : Seq(Nat), cost : Nat]

\* Far stands for no way: no way over a network is as long, not even in a jam.
ASSUME FarAssumption == \A m \in Base : \A e \in Edges(m) : m.size * (10 * m.weight[e]) < Far

VARIABLES
  trip,        \* the trip the lanes ran last for on live
  answers      \* what they answered

vars == <<overlay, trip, answers>>

-----------------------------------------------------------------------------
\* Destinations::all_nodes
Terminals(tr) == <<tr.source>> \o tr.objectives \o <<tr.target>>

\* pairwise_dijkstra
Pairwise(m, stops) ==
  [p \in (DOMAIN stops) \X (DOMAIN stops) |-> DijkstraPath(m.size, m.weight, stops[p[1]], stops[p[2]])]

AllReached(legs) == \A p \in DOMAIN legs : legs[p] # NoPath

\* Faulty variant: the leg's first node is written again.
StitchTwice(paths) == FoldLeft(LAMBDA out, leg : out \o leg, <<>>, paths)

\* stitch_legs: a joint node is written once.
Stitch(paths) == FoldLeft(LAMBDA out, leg : IF out = <<>> THEN leg ELSE out \o Tail(leg), <<>>, paths)

OrderCost(legs, order) == Length([p \in DOMAIN legs |-> legs[p].cost], order)

\* materialize_tour
Tour(legs, order) ==
  [path |-> Stitch([k \in DOMAIN Legs(order) |-> legs[Legs(order)[k]].path]),
   order |-> order, cost |-> OrderCost(legs, order)]

\* solve_greedy_tour: the nearest objective left, of equals the first.
GreedyOrder(legs, n) ==
  LET nearest(at, left) == CHOOSE i \in left : \A j \in left \ {i} :
        \/ legs[<<at, i>>].cost < legs[<<at, j>>].cost
        \/ legs[<<at, i>>].cost = legs[<<at, j>>].cost /\ i < j
      order[k \in 1..(n - 1)] ==
        IF k = 1 THEN <<1>>
        ELSE LET o == order[k - 1]
             IN  Append(o, nearest(Last(o), (2..(n - 1)) \ ToSet(o)))
  IN  Append(order[n - 1], n)

\* solve_exact_tour: one of the cheapest orders; none for more objectives than the limit.
ExactOrders(legs, n) ==
  LET orders_ == {<<1>> \o p \o <<n>> : p \in SetToSeqs(2..(n - 1))}
  IN  {o \in orders_ : \A q \in orders_ : OrderCost(legs, o) <= OrderCost(legs, q)}

-----------------------------------------------------------------------------
Init == OverlayInit /\ trip = None /\ answers = None

OverlayStep ==
  /\ OverlayNext
  /\ IF live' = live THEN UNCHANGED <<trip, answers>> ELSE trip' = None /\ answers' = None

\* Both lanes of one race on the snapshot, for any trip: nothing has looked at its nodes
\* before.  They keep nothing: one race per snapshot is enough to look at.
RunLanes(tr) ==
  /\ live # None /\ answers = None
  /\ LET n == Len(Terminals(tr))
         legs == Pairwise(live, Terminals(tr))
     IN  IF ~AllReached(legs) THEN answers' = [greedy |-> None, exact |-> None]
         ELSE \E o \in ExactOrders(legs, n) :
                answers' = [greedy |-> Tour(legs, GreedyOrder(legs, n)),
                            exact |-> IF n - 2 > ExactMaxObjectives THEN None ELSE Tour(legs, o)]
  /\ trip' = tr
  /\ UNCHANGED overlay

Next == OverlayStep \/ \E tr \in Trip : RunLanes(tr)

Spec == Init /\ [][Next]_vars

-----------------------------------------------------------------------------
(* Properties                                                               *)

Answers == IF answers = None THEN {} ELSE {answers.greedy, answers.exact} \ {None}

\* An answer is a route on the snapshot, open roads only, from the source to the
\* target past every objective in the order it states, as long as it says.  (The one
\* route over a node the snapshot does not know is that node alone.)
LanesAnswerWalks ==
  \A a \in Answers :
    /\ a.path # <<>> /\ Head(a.path) = trip.source /\ Last(a.path) = trip.target
    /\ ToSet(trip.objectives) \subseteq ToSet(a.path)
    /\ IsWalk(live.weight, a.path)
    /\ a.cost = Length(live.weight, a.path)
    /\ \E s \in SetToSeqs(2..(Len(trip.objectives) + 1)) :
         a.order = <<1>> \o s \o <<Len(trip.objectives) + 2>>

\* The lanes answer exactly when all terminals can reach each other (the exact one
\* within its limit), and then no tour past the objectives is shorter than the exact
\* one's, nor the exact one longer than the greedy one.  A terminal the snapshot does
\* not know reaches itself only, and a tour that stays there has no length.
ExactIsOptimum ==
  answers # None =>
    LET d == Distances(live.size, live.weight)
        stops == ToSet(Terminals(trip))
        known == stops \subseteq Nodes(live)
        reached == IF known THEN \A a, b \in stops : d[<<a, b>>] < Far ELSE stops = {trip.source}
        least == IF known THEN BestTour(d, trip.source, ToSet(trip.objectives), trip.target) ELSE 0
    IN  /\ (answers.greedy # None) = reached
        /\ (answers.exact # None) = (reached /\ Len(trip.objectives) <= ExactMaxObjectives)
        /\ answers.exact # None => answers.exact.cost = least
        /\ answers.exact # None => answers.exact.cost <= answers.greedy.cost

=============================================================================
