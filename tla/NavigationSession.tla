------------------------- MODULE NavigationSession -------------------------
(***************************************************************************)
(* The online navigation session: NavigationSession (session.rs), the      *)
(* BestCostGate it publishes through (gate.rs) and the IMOMD plugin it     *)
(* drives (imomd_plugin.rs).                                               *)
(*                                                                         *)
(* One call of handle() runs at a time (&mut self), but it is not one      *)
(* step: a race call starts a greedy and an exact thread that answer over  *)
(* a channel made for this race, while the calling thread alternates       *)
(* slices of IMOMD search with draining that channel, then waits a bounded *)
(* time for stragglers.  A thread that answers after the wait finds the    *)
(* receiver gone; it may still be running when later calls race again.     *)
(*                                                                         *)
(* A path is abstracted to a plan: its cost, the trip it serves and the    *)
(* graph snapshot its weights were read from.                              *)
(***************************************************************************)
EXTENDS Naturals, Sequences, FiniteSets

CONSTANTS
  Node,           \* node ids a client may name
  Graph,          \* road graph snapshots
  NodesOf,        \* NodesOf[g]: the nodes of g (ids, and with them coordinates)
  OptCost,        \* OptCost[g][t]: least cost of trip t on g, above MaxCost if none
  MaxCost,        \* bound: largest finite cost
  Eps,            \* COST_EPS of the gate
  ExactMax,       \* EXACT_MAX_OBJECTIVES, above which the exact lane is silent
  Requests,       \* bound: the trips clients ask for
  Positions,      \* bound: the nodes at which the vehicle is reported
  MaxRevision,    \* bound: number of set_graph calls
  MaxThreads,     \* bound: lane threads alive at once
  None            \* Option::None

Trip == [source : Node, objectives : SUBSET Node, target : Node]
Cost == 0..MaxCost
Plan == [cost : Cost, trip : Trip, graph : Graph]
Planner == [graph : Graph, trip : Trip, best : Cost \cup {None}]
Algorithm == {"greedy", "exact"}
Lane == [algorithm : Algorithm, graph : Graph, trip : Trip, open : BOOLEAN]
Message == [algorithm : Algorithm, plan : Plan]
Phase == {"idle", "race", "collect", "slice", "marked"}

ASSUME DataAssumption ==
  /\ MaxCost \in Nat /\ Eps \in Nat /\ ExactMax \in Nat
  /\ MaxRevision \in Nat /\ MaxThreads \in Nat
  /\ Requests \subseteq Trip /\ Positions \subseteq Node
  /\ OptCost \in [Graph -> [Trip -> Nat]]

ASSUME NoneAssumption ==
  /\ None \notin Graph /\ None \notin Nat
  /\ None \notin Trip /\ None \notin Plan /\ None \notin Planner

VARIABLES
  graph,          \* session.graph
  graphRevision,  \* session.graph_revision
  appliedRevision,\* session.applied_revision
  destinations,   \* session.destinations (ego_node is always its source)
  gate,           \* session.gate.best_cost
  best,           \* session.best
  pluginGraph,    \* plugin.graph
  planner,        \* plugin.inner: the graph and trip it searches, its best cost
  phase,          \* where the running handle() call stands
  lanes,          \* greedy and exact threads that have not returned
  channel,        \* the mpsc queue of the running race
  answer,         \* last plan among the updates of the running or last call
  leastOffer,     \* history: least cost offered to the gate since it was cleared
  exactOffered    \* history: whether the exact lane's plan was among those

sessionVars == <<graph, graphRevision, appliedRevision, destinations>>
gateVars == <<gate, best, answer, leastOffer, exactOffered>>
raceVars == <<phase, lanes, channel>>
pluginVars == <<pluginGraph, planner>>
vars == <<sessionVars, gateVars, raceVars, pluginVars>>

-----------------------------------------------------------------------------
(* Data                                                                     *)

Terminals(t) == {t.source, t.target} \cup t.objectives

\* ImomdRrtStar::new refuses unknown and repeated destinations.
ValidTrip(g, t) ==
  /\ Terminals(t) \subseteq NodesOf[g]
  /\ t.source # t.target
  /\ t.source \notin t.objectives /\ t.target \notin t.objectives

\* A fresh planner has no route yet.
NewPlanner(g, t) == [graph |-> g, trip |-> t, best |-> None]

\* Faulty variant: an unreachable tour is answered with its infinite cost.
LaneCostsInfinite(l) == {OptCost[l.graph][l.trip]}

\* The costs a lane can answer with; no answer when the set is empty.
LaneCosts(l) ==
  {c \in Cost :
     /\ c >= OptCost[l.graph][l.trip]
     /\ l.algorithm = "exact" =>
          /\ c = OptCost[l.graph][l.trip]
          /\ Cardinality(l.trip.objectives) <= ExactMax}

\* Faulty variant: a route may leave out an objective and cost less than a tour.
SearchCostsPartial(p) == {c \in Cost : p.best # None => c <= p.best}

\* The best costs a search step can leave: never above the present one.
SearchCosts(p) ==
  {c \in Cost : c >= OptCost[p.graph][p.trip] /\ (p.best # None => c <= p.best)}

PlanOf(p) == [cost |-> p.best, trip |-> p.trip, graph |-> p.graph]

\* session.best(): the cached best, else the plugin's.
ReportedBest ==
  IF best # None THEN best
  ELSE IF planner # None /\ planner.best # None THEN PlanOf(planner)
  ELSE None

-----------------------------------------------------------------------------
(* The gate                                                                 *)

\* Faulty variants: a tolerance in the wrong direction, any other cost admitted.
AdmitsWithinEps(c) == gate = None \/ c <= gate + Eps
AdmitsOther(c) == gate = None \/ c # gate

Admits(c) == gate = None \/ c + Eps < gate

\* Faulty variants: admission without note_best, publication of what was refused.
OfferWithoutNote(plan, exact) ==
  /\ IF Admits(plan.cost) THEN gate' = plan.cost /\ answer' = plan
                          ELSE UNCHANGED <<gate, answer>>
  /\ UNCHANGED <<best, leastOffer, exactOffered>>
OfferPublishesAll(plan, exact) ==
  /\ answer' = plan
  /\ IF Admits(plan.cost) THEN gate' = plan.cost /\ best' = plan
                          ELSE UNCHANGED <<gate, best>>
  /\ UNCHANGED <<leastOffer, exactOffered>>

\* gate.admit, and note_best and publication when it admits.
Offer(plan, exact) ==
  /\ IF Admits(plan.cost)
       THEN gate' = plan.cost /\ best' = plan /\ answer' = plan
       ELSE UNCHANGED <<gate, best, answer>>
  /\ leastOffer' = IF leastOffer = None \/ plan.cost < leastOffer
                     THEN plan.cost ELSE leastOffer
  /\ exactOffered' = (exactOffered \/ exact)

\* gate.reset and gate.invalidate_for_traffic.
ClearGate == gate' = None /\ leastOffer' = None /\ exactOffered' = FALSE

-----------------------------------------------------------------------------
(* Race lanes                                                               *)

StartRace(t) ==
  /\ Cardinality(lanes) + 2 <= MaxThreads
  /\ phase' = "race"
  /\ channel' = <<>>
  /\ lanes' = lanes \cup
       {[algorithm |-> a, graph |-> graph, trip |-> t, open |-> TRUE] : a \in Algorithm}

\* A lane thread returns; without a receiver its answer is lost.
LaneFinishes(l) ==
  /\ lanes' = lanes \ {l}
  /\ IF l.open /\ LaneCosts(l) # {}
       THEN \E c \in LaneCosts(l) :
              channel' = Append(channel,
                [algorithm |-> l.algorithm,
                 plan |-> [cost |-> c, trip |-> l.trip, graph |-> l.graph]])
       ELSE UNCHANGED channel
  /\ UNCHANGED <<sessionVars, gateVars, pluginVars, phase>>

\* plugin.continue_search inside a race or a ContinueSearch call, as far as its
\* next update: the planner keeps or improves its best and offers it.
PlannerStep ==
  /\ phase \in {"race", "slice", "marked"}
  /\ \E c \in SearchCosts(planner) :
       /\ planner' = [planner EXCEPT !.best = c]
       /\ Offer([cost |-> c, trip |-> planner.trip, graph |-> planner.graph], FALSE)
  /\ UNCHANGED <<sessionVars, raceVars, pluginGraph>>

\* rx.try_recv / rx.recv_timeout returns an update.
DrainLane ==
  /\ phase \in {"race", "collect"}
  /\ channel # <<>>
  /\ Offer(Head(channel).plan, Head(channel).algorithm = "exact")
  /\ channel' = Tail(channel)
  /\ UNCHANGED <<sessionVars, pluginVars, phase, lanes>>

\* The budget is spent, or the planner says it is finished.
RaceDeadline ==
  /\ phase = "race"
  /\ phase' = "collect"
  /\ UNCHANGED <<sessionVars, gateVars, pluginVars, lanes, channel>>

\* Faulty variant: one channel serves every race.
RaceReturnsKeepingReceiver ==
  /\ phase = "collect" /\ channel = <<>>
  /\ phase' = "idle"
  /\ UNCHANGED <<sessionVars, gateVars, pluginVars, channel, lanes>>

\* All senders are gone or the 500 ms are over, and the queue is found empty:
\* the receiver is dropped and handle() returns.
RaceReturns ==
  /\ phase = "collect"
  /\ channel = <<>>
  /\ phase' = "idle"
  /\ lanes' = {[l EXCEPT !.open = FALSE] : l \in lanes}
  /\ UNCHANGED <<sessionVars, gateVars, pluginVars, channel>>

-----------------------------------------------------------------------------
(* Calls                                                                    *)

Init ==
  /\ graph = None /\ graphRevision = 0 /\ appliedRevision = 0
  /\ destinations = None
  /\ gate = None /\ best = None /\ answer = None
  /\ leastOffer = None /\ exactOffered = FALSE
  /\ pluginGraph = None /\ planner = None
  /\ phase = "idle" /\ lanes = {} /\ channel = <<>>

\* Faulty variant: a snapshot replaced without a new revision.
SetGraphSameRevision(g) ==
  /\ phase = "idle"
  /\ graph' = g
  /\ graphRevision' = IF graph = None THEN 1 ELSE graphRevision
  /\ UNCHANGED <<appliedRevision, destinations, gateVars, raceVars, pluginVars>>

SetGraph(g) ==
  /\ phase = "idle" /\ graphRevision < MaxRevision
  /\ graph' = g
  /\ graphRevision' = graphRevision + 1
  /\ UNCHANGED <<appliedRevision, destinations, gateVars, raceVars, pluginVars>>

\* plugin.reset replaces its graph before it knows that the planner accepts t.
DestinationsSet(t) ==
  /\ phase = "idle" /\ graph # None
  /\ destinations' = t
  /\ ClearGate
  /\ best' = None /\ answer' = None
  /\ pluginGraph' = graph
  /\ IF ValidTrip(graph, t)
       THEN /\ planner' = NewPlanner(graph, t)
            /\ appliedRevision' = graphRevision
            /\ StartRace(t)
       ELSE UNCHANGED <<planner, appliedRevision, raceVars>>
  /\ UNCHANGED <<graph, graphRevision>>

\* update_graph keeps what it can of the trees and may know a route at once;
\* it refuses a graph with other nodes.  session.best is not cleared.
ApplyTraffic ==
  /\ graph # None /\ destinations # None
  /\ ClearGate
  /\ answer' = None
  /\ IF planner # None /\ NodesOf[graph] = NodesOf[planner.graph]
       THEN /\ \E b \in SearchCosts(NewPlanner(graph, planner.trip)) \cup {None} :
                 planner' = [planner EXCEPT !.graph = graph, !.best = b]
            /\ pluginGraph' = graph
            /\ appliedRevision' = graphRevision
            /\ StartRace(destinations)
       ELSE UNCHANGED <<pluginVars, appliedRevision, raceVars>>
  /\ UNCHANGED <<graph, graphRevision, destinations, best>>

TrafficChanged == phase = "idle" /\ ApplyTraffic

\* The plugin reseeds on its own graph, the lanes run on the session's.
EgoMoved(n) ==
  /\ phase = "idle" /\ destinations # None
  /\ LET t == [destinations EXCEPT !.source = n, !.objectives = @ \ {n}]
     IN  /\ destinations' = t
         /\ IF ValidTrip(pluginGraph, t)
              THEN planner' = NewPlanner(pluginGraph, t) /\ StartRace(t)
              ELSE UNCHANGED <<planner, raceVars>>
  /\ ClearGate
  /\ best' = None /\ answer' = None
  /\ UNCHANGED <<graph, graphRevision, appliedRevision, pluginGraph>>

\* Faulty variant: the revisions are not compared before searching on.
ContinueSearchUnchecked ==
  /\ phase = "idle" /\ planner # None
  /\ phase' = "slice" /\ answer' = None
  /\ UNCHANGED <<sessionVars, gate, best, leastOffer, exactOffered,
                 pluginVars, lanes, channel>>

ContinueSearch ==
  /\ phase = "idle"
  /\ \/ appliedRevision # graphRevision /\ ApplyTraffic
     \/ /\ appliedRevision = graphRevision /\ planner # None
        /\ phase' = "slice"
        /\ answer' = None
        /\ UNCHANGED <<sessionVars, gate, best, leastOffer, exactOffered,
                       pluginVars, lanes, channel>>

\* A planner without a best reports trees that met, in an update that has no
\* path.  The gate lets it through (in a race it changes nothing).
PlannerMarker ==
  /\ phase = "slice" /\ planner.best = None
  /\ phase' = "marked"
  /\ UNCHANGED <<sessionVars, gateVars, pluginVars, lanes, channel>>

\* The slice ends.  A planner with a best has offered it; when no update was
\* admitted the session repeats its own best as a heartbeat.
SliceReturns ==
  /\ phase \in {"slice", "marked"}
  /\ phase' = "idle"
  /\ IF planner.best # None /\ Admits(planner.best)
       THEN Offer(PlanOf(planner), FALSE)
       ELSE /\ answer' = IF answer = None /\ phase = "slice" THEN best ELSE answer
            /\ UNCHANGED <<gate, best, leastOffer, exactOffered>>
  /\ UNCHANGED <<sessionVars, pluginVars, lanes, channel>>

-----------------------------------------------------------------------------
Next ==
  \/ \E g \in Graph : SetGraph(g)
  \/ \E t \in Requests : DestinationsSet(t)
  \/ TrafficChanged
  \/ \E n \in Positions : EgoMoved(n)
  \/ ContinueSearch
  \/ PlannerMarker
  \/ SliceReturns
  \/ PlannerStep
  \/ DrainLane
  \/ RaceDeadline
  \/ RaceReturns
  \/ \E l \in lanes : LaneFinishes(l)

Spec == Init /\ [][Next]_vars

\* Deadlines pass, threads run to their end, and a client that keeps asking for
\* more search gets its turn again and again (the anytime loop of the demo).
Fairness ==
  /\ WF_vars(RaceDeadline) /\ WF_vars(DrainLane) /\ WF_vars(RaceReturns)
  /\ WF_vars(SliceReturns)
  /\ WF_vars(\E l \in lanes : LaneFinishes(l))
  /\ SF_vars(ContinueSearch)

FairSpec == Spec /\ Fairness

-----------------------------------------------------------------------------
(* Properties                                                               *)

\* Types of the session's, gate's, plugin's and race's state; a session that has
\* destinations has a graph, and a running call has a planner to search with.
TypeOK ==
  /\ graph \in Graph \cup {None}
  /\ graphRevision \in Nat /\ appliedRevision \in 0..graphRevision
  /\ destinations \in Trip \cup {None}
  /\ gate \in Cost \cup {None} /\ leastOffer \in Cost \cup {None}
  /\ best \in Plan \cup {None} /\ answer \in Plan \cup {None}
  /\ exactOffered \in BOOLEAN
  /\ pluginGraph \in Graph \cup {None}
  /\ planner \in Planner \cup {None}
  /\ phase \in Phase
  /\ lanes \subseteq Lane
  /\ channel \in Seq(Message)
  /\ destinations # None => graph # None /\ pluginGraph # None
  /\ phase # "idle" => planner # None /\ destinations # None

\* The gate's cost is the cost of the plan that is shown: whatever was admitted
\* was also noted as best, and the two are cleared in step (gate.admit next to
\* note_best in five places of session.rs).
GateTracksBest == gate # None => best # None /\ best.cost = gate

\* Rejecting costs within Eps of the present one never adds up: the gate stays
\* within Eps of the least cost offered since it was cleared.
NoDrift ==
  gate # None => leastOffer # None /\ leastOffer <= gate /\ gate <= leastOffer + Eps

\* Comparing two revision numbers is a sound staleness test: when they agree,
\* the planner searches the session's graph, whatever failed or raced before.
RevisionTellsGraph ==
  appliedRevision = graphRevision /\ planner # None =>
    planner.graph = graph /\ pluginGraph = graph

\* The session, its planner and its lanes all work on one graph and one trip.
InStep ==
  /\ appliedRevision = graphRevision
  /\ planner # None /\ planner.trip = destinations

\* A plan admitted since the gate was cleared serves the present trip on the
\* present graph: no thread of an older race reaches the screen.
AdmittedIsCurrent ==
  gate # None /\ InStep => best.trip = destinations /\ best.graph = graph

\* Once the exact lane has answered in time, what is shown is optimal up to Eps.
ExactLaneSettles ==
  gate # None /\ InStep /\ exactOffered =>
    /\ best.cost >= OptCost[graph][destinations]
    /\ best.cost <= OptCost[graph][destinations] + Eps

\* The last path of a call's updates, which clients show, is session.best().
AnswerIsReported == answer # None => answer = ReportedBest

\* A graph snapshot nobody announced, or one that only the lanes of EgoMoved
\* saw, reaches the planner; only failed calls can keep it out.
GraphReachesPlanner ==
  appliedRevision # graphRevision /\ planner # None ~>
    \/ appliedRevision = graphRevision
    \/ planner # None /\ NodesOf[graph] # NodesOf[planner.graph]

\* The session keeps the promises of PlanDisplay: races, stragglers, failing
\* calls and warm starts show a client nothing those promises exclude.
Display == INSTANCE PlanDisplay WITH
  Trips <- Trip,
  Plans <- Plan,
  trip <- destinations,
  served <- planner # None /\ planner.trip = destinations,
  shown <- best,
  trusted <- gate # None

ImplementsDisplay == Display!DisplaySpec

\* "Invalidate displayed best if its cost is stale under new weights"
\* (race design, TrafficChanged): once the planner has the new graph and no call
\* runs, no plan costed on an older graph is shown.
NoStalePlanShown ==
  phase = "idle" /\ appliedRevision = graphRevision /\ best # None => best.graph = graph

\* "Destinations change: no stale path from previous OD" (race design, test 4).
NoPlanOfOtherTrip ==
  phase = "idle" /\ ReportedBest # None => ReportedBest.trip = destinations

=============================================================================
