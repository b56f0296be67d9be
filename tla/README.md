# IMOMD-RRT* navigation: TLA+ models, checks and proofs

This directory is a verification project for the planner in `src/`: TLA+
modules translated from the code, TLC configurations that check them on small
instances, and TLAPS proofs of the properties of the session, the forest, the
demo server, the traffic overlay, the tour lanes, the relaxed TSP solver and the
baselines for all instances.
Paths below are relative to the repository (`src/rrt/planner.rs` is the crate's
file).

## 1. The system

A client sets destinations (a source, objectives to pass in any order, a target)
on a road graph, edits traffic, reports the vehicle's position and asks for more
search. The planner answers with a stream of ever better routes.

| component | state | operations | interacts with |
|---|---|---|---|
| `NavigationSession` (`navigation/session.rs`) | graph and its revision, applied revision, destinations, best plan | `set_graph`, `handle` of four events, `best` | owns the gate and the plugin; starts a greedy and an exact thread per race and reads their channel |
| `BestCostGate` (`navigation/gate.rs`) | cost of the plan last admitted | `admit`, `reset`, `invalidate_for_traffic` | called for every update of every lane |
| `ImomdPlugin` (`navigation/imomd_plugin.rs`) | graph, planner | `reset`, `on_graph_changed`, `on_ego_moved`, `continue_search` | drives one planner, may fail at each call |
| `ImomdRrtStar` (`rrt/planner.rs`, `rrt/tree.rs`) | one tree per destination, links between trees, a disjoint set, best route | `step`, `run_until`, `update_graph`, `resume_search` | asks the relaxed TSP solver for a tour |
| `EciGenSolver` (`rtsp/eci_gen.rs`) | sequence, its cost, a generation of sequences | `solve_rtsp` | asked by the planner and the baselines for a tour over their distance matrix |
| brute force (`rtsp/greedy.rs`) | - | `solve_brute_force` | pure, a reference solver |
| tour lanes (`navigation/tour.rs`, `shortest.rs`) | - | greedy and exact tours by Dijkstra | pure, run on threads |
| map loaders (`map/`, `TrafficGraph.from_edges`) | - | load | make the base network |
| `TrafficGraph` (`graph/traffic.rs`) | levels of roads | road, zone and clear orders, `materialize` | makes the snapshots the session is given |
| `BiAstar`, `AnaStar` (`baseline/`) | one tree per pair of destinations, a distance matrix, a disjoint set, best route | `find_shortest_path` | alternatives to the planner, same solver |
| demo server (`demo/app/main.py`) | the session, overlay, flags, last result | HTTP handlers, anytime and V2X loops | async handlers under one lock, worker threads under another |

What is hard:

* *concurrency*: two lane threads answer a running call in any order, or after it
  has given up; the demo's handlers and worker threads share one state;
* *failure*: a call may fail after it has changed part of the state
  (`plugin.reset`, `on_graph_changed`);
* *staleness*: costs, links and routes are cached while traffic changes the
  weights they came from; two revision numbers stand for "is the planner up to date";
* *hand-kept redundancy*: parents, children, costs and frontier of a tree; link
  table, meeting sets and disjoint set of the forest, updated in many places and
  in hash order;
* *costs kept beside what they are costs of*: a sequence and its cost in the solver,
  matrix entries and the trees they came from in the baselines, link distances and
  trees in the forest, weights and levels in the overlay;
* *timeouts*: a race lasts for its budget and then waits 500 ms for stragglers.

What makes the parts correct: the session shows only current plans, never a worse
one and never one the gate refused, and gets every snapshot to the planner; the
search keeps its redundant structures in agreement, publishes real routes, and
finds one when there is one. A snapshot carries the weights of the levels now in
force; the solver's sequence visits every destination over links that exist, for a
cost that can be had; the lanes' and the baselines' routes are walks on the network,
as long as they say, and the shortest where they claim to be.

## 2. Modules

| module | what it is |
|---|---|
| `NavigationSession` | session, gate, plugin and race lanes, one action per event and per step of a race |
| `PlanDisplay` | what the session promises a client about the plan it shows |
| `NavigationSessionProofs` | the theorems about `NavigationSession` |
| `MCNavigationSession` | graphs, trips and bounds for TLC |
| `DisjointSets` | which trees are connected, for planner and baselines |
| `RrtForest` | the forest search of one planner, and its update to a new graph |
| `AnytimeRoute` | what a planner promises about the cost of its best route |
| `RrtForestProofs` | the operators on one tree, walks, and the theorems about the whole forest and its route |
| `MCRrtForest` | a five-node road network with a corridor, free and jammed |
| `DemoServer` | the demo's handlers, loops and worker jobs around one session per map |
| `DemoServerProofs` | the theorems about `DemoServer` |
| `MCDemoServer` | two maps and two clients |
| `RoadMaps` | networks, and how OSM ways, node pairs and edge lists become one |
| `TrafficOverlay` | levels on the roads of a network, and the snapshots |
| `Shortest` | Dijkstra as `navigation/shortest.rs` runs it, and reference definitions of walks, distances and tours |
| `ShortestProofs` | walks and their lengths, the table of distances, Dijkstra's search, and the least tour |
| `TourLanes` | the greedy and the exact lane on the overlay's snapshots |
| `TourLanesProofs` | the theorems about the overlay, the loaders and the lanes' answers |
| `MCTourLanes` | a network of each loader, and six trips |
| `BruteForce` | the brute-force solver |
| `EciGen` | the relaxed TSP solver, a step per insertion, mutation and crossover |
| `EciGenProofs` | the theorems about the solver |
| `MCEciGen` | the distance matrices it is given |
| `BaselineCore` | matrix, solver turns and path assembly that the baselines share |
| `BiAstar`, `AnaStar` | the two searches over the trees of pairs |
| `Baselines` | one of the two, run to its end |
| `BaselinesProofs` | the theorems about the baselines |
| `MCBaselines` | three networks with three destinations, one with four |
| `DataLemmas` | induction over numbers and finite sets, recursive functions, folds, sums and disjoint sets, for the proofs |

`TourLanes` extends `TrafficOverlay` (which extends `RoadMaps`) and `Shortest`;
`EciGen` extends `BruteForce`; `Baselines` extends `BiAstar` and `AnaStar`, both on
`BaselineCore`, which shares `DisjointSets` with `RrtForest`. The proofs
are layered: `RrtForestProofs` and `ShortestProofs` extend `DataLemmas`;
`TourLanesProofs`, `BaselinesProofs` and `EciGenProofs` extend `ShortestProofs`.

Operators named `...WithoutNote`, `...Unchecked` and the like, each marked
"Faulty variant", are plausible bugs: replacing the definition after them by the
variant must make a checked property fail.

### NavigationSession

`handle` takes `&mut self`, so calls do not overlap, but a call is not one step.
`DestinationsSet`, `TrafficChanged`, `EgoMoved` and `ContinueSearch` model a
handler up to its first wait: all its assignments, in the order that matters when
one of its calls fails. A race then runs through `phase`: `race` (slices of search
alternate with draining the channel), `collect` (the wait for stragglers), `idle`.
`slice` and `marked` are a `ContinueSearch` call before and after it has let a
path-less marker through. `lanes` are the threads not yet returned; `open` says
whether their channel's receiver still exists. `LaneFinishes` sends only then.

A path is abstracted to a *plan*: cost, trip and the graph its weights came from.
`OptCost[g][t]` is a constant table of optimal costs; a lane may answer any cost
that is not below it, the exact lane only the optimum and only up to
`EXACT_MAX_OBJECTIVES`. A search step keeps or lowers the planner's best: that is
what `RrtForest` shows of the planner (`ImplementsAnytime`).
`leastOffer` and `exactOffered` are history variables, read by properties only.

### RrtForest

A step expands every tree once, in order. `SkipTree`, `Select`, `FollowCorridor`,
`ConnectNew`, the rewiring actions and `TreeExpanded` follow `expand_tree_layers`;
the recursion of `rewire_tree` is a stack, and the order in which it meets
neighbours and children is any order a hash map can give. `Meet` is
`update_connection_tree`, `Connect` is `connect_two_tree`; `EndStep` is the rest of
`step` (and the final solve of `run_until`). `UpdateGraph` is `update_graph` with
`retain_tree_on_graph` and `rebuild_connections`; it runs between steps, since the
planner belongs to its caller.

Assumptions: the graph is simple and has both directions of every road (all map
loaders and `materialize` insert both); a sample can fall next to any node, so any
expandable can be chosen; the sampling bias (`probability_matrix`, `is_done`) only
changes likelihoods. Pseudo mode is not modelled.

The solver appears as its `Answers`: a cost and a sequence. With `Refining` the cost is
that of one tour over finite links and the sequence is any other one, since shortcuts
edit the sequence after its cost was added up, and a generation may keep a sequence up to
a tenth dearer than the cost that goes with it (`rtsp/eci_gen.rs:154-158, 473-478,
559-562`). All shipped settings have `shortcut` on, so this is what the planner meets: a
published cost may be below the weight of its path as well as above it, although
`docs/verification.md:46` calls them equal. `EciGen` shows that there is more order in
the answers than that (`AnswerWithinTenth`, `CostIsPossible`); the forest's properties do
not use it. Without `Refining` (shortcuts, swaps and genetic phase off) cost and sequence
are of one tour: `forest_cost` uses this to show that the trees alone make them part.
`MaxTour` is at least 2n-2 trees where a result depends on it, what best insertion can
produce for n trees.

### DemoServer

Between two awaits a task of the event loop is atomic, and `state_lock` is never
held across an await: a handler up to its `asyncio.to_thread` is one action
(`EditTraffic`, `RequestDestinations`, `SwitchMap`, ...). The job it queues runs on
a worker thread under `planner_lock` (`Begin`: lock, flags read, snapshot made;
`Enter`: inside the session call, which releases the GIL and borrows the session;
`Return`: outcome published). `demos` holds the `DemoState` objects and `current`
is what the global name `state` stands for; jobs evaluate that name only when they
run (`Target`). `SnapEgo` is the pose endpoint, which touches the session without
the planner lock. The overlay is the number of edits made to it and a snapshot the
number it was made with; the session is a coarse `NavigationSession`, a call at a
time, with every outcome its calls have there. A trip the planner refuses (an unknown
node, a stop named twice) stays the session's, and the lanes of the next traffic change
answer it if they can (`Answerable`): repeated stops do not hinder them, and a node to
itself they do not look up. `auto_v2x` and `auto_anytime` are
left out: clients toggle them at any time, so a loop's round may happen at any
time; a V2X tick is an `EditTraffic`. `overlooked` is a history variable: it is
set by the two kinds of edit the server keeps no record of (see 6).

### RoadMaps, TrafficOverlay, TourLanes

A network is a size and a weight for each directed edge. `WayNetwork`,
`PairNetwork` and `ListNetwork` are the loaders' rules for what becomes a node and
an edge (filters, unknown nodes, repeated nodes, both directions); lengths are given
with the source. `TrafficOverlay` has one action per method of `TrafficGraph` with
its refusals, the stored levels (free ones are not stored), and the snapshot made
last. Weights of snapshots are counted in halves, since a slow road takes 2.5 times
as long. `wanted` and `priced` are history: the level of the last order about each
road, now and when the snapshot was made. `RunLanes` runs both lanes of a race on
that snapshot. `Shortest` runs Dijkstra node by node, with the heap's order; a heap
entry that is outdated is passed over in the code and absent in the model. From a node to
itself `DijkstraPath` answers without a search, as the code does, even for a node the
snapshot does not have; the lanes check no trip, so such trips are among those run.
`Distances` and `BestTour` are the definitions the answers are compared with.

### EciGen and BruteForce

A state is the solver's object between turns of its loops: one `Insert` is one turn
of `solve_best_insertion`, `Mutate` and `Breed` are turns that keep a sequence (one
that keeps nothing changes nothing), `EndGeneration` takes over cost and sequence.
Random choices, the order of a hash set and the choice among equally short paths are
left open. `Added` and `Removed` are the legs an insertion makes and breaks up;
`Inserted` is what it does to the sequence: the code computes the cost in
`best_insertion` and edits the sequence in four other functions. The hash table of
sequences is the sequences kept, so that two sequences never collide; parents are
drawn by fitness in the code, and are any two here. The problems given are those the
planners give: symmetric matrices that connect all destinations.
`BruteForce` is an operator, compared with `BestTour` on each of these matrices.

### Baselines

`BiTake` / `AnaTake` choose a tree, `BiExpand`, `AnaExpand` take a node from a queue,
`BiMeet`, `BiGiveUp`, `AnaEndPass` end the expansion, then the solver is asked
(`SolveTurn`), and at the end again, ten times in the code (`SolveAtEnd`). The loop
may end at any turn (`EndSearch`: iterations or time over). The
cost and parent maps of a tree are functions on the nodes, `None` where the map has no
entry. The open queue of BiA* is a set of keys with nodes, that of ANA* a set of nodes: the heap may hold a node twice,
but the newer entry leads and the older one improves nothing. Lengths are whole
numbers, so the 0.1 m by which an entry must improve is never part of one; nodes lie
on a grid and |x| + |y| stands for the great circle, in lengths and heuristic alike.
The solver appears as its `Answers`, as in `RrtForest`: the length of one tour over finite
entries with, when `Refining`, another tour as the sequence (what `EciGen` shows of it:
`TourComplete`, `CostIsPossible`, `AnswerMoves`; without `Refining` also
`InsertionCostIsLength`). A panic is the empty path. ANA* is given
networks that connect the destinations: on others it connects pairs without an entry
and the solver's insertion would not end.

## 3. Runs

| run | question | instance |
|---|---|---|
| `session_races` | do the gate, the shown plan and the lanes agree in every interleaving? | 2 graphs, 2 trips, stragglers of an earlier race alive |
| `session_calls` | what survives calls that fail half way? does every snapshot get through? | adds an unknown node and a graph with other nodes; one trip, 2 revisions, `FairSpec` |
| `session_stale_traffic` | is a plan of former weights ever shown? | expected to fail, see 6 |
| `session_stale_trip` | is a route of a former trip ever reported? | expected to fail, see 6 |
| `forest_search` | do trees, links, classes and route agree? is the cost anytime, and a route found? | 3 destinations, 2 graphs, 1 update at any step, `Refining`, `FairSpec` |
| `demo_server` | do the server's flags, destinations and routes agree with its session, whatever trips the planner refuses? | 2 clients, 2 maps, 2 edits per map, 1 map switch |
| `demo_lost_edit` | does every edit reach the planner? | expected to fail, see 6 |
| `forest_cost` | is a cost the sum of its path's weights? | without `Refining`; expected to fail, see 6 |
| `overlay_tours` | does a snapshot carry the levels in force, and do the lanes answer the routes they claim on it? | 3 networks, 2 orders, zones of 2 nodes, 6 trips |
| `solver` | do insertion, swaps, shortcuts and crossovers keep a complete sequence and a possible cost? | all connected matrices of 4 over 2 lengths, all hub matrices of 5 and 6 others, settings varied |
| `baselines` | do entries, disjoint sets, trees and route agree? | 3 destinations, 3 networks, `Refining` |
| `baseline_pairs` | the same with 4 destinations | expected to fail, see 6 |

Bounds. `MaxThreads` 4 (`session_races`) lets both threads of one race outlive it
while the next race runs; with 3 (`session_calls` and the two failing runs) one
straggler is left. `MaxRevision` 2 lets a snapshot be replaced once, before, after or without the
call that announces it; `MaxCost` leaves costs equal to, within
`Eps` of, and beyond the optimum. In the forest five nodes give a corridor of a
degree-two node next to a longer direct road, and a cycle behind it. The other graph
closes the corridor, which cuts a tree, and slows a road of the cycle, so that rewiring,
cutting and relinking all happen. `MaxUpdates` 1 is enough, because an update may
fall between any two steps and rebuilds everything but the trees. `MaxEdits` 2 is
what a lost edit needs (one being planned for, one made meanwhile); `MaxDemos` 2
is one switch, and two clients let a job requested on one map run on the next. A vehicle
at node 2 is halfway on the larger map and at the target of the smaller one, whose planner
then refuses the trip; the trip that clients ask for leads off the smaller map.
The clients are symmetric, and no liveness is checked there.

Two orders (`MaxOrders`) are what overlap, cancellation and a snapshot between them
need; zones of two nodes share roads with each other. The networks have a self edge,
an unknown node, a loop that is left out, a road listed twice and a node without a
road. The trips have none, one, two and three objectives, one of them named twice, two
trips name a node that no network has, and `ExactMaxObjectives` 2 is exceeded by one. Matrices of four have every shape a
connected one can have, among them all without a direct way; those of five let both
swaps fit. `MutationIter` 3, `Population` 2 and two generations are what two parents,
a refused sequence and a generation without improvement need. Three destinations are
all the baselines can serve (see 6); their networks have two ways between a pair, ways
that meet again before the goal, and a destination out of reach. `MaxTour` 4 is a tour
that visits one of three twice, 6 leaves room for the revisits of four.

Fairness. `NavigationSession`: deadlines pass and threads run to their end (weak
fairness of the steps of a running call and of `LaneFinishes`; Dijkstra and the
tour enumeration terminate). A client keeps asking for more search: strong
fairness of `ContinueSearch`, because other calls interrupt it; the demo's anytime
loop does this. `RrtForest`: weak fairness of `Step`, because a slice calls `step`
until its budget is over and is followed by the next. The solver, the lanes and the
baselines are loops of one thread that are over when they are done: no fairness, and
deadlock is not checked there, since a finished computation stops.

## 4. Properties

Session: `GateTracksBest`, `NoDrift` (refused small improvements do not add up),
`RevisionTellsGraph` (equal revisions do mean equal graphs), `AdmittedIsCurrent`
(no straggler of an older race is shown), `ExactLaneSettles`, `AnswerIsReported`,
`GraphReachesPlanner` (which a call that never returns would break as well), and `ImplementsDisplay`, the refinement of
`PlanDisplay`: a shown plan is replaced only by a better one for the same trip
unless the display was restarted or distrusted first.

Forest: `TreesSound` (parents, children and costs tell one tree of the present
graph), `FrontierExact`, `ClassesAreComponents`, `LinksAreWays`, `RouteIsWalk` (the path
passes all objectives in the order published with it), `RouteWithinOrder` (an action
property: a path just published is no longer than its order by the links, whatever cost
goes with it), `RouteFound`, and `ImplementsAnytime`, the refinement of `AnytimeRoute`: the cost
never rises while the graph stays and is never below the optimum, which `Optimum`
computes from the definition.

Demo server: `EditsAreAnnounced` (a planner that lacks an edit has it coming,
unless the edit is one of the two kinds in `overlooked`), `CopiesAgree` (the
server's destinations are the session's whenever no job runs, whatever failed),
`RouteIsOnMap` (a map switched to has a route, and late evaluation of `state` never shows a
route of another map, nor does a trip the planner refused; a route from a node to itself
is the exception).

Overlay and lanes: `LevelsAreLastOrders`, `SnapshotIsPriced` (open roads, both ways,
at the weight of their level, none from a node to itself), `LanesAnswerWalks`,
`ExactIsOptimum` (answers exactly when the terminals reach each other, an unknown one
itself only; no tour is shorter).

Solver: `TourComplete`, `InsertionCostIsLength`, `CostIsPossible`,
`AnswerWithinTenth`, `AnswerMoves` (no leg from a stop to itself), `BruteForceIsOptimum`.

Baselines: `AskedWhenLinked` (the disjoint sets say "connected" exactly when there is
a tour over finite entries), `EntriesAreWalks` (an entry is backed by its tree as the
tree is now), `RouteIsWalk`, `RouteWithinTour` (a path just kept is no longer than its
tour by the entries), `AnswersIffConnected`, `ExhaustedIsShortest`.

## 5. Proofs

Every theorem holds for all values of the constants that the named assumptions
admit, and TLC evaluates those assumptions on every run.

`NavigationSessionProofs`: `TypeOK`, `GateTracksBest`, `NoDrift`,
`RevisionTellsGraph`, `AdmittedIsCurrent`, `AnswerIsReported`, `ExactLaneSettles` and
`ImplementsDisplay`, from `DataAssumption` and `NoneAssumption`. The properties alone
are not inductive: whether an admitted plan is current depends on what may still
arrive. `SessionInv` adds that every open lane and every queued message serves the
trip and graph of the running race, that no lane is open while the session is idle,
what the planner's best may be worth on its graph, and what the phase says about
planner and answer. Five actions use `Offer`, which has lemmas of its own.

`DemoServerProofs`: `TypeOK`, `EditsAreAnnounced`, `CopiesAgree` and `RouteIsOnMap`
(with its part `ShownMapHasRoute`), from `MapAssumption`, `NoneAssumption` and `BoundAssumption`
(there is room for the first map). `ServerInv` says what the properties leave open:
at most one task works (the planner lock), on a demo that exists; what a call under
way may assume of its demo, whose flags were read under the lock and whose session
it changes outside the state lock (`CallSound`); that a demo a map switch has made
is not yet the current one, belongs to one task only, and has a route once it is
planned (`SwitchInv`); that a planner serves a trip it accepted, while the plans
shown may be for any trip the lanes answer; and that a demo nobody works on agrees with its session
(`AtRest`).

`TourLanesProofs`: `OverlayTypeOK`, `LevelsAreLastOrders`, `SnapshotIsPriced`,
`LanesAnswerWalks` and `ExactIsOptimum`, from `BaseAssumption` (a base network has both
directions of every road, at one weight), `BoundsAssumption`, `TripAssumption` and
`LimitAssumption` (the trips and the limit of the exact lane are numbers),
`AnswerAssumption` (`None` is no answer) and, for `ExactIsOptimum` alone, `FarAssumption`:
no way is as long as `Far`, which in the reference stands for "no way". The first three
are inductive together once
`OverlayInv` adds that the keys in use are pairs of nodes (only then does their order,
which names the two directions of a road alike, mean anything) and that the levels a
snapshot was priced with cover every road. `LoadersMakeTwoWay` discharges the
assumption: whatever ways, pairs or edges a file lists, `WayNetwork`, `PairNetwork`
and `ListNetwork` make such a network.

The lanes' answers rest on `ShortestProofs`. `Leads` says of a list of nodes that it leads
from one to another over edges whose partial sums add up to a length. `IsSearch` is the
invariant of Dijkstra's loop: what has a cost has a way of that cost, by its parent; a
settled node has relaxed its edges; open nodes are no nearer than settled ones (weights
are not negative). `SearchFacts` shows that as many turns as there are nodes settle all
that is needed, `PathBack` that the parents followed back tell the way, and
`DijkstraIsShortest` that the cost found is the entry of the table `Distances` and no walk
is shorter. `StitchLeads` joins the legs of an order: no joint is written twice and none
is missing, so a lane's path is a walk of its cost past every stop (`TourLeads`,
`LaneAnswers`); a trip with an unknown terminal is answered only if it never leaves it, and
then for nothing (`UnknownTerminals`, `StaysPut`); `GreedyIsOrder` shows that always going to the nearest left
lists every objective once. For `ExactIsOptimum`:

1. the terminals reach each other exactly if the table has less than `Far` for them
   (`WaysAreShort`: each node on a way is nearer than the next by an edge at most, and
   there are no more than `size` nodes);
2. `BestTour` satisfies its recursion over sets of objectives (`BestTourIsBest`), and no
   listing of the objectives is shorter than it says (`BestIsLeast`): one more stop never
   makes a tour shorter, since distances obey the triangle inequality (`BestByWay`);
3. some listing is as short (`BestIsHad`), also when a trip names an objective twice or
   names its source among them: the second visit costs nothing;
4. the exact lane takes a cheapest of all orders, so its cost is that value
   (`ExactIsBest`), and the greedy order is one of those it compared with.

`RrtForestProofs`: `TypeOK`, `TreesSound`, `FrontierExact`, `ClassesAreComponents`,
`LinksAreWays`, `RouteIsWalk`, `RouteWithinOrder` and `ImplementsAnytime`, from
`NodeAssumption` (finitely many nodes, `None` not among them), `NoneAssumption` (`None` is no cost and no route,
for the refinement alone), `RoadAssumption` (roads join two nodes, weights are natural numbers),
`RootAssumption` (two or more different destinations, numbered from the source to the
target) and `BoundAssumption`. `ForestInv` has six parts: `Control` (where a step
stands), `Grown` (every tree is a tree of the present graph, also in the middle of a
rewiring), `Ahead` (frontiers are exact, but for the node being steered to), `Pending`
(what a rewiring still has to do concerns visited nodes), `Met` (the disjoint sets hold
the components of the pairs met, which are those with a common node, but for the node
just connected) and `AreWays`. The properties are not inductive: `FrontierExact` and
`ClassesAreComponents` say nothing between two rests, and `TreeSound` speaks of the nodes
below the root level by level, which no step keeps by itself. `IsTree` has instead a
*rank*, a number that grows by one from parent to child: that is what rules out cycles
when `Rewired` moves a branch (a node that would move below itself would have to be
cheaper than itself) and what makes paths to the root end. `TreeIsSound` then shows that
a ranked tree is sound in the sense of the property. `RouteInv` is kept beside it: the
published path is a walk of the present graph in the published order, and some walk past
all destinations weighs no more than the published cost: the solver may take the cost
from one tour and the sequence from another. `TourIsRoute` shows that any tour over links
that are ways has a path no longer than its links, leg by leg (a tree's path to the link,
the other tree's path back); for the sequence answered that is `RouteWithinOrder`.

`ImplementsAnytime` is the refinement of `AnytimeRoute` (`StepIsAnytime`: each step maps
to a step or a stutter). That the published cost only falls while the graph stays is
`Finish`'s comparison. That it is never below `Optimum` is the longer part:

1. the published cost is at least the weight of some path past all destinations
   (`RouteInv`), and a part of a walk weighs what its prefix sums differ by (`WalkPart`);
2. taken in the order in which the path first visits them (`ListedInOrder`), the
   destinations cut that path into disjoint parts, which together weigh no more than the
   path (`SumWithinSteps`);
3. each part weighs no less than `Shortest` has for its ends (`ShortestIsBelow`). A walk
   can be cut down to one without repeated nodes (`SimpleWalk`), which has at most
   as many nodes as there are (`SimpleIsShort`) and weighs less than `Far`
   (`SimpleIsLight`); the table after `k` rounds bounds all walks of at most `k` roads
   (`TableIsBelow`).

So the reference that TLC compares with is itself shown to be a lower bound on every
walk. That `Shortest` is also attained is not needed and not proved: the abstract
promise would be weaker, not wrong, if it were lower.

Before the whole forest come lemmas about the operators on one tree (`Attach`, `Rewired`,
`Retained`, `Advance`, `RootPath`), walks (concatenation, reversal, parts, cutting out a
loop) and the table `Shortest`. `DataLemmas` shows that `Connect`,
applied to any set of pairs in any order, turns the partition of some pairs into that of
more (`FoldConnects`), and supplies the inductions. The library's induction
theorems take an operator, which the provers cannot instantiate, so its lemmas speak
of the *set* of values that a claim holds for: it is everything, because the relation `<`
on numbers is well founded and a least exception would be none. A recursive function
is shown to satisfy its own equation (`RankedRecursion`, `FoldRecursion`), a sum over a
finite set not to depend on the order it is taken in (`SumOfSteps`), a finite set with
different positions to be listed by one sequence (`ListedInOrder`).

`BaselinesProofs`: `TypeOK`, `AskedWhenLinked`, `AnswersIffConnected` and
`ExhaustedIsShortest` for any number of destinations, `EntriesAreWalks`, `RouteIsWalk`
and `RouteWithinTour` for up to three (`Goal <= 2`). That bound is the code's, not the
prover's: up to three, `pair_tree_idx` and the order in which the constructors push the
trees agree, and from four on `baseline_pairs` has TLC refute `RouteIsWalk`. The
assumptions are `MapAssumption` (roads go both ways, at one positive weight),
`StopAssumption` (two or more destinations, finitely many; `MaxTour` leaves room for a
tour there and back), `FarAssumption` (no way on a map is as long as `Far`, the number
for "no way"), `NoneAssumption` and `AnswerAssumption` (`None` is no cost, node or
answer). `SearchInv` says, for both planners, that `entry` and `joint` are symmetric
and the disjoint sets are the partition of the pairs with an entry (by
`FoldConnects`), which pair is under expansion in which phase, and when there
is an answer; and for each its trees:

1. `Ways`: a node has a cost exactly if it has a parent, a parent was cheaper by at
   least the road between, and the root costs 0. So a climb ends at the root: each
   step leaves fewer cheaper nodes (`Cheaper`), so the bound in `Climb` is never met.
   In BiA* (`BiSound`, `Joins`) an entry is at least the sum of the two
   costs of the node where the sides met, also after the costs have fallen; and a
   side whose queue ran empty has all that its root reaches.
2. ANA* drops a node when its bound shows no gain, against a goal cost that later
   passes lower. `Explored` says what remains true: every node that is not open is
   settled with its neighbours, or its cost and its distance to the goal through
   the air already exceed what the goal costs now. When nothing is open, a shorter
   way would have a first node that is neither; `Distances` then equals the entry.
3. `Distances` (Floyd and Warshall's table, in `Shortest`) is shown to be the least: no
   potential that roads respect is exceeded by it (`Bounds`), and each distance is
   reached over a last road (`LastRoad`). "Nearer than `Far`" is an equivalence of nodes
   (`NearIsMutual`), no road leaves a class (`NearByRoad`, the use of `FarAssumption`),
   so what a side has reached and what the network connects are the same.
4. A leg is a `Trip`: a walk with marks that rise by no less than each road.
   Trips are reversed and joined (`TripReversed`, `TripJoined`), so both sides of a leg, and
   the legs of a tour through the fold of `JoinedPath` (`AreRests`), make one walk that
   passes the destinations in order. `RouteIsWalk` is proved beside `SearchInv`:
   `best` keeps its path while the trees move on.

`AskedWhenLinked` has a tour there and back along a chain of entries between two
destinations on one side, and on the other that a tour's legs never leave a class.

`EciGenProofs`: `TourComplete`, `InsertionCostIsLength`, `CostIsPossible`,
`AnswerWithinTenth`, `AnswerMoves` and `BruteForceIsOptimum`, from `ProblemAssumption` (a matrix is symmetric,
its entries are natural numbers, and every two destinations have a way between them
shorter than `Far`) and `BoundAssumption`. `SolverInv` is what the properties leave out.
While stops are inserted (`Inserting`), the sequence leads from source to target in the
sense of `Leads`, by the cost in hand, past exactly the stops not missing; without swaps
it never stays where it is. After that (`Answering`), every sequence held, in hand, among
the parents or among the offspring, is whole and finite, and moves if shortcuts are on;
those kept in this generation are at most a tenth dearer than the cost in hand, which is
no less than the least tour. The last is needed because shortcuts and `EndGeneration`
separate the sequence from the cost: a cost may outlive the sequence it was added up for.
The argument, per operation:

1. *Insertion.* `Inserted` edits a sequence in up to three places, `Added` and `Removed`
   list legs. For each of the five ways `InsertedLeads` shows that the edited sequence
   differs from the old only between two places (`IsAround`, `IsPutIn`), that the legs
   between are those listed (`AreLegs`), and so that the length changes by what
   `InsertionCost` says (`ExchangedLeads`). With a swap this needs the symmetry of the
   matrix: the code charges the leg `<<s[k + 3], s[k + 2]>>` that the sequence has the other
   way around. `BestInsertions` has a missing stop, since of finitely many insertions
   ordered by cost, place and rank one comes first (`FirstInsertion`).
2. *Shortcuts.* `Refined` is a loop over a list that jumps. `IsRefining` says what a turn
   leaves: a list that begins as the sequence, over links, never twice the same stop in a
   row; and every stop already passed is in it or still comes (`IsCovered`). The look-ahead
   in `Ahead` is what keeps this true. `RefinedFacts` is the result, `ShortcutFacts` adds
   that a sequence left alone, being as long as the matrix, has no room for a repetition.
3. *Mutations and crossovers.* The three parts of a sequence, reversed and in another
   order, hold what they held (`MutantsFacts`); a slice of one parent and what it misses of
   the other hold everything (`WithoutFacts`, `BredFacts`). Both ends stay.
4. *Costs.* Every whole sequence over finite entries costs at least `BestTour`
   (`WholeWalkCosts`): its stops, each taken when it is first met, make a tour of the
   reference over distances that no entry undercuts (`BestOfWalks`).

5. *Brute force.* `Completed` has a leg for every two destinations, the entry or a least way
   around (`CompletedFacts`, from `DijkstraIsShortest`). An order of the objectives over
   these legs costs no less than `BestTour` (`OptionLeads`), and its legs joined are a walk of
   its cost past every stop (`JoinedLeads`). If no entry is longer than a way around, some
   order costs `BestTour` (`TightIsHad`), so the cheapest does.

The inductive invariants were checked by TLC on the runs' instances before they were
proved. The proofs changed some models: ranges of `None` became assumptions, the
domain of `RootPath`'s recursion is the visited nodes, the cost of a moved node in
`Rewired` is named once, and the table of `Shortest` is a function of one node to a
function of the other (the prover has no functions of two arguments); the trees of the
baselines have whole functions for their maps, changed by one comprehension, in place
of a fold over the neighbours; the maps of Dijkstra's search are comprehensions in place of
merged functions; what a slice leaves of the other parent (`Without`) is a recursive
function in place of `SelectSeq`, and the cost of an insertion two totals of legs, so that
it can be compared with a difference of lengths.

What stays with TLC:

* liveness (`GraphReachesPlanner`, `RouteFound`): fairness and ENABLED are
  beyond the prover;
* that the solver's calls end: `EndSearch` may always be taken, nothing promises it.

## 6. Disagreements between code and documents

* `session_stale_traffic`: a traffic change clears the gate, not `best`; until a
  lane answers, `best()` and heartbeats give a plan with its cost under old weights.
* `session_stale_trip`: refused destinations leave the former planner in place,
  and `best()` falls back to its route.
* `forest_cost`: link distances are not refreshed for the descendants of a rewired
  node, so a published cost can exceed the weights of its path. With shortcuts or the
  genetic phase it can also be below them, since the solver's cost need not be its
  sequence's; what holds then is `RouteWithinOrder`.
* `baseline_pairs`: `pair_tree_idx` numbers pairs column by column, the constructors
  push the trees row by row. With up to three destinations both agree; from four on
  a leg is read from another pair's tree, which panics or gives that tree's walk.
* `demo_lost_edit`: `replan` clears `pending_traffic` after its session call, so
  an edit made during the call is forgotten; its own job merely searches on. With
  `BulkFails`, a list of roads that fails half way has the same effect.

Known from the models, without a run of their own:

* A tree with nothing left to expand is never rewired again (`SkipTree`,
  `rrt/planner.rs:577`), although the comment above it wants it to be: after a
  traffic change a fully explored forest keeps ways that could be cheaper.
* With `shortcut` set the solver edits its sequence after the cost was added up
  (`rtsp/eci_gen.rs:154-158`), so the cost it reports can exceed the sequence's: on a
  ring of four with links of 1 it reports 5 for a sequence of 3. `CostIsPossible` and
  `AnswerWithinTenth` say what does hold.
* Without `shortcut`, swaps and mutations can put a stop beside itself. The planner's
  path assembly ends at such a leg; `AnswerMoves` says when there is none.

## 7. Not modelled, and the plan

Order of the work:

1. Session, gate, plugin and race, with proofs; the forest search; the demo
   server. Done.
2. Loaders, overlay and tour lanes; the relaxed TSP solver; the baselines. Done.
3. Proofs of the overlay, the disjoint sets, the forest, the demo server, the
   baselines, Dijkstra's search, the lanes' answers and the solver's sequences. Done.
4. Pseudo mode of the planner (`merge_pseudo_trees`), which may pass over a
   destination for ever (`rrt/planner.rs:938`).

No module declares a RECURSIVE operator; recursion is written as functions, so that
all of them can be proved about.

Left out for good: configuration and file parsing, the fixed fake maps, the
great-circle formula, the experiment log, the Python binding's conversions, the web
client, the batch drivers (straight-line code), and the V2X simulator (a random source
of edits).
