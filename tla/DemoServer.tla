----------------------------- MODULE DemoServer -----------------------------
(***************************************************************************)
(* The demo's FastAPI server (demo/app/main.py).  Handlers and the two     *)
(* background loops are tasks of one event loop: what a task does between  *)
(* two awaits is one step, and state_lock is never held across an await.   *)
(* Planning runs on worker threads under planner_lock; a worker's step and *)
(* a handler's step interleave, because a session call releases Python's   *)
(* global lock.                                                            *)
(*                                                                         *)
(* A worker's job has three points a handler can tell apart: it has read   *)
(* the flags and made the snapshot (ready), it is inside the session call, *)
(* which borrows the session (calling), and it has published.              *)
(*                                                                         *)
(* The overlay is abstracted to the number of edits made to it; a road     *)
(* graph is the number of edits it was materialized with.  The session is  *)
(* that of NavigationSession, one call at a time.                          *)
(*                                                                         *)
(* The loops run while auto_v2x and auto_anytime say so; clients toggle    *)
(* these between any two rounds, so the model lets each round happen.      *)
(***************************************************************************)
EXTENDS Naturals, Sequences, FiniteSets

CONSTANTS
  Client,     \* HTTP clients, each with one request at a time, and _v2x_loop
  Map,        \* map keys
  Node,       \* node ids a client may name
  NodesOf,    \* NodesOf[m]: the nodes of map m
  Spread,     \* Spread[m]: what pick_spread_destinations picks on m
  FirstMap,   \* the map of _initialize_state()
  Switches,   \* bound: the maps clients switch to
  Requests,   \* bound: the trips clients ask for
  Positions,  \* bound: the nodes at which the vehicle is reported
  BulkFails,  \* bound: whether clients send lists of roads with an unknown one
  MaxEdits,   \* bound: edits of one map
  MaxDemos,   \* bound: maps loaded
  None        \* Python's None

Trip == [source : Node, objectives : SUBSET Node, target : Node]
Edition == 0..MaxEdits
Planner == [trip : Trip, graph : Edition]
Task == Client \cup {"anytime"}

Terminals(t) == {t.source, t.target} \cup t.objectives
ValidTrip(m, t) ==
  /\ Terminals(t) \subseteq NodesOf[m]
  /\ t.source # t.target
  /\ t.source \notin t.objectives /\ t.target \notin t.objectives

\* The trips a lane may answer: repeated stops are no obstacle to it, and for a trip
\* from a node to itself it does not look the node up (dijkstra_path).
Answerable(m, t) == Terminals(t) \subseteq NodesOf[m] \/ Terminals(t) = {t.source}

ASSUME MapAssumption ==
  /\ FirstMap \in Map /\ Switches \subseteq Map
  /\ \A m \in Map : NodesOf[m] \subseteq Node /\ Spread[m] \in Trip
  /\ Requests \subseteq Trip /\ Positions \subseteq Node

\* None is none of the values it stands beside.
ASSUME NoneAssumption == None \notin Edition /\ None \notin Trip /\ None \notin Planner

ASSUME BoundAssumption ==
  {MaxEdits, MaxDemos} \subseteq Nat /\ MaxDemos > 0 /\ BulkFails \in BOOLEAN

VARIABLES
  demos,      \* the DemoState objects, in the order they were made
  current,    \* the one the global name state stands for
  tasks       \* what each task waits for

vars == <<demos, current, tasks>>

-----------------------------------------------------------------------------
(* The session, a call at a time                                            *)

NewSession ==
  [graph |-> None, stale |-> FALSE, trip |-> None, pluginGraph |-> None,
   planner |-> None, best |-> None]

\* session.set_graph: stale says that the two revisions differ.
WithGraph(s, g) == [s EXCEPT !.graph = g, !.stale = TRUE]

\* A route is abstracted to the trip it serves.
\* The calls below give the sessions a call may leave and whether it succeeded.
Failed(s) == {[session |-> s, ok |-> FALSE]}
Found(s, routes) == {[session |-> [s EXCEPT !.best = r], ok |-> TRUE] : r \in routes}

\* Faulty variant: the planner takes nodes it does not know.
SetDestinationsUnchecked(m, s, t) ==
  Found([s EXCEPT !.trip = t, !.pluginGraph = s.graph, !.stale = FALSE,
                  !.planner = [trip |-> t, graph |-> s.graph]],
        {None, t})

SetDestinations(m, s, t) ==
  LET asked == [s EXCEPT !.trip = t, !.pluginGraph = s.graph, !.best = None]
  IN  IF ValidTrip(m, t)
        THEN Found([asked EXCEPT !.planner = [trip |-> t, graph |-> s.graph], !.stale = FALSE],
                   {None, t})
        ELSE Failed(asked)

\* The lanes serve the session's trip, one the planner has refused too; the planner its own.
OnTrafficChanged(m, s) ==
  IF s.planner = None THEN Failed(s)
  ELSE Found([s EXCEPT !.planner.graph = s.graph, !.pluginGraph = s.graph, !.stale = FALSE],
             {s.best, s.planner.trip} \cup {t \in {s.trip} : Answerable(m, t)})

\* The planner is seeded on the plugin's graph, the lanes run on the session's.
OnEgoMoved(m, s, n) ==
  IF s.trip = None THEN Failed(s)
  ELSE LET t == [s.trip EXCEPT !.source = n, !.objectives = @ \ {n}]
           moved == [s EXCEPT !.trip = t, !.best = None]
       IN  IF ValidTrip(m, t)
             THEN Found([moved EXCEPT !.planner = [trip |-> t, graph |-> s.pluginGraph]],
                        {None, t})
             ELSE Failed(moved)

ContinueSearch(m, s) ==
  IF s.stale THEN OnTrafficChanged(m, s)
  ELSE IF s.planner = None THEN Failed(s)
  ELSE Found(s, {s.best, s.planner.trip})

-----------------------------------------------------------------------------
(* DemoState                                                                *)

\* A DemoState for map m.  overlooked is history: an edit no flag speaks of.
NewDemo(m) ==
  [map |-> m, traffic |-> 0, destinations |-> Spread[m], session |-> NewSession,
   pending |-> FALSE, seeded |-> FALSE, result |-> None, overlooked |-> FALSE]

Idle == [at |-> "idle"]
Queued(job) == [at |-> "queued", job |-> job]

Working == {k \in Task : tasks[k].at \in {"ready", "calling"}}
WorkingOn(d) == {k \in Working : tasks[k].demo = d}
Resting(d) == WorkingOn(d) = {}

\* Faulty variant: the handler leaves the flag to its job.
AnnouncedUnflagged(d) == [demos[d] EXCEPT !.traffic = @ + 1]

\* An edit of the overlay and traffic_changed().
Announced(d) ==
  [demos[d] EXCEPT
     !.traffic = @ + 1,
     !.pending = TRUE,
     !.overlooked = @ \/ \E k \in WorkingOn(d) : tasks[k].call.op = "traffic"]

\* Faulty variant: the snapshot is left to the session.
SyncedNot(demo) == demo

\* _sync_graph.
Synced(demo) ==
  [demo EXCEPT !.session = WithGraph(@, demo.traffic), !.overlooked = FALSE]

Moved(t, n) == [t EXCEPT !.source = n, !.objectives = @ \ {n}]

\* What a job does before its session call: the state it leaves and the call.
Prepared(demo, job) ==
  CASE job.kind = "replan" /\ ~demo.seeded ->
         [demo |-> Synced(demo), call |-> [op |-> "destinations", trip |-> demo.destinations]]
    [] job.kind = "replan" /\ demo.seeded /\ demo.pending ->
         [demo |-> Synced(demo), call |-> [op |-> "traffic"]]
    [] job.kind = "destinations" ->
         [demo |-> Synced([demo EXCEPT !.destinations = job.trip, !.pending = FALSE]),
          call |-> [op |-> "destinations", trip |-> job.trip]]
    [] job.kind = "ego" ->
         [demo |-> [demo EXCEPT !.destinations = Moved(@, job.node)],
          call |-> [op |-> "ego", node |-> job.node]]
    [] OTHER -> [demo |-> demo, call |-> [op |-> "continue"]]

Outcomes(demo, call) ==
  CASE call.op = "destinations" -> SetDestinations(demo.map, demo.session, call.trip)
    [] call.op = "traffic" -> OnTrafficChanged(demo.map, demo.session)
    [] call.op = "ego" -> OnEgoMoved(demo.map, demo.session, call.node)
    [] call.op = "continue" -> ContinueSearch(demo.map, demo.session)

\* _publish of a call that succeeded; without a route it raises.
Published(demo, call, outcome) ==
  LET after == [demo EXCEPT
                  !.session = outcome.session,
                  !.pending = IF outcome.ok /\ call.op = "traffic" THEN FALSE ELSE @]
  IN  IF outcome.ok /\ outcome.session.best # None
        THEN [after EXCEPT !.result = outcome.session.best, !.seeded = TRUE]
        ELSE after

-----------------------------------------------------------------------------
(* Handlers and loops, up to their first await                              *)

\* lifespan has planned once before requests are served, with or without success.
Init ==
  /\ LET start == Prepared(NewDemo(FirstMap), [kind |-> "replan"])
     IN  \E outcome \in Outcomes(start.demo, start.call) :
           demos = <<Published(start.demo, start.call, outcome)>>
  /\ current = 1
  /\ tasks = [k \in Task |-> Idle]

Request(k, job) ==
  /\ tasks[k] = Idle
  /\ tasks' = [tasks EXCEPT ![k] = Queued(job)]

\* set_edge_traffic, set_edges_traffic, set_zone_traffic, clear_traffic, and a
\* tick of _v2x_loop.
EditTraffic(c) ==
  /\ demos[current].traffic < MaxEdits
  /\ demos' = [demos EXCEPT ![current] = Announced(current)]
  /\ Request(c, [kind |-> "replan"])
  /\ UNCHANGED current

\* set_edges_traffic meets an unknown road after it has changed others: 400.
EditTrafficPartly(c) ==
  /\ BulkFails /\ tasks[c] = Idle
  /\ demos[current].traffic < MaxEdits
  /\ demos' = [demos EXCEPT ![current].traffic = @ + 1, ![current].overlooked = TRUE]
  /\ UNCHANGED <<current, tasks>>

RequestReplan(c) ==
  /\ Request(c, [kind |-> "replan"])
  /\ UNCHANGED <<demos, current>>

\* set_destinations and auto_destinations.
RequestDestinations(c) ==
  /\ \E t \in Requests \cup {Spread[demos[current].map]} :
       Request(c, [kind |-> "destinations", trip |-> t])
  /\ UNCHANGED <<demos, current>>

\* set_ego with a node.
RequestEgo(c) ==
  /\ \E n \in Positions : Request(c, [kind |-> "ego", node |-> n])
  /\ UNCHANGED <<demos, current>>

\* set_ego with a pose: it syncs and snaps on the spot.  While a worker is
\* inside the session the borrow is refused and the request fails.
SnapEgo(c) ==
  /\ \A k \in WorkingOn(current) : tasks[k].at # "calling"
  /\ demos' = [demos EXCEPT ![current] = Synced(@)]
  /\ \E n \in Positions \cap NodesOf[demos[current].map] :
       Request(c, [kind |-> "ego", node |-> n])
  /\ UNCHANGED current

\* switch_map makes a state of its own and plans on it.
SwitchMap(c) ==
  /\ Len(demos) < MaxDemos
  /\ \E m \in Switches : demos' = Append(demos, NewDemo(m))
  /\ Request(c, [kind |-> "replan", demo |-> Len(demos) + 1])
  /\ UNCHANGED current

\* A round of _anytime_loop.
AnytimeTick ==
  /\ demos[current].seeded
  /\ Request("anytime", [kind |-> "continue"])
  /\ UNCHANGED <<demos, current>>

-----------------------------------------------------------------------------
(* Worker threads                                                           *)

\* The state a job works on: a switch has its own, the others take what the
\* name state stands for when the worker gets to evaluate it.
Target(job) == IF "demo" \in DOMAIN job THEN job.demo ELSE current

\* Faulty variant: planner_lock is not taken.
BeginUnlocked(k) ==
  /\ tasks[k].at = "queued"
  /\ LET job == tasks[k].job
         d == Target(job)
         start == Prepared(demos[d], job)
     IN  /\ demos' = [demos EXCEPT ![d] = start.demo]
         /\ tasks' = [tasks EXCEPT ![k] =
              [at |-> "ready", job |-> job, demo |-> d, call |-> start.call]]
  /\ UNCHANGED current

\* _planner_call takes the lock and the job runs as far as its session call.
Begin(k) ==
  /\ tasks[k].at = "queued"
  /\ Working = {}
  /\ LET job == tasks[k].job
         d == Target(job)
         start == Prepared(demos[d], job)
     IN  IF job.kind = "continue" /\ ~demos[d].seeded
           THEN tasks' = [tasks EXCEPT ![k] = Idle] /\ UNCHANGED demos
           ELSE /\ demos' = [demos EXCEPT ![d] = start.demo]
                /\ tasks' = [tasks EXCEPT ![k] =
                     [at |-> "ready", job |-> job, demo |-> d, call |-> start.call]]
  /\ UNCHANGED current

\* The session call begins and releases the global lock.
Enter(k) ==
  /\ tasks[k].at = "ready"
  /\ tasks' = [tasks EXCEPT ![k].at = "calling"]
  /\ UNCHANGED <<demos, current>>

\* Only a switch has something left to do, and only when it has a route.
Return(k) ==
  /\ tasks[k].at = "calling"
  /\ LET d == tasks[k].demo
     IN  \E outcome \in Outcomes(demos[d], tasks[k].call) :
           /\ demos' = [demos EXCEPT ![d] = Published(@, tasks[k].call, outcome)]
           /\ tasks' = [tasks EXCEPT ![k] =
                IF "demo" \in DOMAIN tasks[k].job /\ outcome.ok /\ outcome.session.best # None
                  THEN [at |-> "planned", demo |-> d] ELSE Idle]
  /\ UNCHANGED current

\* switch_map resumes: the new state takes the place of the old one, of which
\* nothing is remembered unless a job is at work on it.
Adopt(k) ==
  /\ tasks[k].at = "planned"
  /\ current' = tasks[k].demo
  /\ tasks' = [tasks EXCEPT ![k] = Idle]
  /\ demos' = IF Resting(current)
                THEN [demos EXCEPT ![current] = NewDemo(demos[current].map)] ELSE demos

-----------------------------------------------------------------------------
Handlers ==
  \/ AnytimeTick
  \/ \E c \in Client :
       \/ EditTraffic(c) \/ EditTrafficPartly(c) \/ RequestReplan(c)
       \/ RequestDestinations(c) \/ RequestEgo(c) \/ SnapEgo(c)
       \/ SwitchMap(c)

Next ==
  \/ Handlers
  \/ \E k \in Task : Begin(k) \/ Enter(k) \/ Return(k) \/ Adopt(k)

Spec == Init /\ [][Next]_vars

-----------------------------------------------------------------------------
(* Properties                                                               *)

Demo == 1..Len(demos)
\* Types of the demo states, their sessions and the tasks.
TypeOK ==
  /\ current \in Demo /\ Len(demos) <= MaxDemos
  /\ \A d \in Demo :
       LET demo == demos[d]
       IN  /\ demo.map \in Map /\ demo.traffic \in Edition
           /\ demo.destinations \in Trip /\ demo.result \in Trip \cup {None}
           /\ {demo.pending, demo.seeded, demo.overlooked} \subseteq BOOLEAN
           /\ demo.session \in
                [graph : Edition \cup {None}, stale : BOOLEAN, trip : Trip \cup {None},
                 pluginGraph : Edition \cup {None}, planner : Planner \cup {None},
                 best : Trip \cup {None}]
  /\ \A k \in Task :
       /\ tasks[k].at \in {"idle", "queued", "ready", "calling", "planned"}
       /\ tasks[k].at \in {"ready", "calling", "planned"} => tasks[k].demo \in Demo

\* While no call runs, a planner that lacks an edit of the overlay has it coming:
\* pending_traffic is set, or the session knows of a newer snapshot.  The two
\* exceptions are recorded in overlooked.
Behind(d) == demos[d].seeded /\ demos[d].session.planner.graph # demos[d].traffic

EditsAreAnnounced ==
  \A d \in Demo : Resting(d) /\ Behind(d) =>
    demos[d].pending \/ demos[d].session.stale \/ demos[d].overlooked

\* The server keeps its own copy of the destinations; whatever calls failed, it
\* is the session's, and a seeded session has a planner to continue with.
CopiesAgree ==
  \A d \in Demo : Resting(d) /\ demos[d].seeded =>
    /\ demos[d].session.trip = demos[d].destinations
    /\ demos[d].session.planner # None

\* A map switched to is shown with a route from the start.
ShownMapHasRoute == current > 1 => demos[current].result # None

\* A map switched to has a route, and a route shown on a map has all its stops on that
\* map, however jobs that were queued under the former map run under this one and whatever
\* trips the planner refused; the exception is the route from a node to itself, which may
\* be a node of another map.
RouteIsOnMap ==
  /\ ShownMapHasRoute
  /\ \A d \in Demo : demos[d].result # None =>
       LET stops == Terminals(demos[d].result)
       IN  stops \subseteq NodesOf[demos[d].map] \/ stops = {demos[d].result.source}

\* "Traffic updates warm-start IMOMD trees" (demo/README.md): an edit is not
\* forgotten before the planner has seen it.
NoEditLost ==
  \A d \in Demo : Resting(d) /\ Behind(d) =>
    demos[d].pending \/ demos[d].session.stale

=============================================================================
