-------------------------- MODULE DemoServerProofs --------------------------
(***************************************************************************)
(* Safety of DemoServer for every choice of clients, maps, trips and       *)
(* bounds that satisfies its assumptions.                                  *)
(*                                                                         *)
(* ServerInv is inductive.  It says what a demo is like at all times       *)
(* (DemoSound), what it is like while no job is at work on it (AtRest),    *)
(* and what the job at work has left its session call to rely on           *)
(* (CallSound): with the lock, that is all that couples the tasks.         *)
(***************************************************************************)
EXTENDS DemoServer, TLAPS

Session ==
  [graph : Edition \cup {None}, stale : BOOLEAN, trip : Trip \cup {None},
   pluginGraph : Edition \cup {None}, planner : Planner \cup {None},
   best : Trip \cup {None}]

DemoState ==
  [map : Map, traffic : Edition, destinations : Trip, session : Session,
   pending : BOOLEAN, seeded : BOOLEAN, result : Trip \cup {None}, overlooked : BOOLEAN]

Job ==
  [kind : {"replan"}] \cup [kind : {"replan"}, demo : Nat]
    \cup [kind : {"destinations"}, trip : Trip] \cup [kind : {"ego"}, node : Node]
    \cup [kind : {"continue"}]

Call ==
  [op : {"destinations"}, trip : Trip] \cup [op : {"ego"}, node : Node]
    \cup [op : {"traffic", "continue"}]

TaskState ==
  [at : {"idle"}] \cup [at : {"queued"}, job : Job]
    \cup [at : {"ready", "calling"}, job : Job, demo : Nat, call : Call]
    \cup [at : {"planned"}, demo : Nat]

\* What holds of the session of a demo at all times: what a planner was built
\* with is what the plugin and the session hold, unless the session is stale.
SessionSound(demo) ==
  LET s == demo.session
  IN  /\ s.best # None => Answerable(demo.map, s.best)
      /\ s.planner # None => s.trip # None /\ ValidTrip(demo.map, s.planner.trip)
      /\ s.trip # None => s.graph # None /\ s.pluginGraph # None
      /\ ~s.stale => s.pluginGraph = s.graph
      /\ ~s.stale /\ s.planner # None => s.planner.graph = s.graph

\* A snapshot the session holds lacks an edit only if a flag, or history, says so.
DemoSound(demo) ==
  /\ demo \in DemoState
  /\ SessionSound(demo)
  /\ demo.session.graph # None =>
       demo.session.graph = demo.traffic \/ demo.pending \/ demo.overlooked
  /\ demo.seeded => demo.session.planner # None /\ demo.result # None
  /\ demo.result # None => Answerable(demo.map, demo.result)

\* While no call runs the session's trip, once it has one, is the server's.
AtRest(demo) == demo.session.trip # None => demo.session.trip = demo.destinations

\* What the job at work on a demo has left for its session call to rely on.
CallSound(demo, call) ==
  CASE call.op = "destinations" ->
         demo.session.stale /\ demo.session.graph # None /\ demo.destinations = call.trip
    [] call.op = "ego" ->
         demo.session.trip # None => demo.destinations = Moved(demo.session.trip, call.node)
    [] call.op = "traffic" ->
         /\ AtRest(demo) /\ demo.seeded
         /\ demo.session.graph = demo.traffic \/ demo.overlooked
    [] call.op = "continue" -> AtRest(demo) /\ demo.seeded

\* The demo a switch has made and not yet adopted.
Switching(k) ==
  \/ tasks[k].at \in {"queued", "ready", "calling"} /\ "demo" \in DOMAIN tasks[k].job
  \/ tasks[k].at = "planned"
Switched(k) == IF tasks[k].at = "planned" THEN tasks[k].demo ELSE tasks[k].job.demo

SwitchInv ==
  /\ \A k \in Task : Switching(k) =>
       Switched(k) \in 2..Len(demos) /\ Switched(k) # current
  /\ \A j, k \in Task : Switching(j) /\ Switching(k) /\ Switched(j) = Switched(k) => j = k
  /\ \A k \in Task : tasks[k].at = "planned" => demos[tasks[k].demo].result # None
  /\ ShownMapHasRoute

WorkInv ==
  /\ \A j, k \in Working : j = k
  /\ \A k \in Working : tasks[k].demo \in Demo /\ CallSound(demos[tasks[k].demo], tasks[k].call)
  /\ \A k \in Working : "demo" \in DOMAIN tasks[k].job => tasks[k].demo = tasks[k].job.demo

Shape ==
  /\ demos \in Seq(DemoState) /\ Len(demos) <= MaxDemos
  /\ current \in Demo
  /\ tasks \in [Task -> TaskState]

ServerInv ==
  /\ Shape /\ SwitchInv /\ WorkInv
  /\ \A d \in Demo : DemoSound(demos[d]) /\ (Resting(d) => AtRest(demos[d]))

-----------------------------------------------------------------------------
(* Demo states                                                              *)

\* A trip moved to a node is a trip.
LEMMA TripTypes ==
  ASSUME NEW t \in Trip, NEW n \in Node
  PROVE  /\ t # None /\ Moved(t, n) \in Trip
         /\ t.source \in Node /\ t.objectives \subseteq Node /\ t.target \in Node
  BY NoneAssumption DEF Trip, Moved

\* The lanes may answer every trip the planner takes.
LEMMA ValidAnswerable ==
  ASSUME NEW m, NEW t, ValidTrip(m, t)
  PROVE  Answerable(m, t)
  BY DEF ValidTrip, Answerable

\* A new demo knows of no snapshot, no trip and no route.
LEMMA NewDemoSound ==
  ASSUME NEW m \in Map
  PROVE  DemoSound(NewDemo(m)) /\ AtRest(NewDemo(m))
  <1>1. Spread[m] \in Trip /\ 0 \in Edition
    BY MapAssumption, BoundAssumption DEF Edition
  <1>2. NewSession \in Session
    BY DEF NewSession, Session
  <1>3. NewDemo(m) \in DemoState
    BY <1>1, <1>2 DEF NewDemo, DemoState
  <1>4. SessionSound(NewDemo(m))
    BY DEF NewDemo, NewSession, SessionSound
  <1> QED BY <1>3, <1>4 DEF DemoSound, AtRest, NewDemo, NewSession

\* _sync_graph: the session is stale and holds every edit.
LEMMA SyncedSound ==
  ASSUME NEW demo, DemoSound(demo)
  PROVE  /\ DemoSound(Synced(demo))
         /\ AtRest(demo) => AtRest(Synced(demo))
         /\ \A call \in Call : CallSound(demo, call) => CallSound(Synced(demo), call)
         /\ Synced(demo) = [demo EXCEPT !.session = Synced(demo).session, !.overlooked = FALSE]
         /\ Synced(demo).session =
              [demo.session EXCEPT !.graph = demo.traffic, !.stale = TRUE]
         /\ Synced(demo).session.graph = demo.traffic /\ Synced(demo).session.stale
         /\ Synced(demo).session.graph # None
         /\ Synced(demo).result = demo.result
         /\ Synced(demo).seeded = demo.seeded
  <1> DEFINE synced == Synced(demo)
  <1>1. demo \in DemoState /\ demo.session \in Session /\ demo.traffic \in Edition
        /\ demo.traffic # None
    BY NoneAssumption DEF DemoSound, DemoState
  <1>2. /\ synced.session = [demo.session EXCEPT !.graph = demo.traffic, !.stale = TRUE]
        /\ synced.overlooked = FALSE
        /\ synced.map = demo.map /\ synced.traffic = demo.traffic
        /\ synced.destinations = demo.destinations /\ synced.pending = demo.pending
        /\ synced.seeded = demo.seeded /\ synced.result = demo.result
        /\ synced = [demo EXCEPT !.session = synced.session, !.overlooked = FALSE]
    BY <1>1 DEF Synced, WithGraph, DemoState
  <1>3. /\ synced.session \in Session
        /\ synced.session.graph = demo.traffic /\ synced.session.stale = TRUE
        /\ synced.session.trip = demo.session.trip
        /\ synced.session.pluginGraph = demo.session.pluginGraph
        /\ synced.session.planner = demo.session.planner
        /\ synced.session.best = demo.session.best
    BY <1>1, <1>2 DEF Session
  <1>4. synced \in DemoState
    BY <1>1, <1>2, <1>3 DEF DemoState
  <1>5. SessionSound(synced)
    BY <1>1, <1>2, <1>3 DEF DemoSound, SessionSound
  <1>6. DemoSound(synced)
    BY <1>1, <1>2, <1>3, <1>4, <1>5 DEF DemoSound
  <1>7. AtRest(demo) => AtRest(synced)
    BY <1>2, <1>3 DEF AtRest
  <1>8. \A call \in Call : CallSound(demo, call) => CallSound(synced, call)
    BY <1>1, <1>2, <1>3, <1>7 DEF CallSound, Call
  <1> HIDE DEF synced
  <1> QED BY <1>1, <1>2, <1>3, <1>6, <1>7, <1>8 DEF synced

\* An edit of the overlay, when a flag or history speaks of it.
LEMMA EditedSound ==
  ASSUME NEW demo, DemoSound(demo), demo.traffic < MaxEdits,
         NEW pending \in BOOLEAN, NEW overlooked \in BOOLEAN,
         demo.pending => pending, demo.overlooked => overlooked, pending \/ overlooked,
         NEW edited,
         edited = [demo EXCEPT !.traffic = @ + 1, !.pending = pending, !.overlooked = overlooked]
  PROVE  /\ DemoSound(edited)
         /\ AtRest(demo) => AtRest(edited)
         /\ edited.result = demo.result
         /\ \A call \in Call :
              CallSound(demo, call) /\ (call.op = "traffic" => overlooked)
                => CallSound(edited, call)
  <1>1. demo \in DemoState /\ demo.traffic + 1 \in Edition
    BY BoundAssumption DEF DemoSound, DemoState, Edition
  <1>2. /\ edited \in DemoState
        /\ edited.session = demo.session /\ edited.map = demo.map
        /\ edited.destinations = demo.destinations /\ edited.result = demo.result
        /\ edited.seeded = demo.seeded
        /\ edited.pending = pending /\ edited.overlooked = overlooked
    BY <1>1 DEF DemoState
  <1>3. DemoSound(edited)
    BY <1>2 DEF DemoSound, SessionSound
  <1>4. AtRest(demo) => AtRest(edited)
    BY <1>2 DEF AtRest
  <1>5. \A call \in Call :
          CallSound(demo, call) /\ (call.op = "traffic" => overlooked) => CallSound(edited, call)
    BY <1>2, <1>4 DEF CallSound, Call
  <1> QED BY <1>2, <1>3, <1>4, <1>5

\* What a job does before its call leaves what the call relies on.
LEMMA PreparedSound ==
  ASSUME NEW demo, DemoSound(demo), AtRest(demo), NEW job \in Job,
         job.kind = "continue" => demo.seeded
  PROVE  /\ DemoSound(Prepared(demo, job).demo)
         /\ Prepared(demo, job).call \in Call
         /\ CallSound(Prepared(demo, job).demo, Prepared(demo, job).call)
         /\ Prepared(demo, job).demo.result = demo.result
  <1> DEFINE start == Prepared(demo, job)
  <1>0. demo \in DemoState /\ demo.destinations \in Trip /\ demo.seeded \in BOOLEAN
    BY DEF DemoSound, DemoState
  <1> DEFINE synced == Synced(demo)
  <1>6. /\ DemoSound(synced) /\ synced.session.graph = demo.traffic /\ synced.session.stale
        /\ synced.session.graph # None /\ synced.result = demo.result /\ AtRest(synced)
        /\ synced.seeded = demo.seeded
    BY SyncedSound
  <1>7. synced.destinations = demo.destinations /\ synced.traffic = demo.traffic
    BY <1>0 DEF Synced, DemoState
  <1> HIDE DEF synced
  <1>1. CASE job.kind = "replan" /\ ~demo.seeded
    <2>1. start = [demo |-> synced,
                   call |-> [op |-> "destinations", trip |-> demo.destinations]]
      BY <1>1 DEF Prepared, synced
    <2>2. start.call \in Call /\ start.demo = synced
          /\ start.call.op = "destinations" /\ start.call.trip = demo.destinations
      BY <1>0, <2>1 DEF Call
    <2>3. CallSound(start.demo, start.call)
      BY <1>6, <1>7, <2>2 DEF CallSound
    <2> QED BY <1>6, <2>2, <2>3
  <1>2. CASE job.kind = "replan" /\ demo.seeded /\ demo.pending
    <2>1. start = [demo |-> synced, call |-> [op |-> "traffic"]]
      BY <1>2 DEF Prepared, synced
    <2>2. start.call \in Call /\ start.demo = synced /\ start.call.op = "traffic"
      BY <2>1 DEF Call
    <2>3. CallSound(start.demo, start.call)
      BY <1>2, <1>6, <1>7, <2>2 DEF CallSound
    <2> QED BY <1>6, <2>2, <2>3
  <1>3. CASE job.kind = "destinations"
    <2> DEFINE told == [demo EXCEPT !.destinations = job.trip, !.pending = FALSE]
    <2>0. job.trip \in Trip
      BY <1>3 DEF Job
    <2>1. start = [demo |-> Synced(told), call |-> [op |-> "destinations", trip |-> job.trip]]
      BY <1>3 DEF Prepared
    <2>2. start.call \in Call /\ start.call.op = "destinations" /\ start.call.trip = job.trip
      BY <2>0, <2>1 DEF Call
    <2>3. /\ told \in DemoState /\ told.destinations = job.trip
          /\ told.session = demo.session /\ told.map = demo.map /\ told.traffic = demo.traffic
          /\ told.seeded = demo.seeded /\ told.result = demo.result
      BY <1>0, <2>0 DEF DemoState
    <2> DEFINE fresh == Synced(told)
    <2>4. /\ fresh.session = [demo.session EXCEPT !.graph = demo.traffic, !.stale = TRUE]
          /\ fresh.map = demo.map /\ fresh.traffic = demo.traffic
          /\ fresh.destinations = job.trip
          /\ fresh.seeded = demo.seeded /\ fresh.result = demo.result
          /\ fresh \in [map : Map, traffic : Edition, destinations : Trip,
                         session : {fresh.session}, pending : BOOLEAN, seeded : BOOLEAN,
                         result : Trip \cup {None}, overlooked : BOOLEAN]
      BY <2>3 DEF Synced, WithGraph, DemoState
    <2>5. /\ fresh.session \in Session
          /\ fresh.session.graph = demo.traffic /\ fresh.session.stale = TRUE
          /\ fresh.session.trip = demo.session.trip
          /\ fresh.session.pluginGraph = demo.session.pluginGraph
          /\ fresh.session.planner = demo.session.planner
          /\ fresh.session.best = demo.session.best
      BY <1>0, <2>4 DEF Session, DemoState
    <2>6. demo.traffic # None /\ demo.traffic \in Edition
      BY <1>0, NoneAssumption DEF DemoState
    <2>7. fresh \in DemoState
      BY <2>4, <2>5 DEF DemoState
    <2>8. SessionSound(fresh)
      BY <2>4, <2>5, <2>6 DEF DemoSound, SessionSound
    <2>9. DemoSound(fresh)
      BY <2>4, <2>5, <2>7, <2>8 DEF DemoSound
    <2>10. CallSound(fresh, start.call)
      BY <2>2, <2>4, <2>5, <2>6 DEF CallSound
    <2>11. start.demo = fresh
      BY <2>1
    <2> HIDE DEF fresh, told
    <2> QED BY <2>2, <2>4, <2>9, <2>10, <2>11
  <1>4. CASE job.kind = "ego"
    <2> DEFINE moved == [demo EXCEPT !.destinations = Moved(@, job.node)]
    <2>0. job.node \in Node /\ Moved(demo.destinations, job.node) \in Trip
      BY <1>0, <1>4, TripTypes DEF Job
    <2>1. start = [demo |-> moved, call |-> [op |-> "ego", node |-> job.node]]
      BY <1>4 DEF Prepared
    <2>2. start.call \in Call /\ start.call.op = "ego" /\ start.call.node = job.node
      BY <2>0, <2>1 DEF Call
    <2>3. /\ moved \in DemoState
          /\ moved.destinations = Moved(demo.destinations, job.node)
          /\ moved.session = demo.session /\ moved.map = demo.map
          /\ moved.traffic = demo.traffic /\ moved.pending = demo.pending
          /\ moved.overlooked = demo.overlooked
          /\ moved.seeded = demo.seeded /\ moved.result = demo.result
      BY <1>0, <2>0 DEF DemoState
    <2> HIDE DEF moved
    <2>4. DemoSound(moved)
      BY <2>3 DEF DemoSound, SessionSound
    <2>5. CallSound(moved, start.call)
      BY <2>2, <2>3 DEF CallSound, AtRest
    <2>6. start.demo = moved
      BY <2>1
    <2> QED BY <2>2, <2>3, <2>4, <2>5, <2>6
  <1>5. CASE ~ \/ job.kind = "replan" /\ ~demo.seeded
               \/ job.kind = "replan" /\ demo.seeded /\ demo.pending
               \/ job.kind = "destinations"
               \/ job.kind = "ego"
    <2>1. start = [demo |-> demo, call |-> [op |-> "continue"]]
      BY <1>5 DEF Prepared
    <2>2. demo.seeded
      BY <1>5 DEF Job
    <2>3. start.call \in Call /\ start.call.op = "continue" /\ start.demo = demo
      BY <2>1 DEF Call
    <2> QED BY <2>2, <2>3 DEF CallSound
  <1> QED BY <1>1, <1>2, <1>3, <1>4, <1>5

\* What a session call leaves, whether it succeeds or not: a session as sound as
\* before, on the server's destinations, that still has its planner.
CallLeaves(demo, s, ok) ==
  /\ s \in Session /\ ok \in BOOLEAN
  /\ SessionSound([demo EXCEPT !.session = s])
  /\ s.graph = demo.session.graph
  /\ s.trip # None => s.trip = demo.destinations
  /\ ok \/ demo.session.planner # None => s.planner # None

\* set_destinations, with trips the map has and with others.
LEMMA SetDestinationsLeaves ==
  ASSUME NEW demo, DemoSound(demo), NEW t \in Trip, demo.destinations = t,
         demo.session.stale, demo.session.graph # None,
         NEW outcome \in SetDestinations(demo.map, demo.session, t)
  PROVE  CallLeaves(demo, outcome.session, outcome.ok)
  <1> DEFINE s == demo.session
             asked == [s EXCEPT !.trip = t, !.pluginGraph = s.graph, !.best = None]
             built == [asked EXCEPT !.planner = [trip |-> t, graph |-> s.graph], !.stale = FALSE]
             made == outcome.session
             after == [demo EXCEPT !.session = made]
  <1>1. /\ demo \in DemoState /\ s \in Session /\ s.graph \in Edition /\ t # None
        /\ SessionSound(demo)
    BY NoneAssumption DEF DemoSound, DemoState, Session
  <1>2. [trip |-> t, graph |-> s.graph] \in Planner /\ [trip |-> t, graph |-> s.graph] # None
    BY <1>1, NoneAssumption DEF Planner
  <1>3. after.session = made /\ after.map = demo.map
    BY <1>1 DEF DemoState
  <1>4. CASE ValidTrip(demo.map, t)
    <2>1. PICK r \in {None, t} : outcome = [session |-> [built EXCEPT !.best = r], ok |-> TRUE]
      BY <1>4 DEF SetDestinations, Found
    <2>2. /\ made.trip = t /\ made.pluginGraph = s.graph /\ made.graph = s.graph
          /\ made.planner = [trip |-> t, graph |-> s.graph] /\ made.stale = FALSE
          /\ made.best = r /\ made \in Session
      BY <1>1, <1>2, <2>1 DEF Session
    <2>3. SessionSound(after)
      BY <1>1, <1>2, <1>3, <1>4, <2>2, ValidAnswerable DEF SessionSound
    <2> QED BY <1>1, <1>2, <2>1, <2>2, <2>3 DEF CallLeaves
  <1>5. CASE ~ValidTrip(demo.map, t)
    <2>1. outcome = [session |-> asked, ok |-> FALSE]
      BY <1>5 DEF SetDestinations, Failed
    <2>2. /\ made.trip = t /\ made.pluginGraph = s.graph /\ made.graph = s.graph
          /\ made.planner = s.planner /\ made.stale = s.stale
          /\ made.best = None /\ made \in Session
      BY <1>1, <2>1 DEF Session
    <2>3. SessionSound(after)
      BY <1>1, <1>3, <2>2 DEF SessionSound
    <2> QED BY <1>1, <2>1, <2>2, <2>3 DEF CallLeaves
  <1> QED BY <1>4, <1>5

\* on_traffic_changed, with and without a planner.
LEMMA OnTrafficChangedLeaves ==
  ASSUME NEW demo, DemoSound(demo), AtRest(demo),
         NEW outcome \in OnTrafficChanged(demo.map, demo.session)
  PROVE  CallLeaves(demo, outcome.session, outcome.ok)
  <1> DEFINE s == demo.session
             built == [s EXCEPT !.planner.graph = s.graph, !.pluginGraph = s.graph,
                                !.stale = FALSE]
             made == outcome.session
             after == [demo EXCEPT !.session = made]
  <1>1. demo \in DemoState /\ s \in Session /\ SessionSound(demo)
    BY DEF DemoSound, DemoState
  <1>2. after.session = made /\ after.map = demo.map
    BY <1>1 DEF DemoState
  <1>3. CASE s.planner = None
    <2>1. outcome.session = s /\ outcome.ok = FALSE
      BY <1>3 DEF OnTrafficChanged, Failed
    <2> QED BY <1>1, <1>2, <1>3, <2>1 DEF CallLeaves, SessionSound, AtRest
  <1>4. CASE s.planner # None
    <2>1. /\ s.planner \in Planner /\ s.trip \in Trip /\ s.trip # None
          /\ s.graph \in Edition /\ s.graph # None /\ s.planner.trip \in Trip
          /\ ValidTrip(demo.map, s.planner.trip)
      BY <1>1, <1>4 DEF SessionSound, Session, Planner
    <2>2. PICK r \in {s.best, s.planner.trip} \cup {t \in {s.trip} : Answerable(demo.map, t)} :
            outcome = [session |-> [built EXCEPT !.best = r], ok |-> TRUE]
      BY <1>4 DEF OnTrafficChanged, Found
    <2>3. r \in Trip \cup {None} /\ (r # None => Answerable(demo.map, r))
      BY <1>1, <2>1, <2>2, ValidAnswerable DEF SessionSound, Session
    <2>4. [s.planner EXCEPT !.graph = s.graph] \in Planner
          /\ [s.planner EXCEPT !.graph = s.graph].trip = s.planner.trip
          /\ [s.planner EXCEPT !.graph = s.graph].graph = s.graph
      BY <2>1 DEF Planner
    <2>5. /\ made.trip = s.trip /\ made.pluginGraph = s.graph /\ made.graph = s.graph
          /\ made.planner = [s.planner EXCEPT !.graph = s.graph] /\ made.stale = FALSE
          /\ made.best = r /\ made \in Session
      BY <1>1, <2>1, <2>2, <2>3, <2>4 DEF Session
    <2>6. made.planner # None
      BY <2>4, <2>5, NoneAssumption
    <2>7. SessionSound(after)
      BY <1>1, <1>2, <2>1, <2>3, <2>4, <2>5, <2>6 DEF SessionSound
    <2> QED BY <1>1, <2>1, <2>2, <2>5, <2>6, <2>7 DEF CallLeaves, AtRest
  <1> QED BY <1>3, <1>4

\* on_ego_moved, whose planner is seeded on the plugin's graph.
LEMMA OnEgoMovedLeaves ==
  ASSUME NEW demo, DemoSound(demo), NEW n \in Node,
         demo.session.trip # None => demo.destinations = Moved(demo.session.trip, n),
         NEW outcome \in OnEgoMoved(demo.map, demo.session, n)
  PROVE  CallLeaves(demo, outcome.session, outcome.ok)
  <1> DEFINE s == demo.session
             t == Moved(s.trip, n)
             moved == [s EXCEPT !.trip = t, !.best = None]
             built == [moved EXCEPT !.planner = [trip |-> t, graph |-> s.pluginGraph]]
             made == outcome.session
             after == [demo EXCEPT !.session = made]
  <1>1. demo \in DemoState /\ s \in Session /\ SessionSound(demo)
    BY DEF DemoSound, DemoState
  <1>2. after.session = made /\ after.map = demo.map
    BY <1>1 DEF DemoState
  <1>3. CASE s.trip = None
    <2>1. outcome.session = s /\ outcome.ok = FALSE
      BY <1>3 DEF OnEgoMoved, Failed
    <2> QED BY <1>1, <1>2, <1>3, <2>1 DEF CallLeaves, SessionSound
  <1>4. CASE s.trip # None
    <2>1. /\ s.trip \in Trip /\ t \in Trip /\ t # None /\ t = demo.destinations
          /\ s.graph # None /\ s.pluginGraph # None /\ s.pluginGraph \in Edition
      BY <1>1, <1>4, TripTypes DEF SessionSound, Session
    <2>2. [trip |-> t, graph |-> s.pluginGraph] \in Planner
          /\ [trip |-> t, graph |-> s.pluginGraph] # None
      BY <2>1, NoneAssumption DEF Planner
    <2>3. CASE ValidTrip(demo.map, t)
      <3>1. PICK r \in {None, t} : outcome = [session |-> [built EXCEPT !.best = r], ok |-> TRUE]
        BY <1>4, <2>3 DEF OnEgoMoved, Found, Moved
      <3>2. /\ made.trip = t /\ made.pluginGraph = s.pluginGraph /\ made.graph = s.graph
            /\ made.planner = [trip |-> t, graph |-> s.pluginGraph] /\ made.stale = s.stale
            /\ made.best = r /\ made \in Session
        BY <1>1, <2>1, <2>2, <3>1 DEF Session
      <3>3. SessionSound(after)
        BY <1>1, <1>2, <2>1, <2>2, <2>3, <3>2, ValidAnswerable DEF SessionSound
      <3> QED BY <1>1, <2>1, <2>2, <3>1, <3>2, <3>3 DEF CallLeaves
    <2>4. CASE ~ValidTrip(demo.map, t)
      <3>1. outcome = [session |-> moved, ok |-> FALSE]
        BY <1>4, <2>4 DEF OnEgoMoved, Failed, Moved
      <3>2. /\ made.trip = t /\ made.pluginGraph = s.pluginGraph /\ made.graph = s.graph
            /\ made.planner = s.planner /\ made.stale = s.stale
            /\ made.best = None /\ made \in Session
        BY <1>1, <2>1, <3>1 DEF Session
      <3>3. SessionSound(after)
        BY <1>1, <1>2, <2>1, <3>2 DEF SessionSound
      <3> QED BY <1>1, <2>1, <3>1, <3>2, <3>3 DEF CallLeaves
    <2> QED BY <2>3, <2>4
  <1> QED BY <1>3, <1>4

\* Every call, under what its job left for it.
LEMMA OutcomeLeaves ==
  ASSUME NEW demo, DemoSound(demo), NEW call \in Call, CallSound(demo, call),
         NEW outcome \in Outcomes(demo, call)
  PROVE  CallLeaves(demo, outcome.session, outcome.ok)
  <1>0. demo \in DemoState
    BY DEF DemoSound
  <1>1. CASE call.op = "destinations"
    <2>1. call.trip \in Trip
      BY <1>1 DEF Call
    <2>2. outcome \in SetDestinations(demo.map, demo.session, call.trip)
      BY <1>1 DEF Outcomes
    <2>3. demo.session.stale /\ demo.session.graph # None /\ demo.destinations = call.trip
      BY <1>1 DEF CallSound
    <2> QED BY <2>1, <2>2, <2>3, SetDestinationsLeaves
  <1>2. CASE call.op = "traffic"
    <2>1. outcome \in OnTrafficChanged(demo.map, demo.session) /\ AtRest(demo)
      BY <1>2 DEF Outcomes, CallSound
    <2> QED BY <2>1, OnTrafficChangedLeaves
  <1>3. CASE call.op = "ego"
    <2>1. call.node \in Node
      BY <1>3 DEF Call
    <2>2. outcome \in OnEgoMoved(demo.map, demo.session, call.node)
      BY <1>3 DEF Outcomes
    <2>3. demo.session.trip # None => demo.destinations = Moved(demo.session.trip, call.node)
      BY <1>3 DEF CallSound
    <2> QED BY <2>1, <2>2, <2>3, OnEgoMovedLeaves
  <1>4. CASE call.op = "continue"
    <2>1. outcome \in ContinueSearch(demo.map, demo.session) /\ AtRest(demo) /\ demo.seeded
      BY <1>4 DEF Outcomes, CallSound
    <2>2. CASE demo.session.stale
      BY <2>1, <2>2, OnTrafficChangedLeaves DEF ContinueSearch
    <2>3. CASE ~demo.session.stale
      <3> DEFINE s == demo.session
                 made == outcome.session
                 after == [demo EXCEPT !.session = made]
      <3>1. /\ s.planner # None /\ s \in Session /\ SessionSound(demo)
            /\ s.planner.trip \in Trip /\ ValidTrip(demo.map, s.planner.trip)
        BY <1>0, <2>1 DEF DemoSound, SessionSound, DemoState, Session, Planner
      <3>2. PICK r \in {s.best, s.planner.trip} :
              outcome = [session |-> [s EXCEPT !.best = r], ok |-> TRUE]
        BY <2>1, <2>3, <3>1 DEF ContinueSearch, Found
      <3>3. r \in Trip \cup {None} /\ (r # None => Answerable(demo.map, r))
        BY <3>1, <3>2, ValidAnswerable DEF SessionSound, Session
      <3>4. /\ made.trip = s.trip /\ made.pluginGraph = s.pluginGraph /\ made.graph = s.graph
            /\ made.planner = s.planner /\ made.stale = s.stale
            /\ made.best = r /\ made \in Session
        BY <3>1, <3>2, <3>3 DEF Session
      <3>5. after.session = made /\ after.map = demo.map
        BY <1>0 DEF DemoState
      <3>6. SessionSound(after)
        BY <3>1, <3>3, <3>4, <3>5 DEF SessionSound
      <3> QED BY <2>1, <3>1, <3>2, <3>4, <3>6 DEF CallLeaves, AtRest
    <2> QED BY <2>2, <2>3
  <1> QED BY <1>1, <1>2, <1>3, <1>4 DEF Call

\* _publish leaves the demo sound and at rest.
LEMMA PublishedSound ==
  ASSUME NEW demo, DemoSound(demo), NEW call \in Call, CallSound(demo, call),
         NEW outcome \in Outcomes(demo, call)
  PROVE  /\ DemoSound(Published(demo, call, outcome))
         /\ AtRest(Published(demo, call, outcome))
         /\ demo.result # None \/ (outcome.ok /\ outcome.session.best # None) =>
              Published(demo, call, outcome).result # None
  <1> DEFINE s == outcome.session
             pending == IF outcome.ok /\ call.op = "traffic" THEN FALSE ELSE demo.pending
             routed == outcome.ok /\ s.best # None
             after == Published(demo, call, outcome)
  <1>1. CallLeaves(demo, s, outcome.ok)
    BY OutcomeLeaves
  <1>2. demo \in DemoState /\ s \in Session /\ outcome.ok \in BOOLEAN
    BY <1>1 DEF DemoSound, CallLeaves
  <1>3. /\ after.session = s /\ after.pending = pending
        /\ after.map = demo.map /\ after.traffic = demo.traffic
        /\ after.destinations = demo.destinations /\ after.overlooked = demo.overlooked
        /\ after.result = (IF routed THEN s.best ELSE demo.result)
        /\ after.seeded = (IF routed THEN TRUE ELSE demo.seeded)
        /\ after \in DemoState
    BY <1>2 DEF Published, DemoState, Session
  <1> HIDE DEF after
  <1>4. SessionSound(after)
    <2>1. /\ [demo EXCEPT !.session = s].session = s
          /\ [demo EXCEPT !.session = s].map = demo.map
      BY <1>2 DEF DemoState
    <2> QED BY <1>1, <1>3, <2>1 DEF CallLeaves, SessionSound
  <1>5. after.session.graph # None =>
          after.session.graph = after.traffic \/ after.pending \/ after.overlooked
    BY <1>1, <1>3 DEF CallLeaves, DemoSound, CallSound
  <1>6. after.seeded => after.session.planner # None /\ after.result # None
    BY <1>1, <1>3 DEF CallLeaves, DemoSound
  <1>7. after.result # None => Answerable(after.map, after.result)
    BY <1>3, <1>4 DEF DemoSound, SessionSound
  <1>8. AtRest(after)
    BY <1>1, <1>3 DEF CallLeaves, AtRest
  <1> QED BY <1>3, <1>4, <1>5, <1>6, <1>7, <1>8 DEF DemoSound, after

-----------------------------------------------------------------------------
(* Steps                                                                    *)

\* What a task carries at each point.
LEMMA TaskTypes ==
  ASSUME tasks \in [Task -> TaskState], NEW k \in Task
  PROVE  /\ tasks[k].at \in {"idle", "queued", "ready", "calling", "planned"}
         /\ tasks[k].at = "queued" => tasks[k].job \in Job
         /\ tasks[k].at \in {"ready", "calling"} =>
              tasks[k].job \in Job /\ tasks[k].demo \in Nat /\ tasks[k].call \in Call
         /\ tasks[k].at = "planned" => tasks[k].demo \in Nat
  <1>1. tasks[k] \in TaskState
    OBVIOUS
  <1> QED BY <1>1 DEF TaskState

\* A handler leaves the demo on show as sound as it was, and may queue a job that
\* is no switch: no work begins or ends.
LEMMA HandlerInv ==
  ASSUME ServerInv, current' = current, NEW demo,
         demos' = [demos EXCEPT ![current] = demo],
         DemoSound(demo), demos[current].result # None => demo.result # None,
         AtRest(demos[current]) => AtRest(demo),
         \A k \in WorkingOn(current) :
           CallSound(demos[current], tasks[k].call) => CallSound(demo, tasks[k].call),
         \/ tasks' = tasks
         \/ \E k \in Task, job \in Job : "demo" \notin DOMAIN job /\ Request(k, job)
  PROVE  ServerInv'
  <1>1. /\ demos \in Seq(DemoState) /\ Len(demos) \in Nat /\ Len(demos) <= MaxDemos
        /\ current \in 1..Len(demos) /\ tasks \in [Task -> TaskState]
    BY DEF ServerInv, Shape, Demo
  <1>2. /\ demos' \in Seq(DemoState) /\ Len(demos') = Len(demos)
        /\ \A d \in 1..Len(demos) : demos'[d] = IF d = current THEN demo ELSE demos[d]
    BY <1>1 DEF DemoSound
  <1>3. /\ tasks' \in [Task -> TaskState]
        /\ \A j \in Task : \/ tasks'[j] = tasks[j]
                           \/ tasks[j].at = "idle" /\ tasks'[j].at = "queued"
                              /\ "demo" \notin DOMAIN tasks'[j].job
    <2>1. CASE tasks' = tasks
      BY <1>1, <2>1
    <2>2. ASSUME NEW k \in Task, NEW job \in Job, "demo" \notin DOMAIN job, Request(k, job)
          PROVE  /\ tasks' \in [Task -> TaskState]
                 /\ \A j \in Task : \/ tasks'[j] = tasks[j]
                                    \/ tasks[j].at = "idle" /\ tasks'[j].at = "queued"
                                       /\ "demo" \notin DOMAIN tasks'[j].job
      <3>1. Queued(job) \in TaskState
        BY DEF Queued, TaskState
      <3>2. tasks[k].at = "idle" /\ Queued(job).at = "queued" /\ Queued(job).job = job
        BY <2>2 DEF Request, Idle, Queued
      <3>3. tasks' = [tasks EXCEPT ![k] = Queued(job)]
        BY <2>2 DEF Request
      <3> QED BY <1>1, <2>2, <3>1, <3>2, <3>3
    <2> QED BY <2>1, <2>2
  <1>4. /\ Working' = Working
        /\ \A j \in Working : tasks'[j] = tasks[j]
        /\ \A j \in Task : Switching(j)' => Switching(j) /\ tasks'[j] = tasks[j]
        /\ \A j \in Task : tasks'[j].at = "planned" => tasks'[j] = tasks[j]
    BY <1>3 DEF Working, Switching
  <1>5. \A d \in 1..Len(demos) : Resting(d)' => Resting(d)
    BY <1>4 DEF Resting, WorkingOn
  <1>6. Shape'
    BY <1>1, <1>2, <1>3 DEF Shape, Demo
  <1>7. SwitchInv'
    <2>1. \A k \in Task : Switching(k)' =>
            Switched(k)' \in 2..Len(demos)' /\ Switched(k)' # current'
      BY <1>2, <1>4 DEF ServerInv, SwitchInv, Switched
    <2>2. \A j, k \in Task :
            Switching(j)' /\ Switching(k)' /\ Switched(j)' = Switched(k)' => j = k
      BY <1>4 DEF ServerInv, SwitchInv, Switched
    <2>3. \A k \in Task : tasks'[k].at = "planned" => demos'[tasks'[k].demo].result # None
      <3> SUFFICES ASSUME NEW k \in Task, tasks'[k].at = "planned"
                   PROVE  demos'[tasks'[k].demo].result # None
        OBVIOUS
      <3>1. tasks'[k] = tasks[k] /\ Switching(k) /\ Switched(k) = tasks[k].demo
        BY <1>4 DEF Switching, Switched
      <3>2. tasks[k].demo \in 1..Len(demos) /\ tasks[k].demo # current
        BY <1>1, <3>1 DEF ServerInv, SwitchInv
      <3> QED BY <1>2, <3>1, <3>2 DEF ServerInv, SwitchInv
    <2>4. ShownMapHasRoute'
      BY <1>1, <1>2 DEF ServerInv, SwitchInv, ShownMapHasRoute
    <2> QED BY <2>1, <2>2, <2>3, <2>4 DEF SwitchInv
  <1>8. WorkInv'
    <2>1. \A k \in Working : tasks[k].demo \in 1..Len(demos)
             /\ CallSound(demos[tasks[k].demo], tasks[k].call)
      BY DEF ServerInv, WorkInv, Demo
    <2>2. \A k \in Working : CallSound(demos'[tasks[k].demo], tasks[k].call)
      BY <1>2, <2>1 DEF WorkingOn
    <2> QED BY <1>2, <1>4, <2>1, <2>2 DEF ServerInv, WorkInv, Demo
  <1>9. \A d \in Demo' : DemoSound(demos'[d]) /\ (Resting(d)' => AtRest(demos'[d]))
    BY <1>1, <1>2, <1>5 DEF ServerInv, Demo
  <1>10. \A d \in Demo' : DemoSound(demos[d])' /\ (Resting(d)' => AtRest(demos[d])')
    BY <1>9 DEF DemoSound, SessionSound, AtRest
  <1> QED BY <1>6, <1>7, <1>8, <1>10 DEF ServerInv

\* switch_map adds a demo no task has yet.
LEMMA SwitchMapInv ==
  ASSUME ServerInv, NEW c \in Client, SwitchMap(c)
  PROVE  ServerInv'
  <1> DEFINE n == Len(demos) + 1
             job == [kind |-> "replan", demo |-> n]
  <1>1. /\ demos \in Seq(DemoState) /\ Len(demos) \in Nat /\ Len(demos) < MaxDemos
        /\ current \in 1..Len(demos) /\ tasks \in [Task -> TaskState] /\ c \in Task
    BY BoundAssumption DEF ServerInv, Shape, Demo, SwitchMap, Task
  <1>2. PICK m \in Switches : demos' = Append(demos, NewDemo(m))
    BY DEF SwitchMap
  <1>3. m \in Map /\ DemoSound(NewDemo(m)) /\ AtRest(NewDemo(m)) /\ NewDemo(m) \in DemoState
    BY MapAssumption, NewDemoSound DEF DemoSound
  <1>4. /\ demos' \in Seq(DemoState) /\ Len(demos') = n /\ current' = current
        /\ \A d \in 1..Len(demos) : demos'[d] = demos[d]
        /\ demos'[n] = NewDemo(m)
    BY <1>1, <1>2, <1>3 DEF SwitchMap
  <1>5. /\ Queued(job) \in TaskState /\ Queued(job).at = "queued" /\ Queued(job).job = job
        /\ "demo" \in DOMAIN job /\ job.demo = n
    BY <1>1 DEF Queued, TaskState, Job
  <1>6. /\ tasks[c].at = "idle" /\ tasks' = [tasks EXCEPT ![c] = Queued(job)]
    BY DEF SwitchMap, Request, Idle
  <1> HIDE DEF job
  <1>7. /\ tasks' \in [Task -> TaskState] /\ tasks'[c].at = "queued" /\ tasks'[c].job = job
        /\ \A j \in Task \ {c} : tasks'[j] = tasks[j]
    BY <1>1, <1>5, <1>6
  <1>8. /\ Working' = Working /\ \A j \in Working : tasks'[j] = tasks[j]
    BY <1>6, <1>7 DEF Working
  <1>9. Shape'
    BY <1>1, <1>4, <1>7, BoundAssumption DEF Shape, Demo
  <1>10. SwitchInv'
    <2>1. Switching(c)' /\ Switched(c)' = n
      BY <1>5, <1>7 DEF Switching, Switched
    <2>2. \A k \in Task \ {c} : /\ Switching(k)' = Switching(k) /\ Switched(k)' = Switched(k)
                                /\ Switching(k) => Switched(k) \in 2..Len(demos)
      BY <1>7 DEF Switching, Switched, ServerInv, SwitchInv
    <2>3. n \in 2..Len(demos') /\ n # current /\ n \notin 2..Len(demos)
      BY <1>1, <1>4
    <2>4. \A k \in Task : Switching(k)' => Switched(k)' \in 2..Len(demos') /\ Switched(k)' # current'
      <3> SUFFICES ASSUME NEW k \in Task, Switching(k)'
                   PROVE  Switched(k)' \in 2..Len(demos') /\ Switched(k)' # current'
        OBVIOUS
      <3>1. CASE k = c
        BY <1>4, <2>1, <2>3, <3>1
      <3>2. CASE k # c
        BY <1>1, <1>4, <2>2, <3>2 DEF ServerInv, SwitchInv
      <3> QED BY <3>1, <3>2
    <2>5. \A j, k \in Task :
            Switching(j)' /\ Switching(k)' /\ Switched(j)' = Switched(k)' => j = k
      BY <2>1, <2>2, <2>3 DEF ServerInv, SwitchInv
    <2>6. \A k \in Task : tasks'[k].at = "planned" => demos'[tasks'[k].demo].result # None
      <3> SUFFICES ASSUME NEW k \in Task, tasks'[k].at = "planned"
                   PROVE  demos'[tasks'[k].demo].result # None
        OBVIOUS
      <3>1. k # c /\ tasks'[k] = tasks[k] /\ tasks[k].at = "planned"
        BY <1>7
      <3>2. Switching(k) /\ Switched(k) = tasks[k].demo
        BY <3>1 DEF Switching, Switched
      <3>3. tasks[k].demo \in 1..Len(demos)
        BY <1>1, <3>2 DEF ServerInv, SwitchInv
      <3> QED BY <1>4, <3>1, <3>3 DEF ServerInv, SwitchInv
    <2>7. ShownMapHasRoute'
      BY <1>1, <1>4 DEF ServerInv, SwitchInv, ShownMapHasRoute
    <2> QED BY <2>4, <2>5, <2>6, <2>7 DEF SwitchInv
  <1>11. WorkInv'
    <2>1. \A k \in Working : tasks[k].demo \in 1..Len(demos)
             /\ CallSound(demos[tasks[k].demo], tasks[k].call)
      BY DEF ServerInv, WorkInv, Demo
    <2>2. \A k \in Working : tasks[k].demo \in 1..Len(demos') /\ CallSound(demos'[tasks[k].demo], tasks[k].call)
      BY <1>1, <1>4, <2>1
    <2> QED BY <1>8, <2>2 DEF ServerInv, WorkInv, Demo
  <1>12. \A d \in Demo' : DemoSound(demos'[d]) /\ (Resting(d)' => AtRest(demos'[d]))
    <2> SUFFICES ASSUME NEW d \in Demo'
                 PROVE  DemoSound(demos'[d]) /\ (Resting(d)' => AtRest(demos'[d]))
      OBVIOUS
    <2>1. CASE d = n
      BY <1>3, <1>4, <2>1
    <2>2. CASE d # n
      <3>1. d \in 1..Len(demos)
        BY <1>1, <1>4, <2>2 DEF Demo
      <3>2. Resting(d)' => Resting(d)
        BY <1>8 DEF Resting, WorkingOn
      <3> QED BY <1>4, <3>1, <3>2 DEF ServerInv, Demo
    <2> QED BY <2>1, <2>2
  <1>13. \A d \in Demo' : DemoSound(demos[d])' /\ (Resting(d)' => AtRest(demos[d])')
    BY <1>12 DEF DemoSound, SessionSound, AtRest
  <1> QED BY <1>9, <1>10, <1>11, <1>13 DEF ServerInv

\* A worker's step leaves its demo sound and as its own next step relies on it.
LEMMA WorkerInv ==
  ASSUME ServerInv, current' = current,
         NEW k \in Task, Working \subseteq {k},
         NEW d \in 1..Len(demos), k \in Working => tasks[k].demo = d,
         NEW demo, DemoSound(demo), demos[d].result # None => demo.result # None,
         demos' = [demos EXCEPT ![d] = demo],
         NEW task \in TaskState, tasks' = [tasks EXCEPT ![k] = task],
         \/ task.at = "idle" /\ AtRest(demo)
         \/ task.at \in {"ready", "calling"}
              /\ task.demo = d /\ CallSound(demo, task.call)
              /\ tasks[k].at \in {"queued", "ready", "calling"} /\ task.job = tasks[k].job
              /\ ("demo" \in DOMAIN task.job => d = task.job.demo)
         \/ task.at = "planned" /\ AtRest(demo) /\ demo.result # None
              /\ task.demo = d /\ Switching(k) /\ d = Switched(k)
  PROVE  ServerInv'
  <1>1. /\ demos \in Seq(DemoState) /\ Len(demos) \in Nat /\ Len(demos) <= MaxDemos
        /\ current \in 1..Len(demos) /\ tasks \in [Task -> TaskState]
    BY DEF ServerInv, Shape, Demo
  <1>2. /\ demos' \in Seq(DemoState) /\ Len(demos') = Len(demos)
        /\ \A e \in 1..Len(demos) : demos'[e] = IF e = d THEN demo ELSE demos[e]
    BY <1>1 DEF DemoSound
  <1>3. /\ tasks' \in [Task -> TaskState] /\ tasks'[k] = task
        /\ \A j \in Task \ {k} : tasks'[j] = tasks[j]
    BY <1>1
  <1>4. /\ \A j \in Working' : j = k /\ task.at \in {"ready", "calling"}
        /\ task.at \in {"ready", "calling"} => Working' = {k}
    BY <1>3 DEF Working
  <1>5. \A e \in 1..Len(demos) : e # d => Resting(e)
    BY DEF Resting, WorkingOn
  <1>6. Shape'
    BY <1>1, <1>2, <1>3 DEF Shape, Demo
  <1>7. /\ Switching(k)' => Switching(k) /\ Switched(k)' = Switched(k)
        /\ \A j \in Task \ {k} : Switching(j)' = Switching(j) /\ Switched(j)' = Switched(j)
    <2>1. \A j \in Task \ {k} : Switching(j)' = Switching(j) /\ Switched(j)' = Switched(j)
      BY <1>3 DEF Switching, Switched
    <2>2. Switching(k)' => Switching(k) /\ Switched(k)' = Switched(k)
      BY <1>3 DEF Switching, Switched
    <2> QED BY <2>1, <2>2
  <1>8. SwitchInv'
    <2>1. \A j \in Task : Switching(j)' => Switching(j) /\ Switched(j)' = Switched(j)
      BY <1>7
    <2>2. \A j \in Task : Switching(j)' =>
            Switched(j)' \in 2..Len(demos)' /\ Switched(j)' # current'
      BY <1>2, <2>1 DEF ServerInv, SwitchInv
    <2>3. \A i, j \in Task :
            Switching(i)' /\ Switching(j)' /\ Switched(i)' = Switched(j)' => i = j
      BY <2>1 DEF ServerInv, SwitchInv
    <2>4. \A j \in Task : tasks'[j].at = "planned" => demos'[tasks'[j].demo].result # None
      <3> SUFFICES ASSUME NEW j \in Task, tasks'[j].at = "planned"
                   PROVE  demos'[tasks'[j].demo].result # None
        OBVIOUS
      <3>1. CASE j = k
        BY <1>2, <1>3, <3>1
      <3>2. CASE j # k
        <4>1. tasks'[j] = tasks[j] /\ Switching(j) /\ Switched(j) = tasks[j].demo
          BY <1>3, <3>2 DEF Switching, Switched
        <4>2. tasks[j].demo \in 1..Len(demos) /\ demos[tasks[j].demo].result # None
          BY <1>1, <4>1 DEF ServerInv, SwitchInv
        <4> QED BY <1>2, <4>1, <4>2
      <3> QED BY <3>1, <3>2
    <2>5. ShownMapHasRoute'
      BY <1>1, <1>2 DEF ServerInv, SwitchInv, ShownMapHasRoute
    <2> QED BY <2>2, <2>3, <2>4, <2>5 DEF SwitchInv
  <1>9. WorkInv'
    <2>1. \A j \in Working' : tasks'[j].demo \in 1..Len(demos') /\ CallSound(demos'[tasks'[j].demo], tasks'[j].call)
      BY <1>2, <1>3, <1>4
    <2>2. \A j \in Working' : "demo" \in DOMAIN tasks'[j].job => tasks'[j].demo = tasks'[j].job.demo
      BY <1>3, <1>4
    <2>3. \A i, j \in Working' : i = j
      BY <1>4
    <2> QED BY <2>1, <2>2, <2>3 DEF WorkInv, Demo
  <1>10. \A e \in Demo' : DemoSound(demos'[e]) /\ (Resting(e)' => AtRest(demos'[e]))
    <2> SUFFICES ASSUME NEW e \in 1..Len(demos)
                 PROVE  DemoSound(demos'[e]) /\ (Resting(e)' => AtRest(demos'[e]))
      BY <1>2 DEF Demo
    <2>1. CASE e = d
      <3>1. Resting(d)' => AtRest(demo)
        BY <1>3, <1>4 DEF Resting, WorkingOn
      <3> QED BY <1>2, <2>1, <3>1
    <2>2. CASE e # d
      BY <1>2, <1>5, <2>2 DEF ServerInv, Demo
    <2> QED BY <2>1, <2>2
  <1>11. \A e \in Demo' : DemoSound(demos[e])' /\ (Resting(e)' => AtRest(demos[e])')
    BY <1>10 DEF DemoSound, SessionSound, AtRest
  <1> QED BY <1>6, <1>8, <1>9, <1>11 DEF ServerInv

\* _planner_call: the job in the queue starts on the demo it is for.
LEMMA BeginInv ==
  ASSUME ServerInv, NEW k \in Task, Begin(k)
  PROVE  ServerInv'
  <1> DEFINE job == tasks[k].job
             d == Target(job)
             start == Prepared(demos[d], job)
             ready == [at |-> "ready", job |-> job, demo |-> d, call |-> start.call]
  <1>1. /\ tasks \in [Task -> TaskState] /\ tasks[k].at = "queued" /\ job \in Job
        /\ Working = {} /\ current' = current /\ demos \in Seq(DemoState)
        /\ current \in 1..Len(demos) /\ Len(demos) \in Nat
    BY TaskTypes DEF ServerInv, Shape, Begin, Demo
  <1>2. d \in 1..Len(demos) /\ ("demo" \in DOMAIN job => d = job.demo)
    <2>1. CASE "demo" \in DOMAIN job
      <3>1. Switching(k) /\ Switched(k) = job.demo
        BY <1>1, <2>1 DEF Switching, Switched
      <3>2. job.demo \in 2..Len(demos)
        BY <3>1 DEF ServerInv, SwitchInv
      <3> QED BY <1>1, <2>1, <3>2 DEF Target
    <2>2. CASE "demo" \notin DOMAIN job
      BY <1>1, <2>2 DEF Target
    <2> QED BY <2>1, <2>2
  <1>3. DemoSound(demos[d]) /\ AtRest(demos[d])
    BY <1>1, <1>2 DEF ServerInv, Demo, Resting, WorkingOn
  <1> HIDE DEF job, d
  <1>4. CASE job.kind = "continue" /\ ~demos[d].seeded
    <2>1. tasks' = [tasks EXCEPT ![k] = Idle] /\ demos' = demos
      BY <1>4 DEF Begin, job, d
    <2>2. Idle \in TaskState /\ Idle.at = "idle"
      BY DEF Idle, TaskState
    <2>3. demos' = [demos EXCEPT ![d] = demos[d]]
      BY <1>1, <2>1
    <2> QED BY <1>1, <1>2, <1>3, <2>1, <2>2, <2>3, WorkerInv
  <1>5. CASE ~(job.kind = "continue" /\ ~demos[d].seeded)
    <2>1. demos' = [demos EXCEPT ![d] = start.demo] /\ tasks' = [tasks EXCEPT ![k] = ready]
      BY <1>5 DEF Begin, job, d
    <2>2. /\ DemoSound(start.demo) /\ start.call \in Call
          /\ CallSound(start.demo, start.call) /\ start.demo.result = demos[d].result
      BY <1>1, <1>3, <1>5, PreparedSound
    <2>3. /\ ready \in TaskState /\ ready.at = "ready" /\ ready.demo = d
          /\ ready.call = start.call /\ ready.job = job
      BY <1>1, <1>2, <2>2 DEF TaskState
    <2> HIDE DEF ready
    <2>4. ready.job = tasks[k].job /\ tasks[k].at \in {"queued", "ready", "calling"}
      BY <1>1, <2>3 DEF job
    <2>5. k \in Working => tasks[k].demo = d
      BY <1>1
    <2> QED BY <1>1, <1>2, <2>1, <2>2, <2>3, <2>4, <2>5, WorkerInv
  <1> QED BY <1>4, <1>5

\* What the one task at work relies on.
LEMMA AtWork ==
  ASSUME ServerInv, NEW k \in Working
  PROVE  /\ k \in Task /\ Working \subseteq {k}
         /\ tasks[k].demo \in 1..Len(demos) /\ DemoSound(demos[tasks[k].demo])
         /\ CallSound(demos[tasks[k].demo], tasks[k].call)
         /\ tasks[k].call \in Call /\ tasks[k].job \in Job
         /\ "demo" \in DOMAIN tasks[k].job => tasks[k].demo = tasks[k].job.demo
         /\ demos \in Seq(DemoState) /\ tasks \in [Task -> TaskState]
  <1>1. k \in Task /\ tasks[k].at \in {"ready", "calling"}
    BY DEF Working
  <1>2. demos \in Seq(DemoState) /\ tasks \in [Task -> TaskState]
    BY DEF ServerInv, Shape
  <1>3. tasks[k].call \in Call /\ tasks[k].job \in Job
    BY <1>1, <1>2, TaskTypes
  <1> QED BY <1>1, <1>2, <1>3 DEF ServerInv, WorkInv, Demo

\* The call begins: nothing a demo holds changes.
LEMMA EnterInv ==
  ASSUME ServerInv, NEW k \in Task, Enter(k)
  PROVE  ServerInv'
  <1> DEFINE task == [tasks[k] EXCEPT !.at = "calling"]
             d == tasks[k].demo
  <1>1. k \in Working /\ tasks[k].at = "ready"
    BY DEF Enter, Working
  <1>2. /\ Working \subseteq {k} /\ d \in 1..Len(demos) /\ DemoSound(demos[d])
        /\ CallSound(demos[d], tasks[k].call)
        /\ "demo" \in DOMAIN tasks[k].job => d = tasks[k].job.demo
        /\ demos \in Seq(DemoState) /\ tasks \in [Task -> TaskState]
    BY <1>1, AtWork
  <1>3. /\ task \in TaskState /\ task.at = "calling" /\ task.demo = d
        /\ task.call = tasks[k].call /\ task.job = tasks[k].job
    BY <1>1, <1>2 DEF TaskState
  <1>4. tasks' = [tasks EXCEPT ![k] = task] /\ current' = current /\ demos' = demos
    BY <1>2 DEF Enter
  <1>5. demos' = [demos EXCEPT ![d] = demos[d]]
    BY <1>2, <1>4
  <1> HIDE DEF task, d
  <1>6. k \in Working => tasks[k].demo = d
    BY DEF d
  <1>7. /\ current' = current /\ DemoSound(demos[d])
        /\ demos[d].result # None => demos[d].result # None
        /\ task.at \in {"ready", "calling"} /\ task.demo = d /\ CallSound(demos[d], task.call)
        /\ tasks[k].at \in {"queued", "ready", "calling"} /\ task.job = tasks[k].job
        /\ "demo" \in DOMAIN task.job => d = task.job.demo
    BY <1>1, <1>2, <1>3, <1>4 DEF d
  <1> QED BY <1>2, <1>3, <1>4, <1>5, <1>6, <1>7, WorkerInv

\* The call returns: the demo is at rest, and a switch waits only with a route.
LEMMA ReturnInv ==
  ASSUME ServerInv, NEW k \in Task, Return(k)
  PROVE  ServerInv'
  <1> DEFINE d == tasks[k].demo
             planned == [at |-> "planned", demo |-> d]
  <1>1. k \in Working /\ tasks[k].at = "calling" /\ current' = current
    BY DEF Return, Working
  <1>2. /\ Working \subseteq {k} /\ d \in 1..Len(demos) /\ DemoSound(demos[d])
        /\ CallSound(demos[d], tasks[k].call) /\ tasks[k].call \in Call
        /\ "demo" \in DOMAIN tasks[k].job => d = tasks[k].job.demo
    BY <1>1, AtWork
  <1>3. PICK outcome \in Outcomes(demos[d], tasks[k].call) :
          /\ demos' = [demos EXCEPT ![d] = Published(demos[d], tasks[k].call, outcome)]
          /\ tasks' = [tasks EXCEPT ![k] =
               IF "demo" \in DOMAIN tasks[k].job /\ outcome.ok /\ outcome.session.best # None
                 THEN planned ELSE Idle]
    BY DEF Return
  <1> DEFINE demo == Published(demos[d], tasks[k].call, outcome)
  <1>4. /\ DemoSound(demo) /\ AtRest(demo)
        /\ demos[d].result # None => demo.result # None
        /\ outcome.ok /\ outcome.session.best # None => demo.result # None
    BY <1>2, PublishedSound
  <1>5. /\ planned \in TaskState /\ planned.at = "planned" /\ planned.demo = d
        /\ Idle \in TaskState /\ Idle.at = "idle"
    BY <1>2 DEF TaskState, Idle
  <1>6. k \in Working => tasks[k].demo = d
    OBVIOUS
  <1> HIDE DEF demo, planned, d
  <1>7. CASE "demo" \in DOMAIN tasks[k].job /\ outcome.ok /\ outcome.session.best # None
    <2>1. Switching(k) /\ d = Switched(k)
      BY <1>1, <1>2, <1>7 DEF Switching, Switched
    <2>2. tasks' = [tasks EXCEPT ![k] = planned] /\ demos' = [demos EXCEPT ![d] = demo]
      BY <1>3, <1>7 DEF demo
    <2> QED BY <1>1, <1>2, <1>4, <1>5, <1>6, <1>7, <2>1, <2>2, WorkerInv
  <1>8. CASE ~("demo" \in DOMAIN tasks[k].job /\ outcome.ok /\ outcome.session.best # None)
    <2>1. tasks' = [tasks EXCEPT ![k] = Idle] /\ demos' = [demos EXCEPT ![d] = demo]
      BY <1>3, <1>8 DEF demo
    <2> QED BY <1>1, <1>2, <1>4, <1>5, <1>6, <2>1, WorkerInv
  <1> QED BY <1>7, <1>8

\* switch_map resumes: the adopted demo is not the one put away.
LEMMA AdoptInv ==
  ASSUME ServerInv, NEW k \in Task, Adopt(k)
  PROVE  ServerInv'
  <1> DEFINE d == tasks[k].demo
             old == NewDemo(demos[current].map)
  <1>1. /\ demos \in Seq(DemoState) /\ Len(demos) \in Nat /\ Len(demos) <= MaxDemos
        /\ current \in 1..Len(demos) /\ tasks \in [Task -> TaskState]
        /\ tasks[k].at = "planned"
    BY DEF ServerInv, Shape, Demo, Adopt
  <1>2. Switching(k) /\ Switched(k) = d
    BY <1>1 DEF Switching, Switched
  <1>3. d \in 2..Len(demos) /\ d # current /\ demos[d].result # None
    BY <1>1, <1>2 DEF ServerInv, SwitchInv
  <1>4. DemoSound(old) /\ AtRest(old) /\ old \in DemoState
    <2>1. demos[current] \in DemoState
      BY <1>1
    <2>2. demos[current].map \in Map
      BY <2>1 DEF DemoState
    <2> QED BY <2>2, NewDemoSound DEF DemoSound, old
  <1> HIDE DEF d, old
  <1>5. /\ demos' \in Seq(DemoState) /\ Len(demos') = Len(demos) /\ current' = d
        /\ \A e \in 1..Len(demos) :
             demos'[e] = IF e = current /\ Resting(current) THEN old ELSE demos[e]
    BY <1>1, <1>4 DEF Adopt, d, old
  <1>6. /\ tasks' \in [Task -> TaskState] /\ tasks'[k].at = "idle"
        /\ \A j \in Task \ {k} : tasks'[j] = tasks[j]
    <2>1. Idle \in TaskState /\ Idle.at = "idle"
      BY DEF TaskState, Idle
    <2> QED BY <1>1, <2>1 DEF Adopt
  <1>7. /\ Working' = Working /\ \A j \in Working : j # k /\ tasks'[j] = tasks[j]
    BY <1>1, <1>6 DEF Working
  <1>8. /\ ~Switching(k)'
        /\ \A j \in Task \ {k} : Switching(j)' = Switching(j) /\ Switched(j)' = Switched(j)
    <2>1. ~Switching(k)'
      BY <1>6 DEF Switching
    <2>2. \A j \in Task \ {k} : Switching(j)' = Switching(j) /\ Switched(j)' = Switched(j)
      BY <1>6 DEF Switching, Switched
    <2> QED BY <2>1, <2>2
  <1>9. Shape'
    BY <1>1, <1>3, <1>5, <1>6 DEF Shape, Demo
  <1>10. SwitchInv'
    <2>1. \A j \in Task : Switching(j)' =>
            Switched(j)' \in 2..Len(demos)' /\ Switched(j)' # current'
      BY <1>2, <1>5, <1>8 DEF ServerInv, SwitchInv
    <2>2. \A i, j \in Task :
            Switching(i)' /\ Switching(j)' /\ Switched(i)' = Switched(j)' => i = j
      BY <1>8 DEF ServerInv, SwitchInv
    <2>3. \A j \in Task : tasks'[j].at = "planned" => demos'[tasks'[j].demo].result # None
      <3> SUFFICES ASSUME NEW j \in Task, tasks'[j].at = "planned"
                   PROVE  demos'[tasks'[j].demo].result # None
        OBVIOUS
      <3>1. j # k /\ tasks'[j] = tasks[j]
        BY <1>6
      <3>2. Switching(j) /\ Switched(j) = tasks[j].demo
        BY <3>1 DEF Switching, Switched
      <3>3. /\ tasks[j].demo \in 1..Len(demos) /\ tasks[j].demo # current
            /\ demos[tasks[j].demo].result # None
        BY <1>1, <3>1, <3>2 DEF ServerInv, SwitchInv
      <3> QED BY <1>5, <3>1, <3>3
    <2>4. ShownMapHasRoute'
      BY <1>1, <1>3, <1>5 DEF ShownMapHasRoute
    <2> QED BY <2>1, <2>2, <2>3, <2>4 DEF SwitchInv
  <1>11. WorkInv'
    <2>1. \A j \in Working : /\ tasks[j].demo \in 1..Len(demos)
                             /\ demos'[tasks[j].demo] = demos[tasks[j].demo]
                             /\ CallSound(demos[tasks[j].demo], tasks[j].call)
      BY <1>5 DEF ServerInv, WorkInv, Demo, Resting, WorkingOn
    <2> QED BY <1>5, <1>7, <2>1 DEF ServerInv, WorkInv, Demo
  <1>12. \A e \in Demo' : DemoSound(demos'[e]) /\ (Resting(e)' => AtRest(demos'[e]))
    <2> SUFFICES ASSUME NEW e \in 1..Len(demos)
                 PROVE  DemoSound(demos'[e]) /\ (Resting(e)' => AtRest(demos'[e]))
      BY <1>5 DEF Demo
    <2>1. Resting(e)' => Resting(e)
      BY <1>7 DEF Resting, WorkingOn
    <2> QED BY <1>4, <1>5, <2>1 DEF ServerInv, Demo
  <1>13. \A e \in Demo' : DemoSound(demos[e])' /\ (Resting(e)' => AtRest(demos[e])')
    BY <1>12 DEF DemoSound, SessionSound, AtRest
  <1> QED BY <1>9, <1>10, <1>11, <1>13 DEF ServerInv

\* Handlers that leave the demo on show alone and queue a job.
LEMMA RequestInv ==
  ASSUME ServerInv, UNCHANGED <<demos, current>>,
         NEW k \in Task, NEW job \in Job, "demo" \notin DOMAIN job, Request(k, job)
  PROVE  ServerInv'
  <1>1. demos \in Seq(DemoState) /\ current \in 1..Len(demos)
    BY DEF ServerInv, Shape, Demo
  <1>2. demos' = [demos EXCEPT ![current] = demos[current]] /\ DemoSound(demos[current])
    BY <1>1 DEF ServerInv, Demo
  <1> QED BY <1>2, HandlerInv

\* Jobs that are no switch.
LEMMA JobTypes ==
  /\ [kind |-> "replan"] \in Job /\ "demo" \notin DOMAIN [kind |-> "replan"]
  /\ [kind |-> "continue"] \in Job /\ "demo" \notin DOMAIN [kind |-> "continue"]
  /\ \A t \in Trip : /\ [kind |-> "destinations", trip |-> t] \in Job
                     /\ "demo" \notin DOMAIN [kind |-> "destinations", trip |-> t]
  /\ \A n \in Node : /\ [kind |-> "ego", node |-> n] \in Job
                     /\ "demo" \notin DOMAIN [kind |-> "ego", node |-> n]
  BY DEF Job

\* An edit that traffic_changed() announces.
LEMMA EditTrafficInv ==
  ASSUME ServerInv, NEW c \in Client, EditTraffic(c)
  PROVE  ServerInv'
  <1> DEFINE overlooked == demos[current].overlooked
                             \/ \E k \in WorkingOn(current) : tasks[k].call.op = "traffic"
             edited == Announced(current)
  <1>1. /\ demos[current].traffic < MaxEdits /\ current' = current /\ c \in Task
        /\ demos' = [demos EXCEPT ![current] = edited]
        /\ Request(c, [kind |-> "replan"])
    BY DEF EditTraffic, Task
  <1>2. /\ DemoSound(demos[current]) /\ demos[current] \in DemoState
        /\ \A k \in WorkingOn(current) : tasks[k].call \in Call
    <2>1. \A k \in Working : tasks[k].call \in Call
      BY AtWork
    <2> QED BY <2>1 DEF ServerInv, Shape, DemoSound, WorkingOn
  <1>3. overlooked \in BOOLEAN /\ (demos[current].overlooked => overlooked)
    BY <1>2 DEF DemoState
  <1>4. edited = [demos[current] EXCEPT !.traffic = @ + 1, !.pending = TRUE,
                                        !.overlooked = overlooked]
    BY DEF Announced
  <1>5. \A k \in WorkingOn(current) : tasks[k].call.op = "traffic" => overlooked
    OBVIOUS
  <1> HIDE DEF overlooked, edited
  <1>6. /\ DemoSound(edited) /\ (AtRest(demos[current]) => AtRest(edited))
        /\ edited.result = demos[current].result
        /\ \A call \in Call :
             CallSound(demos[current], call) /\ (call.op = "traffic" => overlooked)
               => CallSound(edited, call)
    <2>1. /\ TRUE \in BOOLEAN /\ (demos[current].pending => TRUE) /\ (TRUE \/ overlooked)
      OBVIOUS
    <2>2. \A e : e = [demos[current] EXCEPT !.traffic = @ + 1, !.pending = TRUE,
                                             !.overlooked = overlooked] =>
            /\ DemoSound(e) /\ (AtRest(demos[current]) => AtRest(e))
            /\ e.result = demos[current].result
            /\ \A call \in Call :
                 CallSound(demos[current], call) /\ (call.op = "traffic" => overlooked)
                   => CallSound(e, call)
      BY <1>1, <1>2, <1>3, <2>1, EditedSound
    <2> QED BY <1>4, <2>2
  <1>7. \A k \in WorkingOn(current) :
          CallSound(demos[current], tasks[k].call) => CallSound(edited, tasks[k].call)
    BY <1>2, <1>5, <1>6
  <1> QED BY <1>1, <1>6, <1>7, JobTypes, HandlerInv

\* An edit that the 400 of a partly refused list keeps quiet.
LEMMA EditTrafficPartlyInv ==
  ASSUME ServerInv, NEW c \in Client, EditTrafficPartly(c)
  PROVE  ServerInv'
  <1> DEFINE demo == demos[current]
             edited == [demo EXCEPT !.traffic = @ + 1, !.pending = demo.pending,
                                    !.overlooked = TRUE]
  <1>1. /\ demo.traffic < MaxEdits /\ current' = current /\ tasks' = tasks
        /\ demos \in Seq(DemoState) /\ current \in 1..Len(demos)
        /\ demos' = [demos EXCEPT ![current].traffic = @ + 1, ![current].overlooked = TRUE]
    BY DEF EditTrafficPartly, ServerInv, Shape, Demo
  <1>2. /\ DemoSound(demo) /\ demo \in DemoState /\ demo.pending \in BOOLEAN
        /\ \A k \in WorkingOn(current) : tasks[k].call \in Call
    <2>1. \A k \in Working : tasks[k].call \in Call
      BY AtWork
    <2> QED BY <2>1 DEF ServerInv, Shape, DemoSound, WorkingOn, DemoState
  <1>3. /\ DemoSound(edited) /\ (AtRest(demo) => AtRest(edited)) /\ edited.result = demo.result
        /\ \A call \in Call : CallSound(demo, call) => CallSound(edited, call)
    <2>1. TRUE \in BOOLEAN /\ (demo.pending => demo.pending) /\ (demo.overlooked => TRUE)
      OBVIOUS
    <2>2. \A e : e = [demo EXCEPT !.traffic = @ + 1, !.pending = demo.pending,
                                  !.overlooked = TRUE] =>
            /\ DemoSound(e) /\ (AtRest(demo) => AtRest(e)) /\ e.result = demo.result
            /\ \A call \in Call :
                 CallSound(demo, call) /\ (call.op = "traffic" => TRUE) => CallSound(e, call)
      BY <1>1, <1>2, <2>1, EditedSound
    <2> QED BY <2>2
  <1>4. demos' = [demos EXCEPT ![current] = edited]
    <2>1. edited = [demo EXCEPT !.traffic = @ + 1, !.overlooked = TRUE]
      BY <1>2 DEF DemoState
    <2> QED BY <1>1, <2>1
  <1> HIDE DEF edited
  <1> QED BY <1>1, <1>2, <1>3, <1>4, HandlerInv

\* A snapshot made while a job may be waiting to start its call.
LEMMA SnapEgoInv ==
  ASSUME ServerInv, NEW c \in Client, SnapEgo(c)
  PROVE  ServerInv'
  <1> DEFINE demo == demos[current]
             synced == Synced(demo)
  <1>1. PICK n \in Positions : Request(c, [kind |-> "ego", node |-> n])
    BY DEF SnapEgo
  <1>2. /\ current' = current /\ c \in Task /\ n \in Node
        /\ demos' = [demos EXCEPT ![current] = synced]
    BY MapAssumption DEF SnapEgo, Task
  <1>3. DemoSound(demo) /\ \A k \in WorkingOn(current) : tasks[k].call \in Call
    <2>1. \A k \in Working : tasks[k].call \in Call
      BY AtWork
    <2> QED BY <2>1 DEF ServerInv, Shape, WorkingOn
  <1>4. /\ DemoSound(synced) /\ (AtRest(demo) => AtRest(synced)) /\ synced.result = demo.result
        /\ \A call \in Call : CallSound(demo, call) => CallSound(synced, call)
    BY <1>3, SyncedSound
  <1> HIDE DEF synced
  <1> QED BY <1>1, <1>2, <1>3, <1>4, JobTypes, HandlerInv

\* lifespan's first planning, with or without success.
LEMMA InitInv == Init => ServerInv
  <1> SUFFICES ASSUME Init PROVE ServerInv
    OBVIOUS
  <1> DEFINE fresh == NewDemo(FirstMap)
             start == Prepared(fresh, [kind |-> "replan"])
  <1>1. DemoSound(fresh) /\ AtRest(fresh)
    BY MapAssumption, NewDemoSound
  <1>2. [kind |-> "replan"] \in Job /\ [kind |-> "replan"].kind # "continue"
    BY JobTypes
  <1> HIDE DEF fresh
  <1>3. /\ DemoSound(start.demo) /\ start.call \in Call /\ CallSound(start.demo, start.call)
    BY <1>1, <1>2, PreparedSound
  <1>4. PICK outcome \in Outcomes(start.demo, start.call) :
          demos = <<Published(start.demo, start.call, outcome)>>
    BY DEF Init, fresh
  <1> DEFINE demo == Published(start.demo, start.call, outcome)
  <1>5. DemoSound(demo) /\ AtRest(demo) /\ demo \in DemoState
    BY <1>3, PublishedSound DEF DemoSound
  <1> HIDE DEF demo
  <1>6. demos = <<demo>> /\ current = 1 /\ tasks = [k \in Task |-> Idle]
    BY <1>4 DEF Init, demo
  <1>7. Idle \in TaskState /\ Idle.at = "idle"
    BY DEF Idle, TaskState
  <1>8. demos \in Seq(DemoState) /\ Len(demos) = 1 /\ demos[1] = demo
    BY <1>5, <1>6
  <1>9. Shape
    BY <1>6, <1>7, <1>8, BoundAssumption DEF Shape, Demo
  <1>10. SwitchInv
    BY <1>6, <1>7 DEF SwitchInv, Switching, ShownMapHasRoute
  <1>11. WorkInv
    BY <1>6, <1>7 DEF WorkInv, Working
  <1>12. \A d \in Demo : DemoSound(demos[d]) /\ (Resting(d) => AtRest(demos[d]))
    BY <1>5, <1>8 DEF Demo
  <1> QED BY <1>9, <1>10, <1>11, <1>12 DEF ServerInv

\* Every step of the server.
LEMMA NextInv == ServerInv /\ [Next]_vars => ServerInv'
  <1> SUFFICES ASSUME ServerInv, [Next]_vars PROVE ServerInv'
    OBVIOUS
  <1>1. CASE AnytimeTick
    <2>1. "anytime" \in Task
      BY DEF Task
    <2> QED BY <1>1, <2>1, JobTypes, RequestInv DEF AnytimeTick
  <1>2. ASSUME NEW c \in Client, RequestReplan(c) PROVE ServerInv'
    <2>1. c \in Task
      BY DEF Task
    <2> QED BY <1>2, <2>1, JobTypes, RequestInv DEF RequestReplan
  <1>3. ASSUME NEW c \in Client, RequestDestinations(c) PROVE ServerInv'
    <2>1. c \in Task /\ UNCHANGED <<demos, current>>
      BY <1>3 DEF Task, RequestDestinations
    <2>2. PICK t \in Requests \cup {Spread[demos[current].map]} :
            Request(c, [kind |-> "destinations", trip |-> t])
      BY <1>3 DEF RequestDestinations
    <2>3. demos[current] \in DemoState
      BY DEF ServerInv, Shape, Demo
    <2>4. t \in Trip
      BY <2>2, <2>3, MapAssumption DEF DemoState
    <2> QED BY <2>1, <2>2, <2>4, JobTypes, RequestInv
  <1>4. ASSUME NEW c \in Client, RequestEgo(c) PROVE ServerInv'
    <2>1. c \in Task /\ UNCHANGED <<demos, current>>
      BY <1>4 DEF Task, RequestEgo
    <2>2. PICK n \in Positions : Request(c, [kind |-> "ego", node |-> n])
      BY <1>4 DEF RequestEgo
    <2>3. n \in Node
      BY MapAssumption
    <2> QED BY <2>1, <2>2, <2>3, JobTypes, RequestInv
  <1>5. CASE Handlers
    BY <1>1, <1>2, <1>3, <1>4, <1>5, EditTrafficInv, EditTrafficPartlyInv, SnapEgoInv,
       SwitchMapInv DEF Handlers
  <1>6. CASE \E k \in Task : Begin(k) \/ Enter(k) \/ Return(k) \/ Adopt(k)
    BY <1>6, BeginInv, EnterInv, ReturnInv, AdoptInv
  <1>7. CASE UNCHANGED vars
    <2>1. demos' = demos /\ current' = current /\ tasks' = tasks
      BY <1>7 DEF vars
    <2>2. demos[current] \in DemoState /\ demos' = [demos EXCEPT ![current] = demos[current]]
      BY <2>1 DEF ServerInv, Shape, Demo
    <2> QED BY <2>1, <2>2, HandlerInv DEF ServerInv, Shape
  <1> QED BY <1>5, <1>6, <1>7 DEF Next

\* However requests, rounds of the loops and worker threads interleave, one job works
\* at a time and every demo, session and call is as the parts of ServerInv say.
THEOREM ServerSafe == Spec => []ServerInv
  BY InitInv, NextInv, PTL DEF Spec

\* The types of the demo states, their sessions and the tasks are what they say.
THEOREM TypesCorrect == Spec => []TypeOK
  <1>1. ServerInv => TypeOK
    <2> SUFFICES ASSUME ServerInv PROVE TypeOK
      OBVIOUS
    <2>1. \A d \in Demo : demos[d] \in DemoState
      BY DEF ServerInv, Shape, Demo
    <2>2. \A k \in Task :
            tasks[k].at \in {"ready", "calling", "planned"} => tasks[k].demo \in Demo
      <3> SUFFICES ASSUME NEW k \in Task, tasks[k].at \in {"ready", "calling", "planned"}
                   PROVE  tasks[k].demo \in Demo
        OBVIOUS
      <3>1. CASE tasks[k].at = "planned"
        <4>1. Switching(k) /\ Switched(k) = tasks[k].demo
          BY <3>1 DEF Switching, Switched
        <4> QED BY <4>1 DEF ServerInv, SwitchInv, Shape, Demo
      <3>2. CASE tasks[k].at # "planned"
        BY <3>2 DEF ServerInv, WorkInv, Working
      <3> QED BY <3>1, <3>2
    <2>3. \A k \in Task : tasks[k].at \in {"idle", "queued", "ready", "calling", "planned"}
      BY TaskTypes DEF ServerInv, Shape
    <2>4. \A d \in Demo :
            LET demo == demos[d]
            IN  /\ demo.map \in Map /\ demo.traffic \in Edition
                /\ demo.destinations \in Trip /\ demo.result \in Trip \cup {None}
                /\ {demo.pending, demo.seeded, demo.overlooked} \subseteq BOOLEAN
                /\ demo.session \in
                     [graph : Edition \cup {None}, stale : BOOLEAN, trip : Trip \cup {None},
                      pluginGraph : Edition \cup {None}, planner : Planner \cup {None},
                      best : Trip \cup {None}]
      BY <2>1 DEF DemoState, Session
    <2> QED BY <2>2, <2>3, <2>4 DEF TypeOK, ServerInv, Shape
  <1> QED BY <1>1, ServerSafe, PTL

\* A planner that lacks an edit has it coming, on every demo no job is at work on.
THEOREM AnnouncedEdits == Spec => []EditsAreAnnounced
  <1>1. ServerInv => EditsAreAnnounced
    <2> SUFFICES ASSUME ServerInv, NEW d \in Demo, Behind(d),
                        ~demos[d].session.stale
                 PROVE  demos[d].pending \/ demos[d].overlooked
      BY DEF EditsAreAnnounced
    <2>1. DemoSound(demos[d]) /\ demos[d].seeded
      BY DEF ServerInv, Behind
    <2>2. /\ demos[d].session.planner # None
          /\ demos[d].session.planner.graph = demos[d].session.graph
          /\ demos[d].session.graph # None
      BY <2>1 DEF DemoSound, SessionSound
    <2> QED BY <2>1, <2>2 DEF DemoSound, Behind
  <1> QED BY <1>1, ServerSafe, PTL

\* The server's destinations are the session's, and a seeded session has a planner.
THEOREM CopiesAlwaysAgree == Spec => []CopiesAgree
  <1>1. ServerInv => CopiesAgree
    BY DEF ServerInv, CopiesAgree, DemoSound, SessionSound, AtRest
  <1> QED BY <1>1, ServerSafe, PTL

\* A map switched to has a route, and the stops of a route shown on a map are nodes of
\* that map, or it leads from a node to itself: then the lanes may have answered a trip the planner has refused, one to
\* a node of another map among them (session.rs, TrafficChanged; dijkstra_path).
THEOREM RouteAlwaysOnMap == Spec => []RouteIsOnMap
  <1>1. ServerInv => RouteIsOnMap
    BY DEF ServerInv, SwitchInv, RouteIsOnMap, DemoSound, Answerable
  <1> QED BY <1>1, ServerSafe, PTL

\* A map switched to is shown with a route from the start.
THEOREM ShownMapsHaveRoutes == Spec => []ShownMapHasRoute
  <1>1. ServerInv => ShownMapHasRoute
    BY DEF ServerInv, SwitchInv
  <1> QED BY <1>1, ServerSafe, PTL

=============================================================================
