---------------------- MODULE NavigationSessionProofs ----------------------
(***************************************************************************)
(* Safety of NavigationSession for every graph, trip, cost table and bound *)
(* that satisfies its assumptions, and its refinement of PlanDisplay.      *)
(***************************************************************************)
EXTENDS NavigationSession, TLAPS

\* Threads that still have a receiver, and what they sent, belong to the
\* present graph and trip; the channel is empty between races.
RaceInv ==
  /\ \A l \in lanes : l.open =>
       phase \in {"race", "collect"} /\ l.graph = graph /\ l.trip = destinations
  /\ \A i \in 1..Len(channel) :
       /\ phase \in {"race", "collect"}
       /\ channel[i].plan.graph = graph /\ channel[i].plan.trip = destinations
       /\ channel[i].plan.cost >= OptCost[graph][destinations]
       /\ channel[i].algorithm = "exact" =>
            channel[i].plan.cost = OptCost[graph][destinations]

\* No cost is below what its own graph and trip allow.
CostInv ==
  /\ planner # None /\ planner.best # None =>
       planner.best >= OptCost[planner.graph][planner.trip]
  /\ best # None => best.cost >= OptCost[best.graph][best.trip]

\* An exact answer offered on the present revision bounds the least offer.
ExactInv ==
  exactOffered /\ appliedRevision = graphRevision =>
    leastOffer # None /\ leastOffer <= OptCost[graph][destinations]

\* Revision zero is only ever applied by a planner that does not exist.
RevisionInv ==
  /\ RevisionTellsGraph
  /\ graph # None => graphRevision > 0
  /\ planner = None => appliedRevision = 0
  /\ planner # None => destinations # None

GateInv ==
  /\ GateTracksBest /\ NoDrift /\ AdmittedIsCurrent /\ ExactInv
  /\ gate = None => leastOffer = None

SessionInv ==
  /\ TypeOK /\ RaceInv /\ CostInv /\ RevisionInv /\ GateInv
  /\ answer # None => answer = best
-----------------------------------------------------------------------------

\* The channel after a send and after a receive.
LEMMA ChannelAppend ==
  ASSUME NEW S, NEW s \in Seq(S), NEW e \in S
  PROVE  /\ Append(s, e) \in Seq(S)
         /\ Len(Append(s, e)) = Len(s) + 1
         /\ \A i \in 1..Len(Append(s, e)) :
              Append(s, e)[i] = e \/ (i \in 1..Len(s) /\ Append(s, e)[i] = s[i])
  OBVIOUS

LEMMA ChannelTail ==
  ASSUME NEW S, NEW s \in Seq(S), s # <<>>
  PROVE  /\ Head(s) \in S /\ Head(s) = s[1] /\ 1 \in 1..Len(s)
         /\ Tail(s) \in Seq(S)
         /\ \A i \in 1..Len(Tail(s)) : i + 1 \in 1..Len(s) /\ Tail(s)[i] = s[i + 1]
  OBVIOUS

\* Offering a plan that is what it claims to be keeps the gate's invariants.
LEMMA OfferKeepsGate ==
  ASSUME SessionInv,
         NEW plan \in Plan, NEW exact \in BOOLEAN, Offer(plan, exact),
         UNCHANGED sessionVars,
         plan.cost >= OptCost[plan.graph][plan.trip],
         planner # None /\ planner' \in Planner /\ planner'.trip = planner.trip,
         InStep => plan.trip = destinations /\ plan.graph = graph,
         exact /\ appliedRevision = graphRevision =>
           plan.cost = OptCost[graph][destinations]
  PROVE  /\ gate' \in Cost \cup {None} /\ leastOffer' \in Cost \cup {None}
         /\ best' \in Plan \cup {None} /\ answer' \in Plan \cup {None}
         /\ exactOffered' \in BOOLEAN
         /\ GateInv'
         /\ best' # None => best'.cost >= OptCost[best'.graph][best'.trip]
         /\ answer' # None => answer' = best'
  <1> USE DataAssumption, NoneAssumption
  <1>0. plan.cost \in Nat /\ plan.cost \in Cost /\ plan # None /\ plan.cost # None
    BY DEF Plan, Cost
  <1>1. /\ gate' \in Cost \cup {None} /\ leastOffer' \in Cost \cup {None}
        /\ best' \in Plan \cup {None} /\ answer' \in Plan \cup {None}
        /\ exactOffered' \in BOOLEAN
    BY <1>0 DEF Offer, SessionInv, TypeOK
  <1>2. GateTracksBest'
    BY <1>0 DEF Offer, SessionInv, GateInv, GateTracksBest
  <1>3. NoDrift'
    <2>1. /\ gate \in Nat \cup {None} /\ leastOffer \in Nat \cup {None} /\ Eps \in Nat
          /\ gate # None => leastOffer # None /\ leastOffer <= gate /\ gate <= leastOffer + Eps
          /\ gate = None => leastOffer = None
      BY DEF SessionInv, TypeOK, GateInv, NoDrift, Cost
    <2>2. leastOffer' = IF leastOffer = None \/ plan.cost < leastOffer
                          THEN plan.cost ELSE leastOffer
      BY DEF Offer
    <2>3. CASE Admits(plan.cost)
      <3>1. gate' = plan.cost
        BY <2>3 DEF Offer
      <3>2. gate = None \/ plan.cost + Eps < gate
        BY <2>3 DEF Admits
      <3>3. leastOffer' = plan.cost
        BY <1>0, <2>1, <2>2, <3>2
      <3> QED BY <1>0, <2>1, <3>1, <3>3 DEF NoDrift
    <2>4. CASE ~Admits(plan.cost)
      <3>1. gate' = gate /\ gate # None /\ ~(plan.cost + Eps < gate)
        BY <2>4 DEF Offer, Admits
      <3> QED BY <1>0, <2>1, <2>2, <3>1 DEF NoDrift
    <2> QED BY <2>3, <2>4
  <1>4. AdmittedIsCurrent'
    <2>1. InStep' = InStep
      BY NoneAssumption DEF InStep, sessionVars
    <2>2. CASE Admits(plan.cost)
      BY <2>1, <2>2 DEF Offer, AdmittedIsCurrent, InStep, sessionVars
    <2>3. CASE ~Admits(plan.cost)
      BY <2>1, <2>3 DEF Offer, SessionInv, GateInv, AdmittedIsCurrent, sessionVars
    <2> QED BY <2>2, <2>3
  <1>5. ExactInv'
    <2>1. leastOffer' = IF leastOffer = None \/ plan.cost < leastOffer
                          THEN plan.cost ELSE leastOffer
      BY DEF Offer
    <2>2. leastOffer \in Nat \cup {None}
      BY DEF SessionInv, TypeOK, Cost
    <2>3. OptCost[graph][destinations] \in Nat
      BY DEF SessionInv, RevisionInv, TypeOK
    <2>4. leastOffer' \in Nat /\ leastOffer' <= plan.cost
          /\ (leastOffer # None => leastOffer' <= leastOffer)
      BY <1>0, <2>1, <2>2
    <2>5. exactOffered' /\ appliedRevision = graphRevision =>
            leastOffer' <= OptCost[graph][destinations]
      BY <1>0, <2>2, <2>3, <2>4 DEF Offer, SessionInv, GateInv, ExactInv
    <2> QED BY <1>0, <2>4, <2>5 DEF ExactInv, sessionVars
  <1>6. /\ best' # None => best'.cost >= OptCost[best'.graph][best'.trip]
        /\ answer' # None => answer' = best'
    BY DEF Offer, SessionInv, CostInv
  <1>7. gate' = None => leastOffer' = None
    BY <1>0 DEF Offer, Admits
  <1> QED BY <1>1, <1>2, <1>3, <1>4, <1>5, <1>6, <1>7 DEF GateInv

-----------------------------------------------------------------------------
\* One lemma for each way a step can disturb the invariant.

LEMMA InitInv == Init => SessionInv
  <1> SUFFICES ASSUME Init PROVE SessionInv
    OBVIOUS
  <1>1. TypeOK
    <2>1. graphRevision \in Nat /\ appliedRevision \in 0..graphRevision
      BY DEF Init
    <2>2. channel \in Seq(Message)
      BY DEF Init
    <2>3. lanes \subseteq Lane /\ phase \in Phase /\ exactOffered \in BOOLEAN
      BY DEF Init, Phase
    <2> QED BY <2>1, <2>2, <2>3 DEF Init, TypeOK
  <1>2. RaceInv
    BY DEF Init, RaceInv
  <1>3. CostInv /\ RevisionInv
    BY DEF Init, CostInv, RevisionInv, RevisionTellsGraph
  <1>4. GateInv
    BY DEF Init, GateInv, GateTracksBest, NoDrift, AdmittedIsCurrent, ExactInv
  <1> QED BY <1>1, <1>2, <1>3, <1>4 DEF SessionInv, Init

\* A new revision differs from the applied one, which is not above the old one.
LEMMA SetGraphInv ==
  ASSUME SessionInv, NEW g \in Graph, SetGraph(g)
  PROVE  SessionInv'
  <1> USE DataAssumption, NoneAssumption
      DEF SetGraph, gateVars, raceVars, pluginVars
  <1>1. appliedRevision' # graphRevision' /\ graphRevision' \in Nat /\ graphRevision' > 0
        /\ appliedRevision' \in 0..graphRevision'
    BY DEF SessionInv, TypeOK
  <1>2. TypeOK'
    BY <1>1 DEF SessionInv, TypeOK
  <1>3. RaceInv'
    BY DEF SessionInv, RaceInv
  <1>4. CostInv' /\ RevisionInv'
    BY <1>1 DEF SessionInv, CostInv, RevisionInv, RevisionTellsGraph
  <1>5. GateInv'
    BY <1>1 DEF SessionInv, GateInv, GateTracksBest, NoDrift, AdmittedIsCurrent,
                InStep, ExactInv
  <1> QED BY <1>2, <1>3, <1>4, <1>5 DEF SessionInv

\* With the gate cleared nothing is trusted.
LEMMA ClearGateInv ==
  ASSUME ClearGate
  PROVE  GateInv'
  BY NoneAssumption DEF ClearGate, GateInv, GateTracksBest, NoDrift, AdmittedIsCurrent, ExactInv

\* A race starts from an empty channel, and the threads it adds share its input.
LEMMA StartRaceInv ==
  ASSUME SessionInv, phase = "idle", NEW t \in Trip, StartRace(t), graph \in Graph,
         graph' = graph, destinations' = t
  PROVE  RaceInv' /\ lanes' \subseteq Lane /\ channel' \in Seq(Message) /\ phase' \in Phase
         /\ phase' = "race"
  <1>1. \A l \in lanes : ~l.open /\ l \in Lane
    BY DEF SessionInv, RaceInv, TypeOK, Phase
  <1>2. \A l \in lanes' : l \in lanes \/
           (l.open /\ l.graph = graph /\ l.trip = t /\ l \in Lane)
    <2>1. \A a \in Algorithm :
            [algorithm |-> a, graph |-> graph, trip |-> t, open |-> TRUE] \in Lane
      BY DEF Lane
    <2>2. lanes' = lanes \cup {[algorithm |-> a, graph |-> graph, trip |-> t, open |-> TRUE] :
                                a \in Algorithm}
      BY DEF StartRace
    <2> QED BY <2>1, <2>2
  <1>3. channel' = <<>> /\ phase' = "race"
    BY DEF StartRace
  <1> QED BY <1>1, <1>2, <1>3 DEF RaceInv, Phase

LEMMA DestinationsSetInv ==
  ASSUME SessionInv, NEW t \in Requests, DestinationsSet(t)
  PROVE  SessionInv'
  <1> USE DataAssumption, NoneAssumption
  <1>0. t \in Trip /\ graph \in Graph /\ t # None /\ phase = "idle"
    BY DEF DestinationsSet, SessionInv, TypeOK
  <1>1. GateInv' /\ best' = None /\ answer' = None
    BY ClearGateInv DEF DestinationsSet
  <1>2. CASE ValidTrip(graph, t)
    <2>1. planner' = NewPlanner(graph, t) /\ appliedRevision' = graphRevision /\ StartRace(t)
          /\ pluginGraph' = graph /\ graph' = graph /\ graphRevision' = graphRevision
          /\ destinations' = t
      BY <1>2 DEF DestinationsSet
    <2>2. planner' \in Planner /\ planner' # None
          /\ planner'.graph = graph /\ planner'.best = None
      BY <1>0, <2>1 DEF NewPlanner, Planner
    <2>3. RaceInv' /\ lanes' \subseteq Lane /\ channel' \in Seq(Message) /\ phase' \in Phase
      BY <1>0, <2>1, StartRaceInv
    <2>4. TypeOK'
      <3>1. graphRevision \in Nat /\ graphRevision \in 0..graphRevision
        BY DEF SessionInv, TypeOK
      <3>2. gate' = None /\ leastOffer' = None /\ exactOffered' = FALSE
        BY DEF DestinationsSet, ClearGate
      <3> QED BY <1>0, <1>1, <2>1, <2>2, <2>3, <3>1, <3>2 DEF TypeOK
    <2>5. CostInv'
      BY <1>1, <2>2 DEF CostInv
    <2>6. RevisionInv'
      BY <1>0, <2>1, <2>2 DEF RevisionInv, RevisionTellsGraph, SessionInv
    <2> QED BY <1>1, <2>3, <2>4, <2>5, <2>6 DEF SessionInv
  <1>3. CASE ~ValidTrip(graph, t)
    <2>1. /\ UNCHANGED <<planner, appliedRevision, phase, lanes, channel>>
          /\ pluginGraph' = graph /\ graph' = graph /\ graphRevision' = graphRevision
          /\ destinations' = t
      BY <1>3 DEF DestinationsSet, raceVars
    <2>2. \A l \in lanes : ~l.open
      BY <1>0 DEF SessionInv, RaceInv
    <2>3. RaceInv'
      BY <1>0, <2>1, <2>2 DEF SessionInv, RaceInv
    <2>4. TypeOK'
      BY <1>0, <1>1, <2>1 DEF DestinationsSet, ClearGate, SessionInv, TypeOK
    <2>5. CostInv'
      BY <1>1, <2>1 DEF SessionInv, CostInv
    <2>6. RevisionInv'
      BY <1>0, <2>1 DEF SessionInv, RevisionInv, RevisionTellsGraph
    <2> QED BY <1>1, <2>3, <2>4, <2>5, <2>6 DEF SessionInv
  <1> QED BY <1>2, <1>3


\* A warm start aligns planner, plugin and revision; a refused one changes none.
LEMMA ApplyTrafficInv ==
  ASSUME SessionInv, phase = "idle", ApplyTraffic
  PROVE  SessionInv'
  <1> USE DataAssumption, NoneAssumption
  <1>0. /\ graph \in Graph /\ destinations \in Trip
        /\ graph' = graph /\ graphRevision' = graphRevision
        /\ destinations' = destinations /\ best' = best /\ answer' = None
        /\ gate' = None /\ leastOffer' = None /\ exactOffered' = FALSE
    BY DEF ApplyTraffic, ClearGate, SessionInv, TypeOK
  <1>1. GateInv'
    BY ClearGateInv DEF ApplyTraffic
  <1>2. CASE planner # None /\ NodesOf[graph] = NodesOf[planner.graph]
    <2>0. PICK b \in SearchCosts(NewPlanner(graph, planner.trip)) \cup {None} :
            planner' = [planner EXCEPT !.graph = graph, !.best = b]
      BY <1>2 DEF ApplyTraffic
    <2>1. appliedRevision' = graphRevision /\ StartRace(destinations) /\ pluginGraph' = graph
      BY <1>2 DEF ApplyTraffic
    <2>2. /\ planner' \in Planner /\ planner' # None /\ planner'.graph = graph
          /\ planner'.trip = planner.trip /\ planner'.best = b
      BY <1>0, <1>2, <2>0 DEF SessionInv, TypeOK, Planner, SearchCosts
    <2>3. RaceInv' /\ lanes' \subseteq Lane /\ channel' \in Seq(Message) /\ phase' \in Phase
      BY <1>0, <2>1, StartRaceInv
    <2>4. TypeOK'
      <3>1. graphRevision \in Nat /\ graphRevision \in 0..graphRevision
        BY DEF SessionInv, TypeOK
      <3>2. best \in Plan \cup {None}
        BY DEF SessionInv, TypeOK
      <3> QED BY <1>0, <2>1, <2>2, <2>3, <3>1, <3>2 DEF TypeOK
    <2>5. b # None => b >= OptCost[graph][planner.trip]
      BY <2>0 DEF SearchCosts, NewPlanner
    <2>6. CostInv'
      BY <1>0, <2>2, <2>5 DEF SessionInv, CostInv
    <2>7. RevisionInv'
      BY <1>0, <2>1, <2>2 DEF SessionInv, RevisionInv, RevisionTellsGraph
    <2> QED BY <1>0, <1>1, <2>3, <2>4, <2>6, <2>7 DEF SessionInv
  <1>3. CASE ~(planner # None /\ NodesOf[graph] = NodesOf[planner.graph])
    <2>1. UNCHANGED <<pluginGraph, planner, appliedRevision, phase, lanes, channel>>
      BY <1>3 DEF ApplyTraffic, pluginVars, raceVars
    <2>2. TypeOK'
      BY <1>0, <2>1 DEF SessionInv, TypeOK
    <2>3. RaceInv' /\ CostInv' /\ RevisionInv'
      BY <1>0, <2>1 DEF SessionInv, RaceInv, CostInv, RevisionInv, RevisionTellsGraph
    <2> QED BY <1>0, <1>1, <2>2, <2>3 DEF SessionInv
  <1> QED BY <1>2, <1>3

\* The planner is reseeded on the plugin's graph; when the revisions agree that
\* is the session's graph.
LEMMA EgoMovedInv ==
  ASSUME SessionInv, NEW n \in Positions, EgoMoved(n)
  PROVE  SessionInv'
  <1> USE DataAssumption, NoneAssumption
  <1> DEFINE t == [destinations EXCEPT !.source = n, !.objectives = @ \ {n}]
  <1>0. /\ graph \in Graph /\ pluginGraph \in Graph /\ destinations \in Trip
        /\ phase = "idle" /\ graphRevision > 0
        /\ UNCHANGED <<graph, graphRevision, appliedRevision, pluginGraph>>
        /\ best' = None /\ answer' = None
        /\ gate' = None /\ leastOffer' = None /\ exactOffered' = FALSE
    BY DEF EgoMoved, ClearGate, SessionInv, RevisionInv, TypeOK
  <1>1. GateInv'
    BY ClearGateInv DEF EgoMoved
  <1>2. t \in Trip /\ t # None /\ destinations' = t
    <2>1. destinations' = t
      BY DEF EgoMoved
    <2>2. n \in Node
      OBVIOUS
    <2>3. t \in Trip
      BY <1>0, <2>2 DEF Trip
    <2> QED BY <2>1, <2>3
  <1>3. CASE ValidTrip(pluginGraph, t)
    <2>1. planner' = NewPlanner(pluginGraph, t) /\ StartRace(t)
      BY <1>3 DEF EgoMoved
    <2>2. planner' \in Planner /\ planner' # None /\ planner'.graph = pluginGraph
          /\ planner'.best = None
      BY <1>0, <1>2, <2>1 DEF NewPlanner, Planner
    <2>3. RaceInv' /\ lanes' \subseteq Lane /\ channel' \in Seq(Message) /\ phase' \in Phase
      BY <1>0, <1>2, <2>1, StartRaceInv
    <2>4. TypeOK'
      BY <1>0, <1>2, <2>2, <2>3 DEF SessionInv, TypeOK
    <2>5. CostInv'
      BY <1>0, <2>2 DEF CostInv
    <2>6. appliedRevision = graphRevision => pluginGraph = graph
      BY <1>0 DEF SessionInv, RevisionInv, RevisionTellsGraph
    <2>7. RevisionInv'
      BY <1>0, <1>2, <2>2, <2>6 DEF RevisionInv, RevisionTellsGraph
    <2> QED BY <1>0, <1>1, <2>3, <2>4, <2>5, <2>7 DEF SessionInv
  <1>4. CASE ~ValidTrip(pluginGraph, t)
    <2>1. UNCHANGED <<planner, phase, lanes, channel>>
      BY <1>4 DEF EgoMoved, raceVars
    <2>2. \A l \in lanes : ~l.open
      BY <1>0 DEF SessionInv, RaceInv
    <2>3. RaceInv'
      BY <1>0, <2>1, <2>2 DEF SessionInv, RaceInv
    <2>4. TypeOK'
      BY <1>0, <1>2, <2>1 DEF SessionInv, TypeOK
    <2>5. CostInv' /\ RevisionInv'
      BY <1>0, <1>2, <2>1 DEF SessionInv, CostInv, RevisionInv, RevisionTellsGraph
    <2> QED BY <1>0, <1>1, <2>3, <2>4, <2>5 DEF SessionInv
  <1> QED BY <1>3, <1>4


LEMMA ContinueSearchInv ==
  ASSUME SessionInv, ContinueSearch
  PROVE  SessionInv'
  <1>1. CASE appliedRevision # graphRevision /\ ApplyTraffic
    BY <1>1, ApplyTrafficInv DEF ContinueSearch
  <1>2. CASE appliedRevision = graphRevision /\ planner # None
             /\ phase' = "slice" /\ answer' = None
             /\ UNCHANGED <<sessionVars, gate, best, leastOffer, exactOffered,
                            pluginVars, lanes, channel>>
    <2>1. phase = "idle" /\ destinations # None
      BY <1>2 DEF ContinueSearch, SessionInv, RevisionInv
    <2>2. TypeOK'
      BY <1>2, <2>1 DEF SessionInv, TypeOK, sessionVars, pluginVars, Phase
    <2>3. RaceInv'
      BY <1>2, <2>1 DEF SessionInv, RaceInv, sessionVars
    <2>4. CostInv' /\ RevisionInv'
      BY <1>2 DEF SessionInv, CostInv, RevisionInv, RevisionTellsGraph, sessionVars, pluginVars
    <2>5. GateInv'
      BY <1>2 DEF SessionInv, GateInv, GateTracksBest, NoDrift, AdmittedIsCurrent, InStep,
                  ExactInv, sessionVars, pluginVars
    <2> QED BY <1>2, <2>2, <2>3, <2>4, <2>5 DEF SessionInv
  <1> QED BY <1>1, <1>2 DEF ContinueSearch

\* Moving between phases of a call touches neither plans nor costs.
LEMMA PhaseInv ==
  ASSUME SessionInv, PlannerMarker \/ RaceDeadline
  PROVE  SessionInv'
  <1>1. /\ phase' \in Phase /\ phase # "idle"
        /\ phase \in {"race", "collect"} => phase' = "collect"
        /\ UNCHANGED <<sessionVars, gateVars, pluginVars, lanes, channel>>
    BY DEF PlannerMarker, RaceDeadline, Phase
  <1>2. TypeOK'
    BY <1>1 DEF SessionInv, TypeOK, sessionVars, gateVars, pluginVars
  <1>3. RaceInv'
    BY <1>1 DEF SessionInv, RaceInv, sessionVars
  <1>4. CostInv' /\ RevisionInv'
    BY <1>1 DEF SessionInv, CostInv, RevisionInv, RevisionTellsGraph, sessionVars, gateVars,
                pluginVars
  <1>5. GateInv'
    BY <1>1 DEF SessionInv, GateInv, GateTracksBest, NoDrift, AdmittedIsCurrent, InStep,
                ExactInv, sessionVars, gateVars, pluginVars
  <1> QED BY <1>1, <1>2, <1>3, <1>4, <1>5 DEF SessionInv, gateVars

\* The receiver goes away: the threads left behind lose theirs.
LEMMA RaceReturnsInv ==
  ASSUME SessionInv, RaceReturns
  PROVE  SessionInv'
  <1>1. \A l \in lanes' : l \in Lane /\ ~l.open
    <2>1. \A l \in lanes : [l EXCEPT !.open = FALSE] \in Lane
                           /\ ~[l EXCEPT !.open = FALSE].open
      BY DEF SessionInv, TypeOK, Lane
    <2> QED BY <2>1 DEF RaceReturns
  <1>2. TypeOK'
    BY <1>1 DEF RaceReturns, SessionInv, TypeOK, sessionVars, gateVars, pluginVars, Phase
  <1>3. RaceInv'
    <2>1. channel' = <<>> /\ Len(channel') = 0
      BY DEF RaceReturns
    <2> QED BY <1>1, <2>1 DEF RaceInv
  <1>4. CostInv' /\ RevisionInv'
    BY DEF RaceReturns, SessionInv, CostInv, RevisionInv, RevisionTellsGraph, sessionVars,
           gateVars, pluginVars
  <1>5. GateInv'
    BY DEF RaceReturns, SessionInv, GateInv, GateTracksBest, NoDrift, AdmittedIsCurrent,
           InStep, ExactInv, sessionVars, gateVars, pluginVars
  <1> QED BY <1>2, <1>3, <1>4, <1>5 DEF RaceReturns, SessionInv, gateVars

\* Only a thread with a receiver sends, and what it sends is of this race.
LEMMA LaneFinishesInv ==
  ASSUME SessionInv, NEW l \in lanes, LaneFinishes(l)
  PROVE  SessionInv'
  <1> USE DataAssumption, NoneAssumption
  <1>0. /\ l \in Lane /\ lanes' \subseteq lanes /\ channel \in Seq(Message)
        /\ UNCHANGED <<sessionVars, gateVars, pluginVars, phase>>
    BY DEF LaneFinishes, SessionInv, TypeOK
  <1>1. channel' \in Seq(Message) /\ RaceInv'
    <2>1. CASE ~(l.open /\ LaneCosts(l) # {})
      <3>1. channel' = channel
        BY <2>1 DEF LaneFinishes
      <3> QED BY <1>0, <3>1 DEF SessionInv, RaceInv, sessionVars
    <2>2. CASE l.open /\ LaneCosts(l) # {}
      <3>0. PICK c \in LaneCosts(l) :
              channel' = Append(channel,
                [algorithm |-> l.algorithm,
                 plan |-> [cost |-> c, trip |-> l.trip, graph |-> l.graph]])
        BY <2>2 DEF LaneFinishes
      <3> DEFINE p == [cost |-> c, trip |-> l.trip, graph |-> l.graph]
                 m == [algorithm |-> l.algorithm, plan |-> p]
      <3>1. c \in Cost /\ c \in Nat
        BY DEF LaneCosts, Cost
      <3>2. p \in Plan /\ m \in Message
        BY <1>0, <3>1 DEF Plan, Message, Lane
      <3>3. /\ phase \in {"race", "collect"}
            /\ p.graph = graph /\ p.trip = destinations /\ p.cost = c
        BY <2>2 DEF SessionInv, RaceInv
      <3>5. c >= OptCost[graph][destinations]
            /\ (l.algorithm = "exact" => c = OptCost[graph][destinations])
        BY <3>3 DEF LaneCosts
      <3>6. channel' = Append(channel, m)
        BY <3>0
      <3> HIDE DEF p
      <3>7. m.plan = p /\ m.algorithm = l.algorithm
        OBVIOUS
      <3> HIDE DEF m
      <3>8. /\ channel' \in Seq(Message)
            /\ \A i \in 1..Len(channel') :
                 channel'[i] = m \/ (i \in 1..Len(channel) /\ channel'[i] = channel[i])
        BY <1>0, <3>2, <3>6, ChannelAppend
      <3>9. \A i \in 1..Len(channel') :
              /\ phase' \in {"race", "collect"}
              /\ channel'[i].plan.graph = graph' /\ channel'[i].plan.trip = destinations'
              /\ channel'[i].plan.cost >= OptCost[graph'][destinations']
              /\ channel'[i].algorithm = "exact" =>
                   channel'[i].plan.cost = OptCost[graph'][destinations']
        BY <1>0, <3>3, <3>5, <3>7, <3>8 DEF SessionInv, RaceInv, sessionVars
      <3> QED BY <1>0, <3>8, <3>9 DEF SessionInv, RaceInv, sessionVars
    <2> QED BY <2>1, <2>2
  <1>2. TypeOK'
    BY <1>0, <1>1 DEF SessionInv, TypeOK, sessionVars, gateVars, pluginVars
  <1>3. CostInv' /\ RevisionInv'
    BY <1>0 DEF SessionInv, CostInv, RevisionInv, RevisionTellsGraph, sessionVars,
           gateVars, pluginVars
  <1>4. GateInv'
    BY <1>0 DEF SessionInv, GateInv, GateTracksBest, NoDrift, AdmittedIsCurrent,
           InStep, ExactInv, sessionVars, gateVars, pluginVars
  <1> QED BY <1>0, <1>1, <1>2, <1>3, <1>4 DEF SessionInv, gateVars


\* A plan of the planner claims the graph and trip it was searched on.
LEMMA PlannerOffer ==
  ASSUME SessionInv, phase # "idle", NEW c \in SearchCosts(planner)
  PROVE  LET plan == [cost |-> c, trip |-> planner.trip, graph |-> planner.graph]
         IN  /\ plan \in Plan
             /\ plan.cost >= OptCost[plan.graph][plan.trip]
             /\ InStep => plan.trip = destinations /\ plan.graph = graph
  <1>1. planner \in Planner /\ planner # None /\ c \in Cost
        /\ c >= OptCost[planner.graph][planner.trip]
    BY DEF SessionInv, TypeOK, SearchCosts
  <1> QED BY <1>1 DEF SessionInv, RevisionInv, RevisionTellsGraph, InStep, Plan, Planner

LEMMA PlannerStepInv ==
  ASSUME SessionInv, PlannerStep
  PROVE  SessionInv'
  <1> USE DataAssumption, NoneAssumption
  <1>0. phase # "idle" /\ planner \in Planner /\ planner # None
        /\ UNCHANGED <<sessionVars, raceVars, pluginGraph>>
    BY DEF PlannerStep, SessionInv, TypeOK
  <1>1. PICK c \in SearchCosts(planner) :
          /\ planner' = [planner EXCEPT !.best = c]
          /\ Offer([cost |-> c, trip |-> planner.trip, graph |-> planner.graph], FALSE)
    BY DEF PlannerStep
  <1> DEFINE plan == [cost |-> c, trip |-> planner.trip, graph |-> planner.graph]
  <1>2. /\ plan \in Plan
        /\ plan.cost >= OptCost[plan.graph][plan.trip]
        /\ InStep => plan.trip = destinations /\ plan.graph = graph
    BY <1>0, PlannerOffer
  <1>3. c \in Cost /\ c # None /\ c >= OptCost[planner.graph][planner.trip]
    BY DEF SearchCosts, Cost
  <1>4. planner' \in Planner /\ planner'.trip = planner.trip /\ planner' # None
        /\ planner'.graph = planner.graph /\ planner'.best = c
    BY <1>0, <1>1, <1>3 DEF Planner
  <1>5. Offer(plan, FALSE) /\ FALSE \in BOOLEAN
    BY <1>1
  <1> HIDE DEF plan
  <1>6. /\ gate' \in Cost \cup {None} /\ leastOffer' \in Cost \cup {None}
        /\ best' \in Plan \cup {None} /\ answer' \in Plan \cup {None}
        /\ exactOffered' \in BOOLEAN
        /\ GateInv'
        /\ best' # None => best'.cost >= OptCost[best'.graph][best'.trip]
        /\ answer' # None => answer' = best'
    BY <1>0, <1>2, <1>4, <1>5, OfferKeepsGate
  <1>7. TypeOK'
    BY <1>0, <1>4, <1>6 DEF SessionInv, TypeOK, sessionVars, raceVars
  <1>8. RaceInv'
    BY <1>0 DEF SessionInv, RaceInv, sessionVars, raceVars
  <1>9. CostInv' /\ RevisionInv'
    BY <1>0, <1>3, <1>4, <1>6 DEF SessionInv, CostInv, RevisionInv, RevisionTellsGraph,
                                  sessionVars
  <1> QED BY <1>6, <1>7, <1>8, <1>9 DEF SessionInv

LEMMA DrainLaneInv ==
  ASSUME SessionInv, DrainLane
  PROVE  SessionInv'
  <1> USE DataAssumption, NoneAssumption
  <1>0. /\ channel \in Seq(Message) /\ channel # <<>> /\ planner \in Planner /\ planner # None
        /\ channel' = Tail(channel)
        /\ UNCHANGED <<sessionVars, pluginVars, phase, lanes>>
    BY DEF DrainLane, SessionInv, TypeOK, Phase
  <1> DEFINE m == Head(channel)
             plan == m.plan
             exact == m.algorithm = "exact"
  <1>1. m \in Message /\ m = channel[1] /\ 1 \in 1..Len(channel)
    BY <1>0, ChannelTail
  <1>2. plan \in Plan /\ exact \in BOOLEAN
    BY <1>1 DEF Message
  <1>3. /\ plan.graph = graph /\ plan.trip = destinations
        /\ plan.cost >= OptCost[graph][destinations]
        /\ exact => plan.cost = OptCost[graph][destinations]
    BY <1>1 DEF SessionInv, RaceInv
  <1>4. Offer(plan, exact)
    BY DEF DrainLane
  <1>5. planner' = planner
    BY <1>0 DEF pluginVars
  <1> HIDE DEF plan, exact
  <1>6. /\ gate' \in Cost \cup {None} /\ leastOffer' \in Cost \cup {None}
        /\ best' \in Plan \cup {None} /\ answer' \in Plan \cup {None}
        /\ exactOffered' \in BOOLEAN
        /\ GateInv'
        /\ best' # None => best'.cost >= OptCost[best'.graph][best'.trip]
        /\ answer' # None => answer' = best'
    BY <1>0, <1>2, <1>3, <1>4, <1>5, OfferKeepsGate
  <1>7. /\ channel' \in Seq(Message)
        /\ \A i \in 1..Len(channel') : i + 1 \in 1..Len(channel) /\ channel'[i] = channel[i + 1]
    BY <1>0, ChannelTail
  <1>8. TypeOK'
    BY <1>0, <1>6, <1>7 DEF SessionInv, TypeOK, sessionVars, pluginVars
  <1>9. RaceInv'
    BY <1>0, <1>7 DEF SessionInv, RaceInv, sessionVars
  <1>10. CostInv' /\ RevisionInv'
    BY <1>0, <1>6 DEF SessionInv, CostInv, RevisionInv, RevisionTellsGraph, sessionVars,
                      pluginVars
  <1> QED BY <1>6, <1>8, <1>9, <1>10 DEF SessionInv


LEMMA SliceReturnsInv ==
  ASSUME SessionInv, SliceReturns
  PROVE  SessionInv'
  <1> USE DataAssumption, NoneAssumption
  <1>0. /\ phase \in {"slice", "marked"} /\ phase' = "idle"
        /\ planner \in Planner /\ planner # None
        /\ UNCHANGED <<sessionVars, pluginVars, lanes, channel>>
    BY DEF SliceReturns, SessionInv, TypeOK
  <1>1. RaceInv'
    BY <1>0 DEF SessionInv, RaceInv, sessionVars
  <1>2. CASE planner.best # None /\ Admits(planner.best)
    <2> DEFINE plan == PlanOf(planner)
    <2>1. /\ plan \in Plan
          /\ plan.cost >= OptCost[plan.graph][plan.trip]
          /\ InStep => plan.trip = destinations /\ plan.graph = graph
      BY <1>0, <1>2 DEF PlanOf, Plan, Planner, SessionInv, CostInv, RevisionInv,
                        RevisionTellsGraph, InStep
    <2>2. Offer(plan, FALSE) /\ FALSE \in BOOLEAN /\ planner' = planner
      BY <1>0, <1>2 DEF SliceReturns, pluginVars
    <2> HIDE DEF plan
    <2>3. /\ gate' \in Cost \cup {None} /\ leastOffer' \in Cost \cup {None}
          /\ best' \in Plan \cup {None} /\ answer' \in Plan \cup {None}
          /\ exactOffered' \in BOOLEAN
          /\ GateInv'
          /\ best' # None => best'.cost >= OptCost[best'.graph][best'.trip]
          /\ answer' # None => answer' = best'
      BY <1>0, <2>1, <2>2, OfferKeepsGate
    <2>4. TypeOK'
      BY <1>0, <2>3 DEF SessionInv, TypeOK, sessionVars, pluginVars, Phase
    <2>5. CostInv' /\ RevisionInv'
      BY <1>0, <2>3 DEF SessionInv, CostInv, RevisionInv, RevisionTellsGraph, sessionVars,
                        pluginVars
    <2> QED BY <1>1, <2>3, <2>4, <2>5 DEF SessionInv
  <1>3. CASE ~(planner.best # None /\ Admits(planner.best))
    <2>1. /\ answer' = IF answer = None /\ phase = "slice" THEN best ELSE answer
          /\ UNCHANGED <<gate, best, leastOffer, exactOffered>>
      BY <1>3 DEF SliceReturns
    <2>2. answer' \in Plan \cup {None} /\ (answer' # None => answer' = best')
      BY <2>1 DEF SessionInv, TypeOK
    <2>3. TypeOK'
      BY <1>0, <2>1, <2>2 DEF SessionInv, TypeOK, sessionVars, pluginVars, Phase
    <2>4. CostInv' /\ RevisionInv'
      BY <1>0, <2>1 DEF SessionInv, CostInv, RevisionInv, RevisionTellsGraph, sessionVars,
                        pluginVars
    <2>5. GateInv'
      BY <1>0, <2>1 DEF SessionInv, GateInv, GateTracksBest, NoDrift, AdmittedIsCurrent,
                        InStep, ExactInv, sessionVars, pluginVars
    <2> QED BY <1>1, <2>2, <2>3, <2>4, <2>5 DEF SessionInv
  <1> QED BY <1>2, <1>3

LEMMA StutterInv ==
  ASSUME SessionInv, UNCHANGED vars
  PROVE  SessionInv'
  BY DEF vars, sessionVars, gateVars, raceVars, pluginVars, SessionInv, TypeOK, RaceInv,
         CostInv, RevisionInv, RevisionTellsGraph, GateInv, GateTracksBest, NoDrift,
         AdmittedIsCurrent, InStep, ExactInv

LEMMA NextInv == SessionInv /\ [Next]_vars => SessionInv'
  <1> SUFFICES ASSUME SessionInv, [Next]_vars PROVE SessionInv'
    OBVIOUS
  <1>1. CASE \E g \in Graph : SetGraph(g)
    BY <1>1, SetGraphInv
  <1>2. CASE \E t \in Requests : DestinationsSet(t)
    BY <1>2, DestinationsSetInv
  <1>3. CASE TrafficChanged
    BY <1>3, ApplyTrafficInv DEF TrafficChanged
  <1>4. CASE \E n \in Positions : EgoMoved(n)
    BY <1>4, EgoMovedInv
  <1>5. CASE ContinueSearch
    BY <1>5, ContinueSearchInv
  <1>6. CASE PlannerMarker \/ RaceDeadline
    BY <1>6, PhaseInv
  <1>7. CASE SliceReturns
    BY <1>7, SliceReturnsInv
  <1>8. CASE PlannerStep
    BY <1>8, PlannerStepInv
  <1>9. CASE DrainLane
    BY <1>9, DrainLaneInv
  <1>10. CASE RaceReturns
    BY <1>10, RaceReturnsInv
  <1>11. CASE \E l \in lanes : LaneFinishes(l)
    BY <1>11, LaneFinishesInv
  <1>12. CASE UNCHANGED vars
    BY <1>12, StutterInv
  <1> QED BY <1>1, <1>2, <1>3, <1>4, <1>5, <1>6, <1>7, <1>8, <1>9, <1>10, <1>11, <1>12
          DEF Next

-----------------------------------------------------------------------------
\* The inductive invariant of the session.
THEOREM SessionInvariant == Spec => []SessionInv
  BY InitInv, NextInv, PTL DEF Spec

\* Every variable keeps its type, and a running call has a planner and a trip.
THEOREM SessionTypeOK == Spec => []TypeOK
  <1>1. SessionInv => TypeOK
    BY DEF SessionInv
  <1> QED BY <1>1, SessionInvariant, PTL

\* What was admitted is what was noted as best.
THEOREM GateTracksBestAlways == Spec => []GateTracksBest
  <1>1. SessionInv => GateTracksBest
    BY DEF SessionInv, GateInv
  <1> QED BY <1>1, SessionInvariant, PTL

\* The tolerance of the gate does not accumulate over rejected offers.
THEOREM NoDriftAlways == Spec => []NoDrift
  <1>1. SessionInv => NoDrift
    BY DEF SessionInv, GateInv
  <1> QED BY <1>1, SessionInvariant, PTL

\* Equal revision numbers mean that planner, plugin and session share a graph.
THEOREM RevisionTellsGraphAlways == Spec => []RevisionTellsGraph
  <1>1. SessionInv => RevisionTellsGraph
    BY DEF SessionInv, RevisionInv
  <1> QED BY <1>1, SessionInvariant, PTL

\* No answer of an older race, trip or graph is admitted into a newer one.
THEOREM AdmittedIsCurrentAlways == Spec => []AdmittedIsCurrent
  <1>1. SessionInv => AdmittedIsCurrent
    BY DEF SessionInv, GateInv
  <1> QED BY <1>1, SessionInvariant, PTL

\* The plan a call answers with is the plan the session reports.
THEOREM AnswerIsReportedAlways == Spec => []AnswerIsReported
  <1>1. SessionInv => AnswerIsReported
    BY DEF SessionInv, AnswerIsReported, ReportedBest
  <1> QED BY <1>1, SessionInvariant, PTL

\* After the exact lane's answer the shown plan is optimal up to the tolerance.
THEOREM ExactLaneSettlesAlways == Spec => []ExactLaneSettles
  <1>1. SessionInv => ExactLaneSettles
    <2> SUFFICES ASSUME SessionInv, gate # None, InStep, exactOffered
                 PROVE  /\ best.cost >= OptCost[graph][destinations]
                        /\ best.cost <= OptCost[graph][destinations] + Eps
      BY DEF ExactLaneSettles
    <2>1. best # None /\ best.cost = gate /\ best.trip = destinations /\ best.graph = graph
      BY DEF SessionInv, GateInv, GateTracksBest, AdmittedIsCurrent
    <2>2. best.cost >= OptCost[graph][destinations]
      BY <2>1 DEF SessionInv, CostInv
    <2>3. leastOffer # None /\ leastOffer <= OptCost[graph][destinations]
          /\ gate <= leastOffer + Eps
      BY DEF SessionInv, GateInv, ExactInv, NoDrift, InStep
    <2>4. leastOffer \in Nat /\ gate \in Nat /\ Eps \in Nat
          /\ OptCost[graph][destinations] \in Nat
      BY <2>3, DataAssumption, NoneAssumption
         DEF SessionInv, TypeOK, RevisionInv, InStep, Cost
    <2> QED BY <2>1, <2>2, <2>3, <2>4
  <1> QED BY <1>1, SessionInvariant, PTL

-----------------------------------------------------------------------------
\* Refinement of PlanDisplay.

\* An offer shows a plan or leaves the display alone.
LEMMA OfferShows ==
  ASSUME SessionInv, NEW plan \in Plan, NEW exact \in BOOLEAN, Offer(plan, exact),
         destinations # None /\ destinations' = destinations,
         planner # None /\ planner' # None /\ planner'.trip = planner.trip,
         planner.trip = destinations => plan.trip = destinations
  PROVE  Display!Show \/ UNCHANGED Display!displayVars
  <1> USE DataAssumption, NoneAssumption
  <1>1. (planner' # None /\ planner'.trip = destinations') =
          (planner # None /\ planner.trip = destinations)
    OBVIOUS
  <1>2. CASE Admits(plan.cost)
    <2>1. gate' = plan.cost /\ best' = plan
      BY <1>2 DEF Offer
    <2>2. plan.cost # None
      BY DEF Plan, Cost
    <2>3. gate # None => best # None /\ best.cost = gate /\ plan.cost + Eps < gate
      BY <1>2 DEF Admits, SessionInv, GateInv, GateTracksBest
    <2> QED BY <1>1, <2>1, <2>2, <2>3 DEF Display!Show
  <1>3. CASE ~Admits(plan.cost)
    <2>1. UNCHANGED <<gate, best>>
      BY <1>3 DEF Offer
    <2> QED BY <1>1, <2>1 DEF Display!displayVars
  <1> QED BY <1>2, <1>3

\* A call that takes the plan off the screen.
LEMMA RestartShows ==
  ASSUME destinations' \in Trip, gate' = None, best' = None
  PROVE  Display!Restart
  BY DEF Display!Restart

LEMMA TrafficShows ==
  ASSUME SessionInv, ApplyTraffic
  PROVE  Display!Distrust \/ UNCHANGED Display!displayVars
  <1>1. UNCHANGED <<destinations, best>> /\ gate' = None
    BY DEF ApplyTraffic, ClearGate
  <1>2. (planner' # None /\ planner'.trip = destinations') =
          (planner # None /\ planner.trip = destinations)
    <2>1. CASE planner # None /\ NodesOf[graph] = NodesOf[planner.graph]
      <3>1. planner \in Planner
        BY <2>1 DEF SessionInv, TypeOK
      <3>2. PICK b \in SearchCosts(NewPlanner(graph, planner.trip)) \cup {None} :
              planner' = [planner EXCEPT !.graph = graph, !.best = b]
        BY <2>1 DEF ApplyTraffic
      <3>3. graph \in Graph /\ b \in Cost \cup {None}
        BY DEF ApplyTraffic, SessionInv, TypeOK, SearchCosts
      <3>4. planner' \in Planner /\ planner'.trip = planner.trip
        BY <3>1, <3>2, <3>3 DEF Planner
      <3>5. planner' # None
        BY <3>4, NoneAssumption
      <3> QED BY <1>1, <2>1, <3>4, <3>5
    <2>2. CASE ~(planner # None /\ NodesOf[graph] = NodesOf[planner.graph])
      BY <1>1, <2>2 DEF ApplyTraffic, pluginVars
    <2> QED BY <2>1, <2>2
  <1> QED BY <1>1, <1>2 DEF Display!Distrust

LEMMA StepShows ==
  SessionInv /\ [Next]_vars => [Display!DisplayNext]_(Display!displayVars)
  <1> SUFFICES ASSUME SessionInv, [Next]_vars
               PROVE  Display!DisplayNext \/ UNCHANGED Display!displayVars
    OBVIOUS
  <1> USE DataAssumption, NoneAssumption
  <1> USE DEF Display!DisplayNext
  <1>1. CASE \E g \in Graph : SetGraph(g)
    BY <1>1 DEF SetGraph, gateVars, pluginVars, Display!displayVars
  <1>2. CASE \E t \in Requests : DestinationsSet(t)
    BY <1>2, RestartShows DEF DestinationsSet, ClearGate
  <1>3. CASE TrafficChanged
    BY <1>3, TrafficShows DEF TrafficChanged
  <1>4. CASE \E n \in Positions : EgoMoved(n)
    <2> PICK n \in Positions : EgoMoved(n)
      BY <1>4
    <2>1. gate' = None /\ best' = None
      BY DEF EgoMoved, ClearGate
    <2>2. destinations' \in Trip
      BY NextInv, <2>1 DEF EgoMoved, SessionInv, TypeOK, Trip
    <2> QED BY <2>1, <2>2, RestartShows
  <1>5. CASE ContinueSearch
    <2>1. ApplyTraffic \/ UNCHANGED <<sessionVars, gate, best, pluginVars>>
      BY <1>5 DEF ContinueSearch
    <2>2. CASE UNCHANGED <<sessionVars, gate, best, pluginVars>>
      BY <2>2 DEF sessionVars, pluginVars, Display!displayVars
    <2> QED BY <2>1, <2>2, TrafficShows
  <1>6. CASE PlannerMarker \/ RaceDeadline \/ RaceReturns \/ \E l \in lanes : LaneFinishes(l)
    BY <1>6 DEF PlannerMarker, RaceDeadline, RaceReturns, LaneFinishes, sessionVars,
                gateVars, pluginVars, Display!displayVars
  <1>7. CASE SliceReturns
    <2>0. /\ planner \in Planner /\ planner # None /\ destinations # None
          /\ UNCHANGED <<destinations, planner>>
      BY <1>7 DEF SliceReturns, SessionInv, TypeOK, sessionVars, pluginVars
    <2>1. CASE planner.best # None /\ Admits(planner.best)
      <3>1. PlanOf(planner) \in Plan /\ PlanOf(planner).trip = planner.trip
        BY <2>0, <2>1 DEF PlanOf, Plan, Planner
      <3>2. Offer(PlanOf(planner), FALSE)
        BY <1>7, <2>1 DEF SliceReturns
      <3> QED BY <2>0, <3>1, <3>2, OfferShows
    <2>2. CASE ~(planner.best # None /\ Admits(planner.best))
      BY <1>7, <2>0, <2>2 DEF SliceReturns, Display!displayVars
    <2> QED BY <2>1, <2>2
  <1>8. CASE PlannerStep
    <2>0. /\ planner \in Planner /\ planner # None /\ destinations # None
          /\ destinations' = destinations /\ phase # "idle"
      BY <1>8 DEF PlannerStep, SessionInv, TypeOK, sessionVars
    <2>1. PICK c \in SearchCosts(planner) :
            /\ planner' = [planner EXCEPT !.best = c]
            /\ Offer([cost |-> c, trip |-> planner.trip, graph |-> planner.graph], FALSE)
      BY <1>8 DEF PlannerStep
    <2> DEFINE plan == [cost |-> c, trip |-> planner.trip, graph |-> planner.graph]
    <2>2. plan \in Plan /\ plan.trip = planner.trip
      BY <2>0 DEF SearchCosts, Plan, Planner
    <2>3. planner' # None /\ planner'.trip = planner.trip
      <3>1. c \in Cost \cup {None}
        BY DEF SearchCosts
      <3>2. planner' \in Planner
        BY <2>0, <2>1, <3>1 DEF Planner
      <3> QED BY <2>0, <2>1, <3>2 DEF Planner
    <2>4. Offer(plan, FALSE)
      BY <2>1
    <2> HIDE DEF plan
    <2> QED BY <2>0, <2>2, <2>3, <2>4, OfferShows
  <1>9. CASE DrainLane
    <2>0. /\ planner # None /\ destinations # None /\ planner' = planner
          /\ destinations' = destinations /\ channel \in Seq(Message) /\ channel # <<>>
      BY <1>9 DEF DrainLane, SessionInv, TypeOK, sessionVars, pluginVars
    <2>1. Head(channel) \in Message /\ Head(channel) = channel[1] /\ 1 \in 1..Len(channel)
      BY <2>0, ChannelTail
    <2>2. Head(channel).plan \in Plan /\ Head(channel).plan.trip = destinations
      BY <2>1 DEF Message, SessionInv, RaceInv
    <2>3. Offer(Head(channel).plan, Head(channel).algorithm = "exact")
      BY <1>9 DEF DrainLane
    <2>4. (Head(channel).algorithm = "exact") \in BOOLEAN
      OBVIOUS
    <2> QED BY <2>0, <2>2, <2>3, <2>4, OfferShows
  <1>10. CASE UNCHANGED vars
    BY <1>10 DEF vars, sessionVars, gateVars, pluginVars, Display!displayVars
  <1> QED BY <1>1, <1>2, <1>3, <1>4, <1>5, <1>6, <1>7, <1>8, <1>9, <1>10 DEF Next

\* Every behaviour of the session is one PlanDisplay allows.
THEOREM SessionImplementsDisplay == Spec => ImplementsDisplay
  <1>1. Init => Display!DisplayInit
    BY DEF Init, Display!DisplayInit
  <1> QED BY <1>1, StepShows, SessionInvariant, PTL
          DEF Spec, ImplementsDisplay, Display!DisplaySpec

=============================================================================
