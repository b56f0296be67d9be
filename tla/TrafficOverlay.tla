--------------------------- MODULE TrafficOverlay ---------------------------
(***************************************************************************)
(* The traffic overlay (graph/traffic.rs, and TrafficGraph of              *)
(* python/mod.rs): levels on the roads of a fixed network, set road by     *)
(* road or for a zone, and the weighted snapshots planners are given.      *)
(* Only levels other than free are stored.  Weights of snapshots are       *)
(* counted in halves (slow is 2.5 times free).                             *)
(***************************************************************************)
EXTENDS RoadMaps

CONSTANTS
  Base,        \* the networks the loaders produce
  MaxOrders,   \* bound: number of traffic orders
  MaxZone,     \* bound: nodes of a zone
  None         \* no snapshot yet

Level == {"free", "slow", "jam", "blocked"}
Zone(m) == {z \in SUBSET Nodes(m) : Cardinality(z) <= MaxZone}

ASSUME BaseAssumption == \A m \in Base : IsNetwork(m) /\ IsTwoWay(m)
ASSUME BoundsAssumption == MaxOrders \in Nat /\ MaxZone \in Nat

VARIABLES
  base,        \* TrafficGraph.base
  levels,      \* TrafficGraph.edge_levels
  live,        \* the snapshot made last
  orders,      \* number of traffic orders, for the bound
  wanted,      \* history: the level the last order about each road gave it
  priced       \* history: wanted when live was made

overlay == <<base, levels, live, orders, wanted, priced>>

-----------------------------------------------------------------------------
\* TrafficLevel::multiplier in halves; a blocked road has none.
Factor(l) == CASE l = "free" -> 2 [] l = "slow" -> 5 [] l = "jam" -> 10

\* Faulty variant: the key depends on the direction the caller names.
KeyAsGiven(a, b) == <<a, b>>

Canonical(a, b) == IF a <= b THEN <<a, b>> ELSE <<b, a>>

\* set_edge_level for all given edges: all get the same level.
Marked(lv, edges, l) ==
  LET keys == {Canonical(e[1], e[2]) : e \in edges}
  IN  IF l = "free" THEN Restrict(lv, DOMAIN lv \ keys)
      ELSE [k \in DOMAIN lv \cup keys |-> IF k \in keys THEN l ELSE lv[k]]

\* Faulty variant: a zone is the edges inside it.
InnerEdges(m, zone) == {e \in Edges(m) : e[1] \in zone /\ e[2] \in zone}

ZoneEdges(m, zone) == {e \in Edges(m) : e[1] \in zone \/ e[2] \in zone}

\* edge_level
LevelOf(lv, a, b) ==
  IF Canonical(a, b) \in DOMAIN lv THEN lv[Canonical(a, b)] ELSE "free"

\* Faulty variant: a blocked road is priced like a jam.
NeverClosed(m, lv) ==
  LET price(l) == IF l = "blocked" THEN 10 ELSE Factor(l)
      open == {e \in Edges(m) : e[1] < e[2]}
  IN  [size |-> m.size,
       weight |-> [e \in BothWays(open) |->
          m.weight[Canonical(e[1], e[2])] * price(LevelOf(lv, e[1], e[2]))]]

\* materialize: each road is taken once, from its lower end, and put in both ways.
Priced(m, lv) ==
  LET open == {e \in Edges(m) : e[1] < e[2] /\ LevelOf(lv, e[1], e[2]) # "blocked"}
  IN  [size |-> m.size,
       weight |-> [e \in BothWays(open) |->
          m.weight[Canonical(e[1], e[2])] * Factor(LevelOf(lv, e[1], e[2]))]]

-----------------------------------------------------------------------------
OverlayInit ==
  /\ base \in Base
  /\ levels = <<>> /\ live = None /\ orders = 0
  /\ wanted = [r \in Roads(base) |-> "free"] /\ priced = None

Order(roads, l) ==
  /\ orders < MaxOrders
  /\ orders' = orders + 1
  /\ wanted' = [r \in Roads(base) |-> IF r \in roads THEN l ELSE wanted[r]]

\* set_edge_traffic: refused unless there is an edge one way or the other.
SetEdgeTraffic(a, b, l) ==
  /\ <<a, b>> \in Edges(base) \/ <<b, a>> \in Edges(base)
  /\ levels' = Marked(levels, {<<a, b>>}, l)
  /\ Order({{a, b}}, l)
  /\ UNCHANGED <<base, live, priced>>

\* set_zone_traffic
SetZoneTraffic(zone, l) ==
  /\ levels' = Marked(levels, ZoneEdges(base, zone), l)
  /\ Order({r \in Roads(base) : r \cap zone # {}}, l)
  /\ UNCHANGED <<base, live, priced>>

ClearTraffic ==
  /\ levels' = <<>>
  /\ Order(Roads(base), "free")
  /\ UNCHANGED <<base, live, priced>>

Materialize ==
  /\ live' = Priced(base, levels)
  /\ priced' = wanted
  /\ UNCHANGED <<base, levels, orders, wanted>>

OverlayNext ==
  \/ \E a, b \in Nodes(base), l \in Level : SetEdgeTraffic(a, b, l)
  \/ \E zone \in Zone(base), l \in Level : SetZoneTraffic(zone, l)
  \/ ClearTraffic
  \/ Materialize

OverlaySpec == OverlayInit /\ [][OverlayNext]_overlay

-----------------------------------------------------------------------------
(* Properties                                                               *)

\* Types; only levels other than free are stored, under canonical keys of roads.
OverlayTypeOK ==
  /\ base \in Base
  /\ \A k \in DOMAIN levels :
       k[1] <= k[2] /\ {k[1], k[2]} \in Roads(base) /\ levels[k] \in Level \ {"free"}
  /\ live # None => IsNetwork(live)
  /\ orders \in 0..MaxOrders
  /\ wanted \in [Roads(base) -> Level]
  /\ priced # None => priced \in [Roads(base) -> Level]

\* Road, zone and clear orders overlap and cancel, named in either direction:
\* what is stored is always the last order that covers the road.
LevelsAreLastOrders ==
  \A e \in Edges(base) : LevelOf(levels, e[1], e[2]) = wanted[{e[1], e[2]}]

\* A snapshot has exactly the roads that were open when it was made, both ways at
\* the weight their level gave them then, and none from a node to itself, whatever
\* loader made the base and whatever was ordered since.
SnapshotIsPriced ==
  live # None =>
    live = [size |-> base.size,
            weight |-> [e \in {e \in Edges(base) : e[1] # e[2] /\ priced[{e[1], e[2]}] # "blocked"} |->
                          base.weight[e] * Factor(priced[{e[1], e[2]}])]]

=============================================================================
