--------------------------- MODULE TourLanesProofs ---------------------------
(***************************************************************************)
(* The traffic overlay under the tour lanes, for every set of two-way      *)
(* networks, and the networks the loaders make.                            *)
(***************************************************************************)
EXTENDS TourLanes, ShortestProofs

-----------------------------------------------------------------------------
(* Keys of roads                                                            *)

\* A key names a road whichever way round it is given.
LEMMA CanonicalNames ==
  ASSUME NEW a \in Int, NEW b \in Int
  PROVE  /\ Canonical(a, b) = Canonical(b, a)
         /\ Canonical(a, b) \in Int \X Int
         /\ Canonical(a, b)[1] <= Canonical(a, b)[2]
         /\ {Canonical(a, b)[1], Canonical(a, b)[2]} = {a, b}
         /\ Canonical(a, b) \in {<<a, b>>, <<b, a>>}
         /\ \A c, d \in Int : (Canonical(a, b) = Canonical(c, d)) <=> ({a, b} = {c, d})
  <1>1. \A c, d \in Int : {a, b} = {c, d} <=> (a = c /\ b = d) \/ (a = d /\ b = c)
    OBVIOUS
  <1>2. \A c, d \in Int : (c <= d /\ Canonical(c, d) = <<c, d>>)
                          \/ (d < c /\ Canonical(c, d) = <<d, c>>)
    BY DEF Canonical
  <1>3. Canonical(a, b) \in {<<a, b>>, <<b, a>>} /\ Canonical(a, b) \in Int \X Int
    BY <1>2
  <1>4. Canonical(a, b)[1] <= Canonical(a, b)[2]
    BY <1>2
  <1>5. {Canonical(a, b)[1], Canonical(a, b)[2]} = {a, b}
    BY <1>3
  <1>6. \A c, d \in Int : (Canonical(a, b) = Canonical(c, d)) <=> ({a, b} = {c, d})
    <2> SUFFICES ASSUME NEW c \in Int, NEW d \in Int
                 PROVE  (Canonical(a, b) = Canonical(c, d))
                          <=> (a = c /\ b = d) \/ (a = d /\ b = c)
      BY <1>1
    <2>1. \/ a <= b /\ Canonical(a, b) = <<a, b>>
          \/ b < a /\ Canonical(a, b) = <<b, a>>
      BY <1>2
    <2>2. \/ c <= d /\ Canonical(c, d) = <<c, d>>
          \/ d < c /\ Canonical(c, d) = <<d, c>>
      BY <1>2
    <2> QED BY <2>1, <2>2
  <1>7. Canonical(a, b) = Canonical(b, a)
    BY <1>1, <1>6
  <1> QED BY <1>3, <1>4, <1>5, <1>6, <1>7

\* The keys of some edges.
Keys(edges) == {Canonical(e[1], e[2]) : e \in edges}

\* What an order stores: its level at its keys, what was there at the others.
LEMMA MarkedLevels ==
  ASSUME NEW lv, NEW edges \in SUBSET (Int \X Int), NEW l \in Level,
         \A k \in DOMAIN lv : lv[k] \in Level \ {"free"}
  PROVE  /\ DOMAIN Marked(lv, edges, l) \subseteq DOMAIN lv \cup Keys(edges)
         /\ \A k \in DOMAIN Marked(lv, edges, l) :
              Marked(lv, edges, l)[k] \in Level \ {"free"}
         /\ \A a, b \in Int :
              LevelOf(Marked(lv, edges, l), a, b) =
                IF Canonical(a, b) \in Keys(edges) THEN l ELSE LevelOf(lv, a, b)
  <1> DEFINE keys == Keys(edges)
             marked == Marked(lv, edges, l)
  <1>1. CASE l = "free"
    <2>1. marked = [k \in DOMAIN lv \ keys |-> lv[k]]
      BY <1>1 DEF Marked, Restrict, Keys
    <2> HIDE DEF marked, keys
    <2>2. /\ DOMAIN marked \subseteq DOMAIN lv \cup keys
          /\ \A k \in DOMAIN marked : marked[k] \in Level \ {"free"}
          /\ \A a, b \in Int :
               LevelOf(marked, a, b) = IF Canonical(a, b) \in keys THEN l ELSE LevelOf(lv, a, b)
      BY <1>1, <2>1 DEF LevelOf
    <2> QED BY <2>2 DEF marked, keys
  <1>2. CASE l # "free"
    <2>1. marked = [k \in DOMAIN lv \cup keys |-> IF k \in keys THEN l ELSE lv[k]]
      BY <1>2 DEF Marked, Keys
    <2> HIDE DEF marked, keys
    <2>2. /\ DOMAIN marked \subseteq DOMAIN lv \cup keys
          /\ \A k \in DOMAIN marked : marked[k] \in Level \ {"free"}
          /\ \A a, b \in Int :
               LevelOf(marked, a, b) = IF Canonical(a, b) \in keys THEN l ELSE LevelOf(lv, a, b)
      BY <1>2, <2>1 DEF LevelOf
    <2> QED BY <2>2 DEF marked, keys
  <1> QED BY <1>1, <1>2

-----------------------------------------------------------------------------
(* The overlay                                                              *)

\* The keys in use are pairs of nodes: only then can their order be compared.
KeysArePairs == \A k \in DOMAIN levels : k \in Int \X Int

\* What a snapshot was priced with gives every road a level.
PricedIsFull == live # None => priced \in [Roads(base) -> Level]

OverlayInv ==
  /\ OverlayTypeOK /\ LevelsAreLastOrders /\ SnapshotIsPriced
  /\ KeysArePairs /\ PricedIsFull

LEMMA BaseFacts ==
  ASSUME base \in Base
  PROVE  /\ IsNetwork(base) /\ IsTwoWay(base)
         /\ \A e \in Edges(base) :
              /\ e = <<e[1], e[2]>> /\ e \in Nodes(base) \X Nodes(base) /\ e \in Int \X Int
              /\ e[1] \in Int /\ e[2] \in Int /\ base.weight[e] \in Nat
              /\ {e[1], e[2]} \in Roads(base)
              /\ <<e[2], e[1]>> \in Edges(base)
              /\ base.weight[<<e[2], e[1]>>] = base.weight[e]
         /\ \A r \in Roads(base) : \E a, b \in Int : <<a, b>> \in Edges(base) /\ r = {a, b}
  <1>1. IsNetwork(base) /\ IsTwoWay(base)
    BY BaseAssumption
  <1>2. Nodes(base) \subseteq Int
    BY DEF Nodes
  <1>3. \A e \in Edges(base) : e \in Nodes(base) \X Nodes(base)
    BY <1>1 DEF IsNetwork
  <1>4. \A e \in Edges(base) :
          /\ e = <<e[1], e[2]>> /\ e \in Nodes(base) \X Nodes(base) /\ e \in Int \X Int
          /\ e[1] \in Int /\ e[2] \in Int
    BY <1>2, <1>3
  <1>5. \A r \in Roads(base) : \E a, b \in Int : <<a, b>> \in Edges(base) /\ r = {a, b}
    <2> SUFFICES ASSUME NEW e \in Edges(base)
                 PROVE  \E a, b \in Int : <<a, b>> \in Edges(base) /\ {e[1], e[2]} = {a, b}
      BY DEF Roads
    <2> QED BY <1>4
  <1> QED BY <1>1, <1>4, <1>5 DEF IsNetwork, IsTwoWay, Roads

\* An order for the roads that some edges stand for: the stored levels follow it.
LEMMA OrderInv ==
  ASSUME OverlayInv, NEW edges \in SUBSET (Int \X Int), NEW roads, NEW l \in Level,
         \A e \in edges : {e[1], e[2]} \in Roads(base),
         roads = {{e[1], e[2]} : e \in edges},
         levels' = Marked(levels, edges, l), Order(roads, l),
         UNCHANGED <<base, live, priced>>
  PROVE  OverlayInv'
  <1> DEFINE keys == Keys(edges)
  <1>1. /\ base \in Base /\ orders \in Nat /\ orders <= MaxOrders
        /\ wanted \in [Roads(base) -> Level]
    BY BoundsAssumption DEF OverlayInv, OverlayTypeOK
  <1>0. \A k \in DOMAIN levels : levels[k] \in Level \ {"free"}
    BY DEF OverlayInv, OverlayTypeOK
  <1>2. /\ DOMAIN levels' \subseteq DOMAIN levels \cup keys
        /\ \A k \in DOMAIN levels' : levels'[k] \in Level \ {"free"}
        /\ \A a, b \in Int : LevelOf(levels', a, b) =
             IF Canonical(a, b) \in keys THEN l ELSE LevelOf(levels, a, b)
    <2>1. /\ DOMAIN Marked(levels, edges, l) \subseteq DOMAIN levels \cup Keys(edges)
          /\ \A k \in DOMAIN Marked(levels, edges, l) :
               Marked(levels, edges, l)[k] \in Level \ {"free"}
          /\ \A a, b \in Int :
               LevelOf(Marked(levels, edges, l), a, b) =
                 IF Canonical(a, b) \in Keys(edges) THEN l ELSE LevelOf(levels, a, b)
      BY <1>0, MarkedLevels
    <2> DEFINE marked == Marked(levels, edges, l)
    <2>2. levels' = marked
      OBVIOUS
    <2> HIDE DEF marked
    <2> QED BY <2>1, <2>2 DEF marked
  <1>3. \A k \in keys : k \in Int \X Int /\ k[1] <= k[2] /\ {k[1], k[2]} \in Roads(base)
    <2> SUFFICES ASSUME NEW e \in edges
                 PROVE  LET k == Canonical(e[1], e[2])
                        IN  k \in Int \X Int /\ k[1] <= k[2] /\ {k[1], k[2]} \in Roads(base)
      BY DEF Keys
    <2>1. e[1] \in Int /\ e[2] \in Int /\ {e[1], e[2]} \in Roads(base)
      OBVIOUS
    <2> DEFINE k == Canonical(e[1], e[2])
    <2>2. k \in Int \X Int /\ k[1] <= k[2] /\ {k[1], k[2]} = {e[1], e[2]}
      BY <2>1, CanonicalNames, Zenon
    <2> HIDE DEF k
    <2>3. k \in Int \X Int /\ k[1] <= k[2] /\ {k[1], k[2]} \in Roads(base)
      BY <2>1, <2>2
    <2> QED BY <2>3 DEF k
  <1>4. \A k \in DOMAIN levels' :
          k \in Int \X Int /\ k[1] <= k[2] /\ {k[1], k[2]} \in Roads(base)
    BY <1>2, <1>3 DEF OverlayInv, OverlayTypeOK, KeysArePairs
  <1>5. orders' \in 0..MaxOrders /\ wanted' \in [Roads(base) -> Level]
    BY <1>1, BoundsAssumption DEF Order
  <1>6. OverlayTypeOK'
    BY <1>1, <1>2, <1>4, <1>5 DEF OverlayInv, OverlayTypeOK
  <1>7. LevelsAreLastOrders'
    <2> SUFFICES ASSUME NEW e \in Edges(base)
                 PROVE  LevelOf(levels', e[1], e[2]) = wanted'[{e[1], e[2]}]
      BY DEF LevelsAreLastOrders
    <2>1. e[1] \in Int /\ e[2] \in Int /\ {e[1], e[2]} \in Roads(base)
      BY <1>1, BaseFacts
    <2>2. Canonical(e[1], e[2]) \in keys <=> {e[1], e[2]} \in roads
      <3>1. \A f \in edges : (Canonical(f[1], f[2]) = Canonical(e[1], e[2]))
                                <=> ({f[1], f[2]} = {e[1], e[2]})
        <4> SUFFICES ASSUME NEW f \in edges
                     PROVE  (Canonical(f[1], f[2]) = Canonical(e[1], e[2]))
                              <=> ({f[1], f[2]} = {e[1], e[2]})
          OBVIOUS
        <4>1. f[1] \in Int /\ f[2] \in Int
          OBVIOUS
        <4>2. \A c, d \in Int : (Canonical(f[1], f[2]) = Canonical(c, d)) <=> ({f[1], f[2]} = {c, d})
          BY <4>1, CanonicalNames
        <4> QED BY <2>1, <4>2
      <3>2. Canonical(e[1], e[2]) \in keys
              <=> \E f \in edges : Canonical(f[1], f[2]) = Canonical(e[1], e[2])
        BY DEF Keys
      <3>3. {e[1], e[2]} \in roads <=> \E f \in edges : {f[1], f[2]} = {e[1], e[2]}
        OBVIOUS
      <3> QED BY <3>1, <3>2, <3>3, Zenon
    <2>3. wanted'[{e[1], e[2]}] = IF {e[1], e[2]} \in roads THEN l ELSE wanted[{e[1], e[2]}]
      BY <2>1 DEF Order
    <2>4. LevelOf(levels, e[1], e[2]) = wanted[{e[1], e[2]}]
      BY DEF OverlayInv, LevelsAreLastOrders
    <2> QED BY <1>2, <2>1, <2>2, <2>3, <2>4
  <1>8. SnapshotIsPriced' /\ PricedIsFull'
    BY DEF OverlayInv, SnapshotIsPriced, PricedIsFull
  <1>9. KeysArePairs'
    BY <1>4 DEF KeysArePairs
  <1> QED BY <1>6, <1>7, <1>8, <1>9 DEF OverlayInv

LEMMA SetEdgeTrafficInv ==
  ASSUME OverlayInv, NEW a \in Nodes(base), NEW b \in Nodes(base), NEW l \in Level,
         SetEdgeTraffic(a, b, l)
  PROVE  OverlayInv'
  <1>1. a \in Int /\ b \in Int
    BY DEF Nodes
  <1>2. {a, b} \in Roads(base)
    BY DEF SetEdgeTraffic, Roads
  <1>3. {{e[1], e[2]} : e \in {<<a, b>>}} = {{a, b}}
    OBVIOUS
  <1>4. <<a, b>> \in Int \X Int /\ \A e \in {<<a, b>>} : {e[1], e[2]} \in Roads(base)
    BY <1>1, <1>2
  <1>5. /\ levels' = Marked(levels, {<<a, b>>}, l) /\ Order({{a, b}}, l)
        /\ UNCHANGED <<base, live, priced>>
    BY DEF SetEdgeTraffic
  <1>6. {<<a, b>>} \in SUBSET (Int \X Int)
    BY <1>4
  <1> QED BY <1>3, <1>4, <1>5, <1>6, OrderInv

LEMMA SetZoneTrafficInv ==
  ASSUME OverlayInv, NEW zone, NEW l \in Level, SetZoneTraffic(zone, l)
  PROVE  OverlayInv'
  <1>1. base \in Base
    BY DEF OverlayInv, OverlayTypeOK
  <1>2. ZoneEdges(base, zone) \in SUBSET (Int \X Int)
    <2>1. \A e \in Edges(base) : e \in Int \X Int
      BY <1>1, BaseFacts
    <2> QED BY <2>1 DEF ZoneEdges
  <1>3. \A e \in ZoneEdges(base, zone) : {e[1], e[2]} \in Roads(base)
    BY DEF ZoneEdges, Roads
  <1>4. {r \in Roads(base) : r \cap zone # {}} = {{e[1], e[2]} : e \in ZoneEdges(base, zone)}
    BY DEF ZoneEdges, Roads
  <1> QED BY <1>2, <1>3, <1>4, OrderInv DEF SetZoneTraffic

LEMMA ClearTrafficInv ==
  ASSUME OverlayInv, ClearTraffic
  PROVE  OverlayInv'
  <1>1. base \in Base /\ orders \in Nat /\ wanted \in [Roads(base) -> Level]
    BY BoundsAssumption DEF OverlayInv, OverlayTypeOK
  <1>2. DOMAIN levels' = {}
    BY DEF ClearTraffic
  <1>3. wanted' = [r \in Roads(base) |-> "free"] /\ orders' \in 0..MaxOrders
    BY <1>1, BoundsAssumption DEF ClearTraffic, Order
  <1>4. OverlayTypeOK'
    BY <1>1, <1>2, <1>3 DEF ClearTraffic, OverlayInv, OverlayTypeOK, Level
  <1>5. LevelsAreLastOrders'
    BY <1>2, <1>3 DEF ClearTraffic, LevelsAreLastOrders, LevelOf, Roads
  <1>6. SnapshotIsPriced' /\ PricedIsFull' /\ KeysArePairs'
    BY <1>2 DEF ClearTraffic, OverlayInv, SnapshotIsPriced, PricedIsFull, KeysArePairs
  <1> QED BY <1>4, <1>5, <1>6 DEF OverlayInv

\* materialize takes each road from its lower end, yet both ways come out right.
LEMMA MaterializeInv ==
  ASSUME OverlayInv, Materialize
  PROVE  OverlayInv'
  <1> DEFINE closed(e) == wanted[{e[1], e[2]}] = "blocked"
             open == {e \in Edges(base) : e[1] < e[2] /\ LevelOf(levels, e[1], e[2]) # "blocked"}
             price(e) == base.weight[e] * Factor(wanted[{e[1], e[2]}])
             roads == {e \in Edges(base) : e[1] # e[2] /\ ~closed(e)}
  <1>1. base \in Base /\ wanted \in [Roads(base) -> Level] /\ base' = base
        /\ levels' = levels /\ wanted' = wanted /\ orders' = orders /\ priced' = wanted
    BY DEF OverlayInv, OverlayTypeOK, Materialize
  <1>0. \A e \in Edges(base) :
          /\ e = <<e[1], e[2]>> /\ e \in Nodes(base) \X Nodes(base)
          /\ e[1] \in Int /\ e[2] \in Int /\ base.weight[e] \in Nat
          /\ {e[1], e[2]} \in Roads(base)
          /\ <<e[2], e[1]>> \in Edges(base) /\ base.weight[<<e[2], e[1]>>] = base.weight[e]
    BY <1>1, BaseFacts
  <1>2. \A e \in Edges(base) : LevelOf(levels, e[1], e[2]) = wanted[{e[1], e[2]}]
    BY DEF OverlayInv, LevelsAreLastOrders
  <1>3. \A e \in open : e \in Edges(base) /\ e[1] < e[2] /\ ~closed(e)
    BY <1>2
  <1>4. BothWays(open) = roads
    <2>1. ASSUME NEW e \in BothWays(open) PROVE e \in roads
      <3>1. CASE e \in open
        <4>1. e \in Edges(base) /\ e[1] < e[2] /\ ~closed(e) /\ e[1] \in Int /\ e[2] \in Int
          BY <1>0, <1>3, <3>1
        <4>2. e[1] # e[2]
          BY <4>1
        <4> QED BY <4>1, <4>2
      <3>2. CASE e \notin open
        <4>1. PICK f \in open : e = <<f[2], f[1]>>
          BY <2>1, <3>2 DEF BothWays
        <4>2. /\ f \in Edges(base) /\ f[1] < f[2] /\ f[1] \in Int /\ f[2] \in Int
              /\ <<f[2], f[1]>> \in Edges(base)
          BY <1>0, <1>3, <4>1
        <4>3. e \in Edges(base) /\ {e[1], e[2]} = {f[1], f[2]} /\ e[1] # e[2]
          BY <4>1, <4>2
        <4> QED BY <1>3, <4>1, <4>3
      <3> QED BY <3>1, <3>2
    <2>2. ASSUME NEW e \in roads PROVE e \in BothWays(open)
      <3>0. /\ e = <<e[1], e[2]>> /\ e[1] \in Int /\ e[2] \in Int /\ e[1] # e[2]
            /\ <<e[2], e[1]>> \in Edges(base) /\ {e[2], e[1]} = {e[1], e[2]}
        BY <1>0, <2>2
      <3>1. CASE e[1] < e[2]
        BY <1>2, <2>2, <3>1 DEF BothWays
      <3>2. CASE e[2] < e[1]
        <4> DEFINE f == <<e[2], e[1]>>
        <4>1. f \in Edges(base) /\ f[1] = e[2] /\ f[2] = e[1]
          BY <3>0
        <4>2. LevelOf(levels, f[1], f[2]) = wanted[{f[1], f[2]}] /\ {f[1], f[2]} = {e[1], e[2]}
          BY <1>2, <3>0, <4>1
        <4>3. f \in open
          BY <2>2, <3>2, <4>1, <4>2
        <4>4. e = <<f[2], f[1]>>
          BY <3>0
        <4> HIDE DEF f, open
        <4> QED BY <4>3, <4>4 DEF BothWays
      <3> QED BY <3>0, <3>1, <3>2
    <2> QED BY <2>1, <2>2
  <1>5. \A e \in roads :
          base.weight[Canonical(e[1], e[2])] * Factor(LevelOf(levels, e[1], e[2])) = price(e)
    <2> SUFFICES ASSUME NEW e \in roads
                 PROVE  base.weight[Canonical(e[1], e[2])] = base.weight[e]
                        /\ LevelOf(levels, e[1], e[2]) = wanted[{e[1], e[2]}]
      OBVIOUS
    <2>1. /\ e = <<e[1], e[2]>> /\ e[1] \in Int /\ e[2] \in Int
          /\ base.weight[<<e[2], e[1]>>] = base.weight[e]
      BY <1>0
    <2>2. Canonical(e[1], e[2]) \in {e, <<e[2], e[1]>>}
      BY <2>1, CanonicalNames
    <2> QED BY <1>2, <2>1, <2>2
  <1>6. live' = [size |-> base.size, weight |-> [e \in roads |-> price(e)]]
    <2>1. live' = [size |-> base.size,
                   weight |-> [e \in BothWays(open) |->
                     base.weight[Canonical(e[1], e[2])] * Factor(LevelOf(levels, e[1], e[2]))]]
      BY DEF Materialize, Priced
    <2> QED BY <1>4, <1>5, <2>1
  <1>7. \A e \in roads : price(e) \in Nat /\ e \in Nodes(base) \X Nodes(base)
    <2> SUFFICES ASSUME NEW e \in roads PROVE price(e) \in Nat /\ e \in Nodes(base) \X Nodes(base)
      OBVIOUS
    <2>1. /\ base.weight[e] \in Nat /\ {e[1], e[2]} \in Roads(base)
          /\ e \in Nodes(base) \X Nodes(base)
      BY <1>0
    <2>2. wanted[{e[1], e[2]}] \in Level \ {"blocked"}
      BY <1>1, <2>1
    <2>3. Factor(wanted[{e[1], e[2]}]) \in Nat
      BY <2>2 DEF Factor, Level
    <2> QED BY <2>1, <2>3
  <1> HIDE DEF roads, price, open, closed
  <1>8. IsNetwork(live')
    <2>1. /\ live'.size = base.size /\ base.size \in Nat
          /\ live'.weight = [e \in roads |-> price(e)]
      BY <1>1, <1>6, BaseFacts DEF IsNetwork
    <2> QED BY <1>7, <2>1 DEF IsNetwork, Edges, Nodes
  <1>9. OverlayTypeOK'
    BY <1>1, <1>8 DEF OverlayInv, OverlayTypeOK
  <1>10. LevelsAreLastOrders' /\ KeysArePairs' /\ PricedIsFull'
    BY <1>1 DEF OverlayInv, LevelsAreLastOrders, KeysArePairs, PricedIsFull
  <1>11. SnapshotIsPriced'
    BY <1>1, <1>6 DEF SnapshotIsPriced, roads, price, closed
  <1> QED BY <1>9, <1>10, <1>11 DEF OverlayInv

LEMMA OverlayStart ==
  ASSUME OverlayInit
  PROVE  OverlayInv
  <1>1. base \in Base /\ DOMAIN levels = {} /\ live = None /\ orders = 0 /\ priced = None
        /\ wanted = [r \in Roads(base) |-> "free"]
    BY DEF OverlayInit
  <1>2. OverlayTypeOK
    BY <1>1, BoundsAssumption DEF OverlayTypeOK, Level
  <1>3. LevelsAreLastOrders
    BY <1>1 DEF LevelsAreLastOrders, LevelOf, Roads
  <1> QED BY <1>1, <1>2, <1>3 DEF OverlayInv, SnapshotIsPriced, PricedIsFull, KeysArePairs

LEMMA OverlayKept ==
  ASSUME OverlayInv, UNCHANGED overlay
  PROVE  OverlayInv'
  <1>1. OverlayTypeOK'
    BY DEF overlay, OverlayInv, OverlayTypeOK
  <1>2. LevelsAreLastOrders' /\ SnapshotIsPriced'
    BY DEF overlay, OverlayInv, LevelsAreLastOrders, SnapshotIsPriced
  <1>3. PricedIsFull' /\ KeysArePairs'
    BY DEF overlay, OverlayInv, PricedIsFull, KeysArePairs
  <1> QED BY <1>1, <1>2, <1>3 DEF OverlayInv

LEMMA OverlayStays ==
  ASSUME OverlayInv, OverlayNext
  PROVE  OverlayInv'
  <1>1. CASE \E a, b \in Nodes(base), l \in Level : SetEdgeTraffic(a, b, l)
    BY <1>1, SetEdgeTrafficInv
  <1>2. CASE \E zone \in Zone(base), l \in Level : SetZoneTraffic(zone, l)
    BY <1>2, SetZoneTrafficInv
  <1>3. CASE ClearTraffic
    BY <1>3, ClearTrafficInv
  <1>4. CASE Materialize
    BY <1>4, MaterializeInv
  <1> QED BY <1>1, <1>2, <1>3, <1>4 DEF OverlayNext

\* The overlay on its own, and under the lanes of the race, which leave it alone.
THEOREM OverlaySound == OverlaySpec => []OverlayInv
  <1>1. OverlayInv /\ [OverlayNext]_overlay => OverlayInv'
    BY OverlayStays, OverlayKept
  <1> QED BY <1>1, OverlayStart, PTL DEF OverlaySpec

THEOREM OverlaySafe == Spec => []OverlayInv
  <1>1. Init => OverlayInv
    BY OverlayStart DEF Init
  <1>2. OverlayInv /\ [Next]_vars => OverlayInv'
    <2> SUFFICES ASSUME OverlayInv, [Next]_vars PROVE OverlayInv'
      OBVIOUS
    <2>1. OverlayNext \/ UNCHANGED overlay
      BY DEF Next, OverlayStep, RunLanes, vars
    <2> QED BY <2>1, OverlayStays, OverlayKept
  <1> QED BY <1>1, <1>2, PTL DEF Spec

\* Only levels other than free are stored, each under the key of a road, whatever
\* networks the loaders make and however many orders are given (graph/traffic.rs).
THEOREM OverlayTypesCorrect == Spec => []OverlayTypeOK
  BY OverlaySafe, PTL DEF OverlayInv

\* What edge_level answers for a road, from either end, is the level of the last
\* order about it, through any mix of road, zone and clear orders.
THEOREM LastOrderHolds == Spec => []LevelsAreLastOrders
  BY OverlaySafe, PTL DEF OverlayInv

\* What materialize hands the planners has the roads open when it was called, both
\* ways, at the weight of their levels then, and keeps it while orders go on.
THEOREM SnapshotsArePriced == Spec => []SnapshotIsPriced
  BY OverlaySafe, PTL DEF OverlayInv

-----------------------------------------------------------------------------
(* The networks of the loaders                                              *)

\* What the loaders read: distances are those between two points, from either end,
\* and a node that is named exists (custom.rs and python/mod.rs refuse others).
IsOsm(s) ==
  /\ s.kind = "osm" /\ IsFiniteSet(s.known) /\ s.known \subseteq Int
  /\ \A a, b \in s.known : s.metres[<<a, b>>] \in Nat /\ s.metres[<<a, b>>] = s.metres[<<b, a>>]

IsCustom(s) ==
  /\ s.kind = "custom" /\ s.size \in Nat
  /\ s.pairs \subseteq (0..(s.size - 1)) \X (0..(s.size - 1))
  /\ \A a, b \in 0..(s.size - 1) : s.metres[<<a, b>>] \in Nat /\ s.metres[<<a, b>>] = s.metres[<<b, a>>]

IsList(s) ==
  /\ s.kind = "list" /\ s.size \in Nat
  /\ s.edges \in Seq((0..(s.size - 1)) \X (0..(s.size - 1)) \X Nat)

LEMMA BothWaysReversed ==
  ASSUME NEW pairs, \A p \in pairs : p = <<p[1], p[2]>>
  PROVE  \A e \in BothWays(pairs) : e = <<e[1], e[2]>> /\ <<e[2], e[1]>> \in BothWays(pairs)
  BY DEF BothWays

LEMMA PairsMakeNetwork ==
  ASSUME NEW s, IsCustom(s)
  PROVE  IsNetwork(PairNetwork(s)) /\ IsTwoWay(PairNetwork(s))
  <1> DEFINE node == 0..(s.size - 1)
             pairs == {p \in s.pairs : p[1] # p[2]}
             w == [e \in BothWays(pairs) |-> s.metres[e]]
             m == PairNetwork(s)
  <1>1. m.size = s.size /\ m.weight = w /\ Nodes(m) = node /\ Edges(m) = BothWays(pairs)
    BY DEF PairNetwork, Nodes, Edges
  <1>2. \A p \in pairs : p = <<p[1], p[2]>> /\ p[1] \in node /\ p[2] \in node
    <2>1. \A p \in pairs : p \in node \X node
      BY DEF IsCustom
    <2> HIDE DEF pairs, node
    <2> QED BY <2>1
  <1>3. \A e \in BothWays(pairs) : e = <<e[1], e[2]>> /\ <<e[2], e[1]>> \in BothWays(pairs)
    BY <1>2, BothWaysReversed
  <1>4. \A e \in BothWays(pairs) : e[1] \in node /\ e[2] \in node
    BY <1>2 DEF BothWays
  <1>5. \A a, b \in node : s.metres[<<a, b>>] \in Nat /\ s.metres[<<a, b>>] = s.metres[<<b, a>>]
    BY DEF IsCustom
  <1> HIDE DEF node, pairs, m
  <1>6. \A e \in BothWays(pairs) :
          e \in node \X node /\ s.metres[e] \in Nat /\ s.metres[<<e[2], e[1]>>] = s.metres[e]
    <2> SUFFICES ASSUME NEW e \in BothWays(pairs)
                 PROVE  /\ e \in node \X node /\ s.metres[e] \in Nat
                        /\ s.metres[<<e[2], e[1]>>] = s.metres[e]
      OBVIOUS
    <2>1. e = <<e[1], e[2]>> /\ <<e[1], e[2]>> \in node \X node
      BY <1>3, <1>4
    <2>2. s.metres[<<e[1], e[2]>>] \in Nat /\ s.metres[<<e[1], e[2]>>] = s.metres[<<e[2], e[1]>>]
      BY <1>4, <1>5
    <2> QED BY <2>1, <2>2, Zenon
  <1>7. IsNetwork(m)
    <2>1. m.size \in Nat
      BY <1>1 DEF IsCustom
    <2> QED BY <1>1, <1>6, <2>1 DEF IsNetwork
  <1>8. IsTwoWay(m)
    BY <1>1, <1>3, <1>6 DEF IsTwoWay
  <1> QED BY <1>7, <1>8 DEF m

\* Of a road listed more than once both directions take the same last weight.
LEMMA ListMakesNetwork ==
  ASSUME NEW s, IsList(s)
  PROVE  IsNetwork(ListNetwork(s)) /\ IsTwoWay(ListNetwork(s))
  <1> DEFINE node == 0..(s.size - 1)
             ends(k) == {s.edges[k][1], s.edges[k][2]}
             lastOf(r) == CHOOSE k \in DOMAIN s.edges :
                            /\ ends(k) = r
                            /\ \A j \in DOMAIN s.edges : ends(j) = r => j <= k
             pairs == {<<s.edges[k][1], s.edges[k][2]>> : k \in DOMAIN s.edges}
             w == [e \in BothWays(pairs) |-> s.edges[lastOf({e[1], e[2]})][3]]
             m == ListNetwork(s)
  <1>1. m.size = s.size /\ m.weight = w /\ Nodes(m) = node /\ Edges(m) = BothWays(pairs)
    BY DEF ListNetwork, Nodes, Edges
  <1>2. \A k \in DOMAIN s.edges :
          s.edges[k][1] \in node /\ s.edges[k][2] \in node /\ s.edges[k][3] \in Nat
    <2>1. \A k \in DOMAIN s.edges : s.edges[k] \in node \X node \X Nat
      BY DEF IsList
    <2> HIDE DEF node
    <2> QED BY <2>1
  <1>3. \A e \in BothWays(pairs) :
          /\ e = <<e[1], e[2]>> /\ <<e[2], e[1]>> \in BothWays(pairs)
          /\ e[1] \in node /\ e[2] \in node
          /\ \E k \in DOMAIN s.edges : ends(k) = {e[1], e[2]}
    BY <1>2 DEF BothWays
  <1>4. \A r : (\E k \in DOMAIN s.edges : ends(k) = r) => lastOf(r) \in DOMAIN s.edges
    <2> SUFFICES ASSUME NEW r, \E k \in DOMAIN s.edges : ends(k) = r
                 PROVE  \E k \in DOMAIN s.edges :
                          /\ ends(k) = r
                          /\ \A j \in DOMAIN s.edges : ends(j) = r => j <= k
      OBVIOUS
    <2> DEFINE K == {k \in DOMAIN s.edges : ends(k) = r}
    <2>1. DOMAIN s.edges = 1..Len(s.edges) /\ Len(s.edges) \in Nat
      BY DEF IsList
    <2>2. K \in SUBSET Nat /\ K # {} /\ \A k \in K : k <= Len(s.edges)
      BY <2>1
    <2>3. \E k \in K : \A j \in K : j <= k
      <3> HIDE DEF K
      <3> QED BY <2>1, <2>2, GreatestNatural
    <2> QED BY <2>3
  <1>5. \A e \in BothWays(pairs) : {e[1], e[2]} = {e[2], e[1]}
    OBVIOUS
  <1>6. \A e \in BothWays(pairs) : w[e] \in Nat /\ w[<<e[2], e[1]>>] = w[e]
    <2> SUFFICES ASSUME NEW e \in BothWays(pairs) PROVE w[e] \in Nat /\ w[<<e[2], e[1]>>] = w[e]
      OBVIOUS
    <2> HIDE DEF pairs, lastOf
    <2>1. w[e] = s.edges[lastOf({e[1], e[2]})][3]
      OBVIOUS
    <2>2. w[<<e[2], e[1]>>] = s.edges[lastOf({e[2], e[1]})][3]
      BY <1>3
    <2> QED BY <1>2, <1>3, <1>4, <1>5, <2>1, <2>2
  <1> HIDE DEF node, pairs, m, w
  <1>7. \A e \in BothWays(pairs) : e \in node \X node
    <2> SUFFICES ASSUME NEW e \in BothWays(pairs) PROVE e \in node \X node
      OBVIOUS
    <2>1. e = <<e[1], e[2]>> /\ <<e[1], e[2]>> \in node \X node
      BY <1>3
    <2> QED BY <2>1, Zenon
  <1>10. IsNetwork(m)
    BY <1>1, <1>6, <1>7 DEF IsNetwork, IsList
  <1>11. IsTwoWay(m)
    BY <1>1, <1>3, <1>6 DEF IsTwoWay
  <1> QED BY <1>10, <1>11 DEF m

\* Nodes are numbered in the order of their ids, without a gap, and each number
\* stands for a node of the file.
LEMMA WaysMakeNetwork ==
  ASSUME NEW s, IsOsm(s)
  PROVE  IsNetwork(WayNetwork(s)) /\ IsTwoWay(WayNetwork(s))
  <1> DEFINE ways == {w \in s.ways : Matches(w, s.filter)}
             ids == s.known \cap UNION {Range(w.refs) : w \in ways}
             index(i) == Cardinality({j \in ids : j < i})
             node == 0..(Cardinality(ids) - 1)
             id == [n \in node |-> CHOOSE i \in ids : index(i) = n]
             steps == BothWays(UNION {Steps(w.refs) : w \in ways}) \cap (ids \X ids)
             edges == {<<index(p[1]), index(p[2])>> : p \in steps}
             m == WayNetwork(s)
  <1>1. /\ m.size = Cardinality(ids) /\ Nodes(m) = node /\ Edges(m) = edges
        /\ \A e \in edges : m.weight[e] = s.metres[<<id[e[1]], id[e[2]]>>]
    BY DEF WayNetwork, Nodes, Edges
  <1>2. IsFiniteSet(ids) /\ Cardinality(ids) \in Nat /\ ids \subseteq Int /\ ids \subseteq s.known
    BY FS_Subset, FS_CardinalityType DEF IsOsm
  <1>3. \A a, b \in s.known : s.metres[<<a, b>>] \in Nat /\ s.metres[<<a, b>>] = s.metres[<<b, a>>]
    BY DEF IsOsm
  <1>4. \A p \in UNION {Steps(w.refs) : w \in ways} : p = <<p[1], p[2]>>
    BY DEF Steps
  <1>5. \A p \in steps : /\ p = <<p[1], p[2]>> /\ <<p[2], p[1]>> \in steps
                         /\ p[1] \in ids /\ p[2] \in ids
    <2> SUFFICES ASSUME NEW p \in steps
                 PROVE  /\ p = <<p[1], p[2]>> /\ <<p[2], p[1]>> \in steps
                        /\ p[1] \in ids /\ p[2] \in ids
      OBVIOUS
    <2> DEFINE all == UNION {Steps(w.refs) : w \in ways}
    <2>1. p \in BothWays(all) /\ p \in ids \X ids
      OBVIOUS
    <2>2. p = <<p[1], p[2]>> /\ <<p[2], p[1]>> \in BothWays(all)
      <3> HIDE DEF all
      <3> QED BY <1>4, <2>1, BothWaysReversed DEF all
    <2> HIDE DEF all, ids
    <2>3. p[1] \in ids /\ p[2] \in ids
      BY <2>1
    <2>4. <<p[2], p[1]>> \in ids \X ids
      BY <2>3
    <2> QED BY <2>2, <2>3, <2>4 DEF all
  <1> HIDE DEF ids, steps
  <1>6. \A i \in ids : index(i) \in node
    <2> SUFFICES ASSUME NEW i \in ids PROVE index(i) \in node
      OBVIOUS
    <2> DEFINE before == {j \in ids : j < i}
    <2>1. before \in SUBSET ids /\ before # ids
      BY <1>2
    <2>2. /\ IsFiniteSet(before) /\ Cardinality(before) <= Cardinality(ids)
          /\ Cardinality(ids) = Cardinality(before) => ids = before
      <3> HIDE DEF before
      <3> QED BY <1>2, <2>1, FS_Subset
    <2>3. Cardinality(before) \in Nat
      BY <2>2, FS_CardinalityType
    <2>4. Cardinality(before) < Cardinality(ids)
      BY <1>2, <2>1, <2>2, <2>3
    <2> QED BY <1>2, <2>3, <2>4
  <1> DEFINE named == {n \in node : \E i \in ids : index(i) = n}
  <1>7. \A n \in named : id[n] \in ids
    OBVIOUS
  <1>8. \A e \in edges : /\ e[1] \in named /\ e[2] \in named
                         /\ e = <<e[1], e[2]>> /\ <<e[2], e[1]>> \in edges
    <2> SUFFICES ASSUME NEW e \in edges
                 PROVE  /\ e[1] \in named /\ e[2] \in named
                        /\ e = <<e[1], e[2]>> /\ <<e[2], e[1]>> \in edges
      OBVIOUS
    <2>1. PICK p \in steps : e = <<index(p[1]), index(p[2])>>
      OBVIOUS
    <2>2. p[1] \in ids /\ p[2] \in ids /\ <<p[2], p[1]>> \in steps
      BY <1>5
    <2>3. index(p[1]) \in named /\ index(p[2]) \in named
      BY <1>6, <2>2
    <2> HIDE DEF index, named
    <2>4. <<index(p[2]), index(p[1])>> \in edges
      BY <2>2
    <2> HIDE DEF edges
    <2> QED BY <2>1, <2>3, <2>4
  <1> HIDE DEF named, id, node, index, edges, m
  <1>9. \A e \in edges : /\ e \in node \X node /\ m.weight[e] \in Nat
                         /\ m.weight[<<e[2], e[1]>>] = m.weight[e]
    <2> SUFFICES ASSUME NEW e \in edges
                 PROVE  /\ e \in node \X node /\ m.weight[e] \in Nat
                        /\ m.weight[<<e[2], e[1]>>] = m.weight[e]
      OBVIOUS
    <2>1. e[1] \in node /\ e[2] \in node /\ id[e[1]] \in s.known /\ id[e[2]] \in s.known
      BY <1>2, <1>7, <1>8 DEF named
    <2>2. e = <<e[1], e[2]>> /\ <<e[1], e[2]>> \in node \X node
      BY <1>8, <2>1
    <2>3. m.weight[e] = s.metres[<<id[e[1]], id[e[2]]>>]
      BY <1>1
    <2>4. m.weight[<<e[2], e[1]>>] = s.metres[<<id[e[2]], id[e[1]]>>]
      BY <1>1, <1>8
    <2>5. s.metres[<<id[e[1]], id[e[2]]>>] \in Nat
          /\ s.metres[<<id[e[1]], id[e[2]]>>] = s.metres[<<id[e[2]], id[e[1]]>>]
      BY <1>3, <2>1
    <2>6. e \in node \X node
      BY <2>2, Zenon
    <2> QED BY <2>3, <2>4, <2>5, <2>6
  <1>10. IsNetwork(m)
    BY <1>1, <1>2, <1>9 DEF IsNetwork
  <1>11. IsTwoWay(m)
    BY <1>1, <1>8, <1>9 DEF IsTwoWay
  <1> QED BY <1>10, <1>11 DEF m

\* Whichever loader made it, from OSM ways, node pairs or a list of edges, a network
\* is what the overlay and the lanes assume: edges between known nodes, every road
\* both ways with one weight (map/osm.rs, map/custom.rs, python/mod.rs).
THEOREM LoadersMakeTwoWay ==
  ASSUME NEW s, IsOsm(s) \/ IsCustom(s) \/ IsList(s)
  PROVE  IsNetwork(Network(s)) /\ IsTwoWay(Network(s))
  <1>1. CASE IsOsm(s)
    BY <1>1, WaysMakeNetwork DEF Network, IsOsm
  <1>2. CASE IsCustom(s)
    BY <1>2, PairsMakeNetwork DEF Network, IsCustom
  <1>3. CASE IsList(s)
    BY <1>3, ListMakesNetwork DEF Network, IsList
  <1> QED BY <1>1, <1>2, <1>3

\* The list as stitch_legs grows it, one leg at a time.
IsStitching(g, paths) ==
  /\ g[0] = <<>>
  /\ \A k \in 0..(Len(paths) - 1) :
       g[k + 1] = IF g[k] = <<>> THEN paths[k + 1] ELSE g[k] \o Tail(paths[k + 1])

\* The fold that Stitch is takes the legs in their order.
LEMMA StitchInOrder ==
  ASSUME NEW V, NEW paths \in Seq(Seq(V)), \A k \in DOMAIN paths : paths[k] # <<>>
  PROVE  \E g : IsStitching(g, paths) /\ Stitch(paths) = g[Len(paths)]
  <1> DEFINE N == Len(paths)
             S == 1..N
             add(out, leg) == IF out = <<>> THEN leg ELSE out \o Tail(leg)
             step(h) == [s \in SUBSET S |->
                           IF s = {} THEN <<>> ELSE LET x == Max(s) IN add(h[s \ {x}], paths[x])]
             iter == CHOOSE h : h = step(h)
             pick == [s \in SUBSET S |-> Max(s)]
             hh == [e \in S \X Seq(V) |-> add(e[2], paths[e[1]])]
  <1>1. N \in Nat /\ DOMAIN paths = S /\ IsFiniteSet(S)
    BY FS_Interval
  <1>2. \A k \in S : paths[k] \in Seq(V) /\ paths[k] # <<>>
    <2>1. \A k \in DOMAIN paths : paths[k] \in Seq(V)
      OBVIOUS
    <2> HIDE DEF S
    <2> QED BY <1>1, <2>1
  <1>3. \A s \in SUBSET S : s # {} => Max(s) \in s /\ \A y \in s : y <= Max(s)
    <2> SUFFICES ASSUME NEW s \in SUBSET S, s # {}
                 PROVE  \E x \in s : \A y \in s : y <= x
      BY DEF Max
    <2>1. s \in SUBSET Nat /\ \A x \in s : x <= N
      BY <1>1
    <2> QED BY <1>1, <2>1, GreatestNatural
  <1>4. Stitch(paths) = iter[S]
    BY <1>1 DEF Stitch, FoldLeft, MapThenFoldSet
  <1>5. hh \in [S \X Seq(V) -> Seq(V)]
    <2> SUFFICES ASSUME NEW x \in S, NEW out \in Seq(V)
                 PROVE  add(out, paths[x]) \in Seq(V)
      OBVIOUS
    <2>1. paths[x] \in Seq(V) /\ Tail(paths[x]) \in Seq(V)
      BY <1>2
    <2> QED BY <2>1
  <1>6. PICK f : IsFold(f, S, Seq(V), <<>>, pick, hh)
    <2>1. <<>> \in Seq(V) /\ \A s \in SUBSET S : s # {} => pick[s] \in s
      BY <1>3
    <2> HIDE DEF hh, pick, S
    <2> QED BY <1>1, <1>5, <2>1, FoldRecursion
  <1>7. f = step(f)
    <2>1. \A s \in SUBSET S : f[s] = step(f)[s]
      <3> SUFFICES ASSUME NEW s \in SUBSET S PROVE f[s] = step(f)[s]
        OBVIOUS
      <3>1. CASE s = {}
        BY <1>6, <3>1 DEF IsFold
      <3>2. CASE s # {}
        <4> DEFINE x == Max(s)
                   t == s \ {x}
        <4>1. x \in S /\ t \in SUBSET S /\ pick[s] = x
          BY <1>3, <3>2
        <4>2. f[t] \in Seq(V) /\ f[s] = hh[<<x, f[t]>>]
          BY <1>6, <3>2, <4>1 DEF IsFold
        <4>3. f[s] = add(f[t], paths[x])
          <5> HIDE DEF x, t
          <5> QED BY <4>1, <4>2
        <4> QED BY <3>2, <4>3
      <3> QED BY <3>1, <3>2
    <2>2. f = [s \in SUBSET S |-> f[s]]
      BY <1>6 DEF IsFold
    <2> QED BY <2>1, <2>2
  <1>8. iter = step(iter)
    <2> HIDE DEF step
    <2> QED BY <1>7
  <1> DEFINE g == [k \in 0..N |-> iter[1..k]]
  <1>9. g[0] = <<>>
    <2>1. 1..0 = {} /\ 0 \in 0..N /\ {} \in SUBSET S
      BY <1>1
    <2>2. iter[{}] = <<>>
      BY <1>8, <2>1
    <2> HIDE DEF iter
    <2> QED BY <2>1, <2>2
  <1>10. ASSUME NEW k \in 0..(N - 1) PROVE g[k + 1] = add(g[k], paths[k + 1])
    <2>0. k \in Nat /\ k + 1 <= N /\ k \in 0..N /\ k + 1 \in 0..N
      BY <1>1, <1>10
    <2>1. /\ k \in Nat /\ k + 1 <= N /\ k \in 0..N /\ k + 1 \in 0..N
          /\ 1..(k + 1) # {} /\ 1..(k + 1) \in SUBSET S
      <3>1. k + 1 \in 1..(k + 1) /\ 1..(k + 1) \in SUBSET (1..N)
        BY <1>1, <2>0, IntervalGrows
      <3> QED BY <2>0, <3>1
    <2>2. (1..(k + 1)) \ {k + 1} = 1..k
      BY <1>1, <2>1, IntervalGrows
    <2>3. Max(1..(k + 1)) = k + 1
      <3>1. Max(1..(k + 1)) \in 1..(k + 1) /\ \A y \in 1..(k + 1) : y <= Max(1..(k + 1))
        BY <1>3, <2>1
      <3> QED BY <2>1, <3>1
    <2>4. iter[1..(k + 1)] = add(iter[(1..(k + 1)) \ {Max(1..(k + 1))}], paths[Max(1..(k + 1))])
      BY <1>8, <2>1
    <2> HIDE DEF iter
    <2> QED BY <2>1, <2>2, <2>3, <2>4
  <1>11. Stitch(paths) = g[N]
    <2> HIDE DEF iter
    <2> QED BY <1>1, <1>4
  <1> HIDE DEF g
  <1> QED BY <1>9, <1>10, <1>11 DEF IsStitching

\* A list followed by another from where it ends passes all that either passes.
LEMMA JoinedPasses ==
  ASSUME NEW V, NEW w, NEW a, NEW b, NEW c, NEW d, NEW e,
         NEW q, Leads(V, w, q, a, b, d), NEW r, Leads(V, w, r, b, c, e)
  PROVE  ToSet(q) \subseteq ToSet(q \o Tail(r)) /\ c \in ToSet(q \o Tail(r))
  <1> DEFINE M == Len(q)
             N == Len(r)
             j == q \o Tail(r)
  <1>1. /\ q \in Seq(V) /\ M \in Nat \ {0} /\ q[M] = b
        /\ r \in Seq(V) /\ N \in Nat \ {0} /\ r[1] = b /\ r[N] = c
    BY DEF Leads
  <1>2. /\ j \in Seq(V) /\ Len(j) = M + (N - 1)
        /\ \A k \in 1..M : j[k] = q[k]
        /\ \A k \in 1..N : j[(M - 1) + k] = r[k]
    BY <1>1, JoinedFacts
  <1>3. DOMAIN j = 1..(M + (N - 1)) /\ DOMAIN q = 1..M
    BY <1>1, <1>2
  <1> HIDE DEF j
  <1>4. ToSet(q) \subseteq ToSet(j)
    <2> SUFFICES ASSUME NEW k \in 1..M PROVE \E i \in DOMAIN j : j[i] = q[k]
      BY <1>3 DEF ToSet
    <2>1. k \in DOMAIN j /\ j[k] = q[k]
      BY <1>1, <1>2, <1>3
    <2> QED BY <2>1
  <1>5. c \in ToSet(j)
    <2>1. (M - 1) + N \in DOMAIN j /\ j[(M - 1) + N] = c
      BY <1>1, <1>2, <1>3
    <2> QED BY <2>1 DEF ToSet
  <1> QED BY <1>4, <1>5 DEF j

\* Stitched, legs that start where the one before ends lead from the first stop to the
\* last, past all between, and are as long as the legs together.
LEMMA StitchLeads ==
  ASSUME NEW V, NEW w, \A e \in DOMAIN w : w[e] \in Nat,
         NEW N \in Nat \ {0}, NEW paths \in Seq(Seq(V)), Len(paths) = N,
         NEW at, NEW c, NEW f, f[1] = 0,
         \A k \in 1..N : f[k + 1] = f[k] + c[k],
         \A k \in 1..N : Leads(V, w, paths[k], at[k], at[k + 1], c[k])
  PROVE  /\ Leads(V, w, Stitch(paths), at[1], at[N + 1], f[N + 1])
         /\ \A k \in 1..(N + 1) : at[k] \in ToSet(Stitch(paths))
  <1>1. \A k \in 1..N : paths[k] \in Seq(V) /\ paths[k] # <<>> /\ c[k] \in Nat
    <2> SUFFICES ASSUME NEW k \in 1..N PROVE paths[k] \in Seq(V) /\ paths[k] # <<>> /\ c[k] \in Nat
      OBVIOUS
    <2>1. Leads(V, w, paths[k], at[k], at[k + 1], c[k])
      OBVIOUS
    <2>2. paths[k] # <<>> /\ c[k] \in Nat
      BY <2>1, LeadsIsWalk
    <2> QED BY <2>1, <2>2 DEF Leads
  <1>2. PICK g : IsStitching(g, paths) /\ Stitch(paths) = g[N]
    <2>1. \A k \in DOMAIN paths : paths[k] # <<>>
      BY <1>1
    <2> QED BY <2>1, StitchInOrder
  <1>3. g[0] = <<>> /\ \A k \in 0..(N - 1) :
          g[k + 1] = IF g[k] = <<>> THEN paths[k + 1] ELSE g[k] \o Tail(paths[k + 1])
    BY <1>2 DEF IsStitching
  <1> DEFINE Well(k) == /\ Leads(V, w, g[k + 1], at[1], at[k + 2], f[k + 2])
                        /\ \A i \in 1..(k + 2) : at[i] \in ToSet(g[k + 1])
             Good == {k \in Nat : k + 1 <= N => Well(k)}
  <1>4. 0 \in Good
    <2>1. g[1] = paths[1] /\ 1 \in 1..N
      <3>1. 0 \in 0..(N - 1) /\ 0 + 1 = 1 /\ 1 \in 1..N
        OBVIOUS
      <3> QED BY <1>3, <3>1
    <2>2. Leads(V, w, g[1], at[1], at[2], c[1]) /\ f[2] = 0 + c[1] /\ c[1] \in Nat
      <3>1. 1 + 1 = 2
        OBVIOUS
      <3> QED BY <1>1, <2>1, <3>1
    <2>3. Leads(V, w, g[1], at[1], at[2], f[2])
      BY <2>2
    <2>4. at[1] \in ToSet(g[1]) /\ at[2] \in ToSet(g[1])
      <3>1. /\ g[1] \in Seq(V) /\ Len(g[1]) \in Nat \ {0} /\ g[1][1] = at[1]
            /\ g[1][Len(g[1])] = at[2]
        BY <2>3 DEF Leads
      <3> QED BY <3>1 DEF ToSet
    <2>5. 0 + 1 = 1 /\ 0 + 2 = 2 /\ \A i \in 1..2 : i = 1 \/ i = 2
      OBVIOUS
    <2> QED BY <2>3, <2>4, <2>5
  <1>5. ASSUME NEW k \in Nat, k \in Good PROVE k + 1 \in Good
    <2> SUFFICES ASSUME (k + 1) + 1 <= N PROVE Well(k + 1)
      BY <1>5
    <2>1. k + 1 <= N /\ k + 1 \in 0..(N - 1) /\ k + 2 \in 1..N /\ (k + 1) + 1 = k + 2
          /\ (k + 2) + 1 = k + 3 /\ (k + 1) + 2 = k + 3
      OBVIOUS
    <2>2. Leads(V, w, g[k + 1], at[1], at[k + 2], f[k + 2])
          /\ \A i \in 1..(k + 2) : at[i] \in ToSet(g[k + 1])
      BY <1>5, <2>1
    <2>3. g[k + 1] # <<>>
      <3> DEFINE q == g[k + 1]
                 b == at[k + 2]
                 x == f[k + 2]
      <3>1. Leads(V, w, q, at[1], b, x)
        BY <2>2
      <3> HIDE DEF q, b, x
      <3>2. q # <<>>
        BY <3>1, LeadsIsWalk
      <3> QED BY <3>2 DEF q
    <2>4. g[k + 2] = g[k + 1] \o Tail(paths[k + 2])
      BY <1>3, <2>1, <2>3
    <2>5. Leads(V, w, paths[k + 2], at[k + 2], at[k + 3], c[k + 2]) /\ f[k + 3] = f[k + 2] + c[k + 2]
      BY <2>1
    <2>6. Leads(V, w, g[k + 2], at[1], at[k + 3], f[k + 3])
      <3>1. Leads(V, w, g[k + 1] \o Tail(paths[k + 2]), at[1], at[k + 3], f[k + 2] + c[k + 2])
        BY <2>2, <2>5, LeadsOn
      <3> QED BY <2>4, <2>5, <3>1
    <2>7. ToSet(g[k + 1]) \subseteq ToSet(g[k + 2]) /\ at[k + 3] \in ToSet(g[k + 2])
      BY <2>2, <2>4, <2>5, JoinedPasses
    <2>8. \A i \in 1..(k + 3) : at[i] \in ToSet(g[k + 2])
      <3>1. \A i \in 1..(k + 3) : i \in 1..(k + 2) \/ i = k + 3
        OBVIOUS
      <3> QED BY <2>2, <2>7, <3>1
    <2> QED BY <2>1, <2>6, <2>8
  <1>6. N - 1 \in Good
    <2> HIDE DEF Good
    <2>1. Nat \subseteq Good
      BY <1>4, <1>5, NatSetInduction
    <2> QED BY <2>1
  <1>7. (N - 1) + 1 = N /\ (N - 1) + 2 = N + 1
    OBVIOUS
  <1>8. Well(N - 1)
    BY <1>6, <1>7
  <1> QED BY <1>2, <1>7, <1>8

\* legs leads from every stop to every stop.
AreLegs(V, w, n, stops, legs) ==
  /\ DOMAIN legs = (1..n) \X (1..n)
  /\ \A i, j \in 1..n : Leads(V, w, legs[<<i, j>>].path, stops[i], stops[j], legs[<<i, j>>].cost)

\* a leads along the stops that order names, past all of them.
IsRoute(V, w, stops, order, a) ==
  /\ Leads(V, w, a.path, stops[Head(order)], stops[Last(order)], a.cost)
  /\ \A k \in 1..Len(order) : stops[order[k]] \in ToSet(a.path)
  /\ a.order = order

\* What the legs of a tour answer, its route does, past all stops of its order.
LEMMA TourLeads ==
  ASSUME NEW V, NEW w, \A e \in DOMAIN w : w[e] \in Nat,
         NEW n \in Nat, NEW stops, NEW legs, AreLegs(V, w, n, stops, legs),
         NEW order \in Seq(1..n), Len(order) >= 2
  PROVE  IsRoute(V, w, stops, order, Tour(legs, order))
  <1>0. /\ DOMAIN legs = (1..n) \X (1..n)
        /\ \A i, j \in 1..n :
             Leads(V, w, legs[<<i, j>>].path, stops[i], stops[j], legs[<<i, j>>].cost)
    BY DEF AreLegs
  <1> DEFINE M == Len(order)
             N == M - 1
             cost == [p \in DOMAIN legs |-> legs[p].cost]
             paths == [k \in DOMAIN Legs(order) |-> legs[Legs(order)[k]].path]
             at == [k \in 1..M |-> stops[order[k]]]
             c == [k \in 1..N |-> cost[<<order[k], order[k + 1]>>]]
  <1>1. /\ M \in Nat /\ N \in Nat \ {0} /\ N + 1 = M /\ DOMAIN order = 1..M
        /\ order # <<>> /\ Head(order) = order[1] /\ Last(order) = order[M]
    <2>1. M \in Nat /\ N \in Nat \ {0} /\ N + 1 = M /\ DOMAIN order = 1..M
      <3>1. M \in Nat /\ M >= 2 /\ DOMAIN order = 1..M
        OBVIOUS
      <3> HIDE DEF M
      <3> QED BY <3>1
    <2>2. order # <<>> /\ Head(order) = order[1]
      OBVIOUS
    <2> QED BY <2>1, <2>2 DEF Last
  <1>2. \A k \in 1..M : order[k] \in 1..n
    OBVIOUS
  <1>3. \A k \in 1..N : /\ k \in 1..M /\ k + 1 \in 1..M
                        /\ <<order[k], order[k + 1]>> \in DOMAIN legs
    <2> SUFFICES ASSUME NEW k \in 1..N
                 PROVE  k \in 1..M /\ k + 1 \in 1..M /\ <<order[k], order[k + 1]>> \in DOMAIN legs
      OBVIOUS
    <2>1. k \in 1..M /\ k + 1 \in 1..M
      BY <1>1
    <2>2. order[k] \in 1..n /\ order[k + 1] \in 1..n
      BY <1>2, <2>1
    <2> QED BY <1>0, <2>1, <2>2
  <1>4. \A e \in DOMAIN cost : cost[e] \in Nat
    <2> SUFFICES ASSUME NEW i \in 1..n, NEW j \in 1..n PROVE legs[<<i, j>>].cost \in Nat
      BY <1>0
    <2>1. Leads(V, w, legs[<<i, j>>].path, stops[i], stops[j], legs[<<i, j>>].cost)
      BY <1>0
    <2> QED BY <2>1, LeadsIsWalk
  <1>5. IsWalk(cost, order)
    BY <1>3 DEF IsWalk, Legs
  <1>6. Tour(legs, order).cost = Length(cost, order) /\ Tour(legs, order).path = Stitch(paths)
        /\ Tour(legs, order).order = order
    BY DEF Tour, OrderCost
  <1>7. PICK f : AddsUp(f, cost, order) /\ f[M] = Length(cost, order)
    <2>0. order \in Seq(1..n) /\ order # <<>>
      BY <1>1
    <2> HIDE DEF cost
    <2>1. Leads(1..n, cost, order, Head(order), Last(order), Length(cost, order))
      BY <1>4, <1>5, <2>0, WalkLeads
    <2> QED BY <2>1 DEF Leads
  <1>8. f[1] = 0 /\ \A k \in 1..N : f[k + 1] = f[k] + c[k]
    BY <1>7 DEF AddsUp
  <1>9. \A k \in 1..N : Leads(V, w, paths[k], at[k], at[k + 1], c[k])
    <2> SUFFICES ASSUME NEW k \in 1..N PROVE Leads(V, w, paths[k], at[k], at[k + 1], c[k])
      OBVIOUS
    <2>1. /\ k \in 1..M /\ k + 1 \in 1..M /\ order[k] \in 1..n /\ order[k + 1] \in 1..n
          /\ <<order[k], order[k + 1]>> \in DOMAIN legs
      BY <1>2, <1>3
    <2>2. k \in DOMAIN Legs(order) /\ Legs(order)[k] = <<order[k], order[k + 1]>>
      BY DEF Legs
    <2>3. paths[k] = legs[<<order[k], order[k + 1]>>].path
      BY <2>2
    <2>4. c[k] = legs[<<order[k], order[k + 1]>>].cost
      BY <2>1
    <2>5. at[k] = stops[order[k]] /\ at[k + 1] = stops[order[k + 1]]
      BY <2>1
    <2> HIDE DEF paths, c, at
    <2> QED BY <1>0, <2>1, <2>3, <2>4, <2>5
  <1>10. paths \in Seq(Seq(V)) /\ Len(paths) = N
    <2>1. DOMAIN paths = 1..N
      BY DEF Legs
    <2>2. \A k \in 1..N : paths[k] \in Seq(V)
      BY <1>9 DEF Leads
    <2>3. paths \in [1..N -> Seq(V)]
      <3>1. paths = [k \in 1..N |-> paths[k]]
        BY <2>1
      <3> HIDE DEF paths
      <3> QED BY <2>2, <3>1
    <2> DEFINE U == Seq(V)
    <2>4. N \in Nat /\ paths \in [1..N -> U]
      BY <1>1, <2>3
    <2> HIDE DEF paths, U, N
    <2>5. paths \in Seq(U) /\ Len(paths) = N
      BY <2>4
    <2> QED BY <2>5 DEF U, N
  <1>11. at[1] = stops[Head(order)] /\ at[N + 1] = stops[Last(order)]
    BY <1>1
  <1> HIDE DEF paths, at, c, cost
  <1>12. /\ Leads(V, w, Stitch(paths), at[1], at[N + 1], f[N + 1])
         /\ \A k \in 1..(N + 1) : at[k] \in ToSet(Stitch(paths))
    <2> HIDE DEF N
    <2> QED BY <1>1, <1>8, <1>9, <1>10, StitchLeads
  <1>13. \A k \in 1..Len(order) : stops[order[k]] \in ToSet(Stitch(paths))
    BY <1>1, <1>12 DEF at
  <1> QED BY <1>1, <1>6, <1>7, <1>11, <1>12, <1>13 DEF IsRoute

-----------------------------------------------------------------------------
(* Orders of the objectives                                                 *)

\* How many there are to list.
LEMMA BetweenEnds ==
  ASSUME NEW n \in Nat, n >= 2
  PROVE  IsFiniteSet(2..(n - 1)) /\ Cardinality(2..(n - 1)) = n - 2
  <1>1. /\ IsFiniteSet(2..(n - 1))
        /\ Cardinality(2..(n - 1)) = IF 2 > n - 1 THEN 0 ELSE (n - 1) - 2 + 1
    BY FS_Interval
  <1> QED BY <1>1

\* o is the tour that passes in the order of s.
IsOrder(n, s, o) == s \in SetToSeqs(2..(n - 1)) /\ o = <<1>> \o s \o <<n>>

\* The ends of a tour and what it passes.
LEMMA OrderFacts ==
  ASSUME NEW n \in Nat, n >= 2, NEW s, NEW o, IsOrder(n, s, o)
  PROVE  /\ o \in Seq(1..n) /\ Len(o) = n /\ Head(o) = 1 /\ Last(o) = n
         /\ \A k \in 1..(n - 2) : o[k + 1] = s[k]
  <1>1. IsFiniteSet(2..(n - 1)) /\ Cardinality(2..(n - 1)) = n - 2
    BY BetweenEnds
  <1>2. /\ s \in Seq(2..(n - 1)) /\ Len(s) = n - 2
        /\ ToSet(s) = 2..(n - 1)
    BY <1>1, ListingFacts DEF IsOrder
  <1>3. /\ s \in Seq(1..n) /\ <<1>> \in Seq(1..n) /\ <<n>> \in Seq(1..n)
    BY <1>2
  <1>4. /\ <<1>> \o s \in Seq(1..n) /\ Len(<<1>> \o s) = n - 1
        /\ (<<1>> \o s)[1] = 1
        /\ \A k \in 1..(n - 2) : (<<1>> \o s)[k + 1] = s[k]
    <2> DEFINE U == 1..n
               a == <<1>>
               m == n - 2
    <2>1. a \in Seq(U) /\ s \in Seq(U) /\ Len(a) = 1 /\ a[1] = 1 /\ Len(s) = m
      BY <1>2, <1>3
    <2>2. m \in Nat /\ n - 1 = 1 + m
      OBVIOUS
    <2> HIDE DEF a, U, m
    <2>3. /\ a \o s \in Seq(U) /\ Len(a \o s) = 1 + m
          /\ \A k \in 1..(1 + m) : (a \o s)[k] = IF k <= 1 THEN a[k] ELSE s[k - 1]
      <3>1. /\ a \o s \in Seq(U) /\ Len(a \o s) = Len(a) + Len(s)
            /\ \A k \in 1..(Len(a) + Len(s)) :
                 (a \o s)[k] = IF k <= Len(a) THEN a[k] ELSE s[k - Len(a)]
        BY <2>1, ListsJoined
      <3> QED BY <2>1, <3>1
    <2> DEFINE p == a \o s
    <2> HIDE DEF p
    <2>4. /\ p \in Seq(U) /\ Len(p) = 1 + m
          /\ \A k \in 1..(1 + m) : p[k] = IF k <= 1 THEN a[k] ELSE s[k - 1]
      BY <2>3 DEF p
    <2>5. p[1] = 1 /\ \A k \in 1..m : p[k + 1] = s[k]
      BY <2>1, <2>2, <2>4
    <2> QED BY <2>2, <2>4, <2>5 DEF p, a, U, m
  <1> DEFINE p == <<1>> \o s
  <1> HIDE DEF p
  <1>5. /\ p \o <<n>> \in Seq(1..n) /\ Len(p \o <<n>>) = n
        /\ (p \o <<n>>)[n] = n
        /\ \A k \in 1..(n - 1) : (p \o <<n>>)[k] = p[k]
    BY <1>3, <1>4 DEF p
  <1>6. /\ o \in Seq(1..n) /\ Len(o) = n /\ o[n] = n
        /\ \A k \in 1..(n - 1) : o[k] = p[k]
    BY <1>5 DEF p, IsOrder
  <1>7. o[1] = 1 /\ \A k \in 1..(n - 2) : o[k + 1] = s[k]
    <2>1. 1 \in 1..(n - 1) /\ \A k \in 1..(n - 2) : k + 1 \in 1..(n - 1)
      OBVIOUS
    <2> QED BY <1>4, <1>6, <2>1 DEF p
  <1>8. Head(o) = 1 /\ Last(o) = n
    BY <1>6, <1>7 DEF Last
  <1> QED BY <1>6, <1>7, <1>8

\* It passes everything.
LEMMA OrderCovers ==
  ASSUME NEW n \in Nat, n >= 2, NEW s, NEW o, IsOrder(n, s, o), NEW i \in 1..n
  PROVE  \E k \in 1..n : o[k] = i
  <1>1. /\ o \in Seq(1..n) /\ Len(o) = n /\ Head(o) = 1 /\ Last(o) = n
        /\ \A k \in 1..(n - 2) : o[k + 1] = s[k]
    BY OrderFacts
  <1>2. o[1] = 1 /\ o[n] = n
    BY <1>1 DEF Last
  <1>3. CASE i = 1
    BY <1>2, <1>3
  <1>4. CASE i = n
    BY <1>2, <1>4
  <1>5. CASE i # 1 /\ i # n
    <2>1. IsFiniteSet(2..(n - 1)) /\ Cardinality(2..(n - 1)) = n - 2
      BY BetweenEnds
    <2>2. s \in Seq(2..(n - 1)) /\ Len(s) = n - 2 /\ ToSet(s) = 2..(n - 1)
      BY <2>1, ListingFacts DEF IsOrder
    <2>3. i \in 2..(n - 1) /\ DOMAIN s = 1..(n - 2)
      BY <1>5, <2>2
    <2>4. PICK k \in 1..(n - 2) : s[k] = i
      BY <2>2, <2>3 DEF ToSet
    <2>5. k + 1 \in 1..n /\ o[k + 1] = i
      BY <1>1, <2>4
    <2> QED BY <2>5
  <1> QED BY <1>3, <1>4, <1>5

\* What solve_greedy_tour has put in order: the start, then objectives, none twice.
Begun(o, n, m) ==
  /\ o \in Seq(1..n) /\ Len(o) = m /\ o[1] = 1
  /\ \A i \in 2..m : o[i] \in 2..(n - 1)
  /\ \A i, j \in 1..m : o[i] = o[j] => i = j

\* Its choice of the next one.
Nearest(legs, at, left) ==
  CHOOSE i \in left : \A j \in left \ {i} :
    \/ legs[<<at, i>>].cost < legs[<<at, j>>].cost
    \/ legs[<<at, i>>].cost = legs[<<at, j>>].cost /\ i < j

\* The nearest is one of those left.
LEMMA NearestIsLeft ==
  ASSUME NEW n \in Nat, NEW legs, NEW at \in 1..n, \A j \in 1..n : legs[<<at, j>>].cost \in Nat,
         NEW left \in SUBSET (2..(n - 1)), left # {}
  PROVE  Nearest(legs, at, left) \in left
  <1> DEFINE c == [j \in left |-> legs[<<at, j>>].cost]
             C == {c[j] : j \in left}
  <1>1. \A j \in left : c[j] \in Nat /\ j \in Nat
    OBVIOUS
  <1>2. PICK i \in left : \A j \in left : c[i] <= c[j]
    <2>1. C \in SUBSET Nat /\ C # {}
      BY <1>1
    <2>2. \E x \in C : \A y \in C : x <= y
      <3> HIDE DEF C
      <3> QED BY <2>1, LeastNatural
    <2> QED BY <2>2
  <1> DEFINE E == {j \in left : c[j] = c[i]}
  <1>3. PICK k \in E : \A j \in E : k <= j
    <2>1. E \in SUBSET Nat /\ E # {}
      BY <1>1
    <2> HIDE DEF E
    <2> QED BY <2>1, LeastNatural
  <1>4. \A j \in left \ {k} : c[k] < c[j] \/ (c[k] = c[j] /\ k < j)
    <2> SUFFICES ASSUME NEW j \in left \ {k} PROVE c[k] < c[j] \/ (c[k] = c[j] /\ k < j)
      OBVIOUS
    <2>1. c[k] = c[i] /\ c[i] <= c[j] /\ c[i] \in Nat /\ c[j] \in Nat /\ k \in Nat /\ j \in Nat
      BY <1>1, <1>2
    <2>2. c[j] = c[i] => k <= j
      BY <1>3
    <2> HIDE DEF c
    <2> QED BY <2>1, <2>2
  <1>5. k \in left /\ \A j \in left \ {k} :
          \/ legs[<<at, k>>].cost < legs[<<at, j>>].cost
          \/ legs[<<at, k>>].cost = legs[<<at, j>>].cost /\ k < j
    BY <1>4
  <1> QED BY <1>5 DEF Nearest

\* One more, as long as there is one left.
LEMMA BegunGrows ==
  ASSUME NEW n \in Nat, NEW m \in Nat \ {0}, m <= n - 2, NEW o, Begun(o, n, m),
         NEW legs, \A i, j \in 1..n : legs[<<i, j>>].cost \in Nat
  PROVE  LET i == Nearest(legs, Last(o), (2..(n - 1)) \ ToSet(o))
         IN  i \in 2..(n - 1) /\ Begun(Append(o, i), n, m + 1)
  <1> DEFINE left == (2..(n - 1)) \ ToSet(o)
             i == Nearest(legs, Last(o), left)
             T == 2..(n - 1)
             h == [k \in 2..m |-> o[k]]
  <1>1. /\ o \in Seq(1..n) /\ Len(o) = m /\ o[1] = 1 /\ DOMAIN o = 1..m
        /\ \A k \in 2..m : o[k] \in 2..(n - 1)
        /\ \A k, j \in 1..m : o[k] = o[j] => k = j
    BY DEF Begun
  <1>2. Last(o) \in 1..n
    BY <1>1 DEF Last
  <1>3. left # {}
    <2> SUFFICES ASSUME \A x \in T : x \in ToSet(o) PROVE FALSE
      OBVIOUS
    <2>1. \A x \in T : \E k \in 2..m : h[k] = x
      <3> SUFFICES ASSUME NEW x \in T PROVE \E k \in 2..m : o[k] = x
        OBVIOUS
      <3>1. PICK k \in 1..m : o[k] = x
        BY <1>1 DEF ToSet
      <3>2. k # 1
        BY <1>1, <3>1
      <3> QED BY <3>1, <3>2
    <2>2. h \in [2..m -> T]
      BY <1>1
    <2>3. h \in Surjection(2..m, T)
      <3> HIDE DEF h, T
      <3> QED BY <2>1, <2>2 DEF Surjection
    <2>4. IsFiniteSet(2..m) /\ Cardinality(2..m) = m - 1
      <3>1. IsFiniteSet(2..m) /\ Cardinality(2..m) = IF 2 > m THEN 0 ELSE m - 2 + 1
        BY FS_Interval
      <3> QED BY <3>1
    <2>5. Cardinality(T) = n - 2
      BY BetweenEnds
    <2>6. Cardinality(T) <= Cardinality(2..m)
      <3> HIDE DEF T, h
      <3> QED BY <2>3, <2>4, FS_Surjection
    <2> QED BY <2>4, <2>5, <2>6
  <1>4. i \in left
    <2> DEFINE at == Last(o)
    <2>1. at \in 1..n /\ \A j \in 1..n : legs[<<at, j>>].cost \in Nat
      BY <1>2
    <2>2. left \in SUBSET (2..(n - 1)) /\ left # {}
      BY <1>3
    <2> HIDE DEF at, left
    <2>3. Nearest(legs, at, left) \in left
      BY <2>1, <2>2, NearestIsLeft
    <2> QED BY <2>3 DEF at
  <1> HIDE DEF i
  <1>5. i \in 2..(n - 1) /\ i \in 1..n /\ \A k \in 1..m : o[k] # i
    BY <1>1, <1>4 DEF ToSet
  <1> DEFINE p == Append(o, i)
  <1>6. p \in Seq(1..n) /\ Len(p) = m + 1 /\ p[m + 1] = i /\ \A k \in 1..m : p[k] = o[k]
    BY <1>1, <1>5
  <1> HIDE DEF p
  <1>7. p[1] = 1
    BY <1>1, <1>6
  <1>8. \A k \in 2..(m + 1) : p[k] \in 2..(n - 1)
    <2> SUFFICES ASSUME NEW k \in 2..(m + 1) PROVE p[k] \in 2..(n - 1)
      OBVIOUS
    <2>1. CASE k = m + 1
      BY <1>5, <1>6, <2>1
    <2>2. CASE k # m + 1
      <3>1. k \in 1..m /\ k \in 2..m
        BY <2>2
      <3> QED BY <1>1, <1>6, <3>1
    <2> QED BY <2>1, <2>2
  <1>9. \A k, j \in 1..(m + 1) : p[k] = p[j] => k = j
    <2> SUFFICES ASSUME NEW k \in 1..(m + 1), NEW j \in 1..(m + 1), p[k] = p[j] PROVE k = j
      OBVIOUS
    <2>1. (k \in 1..m \/ k = m + 1) /\ (j \in 1..m \/ j = m + 1)
      OBVIOUS
    <2> QED BY <1>1, <1>5, <1>6, <2>1
  <1>10. Begun(p, n, m + 1)
    BY <1>6, <1>7, <1>8, <1>9 DEF Begun
  <1> QED BY <1>5, <1>10 DEF p, i

\* The greedy order is one of the orders.
LEMMA GreedyIsOrder ==
  ASSUME NEW n \in Nat, n >= 2, NEW legs, \A i, j \in 1..n : legs[<<i, j>>].cost \in Nat
  PROVE  \E s \in SetToSeqs(2..(n - 1)) : GreedyOrder(legs, n) = <<1>> \o s \o <<n>>
  <1> DEFINE N == n - 1
             next(o) == Append(o, Nearest(legs, Last(o), (2..(n - 1)) \ ToSet(o)))
             step(f) == [k \in 1..N |-> IF k = 1 THEN <<1>> ELSE LET o == f[k - 1] IN next(o)]
             order == CHOOSE f : f = step(f)
             V == {o \in Seq(1..n) : \E m \in 1..N : Begun(o, n, m)}
             h == [o \in V |-> IF Len(o) <= n - 2 THEN next(o) ELSE o]
  <1>1. N \in Nat \ {0} /\ 1 \in 1..N /\ 1 \in 1..n
    OBVIOUS
  <1>2. Begun(<<1>>, n, 1)
    <2>1. <<1>> \in Seq(1..n) /\ Len(<<1>>) = 1 /\ <<1>>[1] = 1
      BY <1>1
    <2> DEFINE o == <<1>>
    <2>2. \A i \in 2..1 : FALSE
      OBVIOUS
    <2>3. \A i, j \in 1..1 : i = j
      OBVIOUS
    <2> HIDE DEF o
    <2> QED BY <2>1, <2>2, <2>3 DEF Begun, o
  <1>3. \A o, m : m \in 1..N /\ Begun(o, n, m) => o \in V /\ Len(o) = m
    BY DEF Begun
  <1>4. \A o, m : m \in 1..(n - 2) /\ Begun(o, n, m) => Begun(next(o), n, m + 1)
    <2> SUFFICES ASSUME NEW o, NEW m \in 1..(n - 2), Begun(o, n, m) PROVE Begun(next(o), n, m + 1)
      OBVIOUS
    <2>1. m \in Nat \ {0} /\ m <= n - 2
      OBVIOUS
    <2> QED BY <2>1, BegunGrows
  <1>5. <<1>> \in V
    BY <1>1, <1>2, <1>3
  <1>6. \A o \in V : \E m \in 1..N : Begun(o, n, m) /\ Len(o) = m
    BY <1>3
  <1> HIDE DEF V, next
  <1>7. h \in [V -> V]
    <2> SUFFICES ASSUME NEW o \in V, Len(o) <= n - 2 PROVE next(o) \in V
      OBVIOUS
    <2>1. PICK m \in 1..N : Begun(o, n, m) /\ Len(o) = m
      BY <1>6
    <2>2. m \in 1..(n - 2) /\ m + 1 \in 1..N
      BY <2>1
    <2> QED BY <1>3, <1>4, <2>1, <2>2
  <1>8. PICK g : IsIteration(g, V, <<1>>, h)
    <2> HIDE DEF h
    <2> QED BY <1>5, <1>7, Iteration
  <1>9. g \in [Nat -> V] /\ g[0] = <<1>> /\ \A k \in Nat : g[k + 1] = h[g[k]]
    BY <1>8 DEF IsIteration
  <1> DEFINE Good == {k \in Nat : k + 1 <= N => Begun(g[k], n, k + 1)}
  <1>10. 0 \in Good
    BY <1>2, <1>9
  <1>11. ASSUME NEW k \in Nat, k \in Good PROVE k + 1 \in Good
    <2> SUFFICES ASSUME (k + 1) + 1 <= N PROVE Begun(g[k + 1], n, (k + 1) + 1)
      BY <1>11
    <2>1. k + 1 \in 1..(n - 2) /\ k + 1 \in 1..N /\ Begun(g[k], n, k + 1)
      BY <1>11
    <2>2. g[k] \in V /\ Len(g[k]) <= n - 2
      BY <1>3, <2>1
    <2>3. g[k + 1] = next(g[k])
      BY <1>9, <2>2
    <2> QED BY <1>4, <2>1, <2>3
  <1>12. \A k \in 1..N : Begun(g[k - 1], n, k)
    <2> HIDE DEF Good
    <2>1. Nat \subseteq Good
      BY <1>10, <1>11, NatSetInduction
    <2> SUFFICES ASSUME NEW k \in 1..N PROVE Begun(g[k - 1], n, k)
      OBVIOUS
    <2>2. k - 1 \in Good /\ (k - 1) + 1 = k /\ k <= N
      BY <2>1
    <2>3. Begun(g[k - 1], n, (k - 1) + 1)
      BY <2>2 DEF Good
    <2> QED BY <2>2, <2>3
  <1> DEFINE f == [k \in 1..N |-> g[k - 1]]
  <1>13. f = step(f)
    <2>1. \A k \in 1..N : f[k] = step(f)[k]
      <3> SUFFICES ASSUME NEW k \in 1..N PROVE f[k] = step(f)[k]
        OBVIOUS
      <3>1. CASE k = 1
        BY <1>9, <3>1
      <3>2. CASE k # 1
        <4>1. k - 1 \in 1..N /\ (k - 1) - 1 = k - 2 /\ k - 2 \in Nat /\ (k - 2) + 1 = k - 1
              /\ k - 1 \in 1..(n - 2)
          BY <3>2
        <4>2. Begun(g[k - 2], n, k - 1)
          BY <1>12, <4>1
        <4>3. g[k - 2] \in V /\ Len(g[k - 2]) = k - 1
          BY <1>3, <4>1, <4>2
        <4>4. g[k - 1] = next(g[k - 2])
          <5> DEFINE j == k - 2
          <5>1. j \in Nat /\ j + 1 = k - 1 /\ g[j] \in V /\ Len(g[j]) <= n - 2
            BY <4>1, <4>3
          <5> HIDE DEF j
          <5>2. g[j + 1] = next(g[j])
            BY <1>9, <5>1
          <5> QED BY <5>1, <5>2 DEF j
        <4>5. f[k] = g[k - 1] /\ f[k - 1] = g[k - 2]
          BY <4>1
        <4> HIDE DEF f
        <4> QED BY <3>2, <4>4, <4>5
      <3> QED BY <3>1, <3>2
    <2> QED BY <2>1
  <1>14. order = step(order)
    <2> HIDE DEF step, f
    <2> QED BY <1>13
  <1>15. GreedyOrder(legs, n) = Append(order[N], n)
    BY DEF GreedyOrder, Nearest, next
  <1> HIDE DEF order
  <1> DEFINE Same == {k \in Nat : k + 1 <= N => order[k + 1] = f[k + 1]}
  <1>16. 0 \in Same
    BY <1>1, <1>9, <1>14
  <1>17. ASSUME NEW k \in Nat, k \in Same PROVE k + 1 \in Same
    <2> SUFFICES ASSUME (k + 1) + 1 <= N PROVE order[(k + 1) + 1] = f[(k + 1) + 1]
      BY <1>17
    <2>1. (k + 1) + 1 \in 1..N /\ (k + 1) + 1 # 1 /\ ((k + 1) + 1) - 1 = k + 1
      OBVIOUS
    <2>2. order[k + 1] = f[k + 1]
      BY <1>17
    <2>3. order[(k + 1) + 1] = next(order[k + 1])
      BY <1>14, <2>1
    <2>4. f[(k + 1) + 1] = next(f[k + 1])
      <3> HIDE DEF f
      <3> QED BY <1>13, <2>1
    <2> QED BY <2>2, <2>3, <2>4
  <1>18. order[N] = f[N]
    <2> HIDE DEF Same
    <2>1. Nat \subseteq Same
      BY <1>16, <1>17, NatSetInduction
    <2>2. N - 1 \in Same /\ (N - 1) + 1 = N
      BY <1>1, <2>1
    <2> HIDE DEF N
    <2> QED BY <1>1, <2>2 DEF Same
  <1> DEFINE o == order[N]
             s == [k \in 1..(n - 2) |-> o[k + 1]]
  <1>19. Begun(o, n, N)
    <2>1. N \in 1..N
      BY <1>1
    <2> HIDE DEF N
    <2> QED BY <1>12, <1>18, <2>1
  <1>20. s \in SetToSeqs(2..(n - 1))
    <2>1. Cardinality(2..(n - 1)) = n - 2
      BY BetweenEnds
    <2>2. s \in [1..(n - 2) -> 2..(n - 1)]
      <3> SUFFICES ASSUME NEW k \in 1..(n - 2) PROVE o[k + 1] \in 2..(n - 1)
        OBVIOUS
      <3>1. k + 1 \in 2..N
        OBVIOUS
      <3> QED BY <1>19, <3>1 DEF Begun
    <2>3. \A i, j \in 1..(n - 2) : i # j => s[i] # s[j]
      <3> SUFFICES ASSUME NEW i \in 1..(n - 2), NEW j \in 1..(n - 2), o[i + 1] = o[j + 1]
                   PROVE  i = j
        OBVIOUS
      <3>1. i + 1 \in 1..N /\ j + 1 \in 1..N
        OBVIOUS
      <3>2. i + 1 = j + 1
        BY <1>19, <3>1 DEF Begun
      <3> QED BY <3>2
    <2> HIDE DEF s
    <2> QED BY <2>1, <2>2, <2>3 DEF SetToSeqs
  <1>21. Append(o, n) = <<1>> \o s \o <<n>>
    <2> DEFINE p == <<1>> \o s \o <<n>>
               r == Append(o, n)
    <2>1. p \in Seq(1..n) /\ Len(p) = n /\ Head(p) = 1 /\ Last(p) = n
          /\ \A k \in 1..(n - 2) : p[k + 1] = s[k]
      <3>1. IsOrder(n, s, p)
        BY <1>20 DEF IsOrder
      <3> HIDE DEF s, p
      <3> QED BY <3>1, OrderFacts
    <2>2. o \in Seq(1..n) /\ Len(o) = N /\ o[1] = 1
      BY <1>19 DEF Begun
    <2>3. r \in Seq(1..n) /\ Len(r) = n /\ r[n] = n /\ \A k \in 1..N : r[k] = o[k]
      <3> HIDE DEF o
      <3> QED BY <2>2
    <2>4. \A k \in 1..n : p[k] = r[k]
      <3> SUFFICES ASSUME NEW k \in 1..n PROVE p[k] = r[k]
        OBVIOUS
      <3> HIDE DEF p, r
      <3>1. CASE k = 1
        <4>1. p[1] = 1
          BY <2>1
        <4> QED BY <1>1, <2>2, <2>3, <3>1, <4>1
      <3>2. CASE k = n
        BY <2>1, <2>3, <3>2 DEF Last
      <3>3. CASE k # 1 /\ k # n
        <4>1. k - 1 \in 1..(n - 2) /\ (k - 1) + 1 = k /\ k \in 1..N
          BY <3>3
        <4>2. p[k] = s[k - 1] /\ s[k - 1] = o[k]
          BY <2>1, <4>1
        <4> QED BY <2>3, <4>1, <4>2
      <3> QED BY <3>1, <3>2, <3>3
    <2> HIDE DEF p, r
    <2>5. p = [k \in 1..n |-> p[k]] /\ r = [k \in 1..n |-> r[k]]
      BY <2>1, <2>3
    <2>6. p = r
      BY <2>4, <2>5
    <2> QED BY <2>6 DEF p, r
  <1>22. GreedyOrder(legs, n) = <<1>> \o s \o <<n>>
    BY <1>15, <1>21
  <1> QED BY <1>20, <1>22

-----------------------------------------------------------------------------
(* The lanes                                                                *)

\* A network as Dijkstra's search takes it.
LEMMA NetworkIsWeighted ==
  ASSUME NEW m, IsNetwork(m)
  PROVE  /\ IsWeighted(m.size, m.weight) /\ Nodes(m) = Vertices(m.size)
         /\ \A e \in DOMAIN m.weight : m.weight[e] \in Nat
  BY DEF IsNetwork, IsWeighted, Nodes, Edges, Vertices, Cells

\* The terminals of a trip by number.
LEMMA TerminalsOf ==
  ASSUME NEW tr \in Trip
  PROVE  LET n == Len(Terminals(tr))
         IN  /\ n = Len(tr.objectives) + 2 /\ Len(tr.objectives) \in Nat
             /\ Terminals(tr) \in Seq(Nat) /\ DOMAIN Terminals(tr) = 1..n
             /\ Terminals(tr)[1] = tr.source /\ Terminals(tr)[n] = tr.target
             /\ \A k \in 1..(n - 2) : Terminals(tr)[k + 1] = tr.objectives[k]
             /\ DOMAIN tr.objectives = 1..(n - 2)
  <1> DEFINE s == tr.source
             t == tr.target
             p == tr.objectives
             q == <<s>> \o p
             N == Len(p)
  <1>1. s \in Nat /\ t \in Nat /\ p \in Seq(Nat)
    BY TripAssumption
  <1>2. Terminals(tr) = q \o <<t>>
    BY DEF Terminals
  <1> HIDE DEF s, t, p
  <1>3. N \in Nat /\ DOMAIN p = 1..N /\ <<s>> \in Seq(Nat) /\ <<t>> \in Seq(Nat)
    BY <1>1
  <1>4. /\ q \in Seq(Nat) /\ Len(q) = N + 1 /\ q[1] = s
        /\ \A k \in 1..N : q[k + 1] = p[k]
    BY <1>1, <1>3
  <1> HIDE DEF q, N
  <1>5. /\ q \o <<t>> \in Seq(Nat) /\ Len(q \o <<t>>) = N + 2
        /\ (q \o <<t>>)[N + 2] = t
        /\ \A k \in 1..(N + 1) : (q \o <<t>>)[k] = q[k]
    BY <1>3, <1>4
  <1>6. 1 \in 1..(N + 1) /\ \A k \in 1..N : k + 1 \in 1..(N + 1)
    BY <1>3
  <1>7. (N + 2) - 2 = N
    BY <1>3
  <1>8. DOMAIN (q \o <<t>>) = 1..(N + 2)
    BY <1>5
  <1> QED BY <1>2, <1>3, <1>4, <1>5, <1>6, <1>7, <1>8 DEF s, t, p, N

\* legs are shortest ways, as long as the reference says.
AreShort(m, n, stops, legs) ==
  \A i, j \in 1..n :
    /\ IsShortestWay(Nodes(m), m.weight, stops[i], stops[j], legs[<<i, j>>])
    /\ legs[<<i, j>>].cost \in Nat
    /\ LET d == Distances(m.size, m.weight)
       IN  d[<<stops[i], stops[j]>>] < Far
             => legs[<<i, j>>].cost = d[<<stops[i], stops[j]>>]

\* What is between the terminals when all reach each other.
LEMMA PairwiseLegs ==
  ASSUME NEW m, IsNetwork(m), NEW stops \in Seq(Nodes(m)), NEW n, n = Len(stops),
         NEW legs, legs = Pairwise(m, stops), AllReached(legs)
  PROVE  /\ AreLegs(Nodes(m), m.weight, n, stops, legs)
         /\ AreShort(m, n, stops, legs)
  <1>1. DOMAIN stops = 1..n
    OBVIOUS
  <1>2. DOMAIN legs = (1..n) \X (1..n)
    BY <1>1 DEF Pairwise
  <1>3. ASSUME NEW i \in 1..n, NEW j \in 1..n
        PROVE  /\ IsShortestWay(Nodes(m), m.weight, stops[i], stops[j], legs[<<i, j>>])
               /\ legs[<<i, j>>].cost \in Nat
               /\ LET d == Distances(m.size, m.weight)
                  IN  d[<<stops[i], stops[j]>>] < Far
                        => legs[<<i, j>>].cost = d[<<stops[i], stops[j]>>]
    <2> DEFINE V == Vertices(m.size)
               a == stops[i]
               b == stops[j]
    <2>1. IsWeighted(m.size, m.weight) /\ Nodes(m) = V
          /\ \A e \in DOMAIN m.weight : m.weight[e] \in Nat
      BY NetworkIsWeighted
    <2>2. a \in V /\ b \in V
      <3>1. \A k \in DOMAIN stops : stops[k] \in Nodes(m)
        OBVIOUS
      <3> QED BY <1>1, <2>1, <3>1
    <2>3. <<i, j>> \in DOMAIN legs /\ legs[<<i, j>>] = DijkstraPath(m.size, m.weight, a, b)
      <3>1. <<i, j>> \in (1..n) \X (1..n)
        OBVIOUS
      <3>2. legs = [p \in (1..n) \X (1..n) |->
                      DijkstraPath(m.size, m.weight, stops[p[1]], stops[p[2]])]
        BY <1>1 DEF Pairwise
      <3> QED BY <1>2, <3>1, <3>2
    <2>4. legs[<<i, j>>] # NoPath
      BY <2>3 DEF AllReached
    <2> HIDE DEF a, b, V
    <2>5. /\ IsShortestWay(V, m.weight, a, b, legs[<<i, j>>])
          /\ Distances(m.size, m.weight)[<<a, b>>] < Far
               => legs[<<i, j>>].cost = Distances(m.size, m.weight)[<<a, b>>]
      BY <2>1, <2>2, <2>3, <2>4, DijkstraIsShortest DEF V
    <2>6. legs[<<i, j>>].cost \in Nat
      <3>1. Leads(V, m.weight, legs[<<i, j>>].path, a, b, legs[<<i, j>>].cost)
        BY <2>5 DEF IsShortestWay
      <3> QED BY <2>1, <3>1, LeadsIsWalk
    <2> QED BY <2>1, <2>5, <2>6 DEF a, b
  <1>4. AreShort(m, n, stops, legs)
    BY <1>3 DEF AreShort
  <1>5. AreLegs(Nodes(m), m.weight, n, stops, legs)
    BY <1>2, <1>3 DEF IsShortestWay, AreLegs
  <1> QED BY <1>4, <1>5

\* With a terminal the network does not know, all reach each other only when they are
\* one node, and then no leg leaves it.
LEMMA UnknownTerminals ==
  ASSUME NEW m, IsNetwork(m), NEW stops, NEW n \in Nat, n >= 2, DOMAIN stops = 1..n,
         \A i \in 1..n : stops[i] \in Nat, ~(\A i \in 1..n : stops[i] \in Nodes(m)),
         NEW legs, legs = Pairwise(m, stops)
  PROVE  /\ AllReached(legs) <=> \A i \in 1..n : stops[i] = stops[1]
         /\ AllReached(legs) => AreLegs({stops[1]}, m.weight, n, stops, legs)
         /\ AllReached(legs) => stops[1] \notin Nodes(m)
  <1> DEFINE V == Vertices(m.size)
             Path(i, j) == DijkstraPath(m.size, m.weight, stops[i], stops[j])
  <1>1. IsWeighted(m.size, m.weight) /\ Nodes(m) = V /\ m.size \in Nat
    BY NetworkIsWeighted DEF IsWeighted
  <1>2. DOMAIN legs = (1..n) \X (1..n) /\ \A i, j \in 1..n : legs[<<i, j>>] = Path(i, j)
    BY DEF Pairwise
  <1>3. PICK u \in 1..n : stops[u] \notin V
    BY <1>1
  <1>4. ASSUME AllReached(legs), NEW i \in 1..n PROVE stops[i] = stops[u]
    <2>1. Path(u, i) # NoPath
      BY <1>2, <1>4 DEF AllReached
    <2>2. stops[u] \in Nat /\ stops[i] \in Nat
      OBVIOUS
    <2> QED BY <1>1, <1>3, <2>1, <2>2, UnknownNodes
  <1>5. 1 \in 1..n
    OBVIOUS
  <1>6. ASSUME \A i \in 1..n : stops[i] = stops[1], NEW i \in 1..n, NEW j \in 1..n
        PROVE  Path(i, j) = [cost |-> 0, path |-> << stops[1] >>]
    <2>1. stops[i] = stops[1] /\ stops[j] = stops[1] /\ stops[u] = stops[1]
      BY <1>6
    <2>2. stops[1] \in Nat /\ stops[1] \notin V
      BY <1>3, <1>5, <2>1
    <2> QED BY <1>1, <2>1, <2>2, UnknownNodes
  <1> HIDE DEF Path
  <1>7. ASSUME \A i \in 1..n : stops[i] = stops[1]
        PROVE  AllReached(legs) /\ AreLegs({stops[1]}, m.weight, n, stops, legs)
    <2> DEFINE c == stops[1]
               one == [cost |-> 0, path |-> << c >>]
    <2>1. \A i, j \in 1..n : legs[<<i, j>>] = one
      <3> SUFFICES ASSUME NEW i \in 1..n, NEW j \in 1..n PROVE legs[<<i, j>>] = one
        OBVIOUS
      <3>1. Path(i, j) = one
        BY <1>6, <1>7
      <3> HIDE DEF one
      <3> QED BY <1>2, <3>1
    <2>2. one.cost = 0 /\ one.path = << c >> /\ one # NoPath
      BY DEF NoPath
    <2>3. Leads({c}, m.weight, << c >>, c, c, 0)
      BY ShortLeads
    <2> HIDE DEF one, c
    <2>4. AllReached(legs)
      <3> SUFFICES ASSUME NEW e \in DOMAIN legs PROVE legs[e] # NoPath
        BY DEF AllReached
      <3>1. PICK i \in 1..n, j \in 1..n : e = <<i, j>>
        BY <1>2
      <3> QED BY <2>1, <2>2, <3>1
    <2>5. AreLegs({c}, m.weight, n, stops, legs)
      <3> SUFFICES ASSUME NEW i \in 1..n, NEW j \in 1..n
                   PROVE  Leads({c}, m.weight, legs[<<i, j>>].path, stops[i], stops[j],
                                legs[<<i, j>>].cost)
        BY <1>2 DEF AreLegs
      <3>1. stops[i] = c /\ stops[j] = c
        BY <1>7 DEF c
      <3> QED BY <2>1, <2>2, <2>3, <3>1
    <2> QED BY <2>4, <2>5 DEF c
  <1>8. AllReached(legs) <=> \A i \in 1..n : stops[i] = stops[1]
    BY <1>4, <1>5, <1>7
  <1> QED BY <1>1, <1>3, <1>7, <1>8

\* What LanesAnswerWalks says of an answer.
AnswersTrip(w, tr, a) ==
  /\ a.path # <<>> /\ Head(a.path) = tr.source /\ Last(a.path) = tr.target
  /\ ToSet(tr.objectives) \subseteq ToSet(a.path)
  /\ IsWalk(w, a.path)
  /\ a.cost = Length(w, a.path)
  /\ \E s \in SetToSeqs(2..(Len(tr.objectives) + 1)) :
       a.order = <<1>> \o s \o <<Len(tr.objectives) + 2>>

\* Every order of the objectives makes a route.
LEMMA LaneAnswers ==
  ASSUME NEW m, IsNetwork(m), NEW tr \in Trip, NEW n, n = Len(Terminals(tr)),
         NEW legs, NEW V, AreLegs(V, m.weight, n, Terminals(tr), legs),
         NEW s \in SetToSeqs(2..(n - 1)), NEW a, a = Tour(legs, << 1 >> \o s \o <<n>>)
  PROVE  AnswersTrip(m.weight, tr, a)
  <1> DEFINE stops == Terminals(tr)
             o == <<1>> \o s \o <<n>>
             N == Len(tr.objectives)
  <1>1. /\ n = N + 2 /\ N \in Nat /\ n \in Nat /\ n >= 2
        /\ stops \in Seq(Nat) /\ DOMAIN stops = 1..n
        /\ stops[1] = tr.source /\ stops[n] = tr.target
        /\ \A k \in 1..(n - 2) : stops[k + 1] = tr.objectives[k]
        /\ DOMAIN tr.objectives = 1..(n - 2)
    <2>1. /\ n = N + 2 /\ N \in Nat
          /\ stops \in Seq(Nat) /\ DOMAIN stops = 1..n
          /\ stops[1] = tr.source /\ stops[n] = tr.target
          /\ \A k \in 1..(n - 2) : stops[k + 1] = tr.objectives[k]
          /\ DOMAIN tr.objectives = 1..(n - 2)
      BY TerminalsOf
    <2> HIDE DEF stops, N
    <2>2. n \in Nat /\ n >= 2
      BY <2>1
    <2> QED BY <2>1, <2>2
  <1>3. \A e \in DOMAIN m.weight : m.weight[e] \in Nat
    BY DEF IsNetwork, Edges
  <1>4. AreLegs(V, m.weight, n, stops, legs)
    OBVIOUS
  <1>6. /\ o \in Seq(1..n) /\ Len(o) = n /\ Head(o) = 1 /\ Last(o) = n
        /\ \A i \in 1..n : \E k \in 1..n : o[k] = i
    <2>1. n \in Nat /\ n >= 2 /\ IsOrder(n, s, o)
      BY <1>1 DEF IsOrder
    <2> HIDE DEF o
    <2>2. o \in Seq(1..n) /\ Len(o) = n /\ Head(o) = 1 /\ Last(o) = n
      BY <2>1, OrderFacts
    <2>3. \A i \in 1..n : \E k \in 1..n : o[k] = i
      <3> SUFFICES ASSUME NEW i \in 1..n PROVE \E k \in 1..n : o[k] = i
        OBVIOUS
      <3> QED BY <2>1, OrderCovers
    <2> QED BY <2>2, <2>3
  <1> HIDE DEF o, stops
  <1>7. /\ Leads(V, m.weight, a.path, stops[1], stops[n], a.cost)
        /\ \A k \in 1..n : stops[o[k]] \in ToSet(a.path)
        /\ a.order = o
    <2>1. a = Tour(legs, o) /\ Len(o) >= 2
      BY <1>1, <1>6 DEF o
    <2>2. IsRoute(V, m.weight, stops, o, Tour(legs, o))
      <3>1. n \in Nat /\ o \in Seq(1..n) /\ Len(o) >= 2
        BY <1>1, <1>6, <2>1
      <3> QED BY <1>3, <1>4, <3>1, TourLeads
    <2> QED BY <1>6, <2>1, <2>2 DEF IsRoute
  <1>8. /\ a.path # <<>> /\ Head(a.path) = stops[1] /\ Last(a.path) = stops[n]
        /\ IsWalk(m.weight, a.path) /\ Length(m.weight, a.path) = a.cost
    BY <1>3, <1>7, LeadsIsWalk
  <1>9. ToSet(tr.objectives) \subseteq ToSet(a.path)
    <2> SUFFICES ASSUME NEW k \in 1..(n - 2) PROVE tr.objectives[k] \in ToSet(a.path)
      BY <1>1 DEF ToSet
    <2>1. k + 1 \in 1..n /\ stops[k + 1] = tr.objectives[k]
      BY <1>1
    <2>2. PICK j \in 1..n : o[j] = k + 1
      BY <1>6, <2>1
    <2> QED BY <1>7, <2>1, <2>2
  <1>10. \E r \in SetToSeqs(2..(N + 1)) : a.order = <<1>> \o r \o <<N + 2>>
    <2>1. n - 1 = N + 1 /\ n = N + 2
      <3> HIDE DEF N
      <3> QED BY <1>1
    <2>2. a.order = <<1>> \o s \o <<n>>
      BY <1>7 DEF o
    <2> HIDE DEF N
    <2> QED BY <2>1, <2>2
  <1> QED BY <1>1, <1>8, <1>9, <1>10 DEF AnswersTrip, stops

\* Known or not, terminals that all reach each other have legs between them.
LEMMA LegsOf ==
  ASSUME NEW m, IsNetwork(m), NEW tr \in Trip, NEW n, n = Len(Terminals(tr)),
         NEW legs, legs = Pairwise(m, Terminals(tr)), AllReached(legs)
  PROVE  \E V : AreLegs(V, m.weight, n, Terminals(tr), legs)
  <1> DEFINE ts == Terminals(tr)
             V == Nodes(m)
  <1>1. n \in Nat /\ n >= 2 /\ DOMAIN ts = 1..n /\ ts \in Seq(Nat)
    <2>1. n = Len(tr.objectives) + 2 /\ Len(tr.objectives) \in Nat
          /\ DOMAIN ts = 1..n /\ ts \in Seq(Nat)
      BY TerminalsOf
    <2> HIDE DEF ts
    <2> QED BY <2>1
  <1>2. legs = Pairwise(m, ts) /\ n = Len(ts)
    OBVIOUS
  <1> HIDE DEF ts, V
  <1>3. \A i \in 1..n : ts[i] \in Nat
    BY <1>1
  <1>4. CASE \A i \in 1..n : ts[i] \in V
    <2>1. ts = [i \in 1..n |-> ts[i]]
      BY <1>1
    <2>2. ts \in [1..n -> V]
      BY <1>4, <2>1
    <2>3. ts \in Seq(V)
      BY <1>1, <2>2
    <2>4. AreLegs(V, m.weight, n, ts, legs)
      BY <1>2, <2>3, PairwiseLegs DEF V
    <2> QED BY <2>4 DEF ts
  <1>5. CASE ~(\A i \in 1..n : ts[i] \in V)
    <2>1. AreLegs({ts[1]}, m.weight, n, ts, legs)
      BY <1>1, <1>2, <1>3, <1>5, UnknownTerminals DEF V
    <2> QED BY <2>1 DEF ts
  <1> QED BY <1>4, <1>5

\* One race of the lanes.
LEMMA LanesAnswer ==
  ASSUME OverlayInv, NEW tr \in Trip, RunLanes(tr)
  PROVE  LanesAnswerWalks'
  <1> DEFINE n == Len(Terminals(tr))
             legs == Pairwise(live, Terminals(tr))
  <1>1. IsNetwork(live) /\ live' = live /\ trip' = tr
    BY DEF OverlayInv, OverlayTypeOK, RunLanes, overlay
  <1>2. n \in Nat /\ n >= 2
    BY TerminalsOf
  <1> HIDE DEF legs, n
  <1>6. AllReached(legs) => \E V : AreLegs(V, live.weight, n, Terminals(tr), legs)
    BY <1>1, LegsOf DEF legs, n
  <1>3. ASSUME AllReached(legs)
        PROVE  \A a \in Answers' :
                 \E s \in SetToSeqs(2..(n - 1)) : a = Tour(legs, <<1>> \o s \o <<n>>)
    <2>1. PICK o \in ExactOrders(legs, n) :
            answers' = [greedy |-> Tour(legs, GreedyOrder(legs, n)),
                        exact |-> IF n - 2 > ExactMaxObjectives THEN None ELSE Tour(legs, o)]
      BY <1>3 DEF RunLanes, legs, n
    <2>2. \E s \in SetToSeqs(2..(n - 1)) : o = <<1>> \o s \o <<n>>
      BY <2>1 DEF ExactOrders
    <2>3. \E s \in SetToSeqs(2..(n - 1)) : GreedyOrder(legs, n) = <<1>> \o s \o <<n>>
      <3>1. \A i, j \in 1..n : legs[<<i, j>>].cost \in Nat
        <4>1. PICK V : AreLegs(V, live.weight, n, Terminals(tr), legs)
          BY <1>3, <1>6
        <4>2. \A e \in DOMAIN live.weight : live.weight[e] \in Nat
          BY <1>1, NetworkIsWeighted
        <4> SUFFICES ASSUME NEW i \in 1..n, NEW j \in 1..n PROVE legs[<<i, j>>].cost \in Nat
          OBVIOUS
        <4>3. Leads(V, live.weight, legs[<<i, j>>].path, Terminals(tr)[i], Terminals(tr)[j],
                    legs[<<i, j>>].cost)
          BY <4>1 DEF AreLegs
        <4> QED BY <4>2, <4>3, LeadsIsWalk
      <3> QED BY <1>2, <3>1, GreedyIsOrder
    <2>4. Answers' \subseteq {Tour(legs, GreedyOrder(legs, n)), Tour(legs, o)}
      BY <2>1 DEF Answers
    <2> QED BY <2>2, <2>3, <2>4
  <1>4. CASE ~AllReached(legs)
    <2>1. answers' = [greedy |-> None, exact |-> None]
      BY <1>4 DEF RunLanes, legs
    <2>2. Answers' = {}
      BY <2>1 DEF Answers
    <2> QED BY <2>2 DEF LanesAnswerWalks
  <1>5. CASE AllReached(legs)
    <2> SUFFICES ASSUME NEW a \in Answers' PROVE AnswersTrip(live.weight, tr, a)
      BY <1>1 DEF LanesAnswerWalks, AnswersTrip
    <2>1. PICK s \in SetToSeqs(2..(n - 1)) : a = Tour(legs, <<1>> \o s \o <<n>>)
      BY <1>3, <1>5
    <2>2. n = Len(Terminals(tr))
      BY DEF n
    <2>3. PICK V : AreLegs(V, live.weight, n, Terminals(tr), legs)
      BY <1>5, <1>6
    <2> QED BY <1>1, <2>1, <2>2, <2>3, LaneAnswers
  <1> QED BY <1>4, <1>5

\* Greedy or exact, a lane's answer is a route over open roads from the source past all
\* objectives to the target, as long as it says: stitched from shortest paths it has no
\* gap, whatever was ordered about the roads before (navigation/tour.rs).
THEOREM LanesAnswerRoutes == Spec => []LanesAnswerWalks
  <1>1. Init => LanesAnswerWalks
    BY DEF Init, LanesAnswerWalks, Answers
  <1>2. OverlayInv /\ LanesAnswerWalks /\ [Next]_vars => LanesAnswerWalks'
    <2> SUFFICES ASSUME OverlayInv, LanesAnswerWalks, [Next]_vars PROVE LanesAnswerWalks'
      OBVIOUS
    <2>1. CASE UNCHANGED <<live, trip, answers>>
      BY <2>1 DEF LanesAnswerWalks, Answers
    <2>2. CASE answers' = None
      BY <2>2 DEF LanesAnswerWalks, Answers
    <2>3. CASE \E tr \in Trip : RunLanes(tr)
      BY <2>3, LanesAnswer
    <2> QED BY <2>1, <2>2, <2>3 DEF Next, OverlayStep, vars, overlay
  <1> QED BY <1>1, <1>2, OverlaySafe, PTL DEF Spec

\* What lists the objectives between the ends is an order of them.
LEMMA ListedIsOrder ==
  ASSUME NEW n \in Nat, n >= 2, NEW q, ListsStops(q, 1, 2..(n - 1), n)
  PROVE  \E s : IsOrder(n, s, q)
  <1> DEFINE s == [k \in 1..(n - 2) |-> q[k + 1]]
  <1>1. /\ q \in Seq(1..n) /\ Len(q) = n /\ q[1] = 1 /\ q[n] = n
        /\ \A k \in 2..(n - 1) : q[k] \in 2..(n - 1)
        /\ \A i, j \in 2..(n - 1) : q[i] = q[j] => i = j
    <2>1. Cardinality(2..(n - 1)) = n - 2
      BY BetweenEnds
    <2>2. (n - 2) + 2 = n
      OBVIOUS
    <2>3. Len(q) = n
      BY <2>1, <2>2 DEF ListsStops
    <2> QED BY <2>3 DEF ListsStops
  <1>2. s \in SetToSeqs(2..(n - 1))
    <2>1. Cardinality(2..(n - 1)) = n - 2
      BY BetweenEnds
    <2>2. \A k \in 1..(n - 2) : k + 1 \in 2..(n - 1)
      OBVIOUS
    <2>3. s \in [1..(n - 2) -> 2..(n - 1)]
      BY <1>1, <2>2
    <2>4. \A i, j \in 1..(n - 2) : i # j => s[i] # s[j]
      <3> SUFFICES ASSUME NEW i \in 1..(n - 2), NEW j \in 1..(n - 2), q[i + 1] = q[j + 1]
                   PROVE  i = j
        OBVIOUS
      <3>1. i + 1 = j + 1
        BY <1>1, <2>2
      <3> QED BY <3>1
    <2> HIDE DEF s
    <2> QED BY <2>1, <2>3, <2>4 DEF SetToSeqs
  <1> DEFINE p == <<1>> \o s \o <<n>>
  <1>3. p \in Seq(1..n) /\ Len(p) = n /\ Head(p) = 1 /\ Last(p) = n
        /\ \A k \in 1..(n - 2) : p[k + 1] = s[k]
    <2>1. IsOrder(n, s, p)
      BY <1>2 DEF IsOrder
    <2> HIDE DEF s, p
    <2> QED BY <2>1, OrderFacts
  <1>4. \A k \in 1..n : p[k] = q[k]
    <2> SUFFICES ASSUME NEW k \in 1..n PROVE p[k] = q[k]
      OBVIOUS
    <2> HIDE DEF p
    <2>1. CASE k = 1
      <3>1. p[1] = 1
        BY <1>3
      <3> QED BY <1>1, <2>1, <3>1
    <2>2. CASE k = n
      BY <1>1, <1>3, <2>2 DEF Last
    <2>3. CASE k # 1 /\ k # n
      <3>1. k - 1 \in 1..(n - 2) /\ (k - 1) + 1 = k
        BY <2>3
      <3>2. p[k] = s[k - 1] /\ s[k - 1] = q[k]
        BY <1>3, <3>1
      <3> QED BY <3>2
    <2> QED BY <2>1, <2>2, <2>3
  <1> HIDE DEF p
  <1>5. p = [k \in 1..n |-> p[k]] /\ q = [k \in 1..n |-> q[k]]
    BY <1>1, <1>3
  <1>6. p = q
    BY <1>4, <1>5
  <1> HIDE DEF s
  <1> QED BY <1>2, <1>6 DEF IsOrder, p

\* No order is shorter than the reference says.
LEMMA OrderIsTour ==
  ASSUME NEW V, NEW d, IsMeasure(V, d), NEW n, NEW stops, NEW cost,
         AreCosts(V, d, n, stops, cost), NEW S, S = {stops[i] : i \in 2..(n - 1)},
         NEW best, IsBest(best, d, S, stops[1], stops[n]), NEW s, NEW o, IsOrder(n, s, o)
  PROVE  best[S][stops[1]] <= Length(cost, o)
  <1> DEFINE U == 1..n
             r == [k \in U |-> stops[o[k]]]
             N == n - 1
  <1>1. /\ n \in Nat /\ n >= 2 /\ \A i \in U : stops[i] \in V
        /\ DOMAIN cost = U \X U /\ \A i, j \in U : cost[<<i, j>>] = d[<<stops[i], stops[j]>>]
    BY DEF AreCosts
  <1>2. /\ N \in Nat \ {0} /\ N + 1 = n /\ 1 \in U /\ n \in U /\ N \in U
        /\ \A k \in 2..N : k \in U /\ k - 1 \in 1..(n - 2) /\ (k - 1) + 1 = k
        /\ \A k \in 1..N : k \in U /\ k + 1 \in U
        /\ \A k \in 1..(n - 2) : k + 1 \in 2..N
    BY <1>1
  <1>3. /\ o \in Seq(U) /\ Len(o) = n /\ o # <<>> /\ Head(o) = 1 /\ Last(o) = n
        /\ o[1] = 1 /\ o[n] = n /\ \A k \in U : o[k] \in U
        /\ \A k \in 1..(n - 2) : o[k + 1] = s[k]
    <2>1. /\ o \in Seq(U) /\ Len(o) = n /\ Head(o) = 1 /\ Last(o) = n
          /\ \A k \in 1..(n - 2) : o[k + 1] = s[k]
      BY <1>1, OrderFacts
    <2>2. o # <<>> /\ o[1] = Head(o) /\ \A k \in U : o[k] \in U
      <3> HIDE DEF N
      <3> QED BY <1>1, <2>1
    <2> QED BY <2>1, <2>2 DEF Last
  <1>4. /\ \A k \in 1..(n - 2) : s[k] \in 2..N
        /\ \A i \in 2..N : \E k \in 2..N : o[k] = i
    <2>1. IsFiniteSet(2..N) /\ Cardinality(2..N) = n - 2
      BY <1>1, BetweenEnds
    <2>2. s \in Seq(2..N) /\ Len(s) = n - 2 /\ ToSet(s) = 2..N
      <3>1. s \in SetToSeqs(2..N)
        BY DEF IsOrder
      <3> HIDE DEF N
      <3> QED BY <2>1, <3>1, ListingFacts
    <2>3. \A k \in 1..(n - 2) : s[k] \in 2..N
      <3> DEFINE W == 2..N
                 m == n - 2
      <3>1. s \in Seq(W) /\ Len(s) = m
        BY <2>2
      <3> HIDE DEF W, m
      <3>2. \A k \in 1..m : s[k] \in W
        BY <3>1
      <3> QED BY <3>2 DEF W, m
    <2>4. ASSUME NEW i \in 2..N PROVE \E k \in 2..N : o[k] = i
      <3>1. PICK k \in 1..(n - 2) : s[k] = i
        <4> HIDE DEF N
        <4> QED BY <2>2 DEF ToSet
      <3>2. k + 1 \in 2..N /\ o[k + 1] = i
        BY <1>2, <1>3, <3>1
      <3> QED BY <3>2
    <2> QED BY <2>3, <2>4
  <1>5. \A e \in DOMAIN cost : cost[e] \in Nat
    <2> SUFFICES ASSUME NEW i \in U, NEW j \in U PROVE cost[<<i, j>>] \in Nat
      BY <1>1
    <2> HIDE DEF U
    <2> QED BY <1>1 DEF IsMeasure
  <1> HIDE DEF U, N
  <1>6. IsWalk(cost, o)
    <2>1. \A k \in 1..N : <<o[k], o[k + 1]>> \in DOMAIN cost
      BY <1>1, <1>2, <1>3
    <2>2. DOMAIN Legs(o) = 1..N /\ \A k \in 1..N : Legs(o)[k] = <<o[k], o[k + 1]>>
      BY <1>3 DEF Legs, N
    <2> QED BY <2>1, <2>2 DEF IsWalk
  <1>7. PICK f : AddsUp(f, cost, o) /\ f[n] = Length(cost, o)
    <2>1. Leads(U, cost, o, Head(o), Last(o), Length(cost, o))
      BY <1>3, <1>5, <1>6, WalkLeads
    <2> QED BY <1>3, <2>1 DEF Leads
  <1>8. IsTour(d, S, stops[1], stops[n], N, r, f)
    <2>1. r[1] = stops[1] /\ r[N + 1] = stops[n]
      BY <1>2, <1>3
    <2>2. \A k \in 2..N : r[k] \in S
      <3> SUFFICES ASSUME NEW k \in 2..N PROVE r[k] \in S
        OBVIOUS
      <3>1. k \in U /\ k - 1 \in 1..(n - 2) /\ (k - 1) + 1 = k
        BY <1>2
      <3>2. o[k] \in 2..N
        <4>1. o[(k - 1) + 1] = s[k - 1] /\ s[k - 1] \in 2..N
          BY <1>3, <1>4, <3>1
        <4> QED BY <3>1, <4>1
      <3> QED BY <3>1, <3>2 DEF N
    <2>3. S \subseteq {r[k] : k \in 2..N}
      <3> SUFFICES ASSUME NEW i \in 2..N PROVE \E k \in 2..N : r[k] = stops[i]
        BY DEF N
      <3>1. PICK k \in 2..N : o[k] = i
        BY <1>4
      <3> QED BY <1>2, <3>1
    <2>4. f \in [U -> Nat] /\ f[1] = 0
          /\ \A k \in 1..N : f[k + 1] = f[k] + cost[<<o[k], o[k + 1]>>]
      BY <1>3, <1>7 DEF AddsUp, U, N
    <2>5. \A k \in 1..N : f[k] \in Nat /\ f[k + 1] = f[k] + d[<<r[k], r[k + 1]>>]
      <3> SUFFICES ASSUME NEW k \in 1..N
                   PROVE  f[k] \in Nat /\ f[k + 1] = f[k] + d[<<r[k], r[k + 1]>>]
        OBVIOUS
      <3>1. k \in U /\ k + 1 \in U /\ o[k] \in U /\ o[k + 1] \in U
        BY <1>2, <1>3
      <3>2. cost[<<o[k], o[k + 1]>>] = d[<<r[k], r[k + 1]>>]
        BY <1>1, <3>1
      <3> QED BY <2>4, <3>1, <3>2
    <2> HIDE DEF r
    <2> QED BY <1>2, <2>1, <2>2, <2>3, <2>4, <2>5 DEF IsTour
  <1>9. S \in SUBSET V /\ stops[1] \in V /\ stops[n] \in V
    <2>1. \A i \in 2..N : stops[i] \in V
      BY <1>1, <1>2
    <2> QED BY <1>1, <1>2, <2>1 DEF N
  <1>10. best[S][stops[1]] <= f[N + 1]
    <2> HIDE DEF r
    <2> QED BY <1>8, <1>9, BestIsLeast
  <1> QED BY <1>2, <1>7, <1>10

\* What the exact lane is asked, and what the reference says to it.
IsAsked(V, d, n, stops, legs, cost, S, best) ==
  /\ IsMeasure(V, d) /\ AreCosts(V, d, n, stops, cost)
  /\ cost = [p \in DOMAIN legs |-> legs[p].cost]
  /\ S = {stops[i] : i \in 2..(n - 1)}
  /\ IsBest(best, d, S, stops[1], stops[n])

\* The exact order is as short as the reference says.
LEMMA ExactIsBest ==
  ASSUME NEW V, NEW d, NEW n, NEW stops, NEW legs, NEW cost, NEW S, NEW best,
         IsAsked(V, d, n, stops, legs, cost, S, best), NEW o \in ExactOrders(legs, n)
  PROVE  OrderCost(legs, o) = best[S][stops[1]]
  <1>0. /\ IsMeasure(V, d) /\ AreCosts(V, d, n, stops, cost)
        /\ cost = [p \in DOMAIN legs |-> legs[p].cost]
        /\ S = {stops[i] : i \in 2..(n - 1)}
        /\ IsBest(best, d, S, stops[1], stops[n])
    BY DEF IsAsked
  <1>1. n \in Nat /\ n >= 2
    BY <1>0 DEF AreCosts
  <1>2. \A p : OrderCost(legs, p) = Length(cost, p)
    BY <1>0 DEF OrderCost
  <1>3. \A e \in DOMAIN cost : cost[e] \in Nat
    <2>1. /\ \A i \in 1..n : stops[i] \in V
          /\ DOMAIN cost = (1..n) \X (1..n)
          /\ \A i, j \in 1..n : cost[<<i, j>>] = d[<<stops[i], stops[j]>>]
      BY <1>0, <1>1 DEF AreCosts
    <2>2. \A i, j \in 1..n : cost[<<i, j>>] \in Nat
      BY <1>0, <2>1 DEF IsMeasure
    <2> DEFINE U == 1..n
    <2>3. \A e \in U \X U : \E i, j \in U : e = <<i, j>>
      <3> HIDE DEF U
      <3> QED OBVIOUS
    <2>4. DOMAIN cost = U \X U /\ \A i, j \in U : cost[<<i, j>>] \in Nat
      BY <2>1, <2>2
    <2> SUFFICES ASSUME NEW e \in DOMAIN cost PROVE cost[e] \in Nat
      OBVIOUS
    <2> HIDE DEF U
    <2>5. PICK i, j \in U : e = <<i, j>>
      BY <2>3, <2>4
    <2> QED BY <2>4, <2>5
  <1>4. (\E s : IsOrder(n, s, o))
        /\ \A q, s : IsOrder(n, s, q) => Length(cost, o) <= Length(cost, q)
    BY <1>2 DEF ExactOrders, IsOrder
  <1>5. PICK q, c : /\ ListsStops(q, 1, 2..(n - 1), n) /\ Leads(1..n, cost, q, 1, n, c)
                    /\ c <= best[S][stops[1]]
    BY <1>0, BestIsHad
  <1>6. \E s : IsOrder(n, s, q)
    BY <1>1, <1>5, ListedIsOrder
  <1>7. Length(cost, q) = c /\ c \in Nat
    BY <1>3, <1>5, LeadsIsWalk
  <1>8. best[S][stops[1]] <= Length(cost, o) /\ best[S][stops[1]] <= Length(cost, q)
    BY <1>0, <1>4, <1>6, OrderIsTour
  <1>9. best[S][stops[1]] = c
    <2> DEFINE A == S \cup {stops[1]}
    <2>0. best[S] \in [A -> Nat] /\ stops[1] \in A
      BY <1>0 DEF IsBest
    <2>1. best[S][stops[1]] \in Nat
      <3> HIDE DEF A
      <3> QED BY <2>0
    <2> QED BY <1>5, <1>7, <1>8, <2>1
  <1>10. Length(cost, o) \in Nat
    <2>1. PICK s : IsOrder(n, s, o)
      BY <1>4
    <2>2. o \in Seq(1..n) /\ Len(o) = n
      BY <1>1, <2>1, OrderFacts
    <2>3. \A k \in 1..(Len(o) - 1) : cost[<<o[k], o[k + 1]>>] \in Nat
      <3> SUFFICES ASSUME NEW k \in 1..(n - 1) PROVE cost[<<o[k], o[k + 1]>>] \in Nat
        BY <2>2
      <3>1. k \in 1..n /\ k + 1 \in 1..n
        BY <1>1
      <3>2. o[k] \in 1..n /\ o[k + 1] \in 1..n
        BY <2>2, <3>1
      <3>3. <<o[k], o[k + 1]>> \in DOMAIN cost
        BY <1>0, <3>2 DEF AreCosts
      <3> QED BY <1>3, <3>3
    <2>4. Len(o) \in Nat \ {0}
      BY <1>1, <2>2
    <2> QED BY <2>3, <2>4, LengthOfSteps
  <1>11. Length(cost, o) <= c
    BY <1>4, <1>6, <1>7
  <1> QED BY <1>2, <1>7, <1>8, <1>9, <1>10, <1>11

\* On a snapshot no way is as long as Far: a jam makes a road five times as long at most.
LEMMA SnapshotIsShort ==
  ASSUME OverlayInv, live # None
  PROVE  IsShortOfFar(live.size, live.weight)
  <1>1. /\ base \in Base /\ IsNetwork(base) /\ priced \in [Roads(base) -> Level]
        /\ \A e \in Edges(base) : {e[1], e[2]} \in Roads(base) /\ base.weight[e] \in Nat
    BY BaseFacts DEF OverlayInv, OverlayTypeOK, PricedIsFull
  <1>2. live = [size |-> base.size,
                weight |-> [e \in {e \in Edges(base) : /\ e[1] # e[2]
                                                       /\ priced[{e[1], e[2]}] # "blocked"} |->
                              base.weight[e] * Factor(priced[{e[1], e[2]}])]]
    BY DEF OverlayInv, SnapshotIsPriced
  <1>3. live.size = base.size /\ base.size \in Nat
    BY <1>1, <1>2 DEF IsNetwork
  <1>4. \A l \in Level \ {"blocked"} : Factor(l) \in {2, 5, 10}
    BY DEF Level, Factor
  <1> SUFFICES ASSUME NEW e \in DOMAIN live.weight PROVE live.size * live.weight[e] < Far
    BY DEF IsShortOfFar
  <1>5. /\ e \in Edges(base) /\ priced[{e[1], e[2]}] \in Level \ {"blocked"}
        /\ live.weight[e] = base.weight[e] * Factor(priced[{e[1], e[2]}])
    BY <1>1, <1>2
  <1> DEFINE z == base.weight[e]
             y == live.weight[e]
             n == base.size
             c == Factor(priced[{e[1], e[2]}])
  <1>6. z \in Nat /\ n \in Nat /\ c \in {2, 5, 10} /\ y = z * c
    BY <1>1, <1>3, <1>4, <1>5
  <1>7. n * (10 * z) < Far
    BY <1>1, <1>5, FarAssumption
  <1> HIDE DEF z, y, n, c
  <1>8. y \in Nat /\ y <= 10 * z /\ 10 * z \in Nat
    BY <1>6
  <1> DEFINE x == 10 * z
  <1> HIDE DEF x
  <1>9. n * y <= n * x /\ n * y \in Nat /\ n * x \in Nat /\ n * x < Far
    BY <1>6, <1>7, <1>8, Times DEF x
  <1> DEFINE ny == n * y
             nx == n * x
  <1> HIDE DEF ny, nx
  <1>10. ny < Far
    <2>1. ny \in Nat /\ nx \in Nat /\ ny <= nx /\ nx < Far
      BY <1>9 DEF ny, nx
    <2> QED BY <2>1, FarIsNat
  <1> QED BY <1>3, <1>10 DEF ny, n, y

\* A route that stays at a node the network does not know has no length.
LEMMA StaysPut ==
  ASSUME NEW c, NEW w, <<c, c>> \notin DOMAIN w, NEW q, NEW a, NEW b, NEW l,
         Leads({c}, w, q, a, b, l)
  PROVE  l = 0
  <1>1. q \in Seq({c}) /\ Len(q) \in Nat \ {0}
    BY DEF Leads
  <1>2. PICK f : AddsUp(f, w, q) /\ f[Len(q)] = l
    BY DEF Leads
  <1>3. CASE Len(q) = 1
    BY <1>2, <1>3 DEF AddsUp
  <1>4. CASE Len(q) # 1
    <2>1. 1 \in 1..(Len(q) - 1) /\ 1 \in 1..Len(q) /\ 2 \in 1..Len(q) /\ 1 + 1 = 2
      <3> DEFINE M == Len(q)
      <3>1. M \in Nat \ {0} /\ M # 1
        BY <1>1, <1>4
      <3> HIDE DEF M
      <3>2. 1 \in 1..(M - 1) /\ 1 \in 1..M /\ 2 \in 1..M /\ 1 + 1 = 2
        BY <3>1
      <3> QED BY <3>2 DEF M
    <2>2. q[1] = c /\ q[2] = c
      BY <1>1, <2>1
    <2>3. <<q[1], q[2]>> \in DOMAIN w
      BY <1>2, <2>1 DEF AddsUp
    <2> QED BY <2>2, <2>3
  <1> QED BY <1>3, <1>4

\* An order of the stops made into an answer.
LEMMA ToursAnswer ==
  ASSUME NEW n \in Nat, n >= 2, NEW V, V \subseteq Nat, NEW w, \A e \in DOMAIN w : w[e] \in Nat,
         NEW stops, NEW legs, AreLegs(V, w, n, stops, legs), NEW s, NEW q, IsOrder(n, s, q)
  PROVE  /\ Tour(legs, q) # None
         /\ Leads(V, w, Tour(legs, q).path, stops[1], stops[n], Tour(legs, q).cost)
  <1>1. q \in Seq(1..n) /\ Len(q) = n /\ Head(q) = 1 /\ Last(q) = n
    BY OrderFacts
  <1>2. IsRoute(V, w, stops, q, Tour(legs, q))
    BY <1>1, TourLeads
  <1> DEFINE p == Tour(legs, q).path
             c == Tour(legs, q).cost
  <1>3. Leads(V, w, p, stops[1], stops[n], c)
    BY <1>1, <1>2 DEF IsRoute
  <1>4. Tour(legs, q) = [path |-> p, order |-> q, cost |-> c]
    BY DEF Tour
  <1> HIDE DEF p, c
  <1>5. c \in Nat
    BY <1>3, LeadsIsWalk
  <1>6. p \in Seq(Nat)
    <2> DEFINE M == Len(p)
    <2>1. p \in Seq(V)
      BY <1>3 DEF Leads
    <2>2. M \in Nat /\ DOMAIN p = 1..M /\ \A k \in 1..M : p[k] \in V
      BY <2>1
    <2>3. p = [k \in 1..M |-> p[k]]
      BY <2>1
    <2> HIDE DEF M
    <2>4. p \in [1..M -> Nat]
      BY <2>2, <2>3
    <2> QED BY <2>2, <2>4
  <1>7. q \in Seq(Nat)
    <2>1. 1..n \subseteq Nat
      OBVIOUS
    <2>2. q \in [1..n -> Nat]
      BY <1>1, <2>1
    <2> QED BY <2>2
  <1>8. Tour(legs, q) \in [path : Seq(Nat), order : Seq(Nat), cost : Nat]
    BY <1>4, <1>5, <1>6, <1>7
  <1> QED BY <1>3, <1>8, AnswerAssumption DEF p, c

\* What the exact lane says of a trip on m, compared with the reference.
IsOptimum(m, tr, got) ==
  LET d == Distances(m.size, m.weight)
      stops == ToSet(Terminals(tr))
      known == stops \subseteq Nodes(m)
      reached == IF known THEN \A a, b \in stops : d[<<a, b>>] < Far ELSE stops = {tr.source}
      least == IF known THEN BestTour(d, tr.source, ToSet(tr.objectives), tr.target) ELSE 0
  IN  /\ (got.greedy # None) = reached
      /\ (got.exact # None) = (reached /\ Len(tr.objectives) <= ExactMaxObjectives)
      /\ got.exact # None => got.exact.cost = least
      /\ got.exact # None => got.exact.cost <= got.greedy.cost

\* The lanes keep what the reference says, when the snapshot knows the terminals.
LEMMA KnownAreExact ==
  ASSUME OverlayInv, NEW tr \in Trip, RunLanes(tr), ToSet(Terminals(tr)) \subseteq Nodes(live)
  PROVE  ExactIsOptimum'
  <1> DEFINE ts == Terminals(tr)
             n == Len(ts)
             legs == Pairwise(live, ts)
             V == Nodes(live)
             w == live.weight
             d == Distances(live.size, w)
             reached == \A a, b \in ToSet(ts) : d[<<a, b>>] < Far
  <1>1. /\ IsNetwork(live) /\ live # None /\ live' = live /\ trip' = tr
        /\ ToSet(ts) \subseteq V
    BY DEF OverlayInv, OverlayTypeOK, RunLanes, overlay
  <1>2. /\ n \in Nat /\ n >= 2 /\ n = Len(tr.objectives) + 2 /\ Len(tr.objectives) \in Nat
        /\ ts \in Seq(Nat) /\ DOMAIN ts = 1..n
        /\ ts[1] = tr.source /\ ts[n] = tr.target
        /\ \A k \in 1..(n - 2) : ts[k + 1] = tr.objectives[k]
        /\ DOMAIN tr.objectives = 1..(n - 2)
    <2>1. /\ n = Len(tr.objectives) + 2 /\ Len(tr.objectives) \in Nat
          /\ ts \in Seq(Nat) /\ DOMAIN ts = 1..n
          /\ ts[1] = tr.source /\ ts[n] = tr.target
          /\ \A k \in 1..(n - 2) : ts[k + 1] = tr.objectives[k]
          /\ DOMAIN tr.objectives = 1..(n - 2)
      BY TerminalsOf
    <2> HIDE DEF ts, n
    <2>2. n \in Nat /\ n >= 2
      BY <2>1
    <2> QED BY <2>1, <2>2
  <1> HIDE DEF ts, n, legs
  <1>3. /\ ToSet(ts) = {ts[i] : i \in 1..n} /\ \A i \in 1..n : ts[i] \in V
    BY <1>1, <1>2 DEF ToSet
  <1>4. ts \in Seq(V)
    <2> HIDE DEF V
    <2>1. ts \in [1..n -> V]
      <3>1. ts = [i \in 1..n |-> ts[i]]
        BY <1>2
      <3> QED BY <1>3, <3>1
    <2>2. n \in Nat
      BY <1>2
    <2> QED BY <2>1, <2>2
  <1>5. /\ IsWeighted(live.size, w) /\ V = Vertices(live.size)
        /\ \A e \in DOMAIN w : w[e] \in Nat
    BY <1>1, NetworkIsWeighted
  <1>6. IsMeasure(V, d)
    BY <1>5, TableIsMeasure
  <1>7. IsShortOfFar(live.size, w)
    BY <1>1, SnapshotIsShort
  <1> HIDE DEF V, w, d
  <1>8. ASSUME AllReached(legs)
        PROVE  /\ AreLegs(V, w, n, ts, legs) /\ AreShort(live, n, ts, legs)
    BY <1>1, <1>2, <1>4, <1>8, PairwiseLegs DEF legs, V, w, n
  <1>9. AllReached(legs) <=> reached
    <2>1. ASSUME AllReached(legs) PROVE reached
      <3> SUFFICES ASSUME NEW i \in 1..n, NEW j \in 1..n PROVE d[<<ts[i], ts[j]>>] < Far
        BY <1>3
      <3>1. Leads(Vertices(live.size), w, legs[<<i, j>>].path, ts[i], ts[j], legs[<<i, j>>].cost)
        BY <1>5, <1>8, <2>1 DEF AreLegs
      <3> QED BY <1>5, <1>7, <3>1, WaysAreShort DEF d
    <2>2. ASSUME ~AllReached(legs) PROVE ~reached
      <3>1. DOMAIN legs = (1..n) \X (1..n)
        BY <1>2 DEF legs, Pairwise
      <3>2. PICK i \in 1..n, j \in 1..n : legs[<<i, j>>] = NoPath
        BY <2>2, <3>1 DEF AllReached
      <3>3. legs[<<i, j>>] = DijkstraPath(live.size, w, ts[i], ts[j])
        BY <1>2 DEF legs, Pairwise, w
      <3>4. ~(d[<<ts[i], ts[j]>>] < Far)
        <4>1. ts[i] \in Vertices(live.size) /\ ts[j] \in Vertices(live.size)
          BY <1>3, <1>5
        <4> QED BY <1>5, <3>2, <3>3, <4>1, DijkstraIsShortest DEF d
      <3> QED BY <1>3, <3>4
    <2> QED BY <2>1, <2>2
  <1> HIDE DEF reached
  <1>10. CASE ~AllReached(legs)
    <2>1. answers' = [greedy |-> None, exact |-> None]
      BY <1>10 DEF RunLanes, legs, ts
    <2>2. IsOptimum(live, tr, answers')
      BY <1>1, <1>9, <1>10, <2>1 DEF IsOptimum, reached, d, w, ts, V
    <2> QED BY <1>1, <2>2 DEF ExactIsOptimum, IsOptimum
  <1>11. CASE AllReached(legs)
    <2> DEFINE cost == [p \in DOMAIN legs |-> legs[p].cost]
               S == {ts[i] : i \in 2..(n - 1)}
    <2>1. PICK o \in ExactOrders(legs, n) :
            answers' = [greedy |-> Tour(legs, GreedyOrder(legs, n)),
                        exact |-> IF n - 2 > ExactMaxObjectives THEN None ELSE Tour(legs, o)]
      BY <1>11 DEF RunLanes, legs, n, ts
    <2> DEFINE g == GreedyOrder(legs, n)
    <2>2. reached
      BY <1>9, <1>11
    <2>3. AreCosts(V, d, n, ts, cost)
      <3>1. DOMAIN cost = (1..n) \X (1..n)
        BY <1>8, <1>11 DEF AreLegs
      <3>2. ASSUME NEW i \in 1..n, NEW j \in 1..n
            PROVE  cost[<<i, j>>] = d[<<ts[i], ts[j]>>]
        <4>1. d[<<ts[i], ts[j]>>] < Far
          BY <1>3, <2>2 DEF reached
        <4>2. legs[<<i, j>>].cost = d[<<ts[i], ts[j]>>]
          BY <1>8, <1>11, <4>1 DEF AreShort, d, w
        <4>3. <<i, j>> \in DOMAIN legs
          BY <1>8, <1>11 DEF AreLegs
        <4> QED BY <4>2, <4>3
      <3> HIDE DEF cost
      <3> QED BY <1>2, <1>3, <3>1, <3>2 DEF AreCosts
    <2>4. S = ToSet(tr.objectives)
      <3>1. \A k \in 1..(n - 2) : k + 1 \in 2..(n - 1)
        BY <1>2
      <3>2. \A i \in 2..(n - 1) : i - 1 \in 1..(n - 2) /\ (i - 1) + 1 = i
        BY <1>2
      <3>3. \A i \in 2..(n - 1) : ts[i] = tr.objectives[i - 1]
        BY <1>2, <3>2
      <3>4. ToSet(tr.objectives) = {tr.objectives[k] : k \in 1..(n - 2)}
        BY <1>2 DEF ToSet
      <3>5. \A x : x \in S <=> \E k \in 1..(n - 2) : x = tr.objectives[k]
        <4>1. ASSUME NEW k \in 1..(n - 2) PROVE tr.objectives[k] \in S
          BY <1>2, <3>1
        <4> QED BY <3>2, <3>3, <4>1
      <3> HIDE DEF S
      <3> QED BY <3>4, <3>5
    <2>5. S \in SUBSET V /\ IsFiniteSet(S) /\ ts[1] \in V /\ ts[n] \in V
      <3>1. \A i \in 2..(n - 1) : i \in 1..n
        BY <1>2
      <3>2. 1 \in 1..n /\ n \in 1..n
        BY <1>2
      <3>3. IsFiniteSet(S)
        <4> DEFINE I == 2..(n - 1)
                   f == [i \in I |-> ts[i]]
        <4>1. IsFiniteSet(I)
          BY <1>2, BetweenEnds
        <4>2. f \in Surjection(I, S)
          <5> HIDE DEF I
          <5>1. S = {ts[i] : i \in I}
            BY DEF I
          <5> HIDE DEF S
          <5> QED BY <5>1 DEF Surjection
        <4> HIDE DEF I, f, S
        <4> QED BY <4>1, <4>2, FS_Surjection
      <3> QED BY <1>3, <3>1, <3>2, <3>3
    <2>20. S = {ts[i] : i \in 2..(n - 1)} /\ cost = [p \in DOMAIN legs |-> legs[p].cost]
      OBVIOUS
    <2> HIDE DEF S, cost, g
    <2>6. PICK best : /\ IsBest(best, d, S, ts[1], ts[n])
                      /\ BestTour(d, ts[1], S, ts[n]) = best[S][ts[1]]
      <3>1. \A x, y \in V : d[<<x, y>>] \in Nat
        BY <1>6 DEF IsMeasure
      <3> QED BY <2>5, <3>1, BestTourIsBest
    <2>7. OrderCost(legs, o) = BestTour(d, tr.source, ToSet(tr.objectives), tr.target)
      <3>1. OrderCost(legs, o) = best[S][ts[1]]
        <4>1. IsAsked(V, d, n, ts, legs, cost, S, best)
          BY <1>6, <2>3, <2>6, <2>20 DEF IsAsked
        <4> QED BY <2>1, <4>1, ExactIsBest
      <3> QED BY <1>2, <2>4, <2>6, <3>1
    <2>8. OrderCost(legs, o) <= OrderCost(legs, g)
      <3>1. \A i, j \in 1..n : legs[<<i, j>>].cost \in Nat
        BY <1>8, <1>11 DEF AreShort
      <3>2. \E s \in SetToSeqs(2..(n - 1)) : g = <<1>> \o s \o <<n>>
        BY <1>2, <3>1, GreedyIsOrder DEF g
      <3> QED BY <2>1, <3>2 DEF ExactOrders
    <2>9. \A q : Tour(legs, q).cost = OrderCost(legs, q)
      BY DEF Tour
    <2>10. /\ Tour(legs, g) # None
           /\ Tour(legs, o) # None
      <3>1. ASSUME NEW s \in SetToSeqs(2..(n - 1)), NEW q, q = << 1 >> \o s \o <<n>>
            PROVE  Tour(legs, q) # None
        <4>1. IsOrder(n, s, q)
          BY <3>1 DEF IsOrder
        <4>2. V \subseteq Nat
          BY DEF V, Nodes
        <4> QED BY <1>2, <1>5, <1>8, <1>11, <4>1, <4>2, ToursAnswer
      <3>2. \E s \in SetToSeqs(2..(n - 1)) : o = <<1>> \o s \o <<n>>
        BY <2>1 DEF ExactOrders
      <3>3. \E s \in SetToSeqs(2..(n - 1)) : g = <<1>> \o s \o <<n>>
        <4>1. \A i, j \in 1..n : legs[<<i, j>>].cost \in Nat
          BY <1>8, <1>11 DEF AreShort
        <4> QED BY <1>2, <4>1, GreedyIsOrder DEF g
      <3> QED BY <3>1, <3>2, <3>3
    <2>11. n - 2 > ExactMaxObjectives <=> ~(Len(tr.objectives) <= ExactMaxObjectives)
      BY <1>2, LimitAssumption
    <2> DEFINE got == answers'
    <2>12. got.greedy = Tour(legs, g)
           /\ got.exact = IF n - 2 > ExactMaxObjectives THEN None ELSE Tour(legs, o)
      BY <2>1 DEF g
    <2> HIDE DEF got
    <2>13. IsOptimum(live, tr, got)
      <3>1. (got.greedy # None) = reached
        BY <2>2, <2>10, <2>12
      <3>2. (got.exact # None) = (reached /\ Len(tr.objectives) <= ExactMaxObjectives)
        BY <2>2, <2>10, <2>11, <2>12
      <3>3. got.exact # None =>
              got.exact.cost = BestTour(d, tr.source, ToSet(tr.objectives), tr.target)
        BY <2>7, <2>9, <2>12
      <3>4. got.exact # None => got.exact.cost <= got.greedy.cost
        BY <2>8, <2>9, <2>12
      <3> QED BY <1>1, <3>1, <3>2, <3>3, <3>4 DEF IsOptimum, reached, d, w, ts, V
    <2> QED BY <1>1, <2>13 DEF ExactIsOptimum, IsOptimum, got
  <1> QED BY <1>10, <1>11

\* And when it does not: then the lanes stay where they are or do not answer.
LEMMA UnknownAreExact ==
  ASSUME OverlayInv, NEW tr \in Trip, RunLanes(tr),
         ~(ToSet(Terminals(tr)) \subseteq Nodes(live))
  PROVE  ExactIsOptimum'
  <1> DEFINE ts == Terminals(tr)
             n == Len(ts)
             legs == Pairwise(live, ts)
             w == live.weight
             c == ts[1]
  <1>1. /\ IsNetwork(live) /\ live' = live /\ trip' = tr
        /\ \A e \in DOMAIN w : w[e] \in Nat /\ e \in Nodes(live) \X Nodes(live)
    <2>1. IsNetwork(live) /\ live' = live /\ trip' = tr
      BY DEF OverlayInv, OverlayTypeOK, RunLanes, overlay
    <2> QED BY <2>1 DEF IsNetwork, Edges
  <1>2. /\ n \in Nat /\ n >= 2 /\ n = Len(tr.objectives) + 2 /\ Len(tr.objectives) \in Nat
        /\ ts \in Seq(Nat) /\ DOMAIN ts = 1..n /\ c = tr.source
    <2>1. /\ n = Len(tr.objectives) + 2 /\ Len(tr.objectives) \in Nat
          /\ ts \in Seq(Nat) /\ DOMAIN ts = 1..n /\ c = tr.source
      BY TerminalsOf
    <2> HIDE DEF ts, n
    <2>2. n \in Nat /\ n >= 2
      BY <2>1
    <2> QED BY <2>1, <2>2
  <1>3. legs = Pairwise(live, ts) /\ ~(ToSet(ts) \subseteq Nodes(live))
    OBVIOUS
  <1> HIDE DEF ts, n, legs
  <1>4. ToSet(ts) = {ts[i] : i \in 1..n} /\ 1 \in 1..n
        /\ (ToSet(ts) = {c} <=> \A i \in 1..n : ts[i] = c)
    <2>1. ToSet(ts) = {ts[i] : i \in 1..n} /\ 1 \in 1..n
      BY <1>2 DEF ToSet
    <2> HIDE DEF c
    <2>2. ts[1] = c
      BY DEF c
    <2> QED BY <2>1, <2>2
  <1>5. /\ AllReached(legs) <=> \A i \in 1..n : ts[i] = c
        /\ AllReached(legs) => AreLegs({c}, w, n, ts, legs)
        /\ AllReached(legs) => c \notin Nodes(live)
    <2>1. \A i \in 1..n : ts[i] \in Nat
      BY <1>2
    <2>2. ~(\A i \in 1..n : ts[i] \in Nodes(live))
      BY <1>3, <1>4
    <2> QED BY <1>1, <1>2, <1>3, <2>1, <2>2, UnknownTerminals
  <1>6. CASE ~AllReached(legs)
    <2>1. answers' = [greedy |-> None, exact |-> None]
      BY <1>6 DEF RunLanes, legs, ts
    <2>2. IsOptimum(live, tr, answers')
      <3>1. ToSet(ts) # {tr.source}
        BY <1>2, <1>4, <1>5, <1>6
      <3> QED BY <1>3, <2>1, <3>1 DEF IsOptimum, ts
    <2> QED BY <1>1, <2>2 DEF ExactIsOptimum, IsOptimum
  <1>7. CASE AllReached(legs)
    <2>1. PICK o \in ExactOrders(legs, n) :
            answers' = [greedy |-> Tour(legs, GreedyOrder(legs, n)),
                        exact |-> IF n - 2 > ExactMaxObjectives THEN None ELSE Tour(legs, o)]
      BY <1>7 DEF RunLanes, legs, n, ts
    <2> DEFINE g == GreedyOrder(legs, n)
    <2>2. AreLegs({c}, w, n, ts, legs) /\ c \notin Nodes(live) /\ ToSet(ts) = {tr.source}
      BY <1>2, <1>4, <1>5, <1>7
    <2>3. {c} \subseteq Nat /\ <<c, c>> \notin DOMAIN w
      BY <1>1, <1>2, <1>4, <2>2
    <2>4. ASSUME NEW s, NEW q, IsOrder(n, s, q)
          PROVE  Tour(legs, q) # None /\ Tour(legs, q).cost = 0
      <3>1. /\ Tour(legs, q) # None
            /\ Leads({c}, w, Tour(legs, q).path, ts[1], ts[n], Tour(legs, q).cost)
        BY <1>1, <1>2, <2>2, <2>3, <2>4, ToursAnswer
      <3> QED BY <2>3, <3>1, StaysPut
    <2>5. PICK s : IsOrder(n, s, o)
      BY <2>1 DEF ExactOrders, IsOrder
    <2>6. PICK r : IsOrder(n, r, g)
      <3>1. \A i, j \in 1..n : legs[<<i, j>>].cost \in Nat
        <4> SUFFICES ASSUME NEW i \in 1..n, NEW j \in 1..n PROVE legs[<<i, j>>].cost \in Nat
          OBVIOUS
        <4>1. Leads({c}, w, legs[<<i, j>>].path, ts[i], ts[j], legs[<<i, j>>].cost)
          BY <2>2 DEF AreLegs
        <4> QED BY <1>1, <4>1, LeadsIsWalk
      <3> QED BY <1>2, <3>1, GreedyIsOrder DEF IsOrder
    <2> HIDE DEF g
    <2>7. /\ Tour(legs, g) # None /\ Tour(legs, g).cost = 0
          /\ Tour(legs, o) # None /\ Tour(legs, o).cost = 0
      BY <2>4, <2>5, <2>6
    <2> DEFINE got == answers'
    <2>8. got.greedy = Tour(legs, g)
          /\ got.exact = IF n - 2 > ExactMaxObjectives THEN None ELSE Tour(legs, o)
      BY <2>1 DEF g
    <2> HIDE DEF got
    <2>9. n - 2 > ExactMaxObjectives <=> ~(Len(tr.objectives) <= ExactMaxObjectives)
      BY <1>2, LimitAssumption
    <2>10. IsOptimum(live, tr, got)
      <3>1. (got.greedy # None) = TRUE
        BY <2>7, <2>8
      <3>2. (got.exact # None) = (Len(tr.objectives) <= ExactMaxObjectives)
        BY <2>7, <2>8, <2>9
      <3>3. got.exact # None => got.exact.cost = 0
        BY <2>7, <2>8
      <3>4. got.exact # None => got.exact.cost <= got.greedy.cost
        BY <2>7, <2>8
      <3> QED BY <1>3, <2>2, <3>1, <3>2, <3>3, <3>4 DEF IsOptimum, ts
    <2> QED BY <1>1, <2>10 DEF ExactIsOptimum, IsOptimum, got
  <1> QED BY <1>6, <1>7

\* The lanes keep what the reference says.
LEMMA LanesAreExact ==
  ASSUME OverlayInv, NEW tr \in Trip, RunLanes(tr)
  PROVE  ExactIsOptimum'
  BY KnownAreExact, UnknownAreExact

\* The exact lane's answer is the least: of all tours past the objectives over the open
\* roads, as a dynamic programme over sets of objectives finds it, none is shorter, and
\* the greedy answer is not; both lanes answer when the terminals reach each other and
\* only then, the exact one within its limit.  A terminal the snapshot does not know
\* reaches itself only, and then the tour has no length (navigation/tour.rs, shortest.rs).
THEOREM ExactAnswersLeast == Spec => []ExactIsOptimum
  <1>1. Init => ExactIsOptimum
    BY DEF Init, ExactIsOptimum
  <1>2. OverlayInv /\ ExactIsOptimum /\ [Next]_vars => ExactIsOptimum'
    <2> SUFFICES ASSUME OverlayInv, ExactIsOptimum, [Next]_vars PROVE ExactIsOptimum'
      OBVIOUS
    <2>1. CASE UNCHANGED <<live, trip, answers>>
      BY <2>1 DEF ExactIsOptimum
    <2>2. CASE answers' = None
      BY <2>2 DEF ExactIsOptimum
    <2>3. CASE \E tr \in Trip : RunLanes(tr)
      BY <2>3, LanesAreExact
    <2> QED BY <2>1, <2>2, <2>3 DEF Next, OverlayStep, vars, overlay
  <1> QED BY <1>1, <1>2, OverlaySafe, PTL DEF Spec

=============================================================================
