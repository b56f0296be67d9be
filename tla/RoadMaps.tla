------------------------------ MODULE RoadMaps ------------------------------
(***************************************************************************)
(* Road networks (graph/mod.rs) and the three ways to make one: from OSM   *)
(* ways (map/osm.rs), from a list of node pairs (map/custom.rs) and from   *)
(* weighted edges (python/mod.rs).                                         *)
(*                                                                         *)
(* A network is [size |-> n, weight |-> w]: its nodes are 0..n-1 and w     *)
(* gives a weight to each directed edge.  Coordinates are abstracted to    *)
(* the distances they have from each other.                                *)
(***************************************************************************)
EXTENDS Integers, Sequences, FiniteSets, Functions

LOCAL INSTANCE SequencesExt

Nodes(m) == 0..(m.size - 1)
Edges(m) == DOMAIN m.weight
Roads(m) == {{e[1], e[2]} : e \in Edges(m)}

Steps(s) == {<<s[k], s[k + 1]>> : k \in 1..(Len(s) - 1)}
BothWays(pairs) == pairs \cup {<<p[2], p[1]>> : p \in pairs}

\* AdjacencyGraph::new refuses edges to unknown nodes; weights of 0 are accepted.
IsNetwork(m) ==
  /\ m.size \in Nat
  /\ Edges(m) \subseteq Nodes(m) \X Nodes(m)
  /\ \A e \in Edges(m) : m.weight[e] \in Nat

\* The loaders enter every road in both directions, with one weight.
IsTwoWay(m) ==
  \A e \in Edges(m) : <<e[2], e[1]>> \in Edges(m) /\ m.weight[<<e[2], e[1]>>] = m.weight[e]

-----------------------------------------------------------------------------
(* OSM: ways are [refs |-> OSM ids, tags |-> <<key, value>> pairs]          *)

\* way_matches_filter
Matches(way, filter) ==
  \E t \in way.tags : t[1] \in filter.keys \/ t[2] \in filter.values

\* parse_xml: node ids follow the order of the OSM ids that the chosen ways refer
\* to and the file knows; a step over an unknown node is left out.  A way that
\* repeats a node gives that node an edge to itself, of length 0.
WayNetwork(osm) ==
  LET ways == {w \in osm.ways : Matches(w, osm.filter)}
      ids == osm.known \cap UNION {Range(w.refs) : w \in ways}
      index(id) == Cardinality({i \in ids : i < id})
      id[n \in 0..(Cardinality(ids) - 1)] == CHOOSE i \in ids : index(i) = n
      steps == BothWays(UNION {Steps(w.refs) : w \in ways}) \cap (ids \X ids)
  IN  [size |-> Cardinality(ids),
       weight |-> [e \in {<<index(s[1]), index(s[2])>> : s \in steps} |->
                     osm.metres[<<id[e[1]], id[e[2]]>>]]]

-----------------------------------------------------------------------------
(* Custom graphs and edge lists                                             *)

\* parse_yaml: edges from a node to itself are left out.
PairNetwork(custom) ==
  [size |-> custom.size,
   weight |-> [e \in BothWays({p \in custom.pairs : p[1] # p[2]}) |->
                 custom.metres[e]]]

\* from_edges: when a road is listed twice its last weight counts.
ListNetwork(list) ==
  LET ends(k) == {list.edges[k][1], list.edges[k][2]}
      last(e) == CHOOSE k \in DOMAIN list.edges :
                   /\ ends(k) = {e[1], e[2]}
                   /\ \A j \in DOMAIN list.edges : ends(j) = {e[1], e[2]} => j <= k
      pairs == {<<list.edges[k][1], list.edges[k][2]>> : k \in DOMAIN list.edges}
  IN  [size |-> list.size,
       weight |-> [e \in BothWays(pairs) |-> list.edges[last(e)][3]]]

Network(source) ==
  CASE source.kind = "osm" -> WayNetwork(source)
    [] source.kind = "custom" -> PairNetwork(source)
    [] source.kind = "list" -> ListNetwork(source)

=============================================================================
