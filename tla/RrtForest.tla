----------------------------- MODULE RrtForest -----------------------------
(***************************************************************************)
(* The IMOMD-RRT* search of one planner (rrt/planner.rs, rrt/tree.rs): one *)
(* tree grows from each destination; trees that visit a common node are    *)
(* linked there; when all trees are linked the relaxed TSP solver picks a  *)
(* tour over the link distances and the planner publishes its path.        *)
(*                                                                         *)
(* A step of the planner expands every tree once, in order.  Expansion is  *)
(* split at the points where the code changes a tree, so that the rewiring *)
(* recursion (an explicit stack here) and the link table are seen in every *)
(* order the hash maps may produce.  The planner belongs to one caller: a  *)
(* new graph arrives only between two steps.                               *)
(*                                                                         *)
(* Sampling is abstracted: the sample may fall on any node, so any         *)
(* expandable can be the nearest one.  Pseudo mode is not modelled.        *)
(***************************************************************************)
EXTENDS Integers, Sequences, FiniteSets, SequencesExt, DisjointSets

CONSTANTS
  Node,        \* node ids of the road network
  Road,        \* the road graphs traffic produces: {u, v} :> weight
  Root,        \* Root[i]: the destination tree i grows from, 0 the source
  Hysteresis,  \* by how much a link must improve (0.1 m) to be replaced
  Refining,    \* settings: shortcut is on (FALSE: shortcut, swapping and genetic are off)
  MaxTour,     \* bound: length of the tours the solver answers
  MaxUpdates,  \* bound: number of update_graph calls
  None         \* no parent, no link (usize::MAX, infinity), Option::None

Tree == DOMAIN Root
Goal == Cardinality(Tree) - 1
Pair == {p \in SUBSET Tree : Cardinality(p) = 2}

\* None is neither a node nor a set of nodes, whatever the networks name theirs.
ASSUME NodeAssumption ==
  /\ IsFiniteSet(Node) /\ None \notin Node
  /\ \A nodes \in SUBSET Node : nodes # None

\* Nor is it a cost or a route.
ASSUME NoneAssumption ==
  None \notin Nat /\ None \notin [cost : Nat, order : Seq(Tree), path : Seq(Node)]

ASSUME SettingAssumption == Refining \in BOOLEAN

ASSUME RoadAssumption ==
  \A g \in Road : \A e \in DOMAIN g :
    e \subseteq Node /\ Cardinality(e) = 2 /\ g[e] \in Nat

ASSUME RootAssumption ==
  /\ Goal \in Nat \ {0} /\ Tree = 0..Goal
  /\ \A i, j \in Tree : Root[i] \in Node /\ (Root[i] = Root[j] => i = j)

ASSUME BoundAssumption == {Hysteresis, MaxTour, MaxUpdates} \subseteq Nat

VARIABLES
  graph,       \* planner.graph
  tree,        \* planner.tree_layers
  met,         \* the pairs whose connection_nodes_set is not empty
  link,        \* distance_matrix and connection_node_matrix
  sets,        \* disjoint_set_parent, disjoint_set_children, is_connected_graph
  best,        \* planner.best
  phase,       \* where step() stands
  turn,        \* the tree step() expands
  wasConnected,\* is_connected_graph when step() began
  new,         \* x_new
  stack,       \* what rewire_tree has still to do, innermost call first
  updates      \* number of update_graph calls so far

searchVars == <<tree, met, link, sets>>
stepVars == <<phase, turn, wasConnected, new, stack>>
vars == <<graph, searchVars, best, stepVars, updates>>

-----------------------------------------------------------------------------
(* Graphs and trees                                                         *)

Neighbors(g, n) == {m \in Node : {m, n} \in DOMAIN g}

Visited(t) == {n \in Node : t.parent[n] # None}

\* RrtTree::new.
NewTree(r) ==
  [root |-> r,
   parent |-> [n \in Node |-> IF n = r THEN r ELSE None],
   children |-> [n \in Node |-> {}],
   cost |-> [n \in Node |-> 0],
   expandables |-> {}]

\* Faulty variant: a neighbour that was visited through a jump is ahead again.
AdvanceAll(g, t, x) ==
  [t EXCEPT !.expandables = (@ \ {x}) \cup (Neighbors(g, x) \ {t.parent[x]})]

\* update_expandables(x, true): x is no longer ahead, its other neighbours are.
Advance(g, t, x) ==
  [t EXCEPT !.expandables = (@ \ {x}) \cup (Neighbors(g, x) \ Visited(t))]

\* x becomes a child of its neighbour p.
Attach(g, t, x, p) ==
  [t EXCEPT !.parent[x] = p,
            !.children[p] = @ \cup {x},
            !.cost[x] = t.cost[p] + g[{p, x}]]

\* The nodes from the root to n along the parents.
RootPath(t, n) ==
  LET path[m \in Visited(t)] ==
        IF m = t.root THEN <<m>> ELSE Append(path[t.parent[m]], m)
  IN  path[n]

\* The descendants of x at depth k, as the children maps give them.
Level(t, x) ==
  LET level[k \in 0..Cardinality(Node)] ==
        IF k = 0 THEN {x} ELSE UNION {t.children[n] : n \in level[k - 1]}
  IN  level

Below(t, x) ==
  LET level == Level(t, x) IN UNION {level[k] : k \in 1..Cardinality(Node)}

\* The breadth-first orders update_cost may return, without x itself.
BreadthFirst(t, x) ==
  LET level == Level(t, x)
      depth(n) == CHOOSE k \in 1..Cardinality(Node) : n \in level[k]
  IN  {s \in SetToSeqs(Below(t, x)) :
         \A a, b \in DOMAIN s : a < b => depth(s[a]) <= depth(s[b])}

\* Faulty variant: y stays among the children of its old parent.
RewiredKeepingChild(g, t, x, y) ==
  LET cost == t.cost[x] + g[{x, y}]
  IN  [t EXCEPT !.parent[y] = x,
                !.children[x] = @ \cup {y},
                !.cost = [n \in Node |->
                   IF n \in Below(t, y) \cup {y} THEN @[n] + cost - t.cost[y] ELSE @[n]]]

\* y moves under x; update_cost shifts the costs of all that hangs from y.
Rewired(g, t, x, y) ==
  LET cost == t.cost[x] + g[{x, y}]
  IN  [t EXCEPT !.parent[y] = x,
                !.children[t.parent[y]] = @ \ {y},
                !.children[x] = @ \cup {y},
                !.cost = [n \in Node |->
                   IF n \in Below(t, y) \cup {y} THEN @[n] + cost - t.cost[y] ELSE @[n]]]

\* retain_tree_on_graph: branches behind a missing road are cut, costs summed anew.
Retained(g, t) ==
  LET edges(n) == {{RootPath(t, n)[k], RootPath(t, n)[k + 1]} :
                     k \in 1..(Len(RootPath(t, n)) - 1)}
      kept == {n \in Visited(t) : edges(n) \subseteq DOMAIN g}
      cost[n \in Node] ==
        IF n \notin kept \/ n = t.root THEN 0
        ELSE cost[t.parent[n]] + g[{n, t.parent[n]}]
  IN  [root |-> t.root,
       parent |-> [n \in Node |-> IF n \in kept THEN t.parent[n] ELSE None],
       children |-> [n \in Node |-> t.children[n] \cap kept],
       cost |-> cost,
       expandables |-> (UNION {Neighbors(g, n) : n \in kept}) \ kept]

-----------------------------------------------------------------------------
(* Links between trees                                                      *)

\* The pairs of tree i with the other trees that visit x.
PairsAt(ts, i, x) == {{i, j} : j \in {j \in Tree \ {i} : x \in Visited(ts[j])}}

LinkAt(ts, p, x) ==
  [node |-> x,
   dist |-> LET i == CHOOSE i \in p : TRUE
                j == CHOOSE j \in p : j # i
            IN  ts[i].cost[x] + ts[j].cost[x]]

\* update_connection_tree: tree i, now as in ts, looks for links at x.
Meet(ts, i, x) ==
  LET here == PairsAt(ts, i, x)
  IN  /\ met' = met \cup here
      /\ sets' = FoldSet(Connect, sets, here \ met)
      /\ link' = [p \in Pair |->
           IF p \in here /\ ( \/ link[p] = None
                              \/ LinkAt(ts, p, x).dist + Hysteresis < link[p].dist )
             THEN LinkAt(ts, p, x) ELSE link[p]]

Common(ts, p) == {x \in Node : \A i \in p : x \in Visited(ts[i])}

\* Faulty variant: links are kept as long as their node is still common.
RebuildKeepingLinks(ts) ==
  LET meeting == {p \in Pair : Common(ts, p) # {}}
  IN  /\ met' = meeting
      /\ sets' = FoldSet(Connect, NewSets(Tree), meeting)
      /\ link' = [p \in Pair |->
           IF p \notin meeting THEN None
           ELSE IF link[p] # None /\ link[p].node \in Common(ts, p) THEN link[p]
           ELSE LinkAt(ts, p, CHOOSE x \in Common(ts, p) : TRUE)]

\* rebuild_connections: every visited node is offered anew, in hash order.
Rebuild(ts) ==
  LET meeting == {p \in Pair : Common(ts, p) # {}}
      linkable(p) == {l \in {LinkAt(ts, p, x) : x \in Common(ts, p)} :
                        \A x \in Common(ts, p) : l.dist <= LinkAt(ts, p, x).dist + Hysteresis}
  IN  /\ met' = meeting
      /\ sets' = FoldSet(Connect, NewSets(Tree), meeting)
      /\ \E x \in [meeting -> Node] :
           /\ \A p \in meeting : x[p] \in Common(ts, p) /\ LinkAt(ts, p, x[p]) \in linkable(p)
           /\ link' = [p \in Pair |-> IF p \in meeting THEN LinkAt(ts, p, x[p]) ELSE None]

-----------------------------------------------------------------------------
(* Routes                                                                   *)

Legs(s) == {k \in 1..Len(s) : k < Len(s)}
Leg(s, k) == {s[k], s[k + 1]}

\* The relaxed tours: from the source to the target, through every tree.
Tours ==
  {s \in UNION {[1..n -> Tree] : n \in 2..MaxTour} :
     /\ s[1] = 0 /\ s[Len(s)] = Goal /\ {s[k] : k \in DOMAIN s} = Tree
     /\ \A k \in Legs(s) : s[k] # s[k + 1]}

TourCost(ln, s) == MapThenSumSet(LAMBDA k : ln[Leg(s, k)].dist, Legs(s))

\* update_path: from each root to the link and on to the next root.
PathOf(ts, ln, s) ==
  LET leg(k) == LET x == ln[Leg(s, k)].node
                IN  RootPath(ts[s[k]], x)
                      \o Tail(Reverse(RootPath(ts[s[k + 1]], x)))
      path[k \in 1..Len(s)] ==
        IF k = 1 THEN <<Root[0]>> ELSE path[k - 1] \o Tail(leg(k - 1))
  IN  path[Len(s)]

Weight(g, path) == MapThenSumSet(LAMBDA k : g[Leg(path, k)], Legs(path))

LinkedTours(ln) == {s \in Tours : \A k \in Legs(s) : ln[Leg(s, k)] # None}

\* What the solver may answer, by what EciGen shows of it: the cost of one tour over
\* the links with the sequence of, when it refines, another.
Answers(ln) ==
  {[cost |-> TourCost(ln, p[1]), order |-> p[2]] :
     p \in {p \in LinkedTours(ln) \X LinkedTours(ln) : Refining \/ p[1] = p[2]}}

\* update_path and store_best_result.
Route(ts, ln, a) == [cost |-> a.cost, order |-> a.order, path |-> PathOf(ts, ln, a.order)]

\* Faulty variant: the solver's answer replaces the best whatever it costs.
SolveAlways(b, ts, ln, ds) ==
  IF ~ds.connected THEN best' = b
  ELSE \E a \in Answers(ln) : best' = Route(ts, ln, a)

\* solve_rtsp, from the best b: the solver's answer is kept when it is cheaper.
Solve(b, ts, ln, ds) ==
  IF ~ds.connected THEN best' = b
  ELSE \E a \in Answers(ln) :
         best' = IF b = None \/ a.cost < b.cost THEN Route(ts, ln, a) ELSE b

-----------------------------------------------------------------------------
(* Steps                                                                    *)

Init ==
  /\ graph \in Road
  /\ tree = [i \in Tree |-> Advance(graph, NewTree(Root[i]), Root[i])]
  /\ met = {} /\ link = [p \in Pair |-> None] /\ sets = NewSets(Tree)
  /\ best = None
  /\ phase = "expand" /\ turn = 0 /\ wasConnected = FALSE
  /\ new = None /\ stack = <<>>
  /\ updates = 0

\* A tree with nothing ahead is passed over.
SkipTree ==
  /\ phase = "expand" /\ turn <= Goal
  /\ tree[turn].expandables = {}
  /\ turn' = turn + 1
  /\ UNCHANGED <<graph, searchVars, best, phase, wasConnected, new, stack, updates>>

\* steer_new_node: the expandable nearest to the sample.
Select ==
  /\ phase = "expand" /\ turn <= Goal
  /\ \E x \in tree[turn].expandables :
       /\ new' = x
       /\ tree' = IF Cardinality(Neighbors(graph, x)) = 2
                    THEN [tree EXCEPT ![turn].expandables = @ \ {x}] ELSE tree
  /\ phase' = "steer"
  /\ UNCHANGED <<graph, met, link, sets, best, turn, wasConnected, stack, updates>>

\* Whether new lies in the middle of a corridor and its way on is unvisited.
InCorridor ==
  /\ Cardinality(Neighbors(graph, new)) = 2
  /\ ~ Neighbors(graph, new) \subseteq Visited(tree[turn])

\* The jump: new joins its visited neighbour, its other neighbour is next.
FollowCorridor ==
  /\ phase = "steer" /\ InCorridor
  /\ LET t == tree[turn]
     IN  \E p \in Neighbors(graph, new) \cap Visited(t) :
           /\ tree' = [tree EXCEPT ![turn] = Attach(graph, t, new, p)]
           /\ Meet(tree', turn, new)
           /\ new' \in Neighbors(graph, new) \ {p}
  /\ UNCHANGED <<graph, best, phase, turn, wasConnected, stack, updates>>

\* connect_new_node, update_expandables, and the call of rewire_tree.
ConnectNew ==
  /\ phase = "steer" /\ ~InCorridor
  /\ LET t == tree[turn]
         near == Neighbors(graph, new) \cap Visited(t)
         via(p) == t.cost[p] + graph[{p, new}]
     IN  \E p \in {p \in near : \A q \in near : via(p) <= via(q)} :
           tree' = [tree EXCEPT ![turn] = Advance(graph, Attach(graph, t, new, p), new)]
  /\ stack' = <<[node |-> new, near |-> Neighbors(graph, new)]>>
  /\ phase' = "rewire"
  /\ UNCHANGED <<graph, met, link, sets, best, turn, wasConnected, new, updates>>

Call == Head(stack)

\* rewire_tree looks at a neighbour y: is it cheaper to reach through this node?
Improves(y) ==
  LET t == tree[turn]
  IN  /\ y \in Visited(t) /\ t.parent[Call.node] # y
      /\ t.cost[Call.node] + graph[{Call.node, y}] < t.cost[y]

PassNeighbor ==
  /\ phase = "rewire" /\ stack # <<>> /\ Call.near # None
  /\ \E y \in Call.near :
       /\ ~Improves(y)
       /\ stack' = <<[Call EXCEPT !.near = @ \ {y}]>> \o Tail(stack)
  /\ UNCHANGED <<graph, searchVars, best, phase, turn, wasConnected, new, updates>>

\* y moves here; its descendants are rewired, deepest first, before y is offered
\* as a link (near = None) and the next neighbour is looked at.
RewireNeighbor ==
  /\ phase = "rewire" /\ stack # <<>> /\ Call.near # None
  /\ \E y \in Call.near :
       /\ Improves(y)
       /\ tree' = [tree EXCEPT ![turn] = Rewired(graph, @, Call.node, y)]
       /\ \E s \in BreadthFirst(tree'[turn], y) :
            stack' = [k \in DOMAIN s |->
                        [node |-> Reverse(s)[k], near |-> Neighbors(graph, Reverse(s)[k])]]
                     \o <<[node |-> y, near |-> None],
                          [Call EXCEPT !.near = @ \ {y}]>>
                     \o Tail(stack)
  /\ UNCHANGED <<graph, met, link, sets, best, phase, turn, wasConnected, new, updates>>

OfferLink ==
  /\ phase = "rewire" /\ stack # <<>> /\ Call.near = None
  /\ Meet(tree, turn, Call.node)
  /\ stack' = Tail(stack)
  /\ UNCHANGED <<graph, tree, best, phase, turn, wasConnected, new, updates>>

ReturnFromRewire ==
  /\ phase = "rewire" /\ stack # <<>> /\ Call.near = {}
  /\ stack' = Tail(stack)
  /\ UNCHANGED <<graph, searchVars, best, phase, turn, wasConnected, new, updates>>

\* The new node itself is offered as a link; the next tree is expanded.
TreeExpanded ==
  /\ phase = "rewire" /\ stack = <<>>
  /\ Meet(tree, turn, new)
  /\ phase' = "expand" /\ turn' = turn + 1 /\ new' = None
  /\ UNCHANGED <<graph, tree, best, wasConnected, stack, updates>>

\* Faulty variants: the turn is not reset; the first route is not forced.
EndStepNoReset ==
  /\ phase = "expand" /\ turn = Goal + 1
  /\ UNCHANGED best
  /\ turn' = turn + 1 /\ wasConnected' = sets.connected
  /\ UNCHANGED <<graph, searchVars, phase, new, stack, updates>>
EndStepUnforced ==
  /\ phase = "expand" /\ turn = Goal + 1
  /\ Solve(best, tree, link, sets) \/ UNCHANGED best
  /\ turn' = 0 /\ wasConnected' = sets.connected
  /\ UNCHANGED <<graph, searchVars, phase, new, stack, updates>>

\* The rest of step(): the first route is sought when the trees have connected,
\* later ones when the iteration count says so or the caller's deadline is near.
EndStep ==
  /\ phase = "expand" /\ turn = Goal + 1
  /\ \/ Solve(best, tree, link, sets)
     \/ /\ wasConnected \/ ~sets.connected
        /\ UNCHANGED best
  /\ turn' = 0 /\ wasConnected' = sets.connected
  /\ UNCHANGED <<graph, searchVars, phase, new, stack, updates>>

\* Faulty variant: the best route survives the new graph.
UpdateGraphKeepingBest(g) ==
  /\ phase = "expand" /\ turn = 0 /\ updates < MaxUpdates
  /\ graph' = g
  /\ tree' = [i \in Tree |-> Retained(g, tree[i])]
  /\ Rebuild(tree')
  /\ Solve(best, tree', link', sets')
  /\ wasConnected' = sets'.connected
  /\ updates' = updates + 1
  /\ UNCHANGED <<phase, turn, new, stack>>

\* update_graph: the trees are kept as far as g has their roads, everything else
\* is rebuilt from them, and a route is sought at once.
UpdateGraph(g) ==
  /\ phase = "expand" /\ turn = 0 /\ updates < MaxUpdates
  /\ graph' = g
  /\ tree' = [i \in Tree |-> Retained(g, tree[i])]
  /\ Rebuild(tree')
  /\ Solve(None, tree', link', sets')
  /\ wasConnected' = sets'.connected
  /\ updates' = updates + 1
  /\ UNCHANGED <<phase, turn, new, stack>>

Step ==
  \/ SkipTree \/ Select \/ FollowCorridor \/ ConnectNew
  \/ PassNeighbor \/ RewireNeighbor \/ OfferLink \/ ReturnFromRewire
  \/ TreeExpanded \/ EndStep

Next == Step \/ \E g \in Road : UpdateGraph(g)

Spec == Init /\ [][Next]_vars

\* A session that has a planner keeps calling step().
FairSpec == Spec /\ WF_vars(Step)

-----------------------------------------------------------------------------
(* Properties                                                               *)

Resting == phase = "expand"

\* Types of the search state, of the step's control and of the published route.
TypeOK ==
  /\ graph \in Road
  /\ \A i \in Tree :
       /\ tree[i].root = Root[i]
       /\ tree[i].parent \in [Node -> Node \cup {None}]
       /\ tree[i].children \in [Node -> SUBSET Node]
       /\ tree[i].cost \in [Node -> Nat]
       /\ tree[i].expandables \subseteq Node
  /\ met \subseteq Pair
  /\ link \in [Pair -> [node : Node, dist : Nat] \cup {None}]
  /\ sets \in [parent : [Tree -> Tree], children : [Tree -> SUBSET Tree], connected : BOOLEAN]
  /\ best \in [cost : Nat, order : Seq(Tree), path : Seq(Node)] \cup {None}
  /\ phase \in {"expand", "steer", "rewire"}
  /\ turn \in 0..(Goal + 1) /\ wasConnected \in BOOLEAN
  /\ new \in Node \cup {None} /\ (phase = "expand" <=> new = None)
  /\ stack \in Seq([node : Node, near : (SUBSET Node) \cup {None}])
  /\ updates \in 0..MaxUpdates

\* The parent, children and cost maps of a tree, which five places update on
\* their own, tell one tree of the road graph: each is what the others say.
TreeSound(t) ==
  /\ t.parent[t.root] = t.root /\ t.cost[t.root] = 0
  /\ \A n \in Visited(t) \ {t.root} :
       /\ {n, t.parent[n]} \in DOMAIN graph
       /\ t.cost[n] = t.cost[t.parent[n]] + graph[{n, t.parent[n]}]
  /\ \A n \in Node : t.children[n] = {m \in Visited(t) \ {t.root} : t.parent[m] = n}
  /\ Visited(t) = {t.root} \cup Below(t, t.root)

TreesSound == \A i \in Tree : TreeSound(tree[i])

\* Exactly the unvisited neighbours of a tree are ahead of it: no node is lost
\* to a corridor jump or to a cut, none is expanded twice.
FrontierExact ==
  Resting => \A i \in Tree :
    tree[i].expandables =
      (UNION {Neighbors(graph, n) : n \in Visited(tree[i])}) \ Visited(tree[i])

\* Two trees count as met exactly when they share a node, and the classes of the
\* disjoint set are the components of that relation, of which there is one
\* exactly when the forest is said to be connected.
Component(i) ==
  LET reach[k \in 0..Goal] ==
        IF k = 0 THEN {i}
        ELSE reach[k - 1] \cup
               {j \in Tree : \E h \in reach[k - 1] : {h, j} \in Pair /\ Common(tree, {h, j}) # {}}
  IN  reach[Goal]

ClassesAreComponents ==
  Resting =>
    /\ met = {p \in Pair : Common(tree, p) # {}}
    /\ \A i, j \in Tree : sets.parent[i] = sets.parent[j] <=> j \in Component(i)
    /\ sets.connected <=> Component(0) = Tree

\* A link is a way: both trees reach its node, and by now for no more than the
\* distance it was entered with.
LinksAreWays ==
  \A p \in Pair : link[p] # None =>
    /\ link[p].node \in Common(tree, p)
    /\ LinkAt(tree, p, link[p].node).dist <= link[p].dist

\* A published path is a walk on the present graph from the source to the target, which
\* passes all objectives in the order published with it.
RouteIsWalk ==
  best # None =>
    LET path == best.path
        order == best.order
    IN  /\ path[1] = Root[0] /\ path[Len(path)] = Root[Goal]
        /\ \A k \in Legs(path) : Leg(path, k) \in DOMAIN graph
        /\ \A i \in Tree : \E k \in DOMAIN order : order[k] = i
        /\ \E at \in [DOMAIN order -> DOMAIN path] :
             \A k \in DOMAIN order : /\ path[at[k]] = Root[order[k]]
                                    /\ k > 1 => at[k - 1] < at[k]

\* The path is put together from the parents of now, the distances of the links are as
\* old as the links: a path is still no longer than its order by these distances, when
\* it is published, on a new graph as well.  (The cost may be that of another order.)
RouteWithinOrder ==
  [][best' # best /\ best' # None =>
       Weight(graph', best'.path) <= TourCost(link', best'.order)]_vars

\* The cost of a cheapest route on g, from the definition: shortest walks between
\* the destinations, in the best order of the objectives; None if there is none.
Far(g) == MapThenSumSet(LAMBDA e : g[e], DOMAIN g) + 1

Shortest(g) ==
  LET within[k \in 0..Cardinality(Node)] ==
        [m \in Node |-> [n \in Node |->
          IF k = 0 THEN IF m = n THEN 0 ELSE Far(g)
          ELSE Min({within[k - 1][m][n]} \cup
                   {within[k - 1][m][h] + g[{h, n}] : h \in Neighbors(g, n)})]]
  IN  within[Cardinality(Node)]

Optimum ==
  [g \in Road |->
     LET walk == Shortest(g)
         orders == {s \in [0..Goal -> Tree] : s[0] = 0 /\ s[Goal] = Goal /\ IsInjective(s)}
         cost(s) == MapThenSumSet(LAMBDA k : walk[Root[s[k - 1]]][Root[s[k]]], 1..Goal)
     IN  IF \E i \in Tree : walk[Root[0]][Root[i]] = Far(g) THEN None
         ELSE Min({cost(s) : s \in orders})]

\* The published cost never falls below the optimum of the present graph and
\* never rises while the graph stays (verification.md, contract 5; run_until).
Anytime == INSTANCE AnytimeRoute WITH
  Roads <- Road, Least <- Optimum, road <- graph, edition <- updates,
  cost <- IF best = None THEN None ELSE best.cost

ImplementsAnytime == Anytime!AnytimeSpec

\* Whenever the destinations are connected, some route is published at last,
\* however the samples fall and whatever the trees lost to a new graph.
RouteFound ==
  Optimum[graph] # None ~> best # None \/ Optimum[graph] = None

\* "PlanningResult.cost equals the sum of the path's edge weights"
\* (verification.md, contract 4).
CostIsEdgeSum == best # None => best.cost = Weight(graph, best.path)

=============================================================================
