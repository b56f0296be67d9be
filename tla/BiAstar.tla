------------------------------- MODULE BiAstar -------------------------------
(***************************************************************************)
(* Bidirectional A* (baseline/bi_astar.rs).  The tree of a pair grows from *)
(* both ends, a node at a time in turn, until a node taken from one queue  *)
(* is known to the other side.  Each pair is explored once.  An open queue *)
(* holds [f, node]; which of equals comes first is left open.              *)
(***************************************************************************)
EXTENDS BaselineCore

BiSide(root) ==
  [cost |-> Costs(root), parent |-> Rooted(root), open |-> {[f |-> 0, node |-> root]}]
BiTree(k) == [fwd |-> BiSide(StartOf(k)), bwd |-> BiSide(GoalOf(k)), side |-> "fwd"]

BiInit == trees = [k \in Layer |-> BiTree(k)]

First(open) == {o \in open : \A q \in open : o.f <= q.f}

\* Expand the entry o taken from one side, towards the other side's root.
BiGrown(side, o, root) ==
  LET cost == CostsVia(side, o.node)
  IN  [cost |-> cost, parent |-> ParentsVia(side, o.node),
       open |-> (side.open \ {o}) \cup
                {[f |-> cost[n] + Air(n, root), node |-> n] : n \in Better(side, o.node)}]

\* The side whose turn it is and the other; the tree with its turn's side replaced.
Here(t) == IF t.side = "fwd" THEN t.fwd ELSE t.bwd
There(t) == IF t.side = "fwd" THEN t.bwd ELSE t.fwd
Holding(t, here, side) ==
  [fwd |-> IF t.side = "fwd" THEN here ELSE t.fwd,
   bwd |-> IF t.side = "fwd" THEN t.bwd ELSE here, side |-> side]

\* The node is known to the other side.
Meets(t, o) == o.node \in Reached(There(t))

\* expand_tree_layers: a random unexplored tree.
BiTake(k) ==
  /\ phase = "search" /\ busy = None /\ k \in unexplored
  /\ busy' = k
  /\ UNCHANGED <<core, trees, unexplored, phase>>

\* One side takes a node the other does not know, and it is the other's turn.
BiExpand(o) ==
  LET t == trees[busy]
      other == IF t.side = "fwd" THEN "bwd" ELSE "fwd"
      root == IF t.side = "fwd" THEN GoalOf(busy) ELSE StartOf(busy)
  IN  /\ ~Meets(t, o)
      /\ trees' = [trees EXCEPT ![busy] =
           Holding(t, BiGrown(Here(t), o, root), other)]
      /\ UNCHANGED <<core, unexplored, busy, phase>>

\* The sides meet: the distance is over that node, shortest or not.
BiMeet(o) ==
  LET t == trees[busy]
      p == Ids(busy)
      d == t.fwd.cost[o.node] + t.bwd.cost[o.node]
  IN  /\ Meets(t, o)
      /\ trees' = [trees EXCEPT ![busy] =
           Holding(t, [Here(t) EXCEPT !.open = @ \ {o}], t.side)]
      /\ Record(busy, d)
      /\ joint' = IF Shorter(busy, d)
                  THEN [joint EXCEPT ![p] = o.node, ![<<p[2], p[1]>>] = o.node] ELSE joint
      /\ sets' = Connect({p[1], p[2]}, sets)
      /\ unexplored' = unexplored \ {busy} /\ busy' = None /\ phase' = "solve"
      /\ UNCHANGED <<map, best>>

\* Faulty variant: the pair counts as connected all the same.
BiGiveUpConnects ==
  /\ sets' = Connect({Ids(busy)[1], Ids(busy)[2]}, sets)
  /\ unexplored' = unexplored \ {busy} /\ busy' = None /\ phase' = "solve"
  /\ UNCHANGED <<map, entry, joint, updated, best, trees>>

\* A queue is empty before the sides met.
BiGiveUp ==
  /\ unexplored' = unexplored \ {busy} /\ busy' = None /\ phase' = "solve"
  /\ UNCHANGED <<core, trees>>

\* The legs of update_path, in the tree at the place pair_tree_idx gives.
BiLeg(i, j) ==
  LET k == PairTreeIdx(i, j)
      x == IF joint[<<i, j>>] = None THEN Stop[i] ELSE joint[<<i, j>>]
      up == Climb(trees[k].fwd.parent, x, StartOf(k))
      down == Climb(trees[k].bwd.parent, x, GoalOf(k))
  IN  IF up = Panic \/ down = Panic THEN Panic
      ELSE IF Ids(k)[1] = i THEN Reverse(up) \o Tail(down) ELSE Reverse(down) \o Tail(up)

BiPath(s) == JoinedPath([k \in DOMAIN Legs(s) |-> BiLeg(Legs(s)[k][1], Legs(s)[k][2])])

BiNext ==
  \/ \E k \in Layer : BiTake(k)
  \/ /\ phase = "search" /\ busy \in Layer
     /\ LET t == trees[busy]
        IN  IF t.side = "fwd" /\ {} \in {t.fwd.open, t.bwd.open} THEN BiGiveUp
            ELSE \E o \in First(Here(t).open) : BiExpand(o) \/ BiMeet(o)

=============================================================================
