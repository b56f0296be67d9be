------------------------------- MODULE AnaStar -------------------------------
(***************************************************************************)
(* ANA* (baseline/ana_star.rs).  The tree of a pair grows from its start;  *)
(* a pass ends when the goal is taken from the queue, which bounds the     *)
(* next pass, or when the queue is empty.  Trees are taken in turns, each  *)
(* once before any is taken again, as long as there is time.               *)
(*                                                                         *)
(* The heap may hold a node twice; the entry made later is the one that    *)
(* leads, and the older one finds nothing to improve, so a set of nodes    *)
(* stands for it.  All keys are infinite until there is a bound; which     *)
(* of equals is taken first is left open.                                  *)
(***************************************************************************)
EXTENDS BaselineCore

AnaTree(k) ==
  [cost |-> Costs(StartOf(k)), parent |-> Rooted(StartOf(k)),
   open |-> {StartOf(k)}, bound |-> None]

AnaInit == trees = [k \in Layer |-> AnaTree(k)]

\* Faulty variant: a node must be worth a detour before it is looked at again.
WorthTwice(k, t, n) == t.bound = None \/ t.bound - t.cost[n] > 2 * Air(n, GoalOf(k))

\* epsilon > 1: by way of n the goal may still be nearer than the bound.
Worth(k, t, n) == t.bound = None \/ t.bound - t.cost[n] > Air(n, GoalOf(k))

\* The open nodes of largest epsilon = (bound - cost) / distance to the goal.
Leading(k, t) ==
  {n \in t.open : t.bound = None \/
     \A o \in t.open : (t.bound - t.cost[n]) * Air(o, GoalOf(k)) >=
                         (t.bound - t.cost[o]) * Air(n, GoalOf(k))}

\* Every neighbour that n improves is reached, and open if it is worth it.
AnaGrown(k, t, n) ==
  LET grown == [t EXCEPT !.cost = CostsVia(t, n), !.parent = ParentsVia(t, n)]
  IN  [grown EXCEPT !.open = (@ \ {n}) \cup {m \in Better(t, n) : Worth(k, grown, m)}]

\* Faulty variant: any tree is taken, the turns are not kept.
AnaTakeAny(k) ==
  /\ phase = "search" /\ busy = None /\ k \in Layer
  /\ busy' = k
  /\ UNCHANGED <<core, trees, unexplored, phase>>

\* expand_tree_layers: a random tree of those not yet taken in this turn.
AnaTake(k) ==
  LET left == IF unexplored = {} THEN Layer ELSE unexplored
  IN  /\ phase = "search" /\ busy = None /\ k \in left
      /\ busy' = k /\ unexplored' = left
      /\ UNCHANGED <<core, trees, phase>>

AnaExpand(n) ==
  /\ n # GoalOf(busy)
  /\ trees' = [trees EXCEPT ![busy] = AnaGrown(busy, @, n)]
  /\ UNCHANGED <<core, unexplored, busy, phase>>

\* The pass ends with the tree t: only what is still worth it stays open, the distance is
\* recorded, and the pair counts as connected, also when its goal was never reached.
AnaEndPass(t) ==
  /\ trees' = [trees EXCEPT ![busy] = [t EXCEPT !.open = {n \in t.open : Worth(busy, t, n)}]]
  /\ Record(busy, t.bound)
  /\ sets' = Connect({Ids(busy)[1], Ids(busy)[2]}, sets)
  /\ unexplored' = unexplored \ {busy, PairTreeIdx(Ids(busy)[1], Ids(busy)[2])}
  /\ busy' = None /\ phase' = "solve"
  /\ UNCHANGED <<map, joint, best>>

AnaNext ==
  \/ \E k \in Layer : AnaTake(k)
  \/ /\ phase = "search" /\ busy \in Layer
     /\ LET t == trees[busy]
            goal == GoalOf(busy)
        IN  \/ \E n \in Leading(busy, t) : AnaExpand(n)
            \/ /\ goal \in Leading(busy, t)
               /\ AnaEndPass([t EXCEPT !.open = @ \ {goal}, !.bound = t.cost[goal]])
            \/ t.open = {} /\ AnaEndPass(t)

\* Faulty variant: every leg is travelled from the start of its tree.
AnaLegForward(i, j) ==
  LET k == PairTreeIdx(i, j)
      up == Climb(trees[k].parent, GoalOf(k), StartOf(k))
  IN  IF up = Panic THEN Panic ELSE Reverse(up)

\* The legs of update_path, in the tree at the place pair_tree_idx gives.
AnaLeg(i, j) ==
  LET k == PairTreeIdx(i, j)
      up == Climb(trees[k].parent, GoalOf(k), StartOf(k))
  IN  IF up = Panic THEN Panic ELSE IF Ids(k)[1] = i THEN Reverse(up) ELSE up

AnaPath(s) == JoinedPath([k \in DOMAIN Legs(s) |-> AnaLeg(Legs(s)[k][1], Legs(s)[k][2])])

=============================================================================
