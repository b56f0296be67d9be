---------------------------- MODULE DisjointSets ----------------------------
(***************************************************************************)
(* The disjoint sets in which the planners (rrt/planner.rs) and, in a copy *)
(* of the same code, the baselines (baseline/common.rs) record which trees *)
(* are connected: the parent and the children of each tree, and whether    *)
(* all are in one class.  From then on they are not touched.               *)
(***************************************************************************)
EXTENDS Integers

\* Faulty variant: only the larger root itself joins the other class.
ConnectRootOnly(p, ds) ==
  LET roots == {ds.parent[i] : i \in p}
      lo == CHOOSE r \in roots : \A q \in roots : r <= q
      hi == CHOOSE r \in roots : \A q \in roots : r >= q
      parent == [ds.parent EXCEPT ![hi] = lo]
  IN  IF ds.connected \/ lo = hi THEN ds
      ELSE [parent |-> parent,
            children |-> [ds.children EXCEPT ![lo] = @ \cup {hi}],
            connected |-> \A i \in DOMAIN ds.parent : parent[i] = parent[0]]

\* connect_two_tree for the pair p: the class with the larger root joins the other.
Connect(p, ds) ==
  LET roots == {ds.parent[i] : i \in p}
      lo == CHOOSE r \in roots : \A q \in roots : r <= q
      hi == CHOOSE r \in roots : \A q \in roots : r >= q
      moved == {hi} \cup ds.children[hi]
      parent == [i \in DOMAIN ds.parent |-> IF i \in moved THEN lo ELSE ds.parent[i]]
  IN  IF ds.connected \/ lo = hi THEN ds
      ELSE [parent |-> parent,
            children |-> [ds.children EXCEPT ![lo] = @ \cup moved, ![hi] = {}],
            connected |-> \A i \in DOMAIN ds.parent : parent[i] = parent[0]]

NewSets(trees) ==
  [parent |-> [i \in trees |-> i], children |-> [i \in trees |-> {}], connected |-> FALSE]

=============================================================================
