----------------------------- MODULE BruteForce -----------------------------
(***************************************************************************)
(* The brute-force solver of rtsp/greedy.rs: every order of the objectives *)
(* over a matrix whose infinite entries are completed by Dijkstra.  With   *)
(* no objective at all it indexes an empty option (line 40).               *)
(***************************************************************************)
EXTENDS Shortest

\* Faulty variant: infinite entries stay, orders that need one are left out.
AsGiven(m) ==
  [e \in {e \in DOMAIN m.weight : e[1] # e[2]} |-> [cost |-> m.weight[e], path |-> e]]

\* find_connection_dijkstra: an entry, or the way around by other destinations.
Completed(m) ==
  [e \in {e \in (0..(m.size - 1)) \X (0..(m.size - 1)) : e[1] # e[2]} |->
     IF e \in DOMAIN m.weight THEN [cost |-> m.weight[e], path |-> e]
     ELSE DijkstraPath(m.size, m.weight, e[1], e[2])]

\* nested_loop and the options' costs; which of the cheapest comes first is left open.
BruteForce(m) ==
  LET leg == Completed(m)
      options == {<<0>> \o s \o <<m.size - 1>> : s \in SetToSeqs(1..(m.size - 2))}
      possible == {o \in options : \A k \in DOMAIN Legs(o) : Legs(o)[k] \in DOMAIN leg}
      price(o) == Length([e \in DOMAIN leg |-> leg[e].cost], o)
      joined(o) == FoldRight(LAMBDA e, out : Front(leg[e].path) \o out, Legs(o), <<m.size - 1>>)
  IN  {[cost |-> price(o), path |-> joined(o)] :
         o \in {o \in possible : \A p \in possible : price(o) <= price(p)}}

=============================================================================
