---------------------------- MODULE AnytimeRoute ----------------------------
(***************************************************************************)
(* What an anytime planner promises about the cost of its best route: it   *)
(* is never below the optimum of the present graph, and it only falls      *)
(* until a new graph arrives.  NavigationSession assumes no more of its    *)
(* planner (SearchCosts).                                                  *)
(***************************************************************************)
EXTENDS Naturals

CONSTANTS
  Roads,    \* road graphs
  Least,    \* Least[g]: the cost of the best route on g, None if there is none
  None

VARIABLES
  road,     \* the present graph
  edition,  \* how many graphs came before it
  cost      \* of the best route known, None if there is none

\* The costs of routes on g.
Possible(g) == {c \in Nat : Least[g] # None /\ c >= Least[g]}

AnytimeInit == road \in Roads /\ edition = 0 /\ cost = None

Improve ==
  /\ cost' \in Possible(road)
  /\ cost = None \/ cost' < cost
  /\ UNCHANGED <<road, edition>>

\* The route is planned anew, from what the search still knows.
Replan ==
  /\ road' \in Roads /\ edition' = edition + 1
  /\ cost' = None \/ cost' \in Possible(road')

AnytimeSpec == AnytimeInit /\ [][Improve \/ Replan]_<<road, edition, cost>>
=============================================================================
