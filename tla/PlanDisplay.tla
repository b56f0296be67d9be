---------------------------- MODULE PlanDisplay ----------------------------
(***************************************************************************)
(* What a navigation session promises about the one plan it shows, without *)
(* lanes, channels, revisions or a planner.  The plan belongs to the trip  *)
(* it was computed for; while it is trusted it is only replaced by a plan  *)
(* that is cheaper by more than Eps; a new trip takes it off the screen,   *)
(* new traffic leaves it there without trust.                              *)
(***************************************************************************)
EXTENDS Naturals

CONSTANTS Trips, Plans, Eps, None

VARIABLES
  trip,       \* what the client asked for last
  served,     \* whether the search that is running accepted that trip
  shown,      \* the plan on the screen
  trusted     \* whether its cost was found after the last trip or traffic event

displayVars == <<trip, served, shown, trusted>>

DisplayInit == trip = None /\ served = FALSE /\ shown = None /\ trusted = FALSE

\* Destinations or the vehicle's position change.
Restart ==
  /\ trip' \in Trips
  /\ served' \in BOOLEAN
  /\ shown' = None /\ trusted' = FALSE

\* The weights change under the plan.
Distrust == trusted' = FALSE /\ UNCHANGED <<trip, served, shown>>

Show ==
  /\ trip # None
  /\ shown' \in Plans
  /\ served => shown'.trip = trip
  /\ trusted => shown # None /\ shown'.cost + Eps < shown.cost
  /\ trusted' = TRUE
  /\ UNCHANGED <<trip, served>>

DisplayNext == Restart \/ Distrust \/ Show

DisplaySpec == DisplayInit /\ [][DisplayNext]_displayVars
=============================================================================
