---------------------------- MODULE MCDemoServer ----------------------------
(* Two maps: "city" has junctions 1 to 3, "trap" only 1 and 2.                *)
EXTENDS DemoServer, TLC

CONSTANTS c1, c2

MCNode == {1, 2, 3}
MCNodesOf == [m \in Map |-> IF m = "trap" THEN {1, 2} ELSE MCNode]
Go(s, t) == [source |-> s, objectives |-> {}, target |-> t]
MCSpread == [m \in Map |-> IF m = "trap" THEN Go(1, 2) ELSE Go(1, 3)]
MCRequests == {Go(1, 3)}
MCClient == {c1, c2}
ClientSymmetry == Permutations(MCClient)
MCPositions == {2}
=============================================================================
