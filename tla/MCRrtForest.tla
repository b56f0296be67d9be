---------------------------- MODULE MCRrtForest ----------------------------
EXTENDS RrtForest, TLC

CONSTANTS a, b, c, d, e

MCNode == {a, b, c, d, e}

\* A corridor b next to the direct road a-c, and an objective behind c.
Free == {a, b} :> 1 @@ {b, c} :> 1 @@ {a, c} :> 4 @@ {c, d} :> 1 @@ {d, e} :> 1 @@ {c, e} :> 3

\* The corridor is closed at one end, and the road to d is slow.
Jam  == {b, c} :> 1 @@ {a, c} :> 4 @@ {c, d} :> 5 @@ {d, e} :> 1 @@ {c, e} :> 3

MCRoad == {Free, Jam}
ThreeRoots == (0 :> a) @@ (1 :> d) @@ (2 :> e)
=============================================================================
