----------------------------- MODULE MCTourLanes -----------------------------
(* Networks from the three loaders, and trips over them.                    *)
EXTENDS TourLanes

Metres(n) == [e \in (1..n) \X (1..n) |-> IF e[1] = e[2] THEN 0 ELSE ((e[1] * e[2]) % 5) + 1]

\* A way that turns back at its end node, which it names twice, one past a node the
\* file does not know, and one the filter leaves out.
Town == [kind |-> "osm", known |-> {11, 12, 13, 14},
         filter |-> [keys |-> {"highway"}, values |-> {"service"}],
         ways |-> {[refs |-> <<14, 11, 12, 12, 13>>, tags |-> {<<"highway", "primary">>}],
                   [refs |-> <<11, 19, 13>>, tags |-> {<<"access", "service">>}],
                   [refs |-> <<13, 14>>, tags |-> {<<"access", "service">>}],
                   [refs |-> <<12, 14>>, tags |-> {<<"waterway", "river">>}]},
         metres |-> [e \in (11..14) \X (11..14) |-> Metres(4)[e[1] - 10, e[2] - 10]]]

\* A triangle with a road to a fourth node, and a loop that is left out.
Sketch == [kind |-> "custom", size |-> 4,
           pairs |-> {<<0, 1>>, <<2, 1>>, <<0, 2>>, <<2, 3>>, <<3, 3>>},
           metres |-> [e \in (0..3) \X (0..3) |-> Metres(4)[e[1] + 1, e[2] + 1]]]

\* Two roads between the same nodes and a node with no road.
Listed == [kind |-> "list", size |-> 4,
           edges |-> <<<<0, 1, 9>>, <<1, 2, 2>>, <<1, 0, 1>>, <<0, 2, 4>>>>]

MCBase == {Network(Town), Network(Sketch), Network(Listed)}

MCTrip == {[source |-> 0, objectives |-> <<>>, target |-> 2],
           [source |-> 0, objectives |-> <<2, 1>>, target |-> 3],
           [source |-> 1, objectives |-> <<3, 0>>, target |-> 1],
           [source |-> 0, objectives |-> <<1, 2, 1>>, target |-> 0],
           \* Nodes no network has: one on its own, and one among others.
           [source |-> 9, objectives |-> <<9>>, target |-> 9],
           [source |-> 0, objectives |-> <<9>>, target |-> 2]}

=============================================================================
