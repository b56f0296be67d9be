----------------------------- MODULE MCBaselines -----------------------------
EXTENDS Baselines

Roads(places, pairs) ==
  [size |-> Cardinality(DOMAIN places), place |-> places,
   weight |-> [e \in pairs \cup {<<p[2], p[1]>> : p \in pairs} |->
                 Straight(places[e[1]], places[e[2]])]]

\* From 0 to 1 there is a road that first leads towards 1 and then far around, and a
\* shorter one that first leads away; 1 and 2 lie next to each other.
Detour == Roads((0 :> <<1, 0>> @@ 1 :> <<4, 0>> @@ 2 :> <<5, 0>> @@ 3 :> <<2, 0>>
                 @@ 4 :> <<4, 5>> @@ 5 :> <<0, 1>>),
                {<<0, 3>>, <<3, 4>>, <<4, 1>>, <<0, 5>>, <<5, 1>>, <<1, 2>>, <<4, 2>>})

\* The long and the short way between two destinations meet again before the goal.
Rejoin == Roads((0 :> <<0, 0>> @@ 1 :> <<6, 0>> @@ 2 :> <<0, 1>> @@ 3 :> <<3, 3>> @@ 4 :> <<4, 0>>),
                {<<0, 3>>, <<3, 4>>, <<0, 2>>, <<2, 4>>, <<4, 1>>})

\* No road leads to destination 1.
Apart == Roads((0 :> <<0, 0>> @@ 1 :> <<3, 0>> @@ 2 :> <<2, 0>> @@ 3 :> <<1, 1>>),
               {<<0, 3>>, <<3, 2>>, <<0, 2>>})

MCMap == {Detour, Rejoin, Apart}
MCStop == (0 :> 0 @@ 1 :> 1 @@ 2 :> 2)

\* Four destinations along one road.
Along == {Roads((0 :> <<0, 0>> @@ 1 :> <<1, 0>> @@ 2 :> <<2, 0>> @@ 3 :> <<3, 0>>),
                {<<0, 1>>, <<1, 2>>, <<2, 3>>})}
FourStops == (0 :> 0 @@ 1 :> 1 @@ 2 :> 2 @@ 3 :> 3)

=============================================================================
