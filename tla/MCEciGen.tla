------------------------------ MODULE MCEciGen ------------------------------
(* Distance matrices as the planners have them while trees connect.         *)
EXTENDS EciGen

\* A matrix from the weights of some unordered pairs.
Matrix(n, w) ==
  [size |-> n,
   weight |-> [e \in {e \in (0..(n - 1)) \X (0..(n - 1)) : {e[1], e[2]} \in DOMAIN w} |-> w[{e[1], e[2]}]]]

Pairs(n) == {p \in SUBSET (0..(n - 1)) : Cardinality(p) = 2}

Connected(m) == LET d == Distances(m.size, m.weight) IN \A e \in DOMAIN d : d[e] < Far

\* All connected matrices of four destinations over two lengths.
Small == {m \in {Matrix(4, w) : w \in UNION {[P -> {1, 4}] : P \in SUBSET Pairs(4)}} : Connected(m)}

\* Matrices of five around a hub, where tours revisit it and swaps pay.
Hubs == {Matrix(5, [p \in {{0, i} : i \in 1..4} |-> 2] @@ [p \in P |-> 1]) :
           P \in SUBSET {p \in Pairs(5) : 0 \notin p}}

\* A square with diagonals and one without, and a chain of cheap links with a dear one at its end.
Square == Matrix(4, [p \in Pairs(4) |-> IF p \in {{0, 2}, {1, 3}} THEN 11 ELSE 10])
Ring == Matrix(4, [p \in {{0, 1}, {1, 2}, {2, 3}, {0, 3}} |-> 1])
Chain == Matrix(4, [p \in {{0, 1}, {1, 2}, {0, 3}} |-> 1] @@ ({2, 3} :> 100))

\* Many tours of nearly the same length, without and with revisits.
Full == Matrix(5, [p \in Pairs(5) |-> IF p \in {{0, 1}, {1, 2}} THEN 21 ELSE IF p = {2, 4} THEN 29 ELSE 20])
Star == Matrix(4, [p \in {{0, 1}, {0, 2}, {0, 3}} |-> 1])

\* The matrix of tests/correctness_oracle.rs.
Oracle == Matrix(5, [p \in {{0, 1}, {1, 2}, {2, 3}, {3, 4}} |-> 2]
            @@ [p \in {{0, 2}, {0, 3}, {1, 4}} |-> 9] @@ [p \in {{1, 3}, {2, 4}} |-> 8]
            @@ ({0, 4} :> 20))

Settings(shortcut, swapping, genetic) ==
  [shortcut : shortcut, swapping : swapping, genetic : genetic]

MCProblem ==
  [matrix : Small, settings : Settings(BOOLEAN, BOOLEAN, {FALSE})]
    \cup [matrix : Hubs, settings : Settings(BOOLEAN, {TRUE}, {FALSE})]
    \cup [matrix : {Square, Chain, Ring, Star, Full, Oracle}, settings : Settings(BOOLEAN, {TRUE}, {TRUE})]

=============================================================================
