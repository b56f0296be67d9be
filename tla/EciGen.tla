------------------------------- MODULE EciGen -------------------------------
(***************************************************************************)
(* The relaxed TSP solver (rtsp/eci_gen.rs): a shortest path from source   *)
(* to target, cheapest insertion of the destinations it misses, shortcuts, *)
(* and a genetic search; with the brute-force solver of rtsp/greedy.rs to  *)
(* compare with.                                                           *)
(*                                                                         *)
(* Destinations are 0..size-1, the source is 0 and the target the last.  A *)
(* distance matrix is a network: the weight of each finite entry off the   *)
(* diagonal.  Random choices are left open, and so are those that follow   *)
(* the order of a hash set or of equal elements of a heap.                 *)
(***************************************************************************)
EXTENDS BruteForce

CONSTANTS
  Problem,       \* the [matrix, settings] the solver is given
  MutationIter,  \* ga.mutation_iter
  Population,    \* ga.population
  Generation     \* ga.generation

Setting == [shortcut : BOOLEAN, swapping : BOOLEAN, genetic : BOOLEAN]

\* The planners ask once all destinations are connected; before that insertion would
\* not end (min_insert_cost stays infinite) and a target out of reach has no parent.
ASSUME ProblemAssumption ==
  \A p \in Problem :
    /\ p.settings \in Setting /\ p.matrix.size \in Nat \ {0, 1}
    /\ \A e \in DOMAIN p.matrix.weight :
         /\ e \in (0..(p.matrix.size - 1)) \X (0..(p.matrix.size - 1)) /\ e[1] # e[2]
         /\ <<e[2], e[1]>> \in DOMAIN p.matrix.weight
         /\ p.matrix.weight[e] \in Nat /\ p.matrix.weight[<<e[2], e[1]>>] = p.matrix.weight[e]
    /\ LET d == Distances(p.matrix.size, p.matrix.weight)
       IN  \A e \in DOMAIN d : d[e] < Far

ASSUME BoundAssumption == {MutationIter, Population, Generation} \subseteq Nat

VARIABLES
  matrix, settings,  \* the problem
  phase,             \* "insert", "mutate", "breed" or "done"
  tour,              \* sequence_best_insertion, then sequence_rtsp
  cost,              \* total_cost, then min_path_cost
  missing,           \* not_visited
  chromosomes,       \* the generation parents are taken from
  offsprings,        \* the next generation
  generation

vars == <<matrix, settings, phase, tour, cost, missing, chromosomes, offsprings, generation>>

-----------------------------------------------------------------------------
Target == matrix.size - 1
Stops == 0..Target

\* The finite entries of the matrix, its diagonal of zeros included.
Entry ==
  [e \in {<<a, a>> : a \in Stops} \cup DOMAIN matrix.weight |->
     IF e[1] = e[2] THEN 0 ELSE matrix.weight[e]]

\* calculate_path_cost
PathCost(s) == Length(Entry, s)
Finite(s) == IsWalk(Entry, s)

-----------------------------------------------------------------------------
(* Cheapest insertion of x between left = s[k] and right = s[k + 1]         *)

\* swapping may exchange left with the stop before it, right with the one after it.
Way == [kind : {"revisit"}, left : {FALSE}, right : {FALSE}]
         \cup [kind : {"sequence"}, left : BOOLEAN, right : BOOLEAN]

Fits(s, k, w) ==
  /\ w.kind = "sequence" => k < Len(s)
  /\ w.left => settings.swapping /\ k > 2
  /\ w.right => settings.swapping /\ k + 3 <= Len(s)

\* Faulty variant: a revisit is charged one way only.
OneWay(s, k, x, w) ==
  IF w.kind = "revisit" THEN <<<<x, s[k]>>>> ELSE <<<<s[k], x>>, <<x, s[k + 1]>>>>

Added(s, k, x, w) ==
  IF w.kind = "revisit" THEN <<<<x, s[k]>>, <<x, s[k]>>>>
  ELSE (IF w.left THEN <<<<s[k - 1], x>>, <<s[k - 2], s[k]>>>> ELSE <<<<s[k], x>>>>)
    \o (IF w.right THEN <<<<s[k + 2], x>>, <<s[k + 3], s[k + 1]>>>> ELSE <<<<x, s[k + 1]>>>>)

\* Faulty variant: a swap forgets the leg it breaks up.
OuterLegStays(s, k, w) ==
  IF w.kind = "revisit" THEN <<>> ELSE <<<<s[k], s[k + 1]>>>>

Removed(s, k, w) ==
  IF w.kind = "revisit" THEN <<>>
  ELSE <<<<s[k], s[k + 1]>>>>
    \o (IF w.left THEN <<<<s[k - 2], s[k - 1]>>>> ELSE <<>>)
    \o (IF w.right THEN <<<<s[k + 3], s[k + 2]>>>> ELSE <<>>)

\* insert_revisit, insert_sequence and its three variants with swaps.
Inserted(s, k, x, w) ==
  IF w.kind = "revisit" THEN SubSeq(s, 1, k) \o <<x>> \o SubSeq(s, k, Len(s))
  ELSE LET l == IF w.left THEN [s EXCEPT ![k - 1] = s[k], ![k] = s[k - 1]] ELSE s
           r == IF w.right THEN [l EXCEPT ![k + 1] = s[k + 2], ![k + 2] = s[k + 1]] ELSE l
       IN  InsertAt(r, k + 1, x)

\* best_insertion: all places and ways x can go in.
Insertions(x) ==
  LET rank(w) == IF w.kind = "revisit" THEN 1
                 ELSE 2 + (IF w.left THEN 1 ELSE 0) + (IF w.right THEN 2 ELSE 0)
  IN  {[id |-> x, at |-> c[1], way |-> c[2], rank |-> rank(c[2]),
        cost |-> Total(Entry, Added(tour, c[1], x, c[2])) - Total(Entry, Removed(tour, c[1], c[2]))] :
         c \in {c \in (DOMAIN tour) \X Way :
                  Fits(tour, c[1], c[2]) /\ ToSet(Added(tour, c[1], x, c[2])) \subseteq DOMAIN Entry}}

Before(i, j) ==
  \/ i.cost < j.cost
  \/ i.cost = j.cost /\ (i.at < j.at \/ (i.at = j.at /\ i.rank < j.rank))

\* One turn's choice: the cheapest of the stops that can be inserted.
BestInsertions ==
  LET first(x) == CHOOSE i \in Insertions(x) : \A j \in Insertions(x) \ {i} : Before(i, j)
      best == {first(x) : x \in {x \in missing : Insertions(x) # {}}}
  IN  {i \in best : \A j \in best : i.cost <= j.cost}

-----------------------------------------------------------------------------
(* Shortcuts: refine_sequence leaves out repeated stops                     *)

\* Faulty variant: the jump does not look whether the stops passed over come again.
AheadBlindly(s, out, i) ==
  LET goal == {j \in (i + 2)..Len(s) : s[j] \notin ToSet(out) /\ <<Last(out), s[j]>> \in DOMAIN Entry}
  IN  IF goal = {} THEN i ELSE CHOOSE j \in goal : \A m \in goal : j <= m

\* From a stop visited before, look ahead while the next one has no link from the last
\* stop kept, and is visited or comes again; jump to the first new one that has.
Ahead(s, out, i) ==
  LET pass(j) == /\ <<Last(out), s[j]>> \notin DOMAIN Entry
                 /\ s[j] \in ToSet(out) \/ \E m \in (j + 1)..Len(s) : s[m] = s[j]
      goal == {j \in (i + 2)..Len(s) :
                 /\ s[j] \notin ToSet(out) /\ <<Last(out), s[j]>> \in DOMAIN Entry
                 /\ \A m \in (i + 1)..(j - 1) : pass(m)}
  IN  IF goal = {} THEN i ELSE CHOOSE j \in goal : \A m \in goal : j <= m

Refined(s) ==
  LET step[n \in 0..Len(s)] ==
        IF n = 0 THEN [at |-> 1, out |-> <<>>]
        ELSE LET q == step[n - 1]
                 item == s[q.at]
                 jump == Ahead(s, q.out, q.at)
             IN  CASE q.at >= Len(s) -> q
                   [] q.at < Len(s) /\ item \notin ToSet(q.out) ->
                        [at |-> q.at + 1, out |-> Append(q.out, item)]
                   [] q.at < Len(s) /\ item \in ToSet(q.out) /\ jump # q.at ->
                        [at |-> jump + 1, out |-> Append(q.out, s[jump])]
                   [] OTHER ->
                        [at |-> q.at + 1,
                         out |-> IF Last(q.out) = item THEN q.out ELSE Append(q.out, item)]
      out == step[Len(s)].out
  IN  IF Last(out) = Last(s) THEN out ELSE Append(out, Last(s))

\* Faulty variant: sequences are never refined.
NoShortcut(s) == s

\* apply_shortcut
Shortcut(s) == IF settings.shortcut /\ Len(s) > matrix.size THEN Refined(s) ELSE s

-----------------------------------------------------------------------------
(* The genetic search                                                       *)

Slices(n, m) == {c \in [1..n -> 1..m] : \A i \in 1..(n - 1) : c[i] <= c[i + 1]}

\* generate_chromosomes: three middle parts, each possibly reversed, in another order.
Mutants(s) ==
  UNION {LET part == [i \in 1..3 |-> SubSeq(s, c[i] + 1, c[i + 1])]
         IN  {SubSeq(s, 1, c[1]) \o flip[o[1]] \o flip[o[2]] \o flip[o[3]]
                \o SubSeq(s, c[4] + 1, Len(s)) :
                flip \in {f \in [1..3 -> {part[1], part[2], part[3],
                                          Reverse(part[1]), Reverse(part[2]), Reverse(part[3])}] :
                            \A i \in 1..3 : f[i] \in {part[i], Reverse(part[i])}},
                o \in SetToSeqs(1..3) \ {<<1, 2, 3>>}} : c \in Slices(4, Len(s) - 1)}

\* The stops of s that are not in T, in their order.
Without(s, T) ==
  LET upTo[k \in 0..Len(s)] ==
        IF k = 0 THEN <<>>
        ELSE IF s[k] \in T THEN upTo[k - 1] ELSE Append(upTo[k - 1], s[k])
  IN  upTo[Len(s)]

\* A slice of parent a among the inner stops of parent b that are not in it.
Bred(a, b) ==
  UNION {LET slice == SubSeq(a, c[1] + 1, c[2])
             longer == IF Len(a) > Len(b) THEN Len(a) ELSE Len(b)
             rest == Without(SubSeq(b, 2, Len(b) - 1), ToSet(slice))
             most == longer - c[2] + c[1] - 2
             bred == {<<0>> \o SubSeq(rest, 1, m) \o middle \o SubSeq(rest, m + 1, Len(rest)) :
                        m \in {m \in 0..Len(rest) : m <= most}, middle \in {slice, Reverse(slice)}}
         IN  {IF Last(s) = Target THEN s ELSE Append(s, Target) : s \in bred} :
           c \in Slices(2, Len(a) - 1)}

\* Faulty variant: twice the cost of the best is good enough.
KeptLoosely(s) == Finite(s) /\ PathCost(s) <= 2 * cost /\ s \notin ToSet(offsprings)

\* A new sequence at most a tenth dearer than the best; the hash table is abstracted to
\* the sequences kept.
Kept(s) == Finite(s) /\ 10 * PathCost(s) <= 11 * cost /\ s \notin ToSet(offsprings)

\* What a generation leaves in sequence_rtsp and min_path_cost: the first cheapest one if
\* it is better than the best, else the best's cost with the first one's sequence.
Champion ==
  LET better == {i \in DOMAIN offsprings :
                   /\ PathCost(offsprings[i]) < cost
                   /\ \A j \in DOMAIN offsprings : PathCost(offsprings[i]) <= PathCost(offsprings[j])}
      i == IF better = {} THEN 1 ELSE CHOOSE i \in better : \A j \in better : i <= j
  IN  [tour |-> offsprings[i], cost |-> IF better = {} THEN cost ELSE PathCost(offsprings[i])]

-----------------------------------------------------------------------------
\* solve_dijkstra_internal: one of the shortest sequences to the target.
StartTours(m) ==
  LET all == {<<0>> \o s \o <<m.size - 1>> :
                s \in UNION {SetToSeqs(S) : S \in SUBSET (1..(m.size - 2))}}
      ways == {s \in all : IsWalk(m.weight, s)}
  IN  {s \in ways : \A t \in ways : Length(m.weight, s) <= Length(m.weight, t)}

Init ==
  /\ \E p \in Problem : matrix = p.matrix /\ settings = p.settings
  /\ tour \in StartTours(matrix)
  /\ cost = PathCost(tour)
  /\ missing = Stops \ ToSet(tour)
  /\ phase = "insert" /\ chromosomes = <<>> /\ offsprings = <<>> /\ generation = 0

\* One turn of solve_best_insertion.
Insert(i) ==
  /\ phase = "insert"
  /\ tour' = Inserted(tour, i.at, i.id, i.way) /\ cost' = cost + i.cost
  /\ missing' = missing \ {i.id}
  /\ UNCHANGED <<matrix, settings, phase, chromosomes, offsprings, generation>>

\* The end of solve_best_insertion; the cost stays what the insertions added up to.
EndInsertion ==
  /\ phase = "insert" /\ missing = {}
  /\ tour' = Shortcut(tour)
  /\ phase' = IF settings.genetic THEN "mutate" ELSE "done"
  /\ UNCHANGED <<matrix, settings, cost, missing, chromosomes, offsprings, generation>>

\* Turns that keep nothing change nothing.
Mutate(s) ==
  /\ phase = "mutate" /\ Len(offsprings) < MutationIter
  /\ Kept(Shortcut(s))
  /\ offsprings' = Append(offsprings, Shortcut(s))
  /\ UNCHANGED <<matrix, settings, phase, tour, cost, missing, chromosomes, generation>>

Breed(s) ==
  /\ phase = "breed" /\ Len(offsprings) < Population
  /\ Kept(Shortcut(s))
  /\ offsprings' = Append(offsprings, Shortcut(s))
  /\ UNCHANGED <<matrix, settings, phase, tour, cost, missing, chromosomes, generation>>

\* Fewer than two parents end the search.
SearchEnds(g) == Len(offsprings) < 2 \/ g = Generation

\* The end of generate_chromosomes or of a generation.
EndGeneration ==
  /\ phase \in {"mutate", "breed"}
  /\ chromosomes' = offsprings /\ offsprings' = <<>>
  /\ generation' = IF phase = "breed" THEN generation + 1 ELSE generation
  /\ IF offsprings = <<>> THEN UNCHANGED <<tour, cost>>
     ELSE tour' = Champion.tour /\ cost' = Champion.cost
  /\ phase' = IF SearchEnds(generation') THEN "done" ELSE "breed"
  /\ UNCHANGED <<matrix, settings, missing>>

Next ==
  \/ \E i \in BestInsertions : Insert(i)
  \/ EndInsertion
  \/ phase = "mutate" /\ \E s \in Mutants(tour) : Mutate(s)
  \/ phase = "breed" /\ \E a, b \in ToSet(chromosomes) : \E s \in Bred(a, b) : Breed(s)
  \/ EndGeneration

Spec == Init /\ [][Next]_vars

-----------------------------------------------------------------------------
(* Properties                                                               *)

\* Insertions, swaps, shortcuts, mutations and crossovers lose no destination and use no
\* link that does not exist: every sequence leads from source to target over finite links
\* and, once nothing is missing, past every destination.
TourComplete ==
  /\ cost \in Nat /\ missing \subseteq Stops /\ generation \in 0..Generation
  /\ \A s \in {tour} \cup ToSet(chromosomes) \cup ToSet(offsprings) :
       /\ Head(s) = 0 /\ Last(s) = Target /\ Finite(s)
       /\ ToSet(s) = Stops \ missing

\* While stops are inserted the cost added up from the differences is that of the tour.
InsertionCostIsLength == phase = "insert" => cost = PathCost(tour)

\* The answer's cost can be had: no tour past all destinations is shorter.
CostIsPossible ==
  phase # "insert" =>
    cost >= BestTour(Distances(matrix.size, matrix.weight), 0, Stops \ {0, Target}, Target)

\* When no shortcut changed it after its cost was added up, or once a generation was
\* kept, the sequence in hand is at most a tenth dearer than the cost that goes with it.
AnswerWithinTenth ==
  (phase # "insert" /\ (~settings.shortcut \/ chromosomes # <<>>)) => 10 * PathCost(tour) <= 11 * cost

\* With shortcuts, or without swaps and mutations, the answer has no leg from a stop to
\* itself, which the planner cannot turn into a road path.
AnswerMoves ==
  phase = "done" /\ (settings.shortcut \/ ~(settings.swapping \/ settings.genetic)) =>
    \A k \in DOMAIN Legs(tour) : Legs(tour)[k][1] # Legs(tour)[k][2]

\* The brute-force solver answers a walk past all destinations of the length it states,
\* never shorter than possible, and a shortest one if no finite entry of the matrix is
\* longer than a way around.
BruteForceIsOptimum ==
  phase = "insert" /\ matrix.size > 2 =>
    LET d == Distances(matrix.size, matrix.weight)
        best == BestTour(d, 0, Stops \ {0, Target}, Target)
    IN  /\ BruteForce(matrix) # {}
        /\ \A a \in BruteForce(matrix) :
          /\ IsWalk(matrix.weight, a.path) /\ Length(matrix.weight, a.path) = a.cost
          /\ Head(a.path) = 0 /\ Last(a.path) = Target /\ ToSet(a.path) = Stops
          /\ a.cost >= best
          /\ (\A e \in DOMAIN matrix.weight : matrix.weight[e] = d[e]) => a.cost = best

=============================================================================
