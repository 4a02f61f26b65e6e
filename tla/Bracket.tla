------------------------------- MODULE Bracket -------------------------------
(***************************************************************************)
(* The pure rules of an elimination bracket                                *)
(* (src/app/modules/battles/bracket.py).  Bracket sizes are 4, 8 and 16,   *)
(* seeds are 1-based, match positions 0-based.  The doubling loop of       *)
(* standard_seed_order is unrolled: it runs at most three times.           *)
(***************************************************************************)
EXTENDS Integers, FiniteSets

BracketSizes == {4, 8, 16}

TotalRounds(size) == CASE size = 4 -> 2 [] size = 8 -> 3 [] size = 16 -> 4

MaxRounds == 4

\* bracket_size >> rnd: how many matches the round has
TwoToThe == <<2, 4, 8, 16>>
MatchesIn(size, rnd) == size \div TwoToThe[rnd]

\* Mutant of Doubled: the opponent is one too far down
DoubledOffByOne(order, n) ==
  [i \in 1..(2 * n) |->
     IF i % 2 = 1 THEN order[(i + 1) \div 2] ELSE 2 * n + 2 - order[i \div 2]]

\* Mutant of Doubled: seeds in plain order, 1 meets 2
DoubledInOrder(order, n) == [i \in 1..(2 * n) |-> i]

\* One pass of the loop: seed s is followed by its opponent 2n + 1 - s
Doubled(order, n) ==
  [i \in 1..(2 * n) |->
     IF i % 2 = 1 THEN order[(i + 1) \div 2] ELSE 2 * n + 1 - order[i \div 2]]

Order2 == [i \in 1..2 |-> i]
Order4 == Doubled(Order2, 2)
Order8 == Doubled(Order4, 4)
Order16 == Doubled(Order8, 8)

StandardSeedOrder(size) ==
  CASE size = 4 -> Order4 [] size = 8 -> Order8 [] size = 16 -> Order16

\* The two seeds that meet in round 1 at a position
FirstRoundPair(size, pos) ==
  <<StandardSeedOrder(size)[2 * pos + 1], StandardSeedOrder(size)[2 * pos + 2]>>

\* Mutant of PickWinner: fewer votes wins
PickLoser(a, b, votesA, votesB, seedA, seedB) ==
  IF votesA # votesB
  THEN IF votesA < votesB THEN a ELSE b
  ELSE IF seedA < seedB THEN a ELSE b

\* More votes wins; a tie (0-0 too) goes to the lower seed number
PickWinner(a, b, votesA, votesB, seedA, seedB) ==
  IF votesA # votesB
  THEN IF votesA > votesB THEN a ELSE b
  ELSE IF seedA < seedB THEN a ELSE b

\* Mutant of FeederPositions: the position is not doubled
NeighbourPositions(pos) == <<pos, pos + 1>>

FeederPositions(pos) == <<2 * pos, 2 * pos + 1>>
=============================================================================
