----------------------------- MODULE BracketPlay -----------------------------
(***************************************************************************)
(* A bracket played out with every possible result, to check what the      *)
(* seeding rules of Bracket guarantee whoever wins.  Seeds stand for the   *)
(* entrants; a round is the function from positions to the pair that meets *)
(* there.  The step is the round transition of                             *)
(* tournament_service._close_current_round, without votes and clock.       *)
(***************************************************************************)
EXTENDS Bracket

VARIABLES size, round, pairs

vars == <<size, round, pairs>>

Init ==
  /\ size \in BracketSizes
  /\ round = 1
  /\ pairs = [p \in 0..(MatchesIn(size, 1) - 1) |-> FirstRoundPair(size, p)]

\* Every match is decided at once; side[p] is the side that won at position p
PlayRound ==
  /\ round < TotalRounds(size)
  /\ \E side \in [DOMAIN pairs -> {1, 2}] :
       pairs' = [p \in 0..(MatchesIn(size, round + 1) - 1) |->
                   LET f == FeederPositions(p)
                   IN  <<pairs[f[1]][side[f[1]]], pairs[f[2]][side[f[2]]]>>]
  /\ round' = round + 1
  /\ UNCHANGED size

Next == PlayRound

Spec == Init /\ [][Next]_vars
-----------------------------------------------------------------------------
TypeOK ==
  /\ size \in BracketSizes
  /\ round \in 1..TotalRounds(size)
  /\ pairs \in [0..(MatchesIn(size, round) - 1) -> (1..size) \X (1..size)]

\* bracket.standard_seed_order promises that "the top seeds meet only late":
\* the best 2^k seeds cannot meet each other before the last k rounds, that
\* is, no match of a round is between two of the seeds that the later rounds
\* could all hold.
TopSeedsMeetLate ==
  LET stillToCome == size \div TwoToThe[round]   \* how many survive this round
  IN  \A p \in DOMAIN pairs :
        ~ (pairs[p][1] <= stillToCome /\ pairs[p][2] <= stillToCome)

\* Nobody is drawn twice and nobody still in the bracket is missing: the sides
\* of a round are pairwise different, and in round 1 they are all the seeds.
EverySeedOnce ==
  LET at(i) == pairs[i \div 2][(i % 2) + 1]
      slots == 0..(2 * MatchesIn(size, round) - 1)
  IN  /\ \A i, j \in slots : at(i) = at(j) => i = j
      /\ round = 1 => {at(i) : i \in slots} = 1..size

\* Both: whoever wins, the draw of every round is a fair one.
DrawIsFair == EverySeedOnce /\ TopSeedsMeetLate
=============================================================================
