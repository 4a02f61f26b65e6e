----------------------------- MODULE MCTournament -----------------------------
(* Small instances of Tournament: a bracket of four.                       *)
EXTENDS Tournament, TLC

CONSTANTS e1, e2, e3, e4, u1, u2, q1, q2

\* The full list in one order, and a shorter list
List4 == e1 :> 1 @@ e2 :> 2 @@ e3 :> 3 @@ e4 :> 4
List3 == e1 :> 3 @@ e2 :> 2 @@ e3 :> 1 @@ e4 :> 0
MCEntryLists == {List4, List3}

\* Every order of the four titles: closed under permuting them, so that the
\* symmetry is sound
MCAllOrders == {sd \in [Entities -> 1..4] : IsInjective(sd)}

Symmetry == Permutations(Entities) \cup Permutations(Requests)
=============================================================================
