---------------------------- MODULE MCDailyBattle ----------------------------
(* Two days, two battles, one user and one guest, two clicks in flight.   *)
EXTENDS DailyBattle, TLC

Symmetry ==
  Permutations(Ids) \cup Permutations(Pairs) \cup Permutations(Requests) \cup Permutations(Makers)
=============================================================================
