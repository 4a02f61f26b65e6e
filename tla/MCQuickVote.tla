----------------------------- MODULE MCQuickVote -----------------------------
(* Two titles, whose ids are 1 and 2; users and requests are alike.       *)
EXTENDS QuickVote, TLC

Symmetry == Permutations(Users) \cup Permutations(Requests)
=============================================================================
