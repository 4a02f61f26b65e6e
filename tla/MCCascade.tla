----------------------------- MODULE MCCascade -----------------------------
(* A bracket of four whose titles may be deleted.                         *)
EXTENDS TournamentCascade, TLC

CONSTANTS e1, e2, e3, e4, u1, u2, q1

\* The titles in one order.  Any other order only renames them, and with
\* fewer titles than places a draft is never published.
List4 == e1 :> 1 @@ e2 :> 2 @@ e3 :> 3 @@ e4 :> 4
MCEntryLists == {List4}
=============================================================================
