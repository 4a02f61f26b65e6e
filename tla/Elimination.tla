----------------------------- MODULE Elimination -----------------------------
(***************************************************************************)
(* What a tournament battle promises, whoever closes its rounds and when:  *)
(* a bracket is drawn once, results only ever get added, every result is   *)
(* one of the two that met, and those who meet in a later round are the    *)
(* winners of the two matches that feed it.  Rounds may be played one at a *)
(* time or several at once.  The bracket may be withdrawn as a whole.      *)
(***************************************************************************)
EXTENDS Integers

CONSTANT Entrants

VARIABLES
  slots,   \* the matches of the bracket, <<round, position>>
  pair,    \* who meets, for the matches drawn so far
  won,     \* who won, for the matches decided so far
  gone     \* the bracket was withdrawn

vars == <<slots, pair, won, gone>>

Agrees(f, g) == \A s \in DOMAIN f : s \in DOMAIN g /\ g[s] = f[s]

\* Every result comes from the pair that met, and every later pair from the
\* results before it; a round is decided as a whole
Sound(p, w) ==
  /\ \A s \in DOMAIN w : s \in DOMAIN p /\ w[s] \in {p[s][1], p[s][2]}
  /\ \A s \in DOMAIN p :
       /\ p[s][1] \in Entrants /\ p[s][2] \in Entrants
       /\ s[1] > 1 =>
            LET f == <<s[1] - 1, 2 * s[2]>>
                g == <<s[1] - 1, 2 * s[2] + 1>>
            IN  /\ f \in DOMAIN w /\ g \in DOMAIN w
                /\ p[s] = <<w[f], w[g]>>
  /\ \A s \in DOMAIN w, t \in DOMAIN p : t[1] <= s[1] => t \in DOMAIN w

Init == slots = {} /\ DOMAIN pair = {} /\ DOMAIN won = {} /\ gone = FALSE

\* Round 1 is drawn: everyone in it is there once
Draw ==
  /\ slots = {} /\ ~gone /\ ~gone'
  /\ DOMAIN pair' = {s \in slots' : s[1] = 1} /\ DOMAIN won' = {}
  /\ \A s, t \in DOMAIN pair' : \A i, j \in {1, 2} :
       pair'[s][i] = pair'[t][j] => s = t /\ i = j
  /\ Sound(pair', won')

Play ==
  /\ slots' = slots /\ ~gone /\ ~gone'
  /\ DOMAIN won # DOMAIN won'
  /\ Agrees(pair, pair') /\ Agrees(won, won')
  /\ DOMAIN pair' \subseteq slots
  /\ Sound(pair', won')

Withdraw ==
  /\ gone' = TRUE
  /\ slots' = {} /\ DOMAIN pair' = {} /\ DOMAIN won' = {}

Next == Draw \/ Play \/ Withdraw

Spec == Init /\ [][Next]_vars
=============================================================================
