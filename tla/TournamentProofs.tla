--------------------------- MODULE TournamentProofs ---------------------------
(***************************************************************************)
(* Tournament and TournamentCascade, for every bracket size, every set of  *)
(* titles and voters and any number of management calls in flight.  First  *)
(* types, the order of the rounds and the votes.  Then who stands where:   *)
(* Tournament implements Elimination, its champion won every round, a      *)
(* battle under one call at a time never sticks, and deleting titles       *)
(* promotes nobody; all of that rests on one fact about the rows: whoever  *)
(* stands in a later round won the match that feeds it.  The last part     *)
(* counts the Elo points the matches move.                                 *)
(***************************************************************************)
EXTENDS TournamentCascade, FiniteSetTheorems, TLAPS

-----------------------------------------------------------------------------
(* The bracket *)

\* Doubling an order of n seeds gives an order of 2n seeds
\* (bracket.standard_seed_order).
LEMMA DoubledType ==
  ASSUME NEW n \in Nat, NEW order \in [1..n -> 1..n]
  PROVE  Doubled(order, n) \in [1..(2 * n) -> 1..(2 * n)]
<1> SUFFICES ASSUME NEW i \in 1..(2 * n)
             PROVE  (IF i % 2 = 1 THEN order[(i + 1) \div 2]
                     ELSE 2 * n + 1 - order[i \div 2]) \in 1..(2 * n)
  BY DEF Doubled
<1>1. CASE i % 2 = 1
  <2>1. (i + 1) \div 2 \in 1..n
    BY <1>1
  <2>2. order[(i + 1) \div 2] \in 1..n
    BY <2>1
  <2> QED
    BY <1>1, <2>2
<1>2. CASE i % 2 # 1
  <2>1. i \div 2 \in 1..n
    BY <1>2
  <2>2. order[i \div 2] \in 1..n /\ order[i \div 2] \in Nat
    BY <2>1
  <2>3. 2 * n + 1 - order[i \div 2] \in 1..(2 * n)
    <3> DEFINE o == order[i \div 2]
    <3>1. o \in 1..n
      BY <2>2
    <3> HIDE DEF o
    <3>2. 2 * n + 1 - o \in 1..(2 * n)
      BY <3>1
    <3> QED
      BY <3>2 DEF o
  <2> QED
    BY <1>2, <2>3
<1> QED
  BY <1>1, <1>2

LEMMA SeedOrderType ==
  ASSUME NEW size \in BracketSizes
  PROVE  StandardSeedOrder(size) \in [1..size -> 1..size]
<1>2. Order2 \in [1..2 -> 1..2]
  BY DEF Order2
<1>4. Order4 \in [1..4 -> 1..4]
  <2>1. Doubled(Order2, 2) \in [1..(2 * 2) -> 1..(2 * 2)]
    BY <1>2, DoubledType
  <2> QED
    BY <2>1 DEF Order4
<1>8. Order8 \in [1..8 -> 1..8]
  <2>1. Doubled(Order4, 4) \in [1..(2 * 4) -> 1..(2 * 4)]
    BY <1>4, DoubledType
  <2> QED
    BY <2>1 DEF Order8
<1>16. Order16 \in [1..16 -> 1..16]
  <2>1. Doubled(Order8, 8) \in [1..(2 * 8) -> 1..(2 * 8)]
    BY <1>8, DoubledType
  <2> QED
    BY <2>1 DEF Order16
<1> QED
  BY <1>4, <1>8, <1>16 DEF StandardSeedOrder, BracketSizes

\* Both sides of a first-round match are seeds of the bracket
LEMMA FirstRoundPairType ==
  ASSUME NEW size \in BracketSizes, NEW pos \in Nat, pos < MatchesIn(size, 1)
  PROVE  /\ FirstRoundPair(size, pos)[1] \in 1..size
         /\ FirstRoundPair(size, pos)[2] \in 1..size
<1>1. 2 * pos + 1 \in 1..size /\ 2 * pos + 2 \in 1..size
  BY DEF MatchesIn, TwoToThe, BracketSizes
<1> QED
  BY <1>1, SeedOrderType DEF FirstRoundPair

LEMMA TotalRoundsType ==
  ASSUME NEW size \in BracketSizes
  PROVE  TotalRounds(size) \in 2..MaxRounds
BY DEF TotalRounds, BracketSizes, MaxRounds
-----------------------------------------------------------------------------
(* Seedings *)

\* A seeding numbers its entries 1, 2, ... without a gap
LEMMA SeedingCovers ==
  ASSUME NEW sd, IsSeeding(sd), NEW size \in BracketSizes, Cardinality(Ranked(sd)) = size
  PROVE  \A i \in 1..size : \E e \in Entities : sd[e] = i
<1>1. PICK n \in 0..16 : /\ \A i \in 1..n : \E e \in Entities : sd[e] = i
                         /\ \A e \in Entities : sd[e] <= n
  BY DEF IsSeeding
<1> DEFINE f == [i \in 1..n |-> CHOOSE e \in Entities : sd[e] = i]
<1>2. \A i \in 1..n : f[i] \in Ranked(sd) /\ sd[f[i]] = i
  BY <1>1 DEF Ranked
<1>3. f \in Bijection(1..n, Ranked(sd))
  <2>1. f \in [1..n -> Ranked(sd)]
    BY <1>2
  <2>2. \A i, j \in 1..n : f[i] = f[j] => i = j
    BY <1>2
  <2>3. \A e \in Ranked(sd) : \E i \in 1..n : f[i] = e
    <3> SUFFICES ASSUME NEW e \in Ranked(sd) PROVE f[sd[e]] = e /\ sd[e] \in 1..n
      OBVIOUS
    <3>1. sd[e] \in 1..n
      BY <1>1 DEF Ranked, IsSeeding
    <3> QED
      BY <3>1, <1>2 DEF IsSeeding
  <2> QED
    BY <2>1, <2>2, <2>3 DEF Bijection, Injection, Surjection, IsInjective
<1>4. Cardinality(Ranked(sd)) = n
  <2>1. IsFiniteSet(1..n) /\ Cardinality(1..n) = n
    <3>1. 1 \in Int /\ n \in Int
      OBVIOUS
    <3>2. IsFiniteSet(1..n) /\ Cardinality(1..n) = IF 1 > n THEN 0 ELSE n - 1 + 1
      BY <3>1, FS_Interval, Zenon
    <3> QED
      BY <3>2
  <2>2. ExistsBijection(1..n, Ranked(sd))
    BY <1>3 DEF ExistsBijection
  <2> QED
    BY <2>1, <2>2, FS_Bijection
<1> QED
  BY <1>1, <1>4

LEMMA UnseededIsSeeding == IsSeeding(Unseeded)
<1>1. \A e \in Entities : Unseeded[e] <= 0
  BY DEF Unseeded
<1> QED
  BY <1>1 DEF IsSeeding, Unseeded, Ranked

LEMMA ShuffleIsSeeding ==
  ASSUME NEW sd, IsSeeding(sd), NEW q \in Shuffles(sd)
  PROVE  IsSeeding(q)
<1>1. PICK p \in Bijection(Ranked(sd), Ranked(sd)) :
             q = [e \in Entities |-> IF sd[e] > 0 THEN sd[p[e]] ELSE 0]
  BY DEF Shuffles
<1>2. /\ p \in [Ranked(sd) -> Ranked(sd)]
      /\ \A e, f \in Ranked(sd) : p[e] = p[f] => e = f
      /\ \A e \in Ranked(sd) : \E f \in Ranked(sd) : p[f] = e
  BY <1>1 DEF Bijection, Injection, Surjection, IsInjective
<1>3. PICK n \in 0..16 : /\ \A i \in 1..n : \E e \in Entities : sd[e] = i
                         /\ \A e \in Entities : sd[e] <= n
  BY DEF IsSeeding
<1>4. \A e \in Entities : q[e] = IF e \in Ranked(sd) THEN sd[p[e]] ELSE 0
  BY <1>1 DEF Ranked
<1>5. q \in [Entities -> 0..16] /\ \A e \in Entities : q[e] <= n
  BY <1>1, <1>2, <1>3, <1>4 DEF IsSeeding, Ranked
<1>6. \A i \in 1..n : \E e \in Entities : q[e] = i
  <2> SUFFICES ASSUME NEW i \in 1..n PROVE \E e \in Entities : q[e] = i
    OBVIOUS
  <2>1. PICK f \in Entities : sd[f] = i
    BY <1>3
  <2>2. f \in Ranked(sd)
    BY <2>1 DEF Ranked
  <2>3. PICK e \in Ranked(sd) : p[e] = f
    BY <1>2, <2>2
  <2> QED
    BY <2>1, <2>3, <1>4 DEF Ranked
<1>7. \A e, f \in Ranked(q) : q[e] = q[f] => e = f
  <2> SUFFICES ASSUME NEW e \in Ranked(q), NEW f \in Ranked(q), q[e] = q[f] PROVE e = f
    OBVIOUS
  <2>1. e \in Ranked(sd) /\ f \in Ranked(sd)
    BY <1>4 DEF Ranked
  <2>2. sd[p[e]] = sd[p[f]] /\ p[e] \in Ranked(sd) /\ p[f] \in Ranked(sd)
    BY <2>1, <1>4, <1>2 DEF Ranked
  <2> QED
    BY <2>1, <2>2, <1>2 DEF IsSeeding
<1> QED
  BY <1>5, <1>6, <1>7 DEF IsSeeding

\* Cutting the entries beyond a size, or all of them, leaves a seeding
LEMMA CutIsSeeding ==
  ASSUME NEW sd, IsSeeding(sd), NEW n \in Nat
  PROVE  IsSeeding([e \in Entities |-> IF sd[e] > n THEN 0 ELSE sd[e]])
<1> DEFINE q == [e \in Entities |-> IF sd[e] > n THEN 0 ELSE sd[e]]
<1>1. PICK m \in 0..16 : /\ \A i \in 1..m : \E e \in Entities : sd[e] = i
                         /\ \A e \in Entities : sd[e] <= m
  BY DEF IsSeeding
<1> DEFINE k == IF m < n THEN m ELSE n
<1>2. k \in 0..16 /\ q \in [Entities -> 0..16] /\ \A e \in Entities : q[e] <= k
  BY <1>1 DEF IsSeeding
<1>3. \A i \in 1..k : \E e \in Entities : q[e] = i
  <2> SUFFICES ASSUME NEW i \in 1..k PROVE \E e \in Entities : q[e] = i
    OBVIOUS
  <2>1. PICK e \in Entities : sd[e] = i
    BY <1>1
  <2> QED
    BY <2>1
<1>4. \A e, f \in Ranked(q) : q[e] = q[f] => e = f
  BY DEF IsSeeding, Ranked
<1> QED
  BY <1>2, <1>3, <1>4 DEF IsSeeding

\* What every list of entries has, gaps or not: no two have the same seed
Numbered(sd) ==
  /\ sd \in [Entities -> 0..16]
  /\ \A e, f \in Ranked(sd) : sd[e] = sd[f] => e = f

LEMMA SeedingIsNumbered ==
  ASSUME NEW sd, IsSeeding(sd)
  PROVE  Numbered(sd)
BY DEF IsSeeding, Numbered

\* Taking some entries out leaves the others their seeds
LEMMA FewerAreNumbered ==
  ASSUME NEW sd, Numbered(sd), NEW gone
  PROVE  Numbered([e \in Entities |-> IF e \in gone THEN 0 ELSE sd[e]])
BY DEF Numbered, Ranked

\* Counting the entries from 1 again gives a seeding of the same entries
\* (tournament_service.publish).
LEMMA RenumberedIsSeeding ==
  ASSUME NEW sd, Numbered(sd)
  PROVE  IsSeeding(Renumbered(sd)) /\ Ranked(Renumbered(sd)) = Ranked(sd)
<1> DEFINE R == Ranked(sd)
           Upto(e) == {f \in R : sd[e] > 0 /\ sd[f] <= sd[e]}
           k == Cardinality(R)
           rank == [e \in R |-> Cardinality(Upto(e))]
           q == Renumbered(sd)
<1>1. IsFiniteSet(R) /\ k \in Nat
  <2>1. R \in SUBSET Entities
    BY DEF Ranked
  <2> QED
    BY <2>1, ConstantsOK, FS_Subset, FS_CardinalityType DEF ConstantsOK
<1>2. sd \in [Entities -> 0..16] /\ \A e \in R : e \in Entities /\ sd[e] > 0
  BY DEF Numbered, Ranked
<1>3. \A e \in Entities : q[e] = Cardinality(Upto(e))
  BY DEF Renumbered
<1>4. \A e \in Entities \ R : q[e] = 0
  <2> TAKE e \in Entities \ R
  <2>1. Upto(e) = {}
    BY DEF Ranked
  <2> QED
    BY <1>3, <2>1, FS_EmptySet
<1>5. k <= 16
  <2>1. [e \in R |-> sd[e]] \in Injection(R, 1..16)
    BY <1>2 DEF Injection, IsInjective, Numbered
  <2>2. IsFiniteSet(1..16) /\ Cardinality(1..16) = 16
    <3>1. 1 \in Int /\ 16 \in Int
      OBVIOUS
    <3>2. IsFiniteSet(1..16) /\ Cardinality(1..16) = IF 1 > 16 THEN 0 ELSE 16 - 1 + 1
      BY <3>1, FS_Interval, Zenon
    <3> QED
      BY <3>2
  <2> QED
    BY <2>1, <2>2, FS_Injection
<1>6. ASSUME NEW e \in R PROVE rank[e] \in 1..k /\ rank[e] = q[e]
  <2>1. Upto(e) \in SUBSET R /\ e \in Upto(e)
    BY <1>2
  <2>2. IsFiniteSet(Upto(e)) /\ Cardinality(Upto(e)) <= k /\ Cardinality(Upto(e)) \in Nat
    BY <1>1, <2>1, FS_Subset, FS_CardinalityType
  <2>3. Cardinality(Upto(e)) # 0
    BY <2>1, <2>2, FS_EmptySet
  <2>4. rank[e] = Cardinality(Upto(e))
    OBVIOUS
  <2>5. rank[e] = q[e]
    BY <1>2, <1>3, <2>4
  <2> HIDE DEF rank, Upto
  <2> QED
    BY <1>1, <2>2, <2>3, <2>4, <2>5
<1>7. ASSUME NEW e \in R, NEW f \in R, rank[e] = rank[f], sd[e] <= sd[f] PROVE e = f
  <2>1. Upto(f) \in SUBSET R /\ Upto(e) \in SUBSET Upto(f)
    BY <1>2, <1>7
  <2>2. IsFiniteSet(Upto(f))
    BY <1>1, <2>1, FS_Subset
  <2>3. Cardinality(Upto(f)) = Cardinality(Upto(e))
    BY <1>7
  <2>4. Upto(f) = Upto(e)
    BY <2>1, <2>2, <2>3, FS_Subset
  <2>5. sd[f] <= sd[e]
    BY <1>2, <2>4
  <2> QED
    BY <1>2, <1>7, <2>5 DEF Numbered
<1>8. \A e, f \in R : rank[e] = rank[f] => e = f
  BY <1>2, <1>7
<1>9. rank \in Injection(R, 1..k)
  BY <1>6, <1>8 DEF Injection, IsInjective
<1>10. rank \in Surjection(R, 1..k)
  <2>1. IsFiniteSet(1..k) /\ Cardinality(1..k) = k
    <3>1. 1 \in Int /\ k \in Int
      BY <1>1
    <3>2. IsFiniteSet(1..k) /\ Cardinality(1..k) = IF 1 > k THEN 0 ELSE k - 1 + 1
      BY <3>1, FS_Interval, Zenon
    <3> QED
      BY <1>1, <3>2
  <2> QED
    BY <1>9, <2>1, FS_Injection
<1> HIDE DEF k, rank
<1>11. \A i \in 1..k : \E e \in Entities : q[e] = i
  BY <1>2, <1>6, <1>10 DEF Surjection
<1>12. q \in [Entities -> 0..16] /\ \A e \in Entities : q[e] <= k
  <2>1. q = [e \in Entities |-> q[e]]
    BY DEF Renumbered
  <2>2. \A e \in Entities : q[e] \in 0..16 /\ q[e] <= k
    BY <1>1, <1>4, <1>5, <1>6
  <2> HIDE DEF q
  <2> QED
    BY <2>1, <2>2
<1> HIDE DEF q
<1>13. Ranked(q) = R
  BY <1>1, <1>2, <1>4, <1>6 DEF Ranked
<1>14. \A e, f \in Ranked(q) : q[e] = q[f] => e = f
  BY <1>6, <1>8, <1>13
<1>15. k \in 0..16
  BY <1>1, <1>5
<1>16. IsSeeding(q)
  BY <1>11, <1>12, <1>14, <1>15 DEF IsSeeding
<1> QED
  BY <1>13, <1>16 DEF q
-----------------------------------------------------------------------------
(* The inductive invariant, as a predicate of the values it is about, so   *)
(* that it can be stated of a board in the middle of finish_battle.        *)

Count(v, s, e) == Cardinality({u \in Users : v[s][u] = e})

MatchesOK(bt, m) ==
  /\ bt \in Battle
  /\ DOMAIN m \subseteq Slots /\ m \in [DOMAIN m -> Match]
  /\ \A s \in DOMAIN m : InStep(bt, m[s], s)

Fair(m, v, s) ==
  m[s].status = "closed" =>
    /\ m[s].winner \in {m[s].a, m[s].b}
    /\ \A e \in {m[s].a, m[s].b} : Count(v, s, e) <= Count(v, s, m[s].winner)

VotesOK(m, v) ==
  /\ v \in [DOMAIN m -> [Users -> Entities \cup {None}]]
  /\ \A s \in DOMAIN m, u \in Users :
       v[s][u] # None => v[s][u] \in {m[s].a, m[s].b} \ {None}
  /\ \A s \in DOMAIN m : Fair(m, v, s)

RequestOK(r) ==
  /\ r.op \in Ops \cup {"idle"}
  /\ r.archived \in BOOLEAN /\ r.visibility \in Visibilities
  /\ r.size \in BracketSizes /\ Numbered(r.seed)

IInv ==
  /\ MatchesOK(battle, match)
  /\ VotesOK(match, vote)
  /\ Numbered(seed)
  /\ left \in Nat \cup {None}
  /\ battle.status \in {"draft", "gone"} => DOMAIN match = {}
  /\ DOMAIN req = Requests /\ \A q \in Requests : RequestOK(req[q])

LEMMA CountType ==
  ASSUME NEW v, NEW s, NEW e
  PROVE  Count(v, s, e) \in Nat
<1>1. {u \in Users : v[s][u] = e} \in SUBSET Users
  OBVIOUS
<1>2. IsFiniteSet({u \in Users : v[s][u] = e})
  BY <1>1, ConstantsOK, FS_Subset DEF ConstantsOK
<1> QED
  BY <1>2, FS_CardinalityType DEF Count

\* bracket.pick_winner never prefers the side with fewer votes
LEMMA PickWinnerIsFair ==
  ASSUME NEW a, NEW b, NEW va \in Nat, NEW vb \in Nat, NEW sa, NEW sb
  PROVE  LET w == PickWinner(a, b, va, vb, sa, sb)
         IN  (w = a /\ vb <= va) \/ (w = b /\ va <= vb)
BY DEF PickWinner
-----------------------------------------------------------------------------
(* Closing a round *)

IsBoard(b) ==
  b = [battle |-> b.battle, match |-> b.match, delta |-> b.delta, moved |-> b.moved,
       left |-> b.left]

LEMMA ScoreFrame ==
  ASSUME NEW b, IsBoard(b), NEW D, NEW gain
  PROVE  LET c == ApplyMatchScores(b, D, gain)
         IN  IsBoard(c) /\ c.battle = b.battle /\ c.match = b.match /\ c.left = b.left
<1> DEFINE todo == {s \in D : b.delta[s] = None}
           fresh == [s \in todo |-> MatchDelta(b, s, gain)]
           dd == [s \in DOMAIN b.match |-> IF s \in todo THEN fresh[s] ELSE b.delta[s]]
           mm == [e \in Entities |-> b.moved[e] + Recorded(b.match, fresh, e)]
<1>1. ApplyMatchScores(b, D, gain) = [b EXCEPT !.delta = dd, !.moved = mm]
  BY DEF ApplyMatchScores
<1> HIDE DEF dd, mm
<1> QED
  BY <1>1 DEF IsBoard

LEMMA CloseFrame ==
  ASSUME NEW b, IsBoard(b), NEW gain
  PROVE  LET c == CloseCurrentRound(b, gain)
         IN  /\ IsBoard(c)
             /\ LastRound(b) =>
                  /\ c.battle = [b.battle EXCEPT
                        !.status = "completed",
                        !.winner = ClosedMatches(b)[<<b.battle.round, 0>>].winner]
                  /\ c.match = ClosedMatches(b)
                  /\ c.left = None
             /\ ~LastRound(b) =>
                  /\ c.battle = [b.battle EXCEPT !.round = @ + 1]
                  /\ c.match = OpenedMatches(b)
                  /\ c.left \in {b.battle.duration, None}
<1> DEFINE a == ApplyMatchScores(b, Decided(b), gain)
<1>1. IsBoard(a) /\ a.battle = b.battle /\ a.match = b.match /\ a.left = b.left
  BY ScoreFrame
<1> HIDE DEF a
<1>2. CASE LastRound(b)
  <2> DEFINE bt == [b.battle EXCEPT
                      !.status = "completed",
                      !.winner = ClosedMatches(b)[<<b.battle.round, 0>>].winner]
  <2>1. CloseCurrentRound(b, gain)
          = [a EXCEPT !.match = ClosedMatches(b), !.left = None, !.battle = bt]
    BY <1>2 DEF CloseCurrentRound, a
  <2> HIDE DEF bt
  <2>2. LET c == CloseCurrentRound(b, gain)
        IN  IsBoard(c) /\ c.battle = bt /\ c.match = ClosedMatches(b) /\ c.left = None
    BY <1>1, <2>1 DEF IsBoard
  <2> QED
    BY <1>2, <2>2 DEF bt
<1>3. CASE ~LastRound(b)
  <2> DEFINE bt == [b.battle EXCEPT !.round = @ + 1]
             lf == IF \E s \in DOMAIN b.match : s[1] = b.battle.round + 1
                   THEN b.battle.duration ELSE None
  <2>1. CloseCurrentRound(b, gain)
          = [a EXCEPT !.match = OpenedMatches(b), !.left = lf, !.battle = bt]
    BY <1>3 DEF CloseCurrentRound, a
  <2>2. lf \in {b.battle.duration, None}
    OBVIOUS
  <2> HIDE DEF bt, lf
  <2>3. LET c == CloseCurrentRound(b, gain)
        IN  IsBoard(c) /\ c.battle = bt /\ c.match = OpenedMatches(b) /\ c.left = lf
    BY <1>1, <2>1 DEF IsBoard
  <2> QED
    BY <1>3, <2>2, <2>3 DEF bt
<1> QED
  BY <1>2, <1>3

GoodBoard(b) ==
  /\ IsBoard(b)
  /\ MatchesOK(b.battle, b.match) /\ VotesOK(b.match, vote)
  /\ b.left \in Nat \cup {None}

\* The matches of the round get a winner who was in them and whom the votes
\* do not contradict; the others stay
LEMMA ClosedRows ==
  ASSUME NEW b, GoodBoard(b), b.battle.status = "active", Closable(b),
         NEW s \in DOMAIN b.match
  PROVE  LET m == ClosedMatches(b)[s]
         IN  /\ s[1] # b.battle.round => m = b.match[s]
             /\ s[1] = b.battle.round =>
                  /\ m \in Match /\ m.status = "closed" /\ m.winner \in Entities
                  /\ m.a = b.match[s].a /\ m.b = b.match[s].b
                  /\ m.a \in Entities /\ m.b \in Entities
             /\ Fair(ClosedMatches(b), vote, s)
<1> DEFINE m == b.match[s]
           w == PickWinner(m.a, m.b, VotesFor(s, m.a), VotesFor(s, m.b), seed[m.a], seed[m.b])
<1>1. m \in Match /\ InStep(b.battle, m, s) /\ Fair(b.match, vote, s)
  BY DEF GoodBoard, MatchesOK, VotesOK
<1>2. ClosedMatches(b)[s] = IF s \in Decided(b) THEN DecidedMatch(m, s) ELSE m
  BY DEF ClosedMatches
<1>3. s \in Decided(b) <=> s[1] = b.battle.round
  BY <1>1 DEF Decided, InStep
<1>4. CASE s[1] # b.battle.round
  BY <1>1, <1>2, <1>3, <1>4 DEF Fair
<1>5. CASE s[1] = b.battle.round
  <2>1. m.a \in Entities /\ m.b \in Entities
    BY <1>5 DEF Closable, Ranked
  <2>2. VotesFor(s, m.a) = Count(vote, s, m.a) /\ VotesFor(s, m.b) = Count(vote, s, m.b)
    BY DEF VotesFor, Count
  <2>3. VotesFor(s, m.a) \in Nat /\ VotesFor(s, m.b) \in Nat
    BY <2>2, CountType
  <2>4. \/ w = m.a /\ VotesFor(s, m.b) <= VotesFor(s, m.a)
        \/ w = m.b /\ VotesFor(s, m.a) <= VotesFor(s, m.b)
    BY <2>3, PickWinnerIsFair
  <2> HIDE DEF w
  <2>5. DecidedMatch(m, s) = [m EXCEPT !.winner = w, !.status = "closed"]
    BY DEF DecidedMatch, w
  <2>6. ClosedMatches(b)[s] = [m EXCEPT !.winner = w, !.status = "closed"]
    BY <1>2, <1>3, <1>5, <2>5
  <2>7. w \in Entities
    BY <2>1, <2>4
  <2>8. /\ ClosedMatches(b)[s] \in Match
        /\ ClosedMatches(b)[s].status = "closed" /\ ClosedMatches(b)[s].winner = w
        /\ ClosedMatches(b)[s].a = m.a /\ ClosedMatches(b)[s].b = m.b
    BY <1>1, <2>6, <2>7 DEF Match
  <2>9. Fair(ClosedMatches(b), vote, s)
    BY <2>2, <2>3, <2>4, <2>8 DEF Fair
  <2> QED
    BY <1>5, <2>1, <2>7, <2>8, <2>9
<1> QED
  BY <1>4, <1>5

\* The matches of the next round open between two winners
LEMMA OpenedRows ==
  ASSUME NEW b, GoodBoard(b), b.battle.status = "active", Closable(b), ~LastRound(b),
         NEW s \in DOMAIN b.match
  PROVE  LET m == OpenedMatches(b)[s]
         IN  /\ s[1] # b.battle.round + 1 => m = ClosedMatches(b)[s]
             /\ s[1] = b.battle.round + 1 =>
                  /\ m \in Match /\ m.status = "open" /\ m.winner = None
                  /\ m.a \in Entities /\ m.b \in Entities
<1> DEFINE r == b.battle.round
           f == <<r, 2 * s[2]>>
           g == <<r, 2 * s[2] + 1>>
<1>0. r \in Nat
  BY DEF GoodBoard, MatchesOK, Battle
<1>1. CASE s[1] # r + 1
  BY <1>1 DEF OpenedMatches
<1>2. CASE s[1] = r + 1
  <2>1. f \in DOMAIN b.match /\ g \in DOMAIN b.match
    BY <1>2 DEF Closable
  <2>2. ClosedMatches(b)[f].winner \in Entities /\ ClosedMatches(b)[g].winner \in Entities
    <3>1. f[1] = r /\ g[1] = r
      OBVIOUS
    <3> QED
      BY <2>1, <3>1, ClosedRows
  <2>3. ClosedMatches(b)[s] = b.match[s]
    BY <1>0, <1>2, ClosedRows
  <2>4. b.match[s] \in Match /\ b.match[s].winner = None
    <3>1. b.match[s] \in Match /\ InStep(b.battle, b.match[s], s)
      BY DEF GoodBoard, MatchesOK
    <3>2. b.match[s].status = "pending"
      BY <1>0, <1>2, <3>1 DEF InStep
    <3> QED
      BY <3>1, <3>2 DEF InStep
  <2>5. OpenedMatches(b)[s]
          = [b.match[s] EXCEPT !.a = ClosedMatches(b)[f].winner,
                               !.b = ClosedMatches(b)[g].winner, !.status = "open"]
    BY <1>2, <2>3 DEF OpenedMatches, Opened, FeederPositions
  <2> QED
    BY <1>0, <1>2, <2>2, <2>4, <2>5 DEF Match
<1> QED
  BY <1>1, <1>2

\* Closing a round keeps every part of the invariant, in each of its uses
LEMMA CloseKeepsBoard ==
  ASSUME NEW b, GoodBoard(b), b.battle.status = "active", Closable(b), NEW gain
  PROVE  GoodBoard(CloseCurrentRound(b, gain))
<1> DEFINE c == CloseCurrentRound(b, gain)
           r == b.battle.round
<1>1. IsBoard(b) /\ b.battle \in Battle /\ r \in Nat /\ TotalRounds(b.battle.size) \in 2..MaxRounds
  BY TotalRoundsType DEF GoodBoard, MatchesOK, Battle
<1>2. \A s \in DOMAIN b.match :
        /\ b.match[s] \in Match /\ InStep(b.battle, b.match[s], s)
        /\ s[1] \in Nat
  <2>1. DOMAIN b.match \subseteq Slots
    BY DEF GoodBoard, MatchesOK
  <2> QED
    BY <2>1 DEF GoodBoard, MatchesOK, Slots
<1>3. CASE LastRound(b)
  <2>1. /\ IsBoard(c) /\ c.match = ClosedMatches(b) /\ c.left = None
        /\ c.battle = [b.battle EXCEPT
                        !.status = "completed",
                        !.winner = ClosedMatches(b)[<<r, 0>>].winner]
    BY <1>1, <1>3, CloseFrame
  <2>2. ClosedMatches(b)[<<r, 0>>].winner \in Entities
    <3>1. <<r, 0>> \in DOMAIN b.match
      BY <1>3 DEF Closable
    <3> QED
      BY <3>1, ClosedRows
  <2>3. c.battle \in Battle /\ c.battle.round = r /\ c.battle.status = "completed"
    BY <1>1, <2>1, <2>2 DEF Battle, Statuses
  <2> HIDE DEF c
  <2>4. DOMAIN c.match = DOMAIN b.match
    BY <2>1 DEF ClosedMatches
  <2>5. \A s \in DOMAIN c.match : c.match[s] \in Match /\ InStep(c.battle, c.match[s], s)
    <3> SUFFICES ASSUME NEW s \in DOMAIN b.match
                 PROVE  ClosedMatches(b)[s] \in Match /\ InStep(c.battle, ClosedMatches(b)[s], s)
      BY <2>1, <2>4
    <3>1. CASE s[1] # r
      BY <1>1, <1>2, <2>3, <3>1, ClosedRows DEF InStep
    <3>2. CASE s[1] = r
      BY <1>1, <2>3, <3>2, ClosedRows, ConstantsOK DEF InStep, ConstantsOK
    <3> QED
      BY <3>1, <3>2
  <2>6. c.match \in [DOMAIN c.match -> Match]
    BY <2>1, <2>5 DEF ClosedMatches
  <2>7. MatchesOK(c.battle, c.match)
    BY <2>3, <2>4, <2>5, <2>6 DEF MatchesOK, GoodBoard
  <2>8. \A s \in DOMAIN b.match : c.match[s].a = b.match[s].a /\ c.match[s].b = b.match[s].b
    BY <2>1, ClosedRows
  <2>9. \A s \in DOMAIN c.match : Fair(c.match, vote, s)
    BY <2>1, <2>4, ClosedRows
  <2>10. VotesOK(c.match, vote)
    BY <2>4, <2>8, <2>9 DEF VotesOK, GoodBoard
  <2> QED
    BY <2>1, <2>7, <2>10 DEF GoodBoard, c
<1>4. CASE ~LastRound(b)
  <2>1. /\ IsBoard(c) /\ c.match = OpenedMatches(b) /\ c.left \in {b.battle.duration, None}
        /\ c.battle = [b.battle EXCEPT !.round = @ + 1]
    BY <1>1, <1>4, CloseFrame
  <2>2. r < MaxRounds
    BY <1>1, <1>4 DEF LastRound, MaxRounds
  <2>3. /\ c.battle \in Battle /\ c.battle.round = r + 1 /\ c.battle.status = "active"
        /\ c.left \in Nat \cup {None}
    BY <1>1, <2>1, <2>2, ConstantsOK DEF Battle, MaxRounds, ConstantsOK
  <2> HIDE DEF c
  <2>4. DOMAIN c.match = DOMAIN b.match
    BY <2>1 DEF OpenedMatches
  <2>5. \A s \in DOMAIN c.match : c.match[s] \in Match /\ InStep(c.battle, c.match[s], s)
    <3> SUFFICES ASSUME NEW s \in DOMAIN b.match
                 PROVE  OpenedMatches(b)[s] \in Match /\ InStep(c.battle, OpenedMatches(b)[s], s)
      BY <2>1, <2>4
    <3>1. CASE s[1] = r + 1
      BY <1>1, <1>4, <2>3, <3>1, OpenedRows, ConstantsOK DEF InStep, ConstantsOK
    <3>2. CASE s[1] = r
      <4>1. OpenedMatches(b)[s] = ClosedMatches(b)[s]
        BY <1>1, <1>4, <3>2, OpenedRows
      <4> QED
        BY <1>1, <2>3, <3>2, <4>1, ClosedRows, ConstantsOK DEF InStep, ConstantsOK
    <3>3. CASE s[1] # r /\ s[1] # r + 1
      <4>1. OpenedMatches(b)[s] = b.match[s]
        BY <1>4, <3>3, OpenedRows, ClosedRows
      <4> QED
        BY <1>1, <1>2, <2>3, <3>3, <4>1 DEF InStep
    <3> QED
      BY <3>1, <3>2, <3>3
  <2>6. c.match \in [DOMAIN c.match -> Match]
    BY <2>1, <2>5 DEF OpenedMatches
  <2>7. MatchesOK(c.battle, c.match)
    BY <2>3, <2>4, <2>5, <2>6 DEF MatchesOK, GoodBoard
  <2>8. \A s \in DOMAIN b.match :
          s[1] # r + 1 => c.match[s].a = b.match[s].a /\ c.match[s].b = b.match[s].b
    BY <1>4, <2>1, ClosedRows, OpenedRows
  <2>9. \A s \in DOMAIN b.match, u \in Users : s[1] = r + 1 => vote[s][u] = None
    <3> SUFFICES ASSUME NEW s \in DOMAIN b.match, NEW u \in Users, s[1] = r + 1
                 PROVE  vote[s][u] = None
      OBVIOUS
    <3>1. b.match[s].a = None /\ b.match[s].b = None
      BY <1>1, <1>2 DEF InStep
    <3> QED
      BY <3>1 DEF GoodBoard, VotesOK
  <2>10. \A s \in DOMAIN c.match : Fair(c.match, vote, s)
    <3> SUFFICES ASSUME NEW s \in DOMAIN b.match PROVE Fair(OpenedMatches(b), vote, s)
      BY <2>1, <2>4
    <3>1. CASE s[1] = r + 1
      BY <1>4, <3>1, OpenedRows DEF Fair
    <3>2. CASE s[1] # r + 1
      <4>1. OpenedMatches(b)[s] = ClosedMatches(b)[s] /\ Fair(ClosedMatches(b), vote, s)
        BY <1>4, <3>2, OpenedRows, ClosedRows
      <4> QED
        BY <4>1 DEF Fair
    <3> QED
      BY <3>1, <3>2
  <2>11. VotesOK(c.match, vote)
    BY <2>4, <2>8, <2>9, <2>10 DEF VotesOK, GoodBoard
  <2> QED
    BY <2>1, <2>3, <2>7, <2>11 DEF GoodBoard, c
<1> QED
  BY <1>3, <1>4
-----------------------------------------------------------------------------
(* Each action keeps the invariant *)

\* The battle is on or over after a close, as large as before, and no match
\* comes or goes
LEMMA CloseStatus ==
  ASSUME NEW b, GoodBoard(b), b.battle.status = "active", NEW gain
  PROVE  LET c == CloseCurrentRound(b, gain)
         IN  /\ c.battle.status \in {"active", "completed"} /\ c.battle.size = b.battle.size
             /\ DOMAIN c.match = DOMAIN b.match
<1> DEFINE c == CloseCurrentRound(b, gain)
<1>1. IsBoard(b) /\ b.battle \in Battle
  BY DEF GoodBoard, MatchesOK
<1>2. CASE LastRound(b)
  <2> DEFINE w == ClosedMatches(b)[<<b.battle.round, 0>>].winner
  <2>1. c.match = ClosedMatches(b) /\ c.battle = [b.battle EXCEPT !.status = "completed", !.winner = w]
    BY <1>1, <1>2, CloseFrame
  <2> HIDE DEF c, w
  <2> QED
    BY <1>1, <2>1 DEF Battle, ClosedMatches, c
<1>3. CASE ~LastRound(b)
  <2>1. c.match = OpenedMatches(b) /\ c.battle = [b.battle EXCEPT !.round = @ + 1]
    BY <1>1, <1>3, CloseFrame
  <2> HIDE DEF c
  <2> QED
    BY <1>1, <2>1 DEF Battle, OpenedMatches, c
<1> QED
  BY <1>2, <1>3

LEMMA BoardIsGood ==
  ASSUME IInv
  PROVE  GoodBoard(Board)
<1>1. /\ IsBoard(Board) /\ Board.battle = battle /\ Board.match = match /\ Board.left = left
  BY DEF IsBoard, Board
<1> HIDE DEF Board
<1> QED
  BY <1>1 DEF GoodBoard, IInv

\* Writing a good board back
LEMMA SetBoardKeeps ==
  ASSUME IInv, NEW b, GoodBoard(b), b.battle.status \notin {"draft", "gone"}, SetBoard(b),
         UNCHANGED <<seed, vote, req>>
  PROVE  IInv'
BY DEF IInv, GoodBoard, SetBoard

LEMMA CloseKeeps ==
  ASSUME IInv, AdvanceIfDue \/ CloseRoundNow
  PROVE  IInv'
<1>1. /\ battle.status = "active" /\ Closable(Board)
      /\ UNCHANGED <<seed, vote, req>>
  BY DEF AdvanceIfDue, CloseRoundNow, Due
<1>2. PICK gain : SetBoard(CloseCurrentRound(Board, gain))
  BY DEF AdvanceIfDue, CloseRoundNow
<1>3. GoodBoard(Board) /\ Board.battle.status = "active"
  BY <1>1, BoardIsGood DEF Board
<1>4. /\ GoodBoard(CloseCurrentRound(Board, gain))
      /\ CloseCurrentRound(Board, gain).battle.status \notin {"draft", "gone"}
  BY <1>1, <1>3, CloseKeepsBoard, CloseStatus
<1> QED
  BY <1>1, <1>2, <1>4, SetBoardKeeps

LEMMA CloseNextKeepsBoard ==
  ASSUME NEW b, GoodBoard(b), NEW gain
  PROVE  GoodBoard(CloseNext(b, gain))
BY CloseKeepsBoard DEF CloseNext

LEMMA FinishKeeps ==
  ASSUME IInv, FinishBattle
  PROVE  IInv'
<1>1. PICK gain \in [Entities -> Gains] :
        LET b1 == CloseNext(Board, gain)
            b2 == CloseNext(b1, gain)
            b3 == CloseNext(b2, gain)
            b4 == CloseNext(b3, gain)
        IN  b4.battle.status = "completed" /\ SetBoard(b4)
  BY DEF FinishBattle
<1> DEFINE b1 == CloseNext(Board, gain)
           b2 == CloseNext(b1, gain)
           b3 == CloseNext(b2, gain)
           b4 == CloseNext(b3, gain)
<1>2. GoodBoard(b1)
  BY BoardIsGood, CloseNextKeepsBoard
<1>3. GoodBoard(b2)
  BY <1>2, CloseNextKeepsBoard
<1>4. GoodBoard(b3)
  BY <1>3, CloseNextKeepsBoard
<1>5. GoodBoard(b4)
  BY <1>4, CloseNextKeepsBoard
<1>6. b4.battle.status = "completed" /\ SetBoard(b4) /\ UNCHANGED <<seed, vote, req>>
  BY <1>1 DEF FinishBattle
<1> HIDE DEF b4
<1> QED
  BY <1>5, <1>6, SetBoardKeeps

\* A vote goes to a match that is still open, so it disturbs no decision
LEMMA CastVoteKeeps ==
  ASSUME IInv, NEW u \in Users, NEW s \in Slots, NEW e \in Entities, CastVote(u, s, e)
  PROVE  IInv'
<1>1. PICK gain : /\ AfterAdvance(gain).battle.status = "active"
                  /\ AfterAdvance(gain).match[s].status = "open"
                  /\ e \in {AfterAdvance(gain).match[s].a, AfterAdvance(gain).match[s].b}
                  /\ SetBoard(AfterAdvance(gain))
  BY DEF CastVote
<1> DEFINE b == AfterAdvance(gain)
<1>2. GoodBoard(b) /\ DOMAIN b.match = DOMAIN match
  <2>1. GoodBoard(Board) /\ Board.battle = battle /\ Board.match = match
    BY BoardIsGood DEF Board
  <2>2. CASE Due
    BY <2>1, <2>2, CloseKeepsBoard, CloseStatus DEF CastVote, AfterAdvance, Due
  <2>3. CASE ~Due
    BY <2>1, <2>3 DEF AfterAdvance
  <2> QED
    BY <2>2, <2>3
<1> HIDE DEF b
<1>3. /\ s \in DOMAIN match /\ UNCHANGED <<seed, req>>
      /\ vote' = [vote EXCEPT ![s][u] = e]
  BY DEF CastVote
<1>4. /\ battle' = b.battle /\ match' = b.match /\ left' = b.left
      /\ b.battle.status = "active" /\ b.match[s].status = "open"
      /\ e \in {b.match[s].a, b.match[s].b}
  BY <1>1 DEF SetBoard, b
<1>5. VotesOK(match', vote')
  <2>1. vote \in [DOMAIN b.match -> [Users -> Entities \cup {None}]]
    BY <1>2 DEF GoodBoard, VotesOK
  <2>2. vote' \in [DOMAIN b.match -> [Users -> Entities \cup {None}]]
    BY <1>3, <2>1
  <2>3. \A t \in DOMAIN b.match, v \in Users :
          vote'[t][v] = IF t = s /\ v = u THEN e ELSE vote[t][v]
    BY <1>2, <1>3, <2>1
  <2>4. \A t \in DOMAIN b.match, v \in Users :
          vote'[t][v] # None => vote'[t][v] \in {b.match[t].a, b.match[t].b} \ {None}
    BY <1>2, <1>4, <2>3, ConstantsOK DEF GoodBoard, VotesOK, ConstantsOK
  <2>5. ASSUME NEW t \in DOMAIN b.match PROVE Fair(b.match, vote', t)
    <3>1. CASE t = s
      BY <1>4, <3>1 DEF Fair
    <3>2. CASE t # s
      <4>1. vote'[t] = vote[t]
        BY <1>2, <1>3, <2>1, <3>2
      <4>2. Fair(b.match, vote, t)
        BY <1>2 DEF GoodBoard, VotesOK
      <4> QED
        BY <4>1, <4>2 DEF Fair, Count
    <3> QED
      BY <3>1, <3>2
  <2> QED
    BY <1>4, <2>2, <2>4, <2>5 DEF VotesOK
<1>6. MatchesOK(battle', match') /\ left' \in Nat \cup {None}
  BY <1>2, <1>4 DEF GoodBoard
<1>7. Numbered(seed)' /\ (DOMAIN req = Requests /\ \A q \in Requests : RequestOK(req[q]))'
  BY <1>3 DEF IInv
<1> QED
  BY <1>4, <1>5, <1>6, <1>7 DEF IInv

LEMMA TimeKeeps ==
  ASSUME IInv, ExtendRound \/ Tick
  PROVE  IInv'
<1>1. left' \in Nat
  BY ConstantsOK DEF IInv, ExtendRound, Tick, ConstantsOK
<1>2. UNCHANGED <<battle, seed, match, vote, req>>
  BY DEF ExtendRound, Tick
<1> QED
  BY <1>1, <1>2 DEF IInv

\* A management call that ends, and one that starts, leaves every call legal
LEMMA CallsKeep ==
  ASSUME IInv, NEW q \in Requests, NEW r, RequestOK(r), req' = [req EXCEPT ![q] = r]
  PROVE  DOMAIN req' = Requests /\ \A p \in Requests : RequestOK(req'[p])
BY DEF IInv

LEMMA UnseededIsNumbered == Numbered(Unseeded)
BY UnseededIsSeeding, SeedingIsNumbered

LEMMA IdleIsOK == RequestOK(Idle)
BY UnseededIsNumbered DEF RequestOK, Idle, Visibilities, BracketSizes

LEMMA LoadKeeps ==
  ASSUME IInv, NEW q \in Requests, NEW op \in Ops, Load(q, op)
  PROVE  IInv'
<1>1. RequestOK(Copy(op))
  <2>1. battle.size \in BracketSizes /\ battle.visibility \in Visibilities /\ Numbered(seed)
    BY DEF IInv, MatchesOK, Battle
  <2>2. /\ Copy(op).op = op /\ Copy(op).archived \in BOOLEAN
        /\ Copy(op).visibility \in {battle.visibility, "draft"}
        /\ Copy(op).size \in {battle.size, 4}
        /\ Copy(op).seed \in {seed, Unseeded}
    BY DEF Copy
  <2> QED
    BY <2>1, <2>2, UnseededIsNumbered DEF RequestOK, Visibilities, BracketSizes
<1>2. req' = [req EXCEPT ![q] = Copy(op)] /\ UNCHANGED <<battle, seed, match, vote, left>>
  BY DEF Load, board
<1> QED
  BY <1>1, <1>2, CallsKeep DEF IInv

LEMMA AbortKeeps ==
  ASSUME IInv, NEW q \in Requests, Abort(q)
  PROVE  IInv'
<1>1. req' = [req EXCEPT ![q] = Idle] /\ UNCHANGED <<battle, seed, match, vote, left>>
  BY DEF Abort, board
<1> QED
  BY <1>1, IdleIsOK, CallsKeep DEF IInv

LEMMA AnswerKeeps ==
  ASSUME IInv, NEW q \in Requests, NEW op, Answer(q, op)
  PROVE  DOMAIN req' = Requests /\ \A p \in Requests : RequestOK(req'[p])
BY IdleIsOK, CallsKeep DEF Answer

LEMMA SetEntriesKeeps ==
  ASSUME IInv, NEW q \in Requests, SetEntries(q)
  PROVE  IInv'
<1>1. Numbered(seed')
  BY ConstantsOK, SeedingIsNumbered DEF SetEntries, ConstantsOK
<1>2. Answer(q, "entries") /\ UNCHANGED <<battle, match, vote, left>>
  BY DEF SetEntries
<1> QED
  BY <1>1, <1>2, AnswerKeeps DEF IInv

\* Writing the status, visibility or size of the row disturbs the matches
\* only if the battle becomes active or completed again
LEMMA RowWriteKeeps ==
  ASSUME IInv, NEW bt \in Battle, bt.round = battle.round,
         bt.status \in {battle.status, "archived"}
  PROVE  MatchesOK(bt, match)
<1>1. \A s \in DOMAIN match : InStep(battle, match[s], s)
  BY DEF IInv, MatchesOK
<1>2. \A s \in DOMAIN match : InStep(bt, match[s], s)
  BY <1>1 DEF InStep
<1> QED
  BY <1>2 DEF IInv, MatchesOK

LEMMA DetailsKeeps ==
  ASSUME IInv, NEW q \in Requests, UpdateDetails(q)
  PROVE  IInv'
<1>1. PICK n \in Sizes \cup {None}, retype \in BOOLEAN :
        /\ battle' = [battle EXCEPT !.size = IF n \in {None, req[q].size} THEN @ ELSE n]
        /\ seed' = [e \in Entities |->
                      IF retype \/ (n # None /\ seed[e] > n) THEN 0 ELSE seed[e]]
  BY DEF UpdateDetails
<1>2. Answer(q, "details") /\ UNCHANGED <<match, vote, left>>
  BY DEF UpdateDetails
<1>3. battle' \in Battle /\ battle'.round = battle.round /\ battle'.status = battle.status
  BY <1>1, ConstantsOK DEF IInv, MatchesOK, Battle, ConstantsOK
<1>4. MatchesOK(battle', match')
  BY <1>2, <1>3, RowWriteKeeps
<1>5. Numbered(seed')
  <2> DEFINE out == {e \in Entities : retype \/ (n # None /\ seed[e] > n)}
  <2>1. seed' = [e \in Entities |-> IF e \in out THEN 0 ELSE seed[e]]
    BY <1>1
  <2> QED
    BY <2>1, FewerAreNumbered DEF IInv
<1> QED
  BY <1>2, <1>3, <1>4, <1>5, AnswerKeeps DEF IInv

LEMMA VisibilityKeeps ==
  ASSUME IInv, NEW q \in Requests, SetVisibility(q)
  PROVE  IInv'
<1>1. Answer(q, "visibility") /\ UNCHANGED <<seed, match, vote, left>>
  BY DEF SetVisibility
<1>2. battle' \in Battle /\ battle'.round = battle.round /\ battle'.status = battle.status
  BY DEF IInv, MatchesOK, Battle, SetVisibility, Visibilities
<1>3. MatchesOK(battle', match')
  BY <1>1, <1>2, RowWriteKeeps
<1> QED
  BY <1>1, <1>2, <1>3, AnswerKeeps DEF IInv

LEMMA ArchiveKeeps ==
  ASSUME IInv, NEW q \in Requests, ArchiveBattle(q)
  PROVE  IInv'
<1>1. Answer(q, "archive") /\ UNCHANGED <<seed, match, vote, left>>
  BY DEF ArchiveBattle
<1>2. /\ battle' \in Battle /\ battle'.round = battle.round
      /\ battle'.status \in {battle.status, "archived"}
  BY DEF IInv, MatchesOK, Battle, ArchiveBattle, Visibilities, Statuses
<1>3. MatchesOK(battle', match')
  BY <1>1, <1>2, RowWriteKeeps
<1> QED
  BY <1>1, <1>2, <1>3, AnswerKeeps DEF IInv

LEMMA DeleteKeeps ==
  ASSUME IInv, NEW q \in Requests, DeleteDraft(q)
  PROVE  IInv'
<1>1. /\ Answer(q, "delete") /\ seed' = Unseeded /\ left' = None
      /\ match' = [s \in {} |-> None] /\ vote' = [s \in {} |-> None]
  BY DEF DeleteDraft
<1>2. battle' \in Battle /\ battle'.status = "gone"
  BY DEF IInv, MatchesOK, Battle, DeleteDraft, Statuses
<1>3. MatchesOK(battle', match') /\ VotesOK(match', vote')
  BY <1>1, <1>2 DEF MatchesOK, VotesOK
<1> QED
  BY <1>1, <1>2, <1>3, AnswerKeeps, UnseededIsNumbered DEF IInv

\* A shuffle of the seeds (bracket.assign_seeds) ranks the same entries
LEMMA SeedsForKeeps ==
  ASSUME NEW sd, Numbered(sd), NEW p \in SeedsFor(sd)
  PROVE  IsSeeding(p) /\ Ranked(p) = Ranked(sd)
<1> DEFINE rn == Renumbered(sd)
<1>1. IsSeeding(rn) /\ Ranked(rn) = Ranked(sd)
  BY RenumberedIsSeeding
<1> HIDE DEF rn
<1>2. CASE p = rn
  BY <1>1, <1>2
<1>3. CASE p \in Shuffles(rn)
  <2>1. PICK g \in Bijection(Ranked(rn), Ranked(rn)) :
          p = [e \in Entities |-> IF rn[e] > 0 THEN rn[g[e]] ELSE 0]
    BY <1>3 DEF Shuffles
  <2>2. g \in [Ranked(rn) -> Ranked(rn)]
    BY <2>1 DEF Bijection, Injection
  <2>3. \A e \in Entities : p[e] > 0 <=> rn[e] > 0
    <3> TAKE e \in Entities
    <3>1. CASE rn[e] > 0
      BY <2>1, <2>2, <3>1 DEF Ranked
    <3>2. CASE ~ rn[e] > 0
      BY <2>1, <3>2
    <3> QED
      BY <3>1, <3>2
  <2>4. Ranked(p) = Ranked(rn)
    BY <2>3 DEF Ranked
  <2> QED
    BY <1>1, <1>3, <2>4, ShuffleIsSeeding
<1> QED
  BY <1>2, <1>3 DEF SeedsFor, rn

\* publish opens the first round between the entries of the two seeds
LEMMA PublishKeeps ==
  ASSUME IInv, NEW q \in Requests, Publish(q)
  PROVE  IInv'
<1> DEFINE size == battle.size
<1>1. size \in BracketSizes /\ Numbered(req[q].seed)
  BY DEF IInv, MatchesOK, Battle, RequestOK
<1>2. PICK sd \in SeedsFor(req[q].seed) :
        seed' = sd /\ match' = [s \in Rows(size) |-> FirstMatch(sd, size, s)]
  BY DEF Publish
<1>3. PICK d \in Durations \cup {None}, vis \in {"unlisted", "public"} :
        /\ battle' = [battle EXCEPT !.status = "active", !.visibility = vis, !.round = 1,
                                    !.duration = d]
        /\ left' = d
  BY DEF Publish
<1>4. /\ Answer(q, "publish") /\ Cardinality(Ranked(req[q].seed)) = size
      /\ vote' = [s \in Rows(size) |-> [u \in Users |-> None]]
  BY DEF Publish
<1>5. /\ battle' \in Battle /\ battle'.round = 1 /\ battle'.status = "active"
      /\ left' \in Nat \cup {None}
  <2>1. d \in Nat \cup {None}
    BY ConstantsOK DEF ConstantsOK
  <2>2. battle \in Battle
    BY DEF IInv, MatchesOK
  <2>3. battle' = [status |-> "active", visibility |-> vis, size |-> size, round |-> 1,
                   duration |-> d, winner |-> battle.winner]
    BY <1>3, <2>2 DEF Battle
  <2>4. size \in BracketSizes /\ battle.winner \in Entities \cup {None}
    BY <2>2 DEF Battle
  <2>5. battle' \in Battle
    BY <2>3, <2>4 DEF Battle, Statuses, Visibilities, MaxRounds
  <2> QED
    BY <1>3, <2>1, <2>3, <2>5
<1>6. \A i \in 1..size : AtSeed(sd, i) \in Entities
  <2>1. IsSeeding(sd) /\ Cardinality(Ranked(sd)) = size
    BY <1>1, <1>2, <1>4, SeedsForKeeps
  <2>2. \A i \in 1..size : \E e \in Entities : sd[e] = i
    BY <1>1, <2>1, SeedingCovers
  <2> QED
    BY <2>2 DEF AtSeed
<1>7. ASSUME NEW s \in Rows(size)
      PROVE  LET m == FirstMatch(sd, size, s)
             IN  m \in Match /\ InStep(battle', m, s) /\ m.status # "closed"
  <2> DEFINE m == FirstMatch(sd, size, s)
  <2>1. s[1] \in 1..MaxRounds /\ s[2] \in Nat /\ s[2] < MatchesIn(size, s[1])
    BY DEF Rows, Slots
  <2>2. CASE s[1] = 1
    <3>1. /\ FirstRoundPair(size, s[2])[1] \in 1..size
          /\ FirstRoundPair(size, s[2])[2] \in 1..size
      BY <1>1, <2>1, <2>2, FirstRoundPairType
    <3>2. \E x, y \in Entities : m = [a |-> x, b |-> y, winner |-> None, status |-> "open"]
      BY <1>6, <2>2, <3>1 DEF FirstMatch
    <3> HIDE DEF m
    <3>3. m \in Match /\ InStep(battle', m, s) /\ m.status # "closed"
      BY <1>5, <2>2, <3>2, ConstantsOK DEF Match, InStep, ConstantsOK
    <3> QED
      BY <3>3 DEF m
  <2>3. CASE s[1] # 1
    <3>1. m = [a |-> None, b |-> None, winner |-> None, status |-> "pending"]
      BY <2>3 DEF FirstMatch
    <3> HIDE DEF m
    <3>2. m \in Match /\ InStep(battle', m, s) /\ m.status # "closed"
      BY <1>5, <2>1, <2>3, <3>1, ConstantsOK DEF Match, InStep, ConstantsOK
    <3> QED
      BY <3>2 DEF m
  <2> QED
    BY <2>2, <2>3
<1>8. MatchesOK(battle', match')
  BY <1>2, <1>5, <1>7 DEF MatchesOK, Rows
<1>9. VotesOK(match', vote')
  BY <1>2, <1>4, <1>7 DEF VotesOK, Fair
<1>10. Numbered(seed')
  BY <1>1, <1>2, SeedsForKeeps, SeedingIsNumbered
<1> QED
  BY <1>4, <1>5, <1>8, <1>9, <1>10, AnswerKeeps DEF IInv
-----------------------------------------------------------------------------
(* The inductive invariant and what follows from it *)

LEMMA InitIInv == Init => IInv
<1> SUFFICES ASSUME Init PROVE IInv
  OBVIOUS
<1>1. PICK n \in Sizes :
        battle = [status |-> "draft", visibility |-> "draft", size |-> n, round |-> 0,
                  duration |-> None, winner |-> None]
  BY DEF Init
<1>2. battle \in Battle
  BY <1>1, ConstantsOK DEF Battle, Statuses, Visibilities, MaxRounds, ConstantsOK
<1>3. DOMAIN match = {} /\ vote = [s \in {} |-> None] /\ match = [s \in {} |-> None]
  BY DEF Init
<1>4. MatchesOK(battle, match) /\ VotesOK(match, vote)
  BY <1>2, <1>3 DEF MatchesOK, VotesOK
<1>5. /\ Numbered(seed) /\ left = None
      /\ DOMAIN req = Requests /\ \A q \in Requests : RequestOK(req[q])
  BY UnseededIsNumbered, IdleIsOK DEF Init
<1> QED
  BY <1>3, <1>4, <1>5 DEF IInv

LEMMA StepIInv == IInv /\ [Next]_vars => IInv'
<1> SUFFICES ASSUME IInv, [Next]_vars PROVE IInv'
  OBVIOUS
<1>1. CASE AdvanceIfDue \/ CloseRoundNow
  BY <1>1, CloseKeeps
<1>2. CASE FinishBattle
  BY <1>2, FinishKeeps
<1>3. CASE ExtendRound \/ Tick
  BY <1>3, TimeKeeps
<1>4. CASE \E u \in Users, s \in Slots, e \in Entities : CastVote(u, s, e)
  BY <1>4, CastVoteKeeps
<1>5. ASSUME NEW q \in Requests, Manage(q) PROVE IInv'
  <2>1. CASE \E op \in Ops : Load(q, op)
    BY <2>1, LoadKeeps
  <2>2. CASE Abort(q)
    BY <2>2, AbortKeeps
  <2>3. CASE SetEntries(q)
    BY <2>3, SetEntriesKeeps
  <2>4. CASE UpdateDetails(q)
    BY <2>4, DetailsKeeps
  <2>5. CASE Publish(q)
    BY <2>5, PublishKeeps
  <2>6. CASE SetVisibility(q)
    BY <2>6, VisibilityKeeps
  <2>7. CASE DeleteDraft(q)
    BY <2>7, DeleteKeeps
  <2>8. CASE ArchiveBattle(q)
    BY <2>8, ArchiveKeeps
  <2> QED
    BY <1>5, <2>1, <2>2, <2>3, <2>4, <2>5, <2>6, <2>7, <2>8 DEF Manage
<1>6. CASE UNCHANGED vars
  <2>1. UNCHANGED <<battle, seed, match, vote, left, req>>
    BY <1>6 DEF vars, board
  <2> QED
    BY <2>1 DEF IInv
<1> QED
  BY <1>1, <1>2, <1>3, <1>4, <1>5, <1>6 DEF Next

LEMMA Invariance == Spec => []IInv
BY InitIInv, StepIInv, PTL DEF Spec

\* The matches are those of one bracket size, and the seeds have no gaps.
\* What closes a round, a vote or the time neither adds nor removes any.
Shape ==
  /\ DOMAIN match \in {{}} \cup {Rows(n) : n \in BracketSizes}
  /\ IsSeeding(seed) /\ \A q \in Requests : IsSeeding(req[q].seed)

\* What the engine and the voters do keeps the size of the bracket and the
\* matches that exist
LEMMA EngineKeepsRows ==
  ASSUME IInv,
         \/ AdvanceIfDue \/ CloseRoundNow \/ FinishBattle
         \/ \E u \in Users, s \in Slots, e \in Entities : CastVote(u, s, e)
  PROVE  /\ DOMAIN match' = DOMAIN match /\ UNCHANGED <<seed, req>>
         /\ battle.status = "active" /\ battle'.status \in {"active", "completed"}
         /\ battle'.size = battle.size
<1>1. GoodBoard(Board) /\ Board.battle = battle /\ Board.match = match
  BY BoardIsGood DEF Board
<1>2. CASE AdvanceIfDue \/ CloseRoundNow
  BY <1>1, <1>2, CloseStatus DEF AdvanceIfDue, CloseRoundNow, Due, SetBoard
<1>3. CASE \E u \in Users, s \in Slots, e \in Entities : CastVote(u, s, e)
  BY <1>1, <1>3, CloseStatus DEF CastVote, AfterAdvance, Due, SetBoard
<1>4. CASE FinishBattle
  <2>1. PICK gain \in [Entities -> Gains] :
          LET b1 == CloseNext(Board, gain)
              b2 == CloseNext(b1, gain)
              b3 == CloseNext(b2, gain)
              b4 == CloseNext(b3, gain)
          IN  b4.battle.status = "completed" /\ SetBoard(b4)
    BY <1>4 DEF FinishBattle
  <2> DEFINE b1 == CloseNext(Board, gain)
             b2 == CloseNext(b1, gain)
             b3 == CloseNext(b2, gain)
             b4 == CloseNext(b3, gain)
  <2>2. \A b : GoodBoard(b) => /\ GoodBoard(CloseNext(b, gain))
                               /\ DOMAIN CloseNext(b, gain).match = DOMAIN b.match
                               /\ CloseNext(b, gain).battle.size = b.battle.size
    BY CloseNextKeepsBoard, CloseStatus DEF CloseNext
  <2>3. SetBoard(b4) /\ b4.battle.status = "completed"
    BY <2>1
  <2> HIDE DEF b4
  <2>4. DOMAIN b4.match = DOMAIN match /\ b4.battle.size = battle.size
    BY <1>1, <2>2 DEF b4
  <2> QED
    BY <1>4, <2>3, <2>4 DEF SetBoard, FinishBattle
<1> QED
  BY <1>2, <1>3, <1>4

LEMMA StepShape == IInv /\ Shape /\ [Next]_vars => Shape'
<1> SUFFICES ASSUME IInv, Shape, [Next]_vars PROVE Shape'
  OBVIOUS
<1>1. CASE \/ AdvanceIfDue \/ CloseRoundNow \/ FinishBattle
           \/ \E u \in Users, s \in Slots, e \in Entities : CastVote(u, s, e)
  <2>1. DOMAIN match' = DOMAIN match /\ UNCHANGED <<seed, req>>
    BY <1>1, EngineKeepsRows
  <2> QED
    BY <2>1 DEF Shape
<1>2. CASE ExtendRound \/ Tick \/ UNCHANGED vars
  <2>1. UNCHANGED <<match, seed, req>>
    BY <1>2 DEF ExtendRound, Tick, vars, board
  <2> QED
    BY <2>1 DEF Shape
<1>3. ASSUME NEW q \in Requests, Manage(q) PROVE Shape'
  <2>1. \A p \in Requests : IsSeeding(req'[p].seed)
    <3>1. ASSUME NEW op \in Ops, Load(q, op)
          PROVE  \A p \in Requests : req'[p].seed \in {req[p].seed, seed, Unseeded}
      <4>1. Copy(op).seed \in {seed, Unseeded}
        BY DEF Copy
      <4> QED
        BY <3>1, <4>1 DEF Load, IInv
    <3>2. CASE req' = [req EXCEPT ![q] = Idle]
      BY <3>2, UnseededIsSeeding DEF Shape, IInv, Idle
    <3>3. (\E op \in Ops : Load(q, op)) \/ req' = [req EXCEPT ![q] = Idle]
      BY <1>3 DEF Manage, Abort, Answer, SetEntries, UpdateDetails, Publish, SetVisibility,
                  DeleteDraft, ArchiveBattle
    <3> QED
      BY <3>1, <3>2, <3>3, UnseededIsSeeding DEF Shape
  <2>2. CASE Publish(q)
    <3>1. Numbered(req[q].seed) /\ battle.size \in BracketSizes
      BY DEF IInv, RequestOK, MatchesOK, Battle
    <3>2. PICK sd \in SeedsFor(req[q].seed) : seed' = sd /\ DOMAIN match' = Rows(battle.size)
      BY <2>2 DEF Publish
    <3>3. IsSeeding(seed')
      BY <3>1, <3>2, SeedsForKeeps
    <3> QED
      BY <2>1, <3>1, <3>2, <3>3 DEF Shape
  <2>3. CASE UpdateDetails(q)
    <3>1. PICK n \in Sizes \cup {None}, retype \in BOOLEAN :
            seed' = [e \in Entities |->
                       IF retype \/ (n # None /\ seed[e] > n) THEN 0 ELSE seed[e]]
      BY <2>3 DEF UpdateDetails
    <3>2. CASE retype
      BY <2>1, <2>3, <3>1, <3>2, UnseededIsSeeding DEF Unseeded, Shape, UpdateDetails
    <3>3. CASE ~retype /\ n = None
      <4>1. seed' = seed
        BY <3>1, <3>3 DEF Shape, IsSeeding
      <4> QED
        BY <2>1, <2>3, <4>1 DEF Shape, UpdateDetails
    <3>4. CASE ~retype /\ n # None
      <4>1. seed' = [e \in Entities |-> IF seed[e] > n THEN 0 ELSE seed[e]]
        BY <3>1, <3>4
      <4>2. n \in Nat
        BY <3>4, ConstantsOK DEF ConstantsOK, BracketSizes
      <4>3. IsSeeding(seed')
        BY <4>1, <4>2, CutIsSeeding DEF Shape
      <4> QED
        BY <2>1, <2>3, <4>3 DEF Shape, UpdateDetails
    <3> QED
      BY <3>2, <3>3, <3>4
  <2>4. CASE SetEntries(q)
    BY <2>1, <2>4, ConstantsOK DEF SetEntries, Shape, ConstantsOK
  <2>5. CASE DeleteDraft(q)
    BY <2>1, <2>5, UnseededIsSeeding DEF DeleteDraft, Shape
  <2>6. CASE \/ \E op \in Ops : Load(q, op)
             \/ Abort(q) \/ SetVisibility(q) \/ ArchiveBattle(q)
    BY <2>1, <2>6 DEF Load, Abort, SetVisibility, ArchiveBattle, board, Shape
  <2> QED
    BY <1>3, <2>2, <2>3, <2>4, <2>5, <2>6 DEF Manage
<1> QED
  BY <1>1, <1>2, <1>3 DEF Next

\* The rows always have the shape the models of tournament_models.py declare:
\* the matches are those of one bracket size, whoever changes the size of the
\* row, and the entries are seeded 1, 2, ... without a gap.
THEOREM TypeCorrect == Spec => []TypeOK
<1>1. Init => Shape
  BY UnseededIsSeeding DEF Init, Shape, Idle
<1>2. IInv /\ Shape => TypeOK
  BY DEF IInv, Shape, TypeOK, MatchesOK, VotesOK, RequestOK, IsSeeding
<1> QED
  BY <1>1, <1>2, StepShape, Invariance, PTL DEF Spec

\* Rounds are played strictly in order, whatever the engine, the voters and
\* stale management calls do to the battle (publish, _close_current_round).
THEOREM RoundsAlwaysInStep == Spec => []RoundsInStep
<1>1. IInv => RoundsInStep
  BY DEF IInv, RoundsInStep, MatchesOK
<1> QED
  BY <1>1, Invariance, PTL

\* No closed match was won against more votes, however many vote and change
\* their votes while rounds close (_close_current_round, cast_vote).
THEOREM MajorityAlwaysDecides == Spec => []MajorityDecides
<1>1. IInv => MajorityDecides
  BY DEF IInv, MajorityDecides, VotesOK, Fair, Count, VotesFor
<1> QED
  BY <1>1, Invariance, PTL

\* Every vote is for a side of its match (cast_vote).
THEOREM VotesAreAlwaysForSides == Spec => []VotesAreForSides
<1>1. IInv => VotesAreForSides
  BY DEF IInv, VotesAreForSides, VotesOK
<1> QED
  BY <1>1, Invariance, PTL
-----------------------------------------------------------------------------
(* A closed match is history *)

\* The closed matches of board b are the same in c
SameHistory(b, c) ==
  \A s \in DOMAIN b.match :
    b.match[s].status = "closed" =>
      s \in DOMAIN c.match /\ c.match[s] = b.match[s] /\ c.delta[s] = b.delta[s]

\* Scoring touches the matches it is given only (tournament_score)
LEMMA ScoreDelta ==
  ASSUME NEW b, IsBoard(b), NEW D, NEW gain, NEW s \in DOMAIN b.match, s \notin D
  PROVE  ApplyMatchScores(b, D, gain).delta[s] = b.delta[s]
<1> DEFINE todo == {t \in D : b.delta[t] = None}
           fresh == [t \in todo |-> MatchDelta(b, t, gain)]
           dd == [t \in DOMAIN b.match |-> IF t \in todo THEN fresh[t] ELSE b.delta[t]]
           mm == [e \in Entities |-> b.moved[e] + Recorded(b.match, fresh, e)]
<1>1. ApplyMatchScores(b, D, gain) = [b EXCEPT !.delta = dd, !.moved = mm]
  BY DEF ApplyMatchScores
<1>2. dd[s] = b.delta[s]
  OBVIOUS
<1> HIDE DEF dd, mm
<1> QED
  BY <1>1, <1>2 DEF IsBoard

LEMMA CloseDelta ==
  ASSUME NEW b, IsBoard(b), NEW gain
  PROVE  CloseCurrentRound(b, gain).delta = ApplyMatchScores(b, Decided(b), gain).delta
<1> DEFINE a == ApplyMatchScores(b, Decided(b), gain)
<1>1. IsBoard(a)
  BY ScoreFrame
<1>2. \E m, l, bt : CloseCurrentRound(b, gain)
                      = [a EXCEPT !.match = m, !.left = l, !.battle = bt]
  BY DEF CloseCurrentRound
<1> HIDE DEF a
<1>3. CloseCurrentRound(b, gain).delta = a.delta
  BY <1>1, <1>2 DEF IsBoard
<1> QED
  BY <1>3 DEF a

LEMMA CloseIsHistory ==
  ASSUME NEW b, GoodBoard(b), b.battle.status = "active", Closable(b), NEW gain
  PROVE  SameHistory(b, CloseCurrentRound(b, gain))
<1> DEFINE c == CloseCurrentRound(b, gain)
<1> SUFFICES ASSUME NEW s \in DOMAIN b.match, b.match[s].status = "closed"
             PROVE  s \in DOMAIN c.match /\ c.match[s] = b.match[s] /\ c.delta[s] = b.delta[s]
  BY DEF SameHistory
<1>1. IsBoard(b) /\ InStep(b.battle, b.match[s], s) /\ b.battle.round \in Nat /\ s[1] \in Nat
  <2>1. DOMAIN b.match \subseteq Slots
    BY DEF GoodBoard, MatchesOK
  <2> QED
    BY <2>1 DEF GoodBoard, MatchesOK, Battle, Slots
<1>2. s[1] # b.battle.round /\ s[1] # b.battle.round + 1
  BY <1>1 DEF InStep
<1>3. s \in DOMAIN c.match
  BY CloseStatus
<1>4. ClosedMatches(b)[s] = b.match[s]
  BY <1>2, ClosedRows
<1>5. c.match[s] = b.match[s]
  <2>1. CASE LastRound(b)
    <3>1. c.match = ClosedMatches(b)
      BY <1>1, <2>1, CloseFrame
    <3> HIDE DEF c
    <3> QED
      BY <1>4, <3>1
  <2>2. CASE ~LastRound(b)
    <3>1. c.match = OpenedMatches(b)
      BY <1>1, <2>2, CloseFrame
    <3>2. OpenedMatches(b)[s] = ClosedMatches(b)[s]
      BY <1>2, <2>2, OpenedRows
    <3> HIDE DEF c
    <3> QED
      BY <1>4, <3>1, <3>2
  <2> QED
    BY <2>1, <2>2
<1>6. c.delta[s] = b.delta[s]
  <2>1. s \notin Decided(b)
    BY DEF Decided
  <2> QED
    BY <1>1, <2>1, ScoreDelta, CloseDelta
<1> QED
  BY <1>3, <1>5, <1>6

LEMMA CloseNextIsHistory ==
  ASSUME NEW b, GoodBoard(b), NEW gain
  PROVE  SameHistory(b, CloseNext(b, gain))
BY CloseIsHistory DEF CloseNext, SameHistory

LEMMA HistoryTransitive ==
  ASSUME NEW b, NEW c, NEW d, SameHistory(b, c), SameHistory(c, d)
  PROVE  SameHistory(b, d)
BY DEF SameHistory

LEMMA FinishIsHistory ==
  ASSUME IInv, FinishBattle
  PROVE  SameHistory(Board, [match |-> match', delta |-> delta'])
<1>1. PICK gain \in [Entities -> Gains] :
        LET b1 == CloseNext(Board, gain)
            b2 == CloseNext(b1, gain)
            b3 == CloseNext(b2, gain)
            b4 == CloseNext(b3, gain)
        IN  b4.battle.status = "completed" /\ SetBoard(b4)
  BY DEF FinishBattle
<1> DEFINE b1 == CloseNext(Board, gain)
           b2 == CloseNext(b1, gain)
           b3 == CloseNext(b2, gain)
           b4 == CloseNext(b3, gain)
<1>2. GoodBoard(Board)
  BY BoardIsGood
<1>3. GoodBoard(b1) /\ SameHistory(Board, b1)
  BY <1>2, CloseNextKeepsBoard, CloseNextIsHistory
<1>4. GoodBoard(b2) /\ SameHistory(b1, b2)
  BY <1>3, CloseNextKeepsBoard, CloseNextIsHistory
<1>5. GoodBoard(b3) /\ SameHistory(b2, b3)
  BY <1>4, CloseNextKeepsBoard, CloseNextIsHistory
<1>6. SameHistory(b3, b4)
  BY <1>5, CloseNextIsHistory
<1>7. match' = b4.match /\ delta' = b4.delta
  BY <1>1 DEF SetBoard
<1> HIDE DEF b1, b2, b3, b4
<1>8. SameHistory(Board, b4)
  BY <1>3, <1>4, <1>5, <1>6, HistoryTransitive
<1> QED
  BY <1>7, <1>8 DEF SameHistory

\* Every step keeps the sides, winner, votes and score of a closed match
History ==
  \A s \in DOMAIN match :
    match[s].status = "closed" /\ battle'.status # "gone" =>
      /\ s \in DOMAIN match'
      /\ match'[s] = match[s] /\ vote'[s] = vote[s] /\ delta'[s] = delta[s]

LEMMA CastVoteIsHistory ==
  ASSUME IInv, NEW u \in Users, NEW t \in Slots, NEW e \in Entities, CastVote(u, t, e)
  PROVE  History
<1>1. PICK gain : /\ AfterAdvance(gain).match[t].status = "open"
                  /\ SetBoard(AfterAdvance(gain))
  BY DEF CastVote
<1>2. SameHistory(Board, AfterAdvance(gain))
  <2>1. CASE Due
    BY <2>1, BoardIsGood, CloseIsHistory DEF CastVote, AfterAdvance, Due, Board
  <2>2. CASE ~Due
    BY <2>2 DEF AfterAdvance, SameHistory
  <2> QED
    BY <2>1, <2>2
<1>3. \A s \in DOMAIN match :
        match[s].status = "closed" =>
          s \in DOMAIN match' /\ match'[s] = match[s] /\ delta'[s] = delta[s]
  BY <1>1, <1>2 DEF SameHistory, Board, SetBoard
<1>4. \A s \in DOMAIN match : s # t => vote'[s] = vote[s]
  BY DEF CastVote, IInv, VotesOK
<1>5. t \in DOMAIN match => match[t].status # "closed"
  BY <1>1, <1>3 DEF SetBoard
<1> QED
  BY <1>3, <1>4, <1>5 DEF History

LEMMA StepIsHistory ==
  ASSUME IInv, [Next]_vars
  PROVE  [History]_vars
<1>1. CASE AdvanceIfDue \/ CloseRoundNow
  <2>1. PICK gain : SetBoard(CloseCurrentRound(Board, gain))
    BY <1>1 DEF AdvanceIfDue, CloseRoundNow
  <2>2. Board.battle.status = "active" /\ Closable(Board) /\ vote' = vote
    BY <1>1 DEF AdvanceIfDue, CloseRoundNow, Due, Board
  <2>3. SameHistory(Board, CloseCurrentRound(Board, gain))
    BY <2>2, BoardIsGood, CloseIsHistory
  <2> QED
    BY <2>1, <2>2, <2>3 DEF SameHistory, SetBoard, Board, History
<1>2. CASE FinishBattle
  BY <1>2, FinishIsHistory DEF SameHistory, Board, History, FinishBattle
<1>3. CASE ExtendRound \/ Tick
  BY <1>3 DEF ExtendRound, Tick, History
<1>4. CASE \E u \in Users, s \in Slots, e \in Entities : CastVote(u, s, e)
  BY <1>4, CastVoteIsHistory
<1>5. ASSUME NEW q \in Requests, Manage(q) PROVE History
  <2>1. CASE Publish(q)
    BY <2>1 DEF Publish, IInv, History
  <2>2. CASE DeleteDraft(q)
    <3>1. battle'.status = "gone"
      BY <2>2 DEF DeleteDraft, IInv, MatchesOK, Battle
    <3> QED
      BY <3>1 DEF History
  <2>3. CASE \/ \E op \in Ops : Load(q, op)
             \/ Abort(q) \/ SetEntries(q) \/ UpdateDetails(q) \/ SetVisibility(q)
             \/ ArchiveBattle(q)
    <3>1. UNCHANGED <<match, vote, delta>>
      BY <2>3 DEF Load, Abort, SetEntries, UpdateDetails, SetVisibility, ArchiveBattle, board
    <3> QED
      BY <3>1 DEF History
  <2> QED
    BY <1>5, <2>1, <2>2, <2>3 DEF Manage
<1> QED
  BY <1>1, <1>2, <1>3, <1>4, <1>5 DEF Next

\* A closed match never changes again, in any of its parts, as long as the
\* battle exists (cast_vote, _close_current_round, apply_match_scores).
THEOREM ClosedMatchesAreFinal == Spec => ClosedMatchIsFinal
<1>1. IInv /\ [Next]_vars => [History]_vars
  BY StepIsHistory
<1>2. Spec => [][History]_vars
  BY <1>1, Invariance, PTL DEF Spec
<1> QED
  BY <1>2 DEF ClosedMatchIsFinal, History
-----------------------------------------------------------------------------
(* One management call at a time *)

\* A call that only a draft allows is in flight on drafts only
CallsFitDraft ==
  \A q \in Requests : req[q].op \in {"entries", "details", "delete"} => battle.status = "draft"

Stays ==
  /\ battle.status \in {"active", "completed", "archived"} => battle'.status # "gone"
  /\ battle.status # "draft" => battle'.size = battle.size

LEMMA OneCallStays ==
  ASSUME \A p, q \in Requests : p = q, IInv, CallsFitDraft, [Next]_vars
  PROVE  CallsFitDraft' /\ Stays
<1>1. battle \in Battle /\ DOMAIN req = Requests
  BY DEF IInv, MatchesOK
<1>2. CASE \/ AdvanceIfDue \/ CloseRoundNow \/ FinishBattle
           \/ \E u \in Users, s \in Slots, e \in Entities : CastVote(u, s, e)
  <2>1. /\ req' = req /\ battle.status = "active" /\ battle'.status \in {"active", "completed"}
        /\ battle'.size = battle.size
    BY <1>2, EngineKeepsRows
  <2> QED
    BY <2>1 DEF CallsFitDraft, Stays
<1>3. CASE ExtendRound \/ Tick \/ UNCHANGED vars
  <2>1. UNCHANGED <<battle, req>>
    BY <1>3 DEF ExtendRound, Tick, vars, board
  <2> QED
    BY <2>1 DEF CallsFitDraft, Stays
<1>4. ASSUME NEW q \in Requests, Manage(q) PROVE CallsFitDraft' /\ Stays
  <2>1. CASE \E op \in Ops : Load(q, op)
    <3>1. PICK op \in Ops : Allowed(op) /\ req' = [req EXCEPT ![q] = Copy(op)] /\ battle' = battle
      BY <2>1 DEF Load, board
    <3>2. op \in {"entries", "details", "delete"} => battle.status = "draft"
      BY <3>1 DEF Allowed
    <3>3. Copy(op).op = op
      BY DEF Copy
    <3> QED
      BY <1>1, <3>1, <3>2, <3>3 DEF CallsFitDraft, Stays
  <2>2. ASSUME req' = [req EXCEPT ![q] = Idle]
        PROVE  CallsFitDraft'
    <3>1. \A p \in Requests : req'[p].op = "idle"
      BY <1>1, <2>2 DEF Idle
    <3> QED
      BY <3>1 DEF CallsFitDraft
  <2>3. CASE Abort(q) \/ SetEntries(q)
    BY <2>2, <2>3 DEF Abort, SetEntries, Answer, board, Stays
  <2>4. CASE UpdateDetails(q) \/ DeleteDraft(q)
    <3>1. battle.status = "draft"
      BY <2>4 DEF UpdateDetails, DeleteDraft, Answer, CallsFitDraft
    <3> QED
      BY <2>2, <2>4, <3>1 DEF UpdateDetails, DeleteDraft, Answer, Stays
  <2>5. CASE Publish(q) \/ SetVisibility(q) \/ ArchiveBattle(q)
    <3>1. battle'.size = battle.size /\ (battle'.status = "gone" => battle.status = "gone")
      BY <1>1, <2>5 DEF Publish, SetVisibility, ArchiveBattle, Battle
    <3> QED
      BY <2>2, <2>5, <3>1 DEF Publish, SetVisibility, ArchiveBattle, Answer, Stays
  <2> QED
    BY <1>4, <2>1, <2>3, <2>4, <2>5 DEF Manage
<1> QED
  BY <1>2, <1>3, <1>4 DEF Next

\* As long as the creator's calls do not overlap, a published battle is never
\* deleted and its bracket never resized (delete_battle, update_details).
THEOREM OneCallLeavesPublishedAlone ==
  ASSUME \A p, q \in Requests : p = q
  PROVE  Spec => PublishedStays
<1>1. Init => CallsFitDraft
  BY DEF Init, CallsFitDraft, Idle
<1>2. IInv /\ CallsFitDraft /\ [Next]_vars => CallsFitDraft' /\ [Stays]_vars
  BY OneCallStays
<1>3. Spec => [][Stays]_vars
  BY <1>1, <1>2, Invariance, PTL DEF Spec
<1>4. Stays => /\ battle.status \in {"active", "completed", "archived"} => battle'.status # "gone"
               /\ battle.status # "draft" => battle'.size = battle.size
  BY DEF Stays
<1>5. [][Stays]_vars => PublishedStays
  BY <1>4, PTL DEF PublishedStays, PublishedIsNeverDeleted, StructureOnlyInDraft
<1> QED
  BY <1>3, <1>5
-----------------------------------------------------------------------------
(* The strengthening of the invariant *)

\* Whoever stands in a later round is the winner of the feeder, if that match
\* is still there
Feeds(m) ==
  \A s \in DOMAIN m :
    m[s].status # "pending" /\ s[1] > 1 =>
      LET f == <<s[1] - 1, 2 * s[2]>>
          g == <<s[1] - 1, 2 * s[2] + 1>>
      IN  /\ f \in DOMAIN m => m[f].winner = m[s].a
          /\ g \in DOMAIN m => m[g].winner = m[s].b

\* A round opens and closes as a whole, and stays so when the battle is
\* archived in the middle of it
Even(m) == \A s, t \in DOMAIN m : s[1] = t[1] => m[s].status = m[t].status

Standing(m) == Feeds(m) /\ Even(m)

\* The titles that stand somewhere
Sides(m) ==
  {m[s].a : s \in {t \in DOMAIN m : m[t].status # "pending"}}
    \cup {m[s].b : s \in {t \in DOMAIN m : m[t].status # "pending"}}

\* What playing on may do to the rows m: pairs and results stay, nobody joins,
\* and nothing happens unless a match is decided
Continues(m, n) ==
  /\ DOMAIN n = DOMAIN m
  /\ \A s \in DOMAIN m :
       m[s].status # "pending" =>
         n[s].status # "pending" /\ n[s].a = m[s].a /\ n[s].b = m[s].b
  /\ \A s \in DOMAIN m :
       m[s].status = "closed" => n[s].status = "closed" /\ n[s].winner = m[s].winner
  /\ (\A s \in DOMAIN m : n[s].status = "closed" => m[s].status = "closed") => n = m
  /\ Sides(n) \subseteq Sides(m)

LEMMA ContinuesReflexive ==
  ASSUME NEW m
  PROVE  Continues(m, m)
BY DEF Continues

LEMMA ContinuesTransitive ==
  ASSUME NEW l, NEW m, NEW n, Continues(l, m), Continues(m, n)
  PROVE  Continues(l, n)
<1>1. ASSUME \A s \in DOMAIN l : n[s].status = "closed" => l[s].status = "closed"
      PROVE  n = l
  <2>1. \A s \in DOMAIN l : m[s].status = "closed" => l[s].status = "closed"
    BY <1>1 DEF Continues
  <2>2. m = l
    BY <2>1 DEF Continues
  <2> QED
    BY <1>1, <2>2 DEF Continues
<1>2. Sides(n) \subseteq Sides(l)
  BY DEF Continues
<1>3. DOMAIN l = DOMAIN m /\ DOMAIN m = DOMAIN n
  BY DEF Continues
<1>4. \A s \in DOMAIN l :
        /\ l[s].status # "pending" =>
             n[s].status # "pending" /\ n[s].a = l[s].a /\ n[s].b = l[s].b
        /\ l[s].status = "closed" => n[s].status = "closed" /\ n[s].winner = l[s].winner
  BY <1>3 DEF Continues
<1> QED
  BY <1>1, <1>2, <1>3, <1>4 DEF Continues
-----------------------------------------------------------------------------
(* Closing a round, row by row *)

LEMMA CloseRows ==
  ASSUME NEW b, GoodBoard(b), b.battle.status = "active", Closable(b), NEW gain,
         NEW s \in DOMAIN b.match
  PROVE  LET c == CloseCurrentRound(b, gain)
             r == b.battle.round
             f == <<r, 2 * s[2]>>
             g == <<r, 2 * s[2] + 1>>
         IN  /\ s[1] # r /\ (s[1] # r + 1 \/ LastRound(b)) => c.match[s] = b.match[s]
             /\ s[1] = r =>
                  /\ b.match[s].status = "open" /\ c.match[s].status = "closed"
                  /\ c.match[s].a = b.match[s].a /\ c.match[s].b = b.match[s].b
                  /\ c.match[s].winner \in {b.match[s].a, b.match[s].b}
             /\ s[1] = r + 1 /\ ~LastRound(b) =>
                  /\ b.match[s].status = "pending" /\ c.match[s].status = "open"
                  /\ f \in DOMAIN b.match /\ g \in DOMAIN b.match
                  /\ c.match[s].a = c.match[f].winner /\ c.match[s].b = c.match[g].winner
<1> DEFINE c == CloseCurrentRound(b, gain)
           r == b.battle.round
           f == <<r, 2 * s[2]>>
           g == <<r, 2 * s[2] + 1>>
<1>1. IsBoard(b) /\ r \in Nat /\ InStep(b.battle, b.match[s], s) /\ b.match[s] \in Match
  BY DEF GoodBoard, MatchesOK, Battle
<1>2. /\ LastRound(b) => c.match = ClosedMatches(b)
      /\ ~LastRound(b) => c.match = OpenedMatches(b)
  BY <1>1, CloseFrame
<1> HIDE DEF c
<1>3. ASSUME NEW t \in DOMAIN b.match, t[1] # r + 1 \/ LastRound(b)
      PROVE  c.match[t] = ClosedMatches(b)[t]
  BY <1>2, <1>3, OpenedRows
<1>4. s[1] # r /\ (s[1] # r + 1 \/ LastRound(b)) => c.match[s] = b.match[s]
  BY <1>3, ClosedRows
<1>5. ASSUME s[1] = r
      PROVE  /\ b.match[s].status = "open" /\ c.match[s].status = "closed"
             /\ c.match[s].a = b.match[s].a /\ c.match[s].b = b.match[s].b
             /\ c.match[s].winner \in {b.match[s].a, b.match[s].b}
  <2>1. c.match[s] = ClosedMatches(b)[s]
    BY <1>1, <1>3, <1>5
  <2>2. b.match[s].status = "open"
    BY <1>1, <1>5 DEF InStep
  <2>3. /\ ClosedMatches(b)[s].status = "closed"
        /\ ClosedMatches(b)[s].a = b.match[s].a /\ ClosedMatches(b)[s].b = b.match[s].b
        /\ Fair(ClosedMatches(b), vote, s)
    BY <1>5, ClosedRows
  <2> QED
    BY <2>1, <2>2, <2>3 DEF Fair
<1>6. ASSUME s[1] = r + 1, ~LastRound(b)
      PROVE  /\ b.match[s].status = "pending" /\ c.match[s].status = "open"
             /\ f \in DOMAIN b.match /\ g \in DOMAIN b.match
             /\ c.match[s].a = c.match[f].winner /\ c.match[s].b = c.match[g].winner
  <2>1. b.match[s].status = "pending"
    BY <1>1, <1>6 DEF InStep
  <2>2. f \in DOMAIN b.match /\ g \in DOMAIN b.match
    BY <1>6 DEF Closable
  <2>3. f[1] = r /\ g[1] = r
    OBVIOUS
  <2>4. c.match[f] = ClosedMatches(b)[f] /\ c.match[g] = ClosedMatches(b)[g]
    BY <1>1, <1>3, <2>2, <2>3
  <2>5. ClosedMatches(b)[s] = b.match[s]
    BY <1>1, <1>6, ClosedRows
  <2>6. OpenedMatches(b)[s]
          = [b.match[s] EXCEPT !.a = ClosedMatches(b)[f].winner,
                               !.b = ClosedMatches(b)[g].winner, !.status = "open"]
    BY <1>6, <2>5 DEF OpenedMatches, Opened, FeederPositions
  <2>7. c.match[s] = OpenedMatches(b)[s]
    BY <1>2, <1>6
  <2> HIDE DEF f, g
  <2>8. /\ c.match[s].status = "open"
        /\ c.match[s].a = c.match[f].winner /\ c.match[s].b = c.match[g].winner
    BY <1>1, <2>4, <2>6, <2>7 DEF Match
  <2> QED
    BY <2>1, <2>2, <2>8
<1> QED
  BY <1>4, <1>5, <1>6 DEF c

LEMMA RowNumbers ==
  ASSUME NEW b, GoodBoard(b)
  PROVE  /\ b.battle.round \in Nat
         /\ \A s \in DOMAIN b.match : s \in Slots /\ s[1] \in Nat \ {0} /\ s[2] \in Nat
                                      /\ InStep(b.battle, b.match[s], s)
BY DEF GoodBoard, MatchesOK, Battle, Slots

\* Closing a round fills the next one with its winners, as a whole
LEMMA CloseKeepsStanding ==
  ASSUME NEW b, GoodBoard(b), b.battle.status = "active", Closable(b), Feeds(b.match), NEW gain
  PROVE  Standing(CloseCurrentRound(b, gain).match)
<1> DEFINE c == CloseCurrentRound(b, gain)
           r == b.battle.round
<1>1. /\ r \in Nat
      /\ \A s \in DOMAIN b.match : s[1] \in Nat /\ InStep(b.battle, b.match[s], s)
  BY RowNumbers
<1>2. GoodBoard(c) /\ DOMAIN c.match = DOMAIN b.match /\ c.battle.status \in {"active", "completed"}
  BY CloseKeepsBoard, CloseStatus
<1>3. \A s \in DOMAIN b.match : InStep(c.battle, c.match[s], s) /\ c.battle.round \in Nat
  BY <1>2, RowNumbers
<1>4. Even(c.match)
  BY <1>1, <1>2, <1>3 DEF Even, InStep
<1>5. ASSUME NEW s \in DOMAIN b.match, c.match[s].status # "pending", s[1] > 1,
             NEW t \in DOMAIN b.match, t[1] = s[1] - 1
      PROVE  /\ t = <<s[1] - 1, 2 * s[2]>> => c.match[t].winner = c.match[s].a
             /\ t = <<s[1] - 1, 2 * s[2] + 1>> => c.match[t].winner = c.match[s].b
  <2>1. CASE s[1] = r + 1 /\ ~LastRound(b)
    <3>1. s[1] - 1 = r
      BY <1>1, <2>1
    <3>2. /\ c.match[s].a = c.match[<<r, 2 * s[2]>>].winner
          /\ c.match[s].b = c.match[<<r, 2 * s[2] + 1>>].winner
      BY <2>1, CloseRows
    <3> QED
      BY <3>1, <3>2
  <2>2. CASE s[1] # r + 1 \/ LastRound(b)
    <3>1. b.match[s].status # "pending" /\ c.match[s].a = b.match[s].a /\ c.match[s].b = b.match[s].b
      <4>1. CASE s[1] = r
        BY <4>1, CloseRows
      <4>2. CASE s[1] # r
        <5>1. c.match[s] = b.match[s]
          BY <2>2, <4>2, CloseRows
        <5> QED
          BY <1>5, <5>1
      <4> QED
        BY <4>1, <4>2
    <3>2. s[1] <= r
      BY <1>1, <3>1 DEF InStep
    <3>3. t[1] # r /\ t[1] # r + 1
      BY <1>1, <1>5, <3>2
    <3>4. c.match[t] = b.match[t]
      BY <3>3, CloseRows
    <3> QED
      BY <1>5, <3>1, <3>4 DEF Feeds
  <2> QED
    BY <2>1, <2>2
<1> HIDE DEF c
<1>6. Feeds(c.match)
  <2> SUFFICES ASSUME NEW s \in DOMAIN b.match, c.match[s].status # "pending", s[1] > 1
               PROVE  LET f == <<s[1] - 1, 2 * s[2]>>
                          g == <<s[1] - 1, 2 * s[2] + 1>>
                      IN  /\ f \in DOMAIN b.match => c.match[f].winner = c.match[s].a
                          /\ g \in DOMAIN b.match => c.match[g].winner = c.match[s].b
    BY <1>2 DEF Feeds
  <2> QED
    BY <1>5
<1> QED
  BY <1>4, <1>6 DEF Standing, c

LEMMA CloseContinues ==
  ASSUME NEW b, GoodBoard(b), b.battle.status = "active", Closable(b), NEW gain
  PROVE  Continues(b.match, CloseCurrentRound(b, gain).match)
<1> DEFINE c == CloseCurrentRound(b, gain)
           r == b.battle.round
<1>1. /\ r \in Nat
      /\ \A s \in DOMAIN b.match : s[1] \in Nat /\ InStep(b.battle, b.match[s], s)
  BY RowNumbers
<1>2. GoodBoard(c) /\ DOMAIN c.match = DOMAIN b.match
  BY CloseKeepsBoard, CloseStatus
<1>3. ASSUME NEW s \in DOMAIN b.match, b.match[s].status # "pending"
      PROVE  c.match[s].status # "pending" /\ c.match[s].a = b.match[s].a /\ c.match[s].b = b.match[s].b
  <2>1. CASE s[1] = r
    BY <2>1, CloseRows
  <2>2. CASE s[1] # r
    <3>1. s[1] # r + 1 \/ LastRound(b)
      BY <1>3, CloseRows
    <3>2. c.match[s] = b.match[s]
      BY <2>2, <3>1, CloseRows
    <3> QED
      BY <1>3, <3>2
  <2> QED
    BY <2>1, <2>2
<1>4. ASSUME NEW s \in DOMAIN b.match, b.match[s].status = "closed"
      PROVE  c.match[s].status = "closed" /\ c.match[s].winner = b.match[s].winner
  <2>1. s[1] # r /\ (s[1] # r + 1 \/ LastRound(b))
    BY <1>4, CloseRows
  <2>2. c.match[s] = b.match[s]
    BY <2>1, CloseRows
  <2> QED
    BY <1>4, <2>2
<1>5. ASSUME \A s \in DOMAIN b.match : c.match[s].status = "closed" => b.match[s].status = "closed"
      PROVE  c.match = b.match
  <2>1. \A s \in DOMAIN b.match : s[1] # r
    BY <1>5, CloseRows
  <2>2. ~LastRound(b)
    <3>1. LastRound(b) => <<r, 0>> \in DOMAIN b.match
      BY DEF Closable
    <3>2. <<r, 0>>[1] = r
      OBVIOUS
    <3> QED
      BY <2>1, <3>1, <3>2
  <2>3. \A s \in DOMAIN b.match : s[1] # r + 1
    <3> SUFFICES ASSUME NEW s \in DOMAIN b.match, s[1] = r + 1 PROVE FALSE
      OBVIOUS
    <3>1. <<r, 2 * s[2]>> \in DOMAIN b.match
      BY <2>2, CloseRows
    <3>2. <<r, 2 * s[2]>>[1] = r
      OBVIOUS
    <3> QED
      BY <2>1, <3>1, <3>2
  <2>4. \A s \in DOMAIN b.match : c.match[s] = b.match[s]
    BY <2>1, <2>3, CloseRows
  <2>5. c.match \in [DOMAIN b.match -> Match] /\ b.match \in [DOMAIN b.match -> Match]
    BY <1>2 DEF GoodBoard, MatchesOK
  <2> HIDE DEF c
  <2> QED
    BY <2>4, <2>5
<1>6. Sides(c.match) \subseteq Sides(b.match)
  <2> SUFFICES ASSUME NEW s \in DOMAIN b.match, c.match[s].status # "pending"
               PROVE  c.match[s].a \in Sides(b.match) /\ c.match[s].b \in Sides(b.match)
    BY <1>2 DEF Sides
  <2>1. CASE b.match[s].status # "pending"
    BY <1>3, <2>1 DEF Sides
  <2>2. CASE b.match[s].status = "pending"
    <3>1. s[1] = r + 1 /\ ~LastRound(b)
      <4>1. s[1] # r
        BY <2>2, CloseRows
      <4> SUFFICES ASSUME s[1] # r + 1 \/ LastRound(b) PROVE FALSE
        OBVIOUS
      <4>2. c.match[s] = b.match[s]
        BY <4>1, CloseRows
      <4> QED
        BY <2>2, <4>2
    <3> DEFINE f == <<r, 2 * s[2]>>
               g == <<r, 2 * s[2] + 1>>
    <3>2. /\ f \in DOMAIN b.match /\ g \in DOMAIN b.match
          /\ c.match[s].a = c.match[f].winner /\ c.match[s].b = c.match[g].winner
      BY <3>1, CloseRows
    <3>3. f[1] = r /\ g[1] = r
      OBVIOUS
    <3>4. /\ b.match[f].status = "open" /\ c.match[f].winner \in {b.match[f].a, b.match[f].b}
          /\ b.match[g].status = "open" /\ c.match[g].winner \in {b.match[g].a, b.match[g].b}
      BY <3>2, <3>3, CloseRows
    <3> HIDE DEF f, g, c
    <3> QED
      BY <3>2, <3>4 DEF Sides
  <2> QED
    BY <2>1, <2>2
<1> HIDE DEF c
<1>7. Continues(b.match, c.match)
  BY <1>2, <1>3, <1>4, <1>5, <1>6 DEF Continues
<1> QED
  BY <1>7 DEF c
-----------------------------------------------------------------------------
(* The engine plays on; everything else leaves the rows alone, draws round 1
   or takes the bracket away *)

\* One turn of finish_battle
LEMMA CloseNextContinues ==
  ASSUME NEW b, GoodBoard(b), Standing(b.match), NEW gain
  PROVE  LET c == CloseNext(b, gain)
         IN  GoodBoard(c) /\ Standing(c.match) /\ Continues(b.match, c.match)
<1>1. CASE b.battle.status = "active" /\ Closable(b)
  BY <1>1, CloseKeepsBoard, CloseKeepsStanding, CloseContinues DEF CloseNext, Standing
<1>2. CASE ~(b.battle.status = "active" /\ Closable(b))
  BY <1>2, ContinuesReflexive DEF CloseNext
<1> QED
  BY <1>1, <1>2

Engine ==
  \/ AdvanceIfDue \/ CloseRoundNow \/ FinishBattle
  \/ \E u \in Users, s \in Slots, e \in Entities : CastVote(u, s, e)

LEMMA EngineContinues ==
  ASSUME IInv, Standing(match), Engine
  PROVE  /\ Standing(match') /\ Continues(match, match')
         /\ battle.status = "active" /\ battle'.status \in {"active", "completed"}
<1>1. GoodBoard(Board) /\ Board.battle = battle /\ Board.match = match
  BY BoardIsGood DEF Board
<1>2. ASSUME NEW gain, battle.status = "active", Closable(Board),
             SetBoard(CloseCurrentRound(Board, gain))
      PROVE  /\ Standing(match') /\ Continues(match, match')
             /\ battle'.status \in {"active", "completed"}
  BY <1>1, <1>2, CloseKeepsStanding, CloseContinues, CloseStatus DEF SetBoard, Standing
<1>3. CASE AdvanceIfDue \/ CloseRoundNow
  BY <1>2, <1>3 DEF AdvanceIfDue, CloseRoundNow, Due
<1>4. CASE \E u \in Users, s \in Slots, e \in Entities : CastVote(u, s, e)
  <2>1. PICK gain : SetBoard(AfterAdvance(gain))
    BY <1>4 DEF CastVote
  <2>2. battle.status = "active" /\ (Due => Closable(Board))
    BY <1>4 DEF CastVote
  <2>3. CASE Due
    BY <1>2, <2>1, <2>2, <2>3 DEF AfterAdvance
  <2>4. CASE ~Due
    <3>1. match' = match /\ battle' = battle
      BY <1>1, <2>1, <2>4 DEF AfterAdvance, SetBoard
    <3> QED
      BY <2>2, <3>1, ContinuesReflexive
  <2> QED
    BY <2>2, <2>3, <2>4
<1>5. CASE FinishBattle
  <2>1. PICK gain \in [Entities -> Gains] :
          LET b1 == CloseNext(Board, gain)
              b2 == CloseNext(b1, gain)
              b3 == CloseNext(b2, gain)
              b4 == CloseNext(b3, gain)
          IN  b4.battle.status = "completed" /\ SetBoard(b4)
    BY <1>5 DEF FinishBattle
  <2> DEFINE b1 == CloseNext(Board, gain)
             b2 == CloseNext(b1, gain)
             b3 == CloseNext(b2, gain)
             b4 == CloseNext(b3, gain)
  <2>2. GoodBoard(b1) /\ Standing(b1.match) /\ Continues(match, b1.match)
    BY <1>1, CloseNextContinues
  <2>3. GoodBoard(b2) /\ Standing(b2.match) /\ Continues(b1.match, b2.match)
    BY <2>2, CloseNextContinues
  <2>4. GoodBoard(b3) /\ Standing(b3.match) /\ Continues(b2.match, b3.match)
    BY <2>3, CloseNextContinues
  <2>5. GoodBoard(b4) /\ Standing(b4.match) /\ Continues(b3.match, b4.match)
    BY <2>4, CloseNextContinues
  <2>6. b4.battle.status = "completed" /\ match' = b4.match /\ battle' = b4.battle
    BY <2>1 DEF SetBoard
  <2> HIDE DEF b1, b2, b3, b4
  <2>7. Continues(match, b4.match)
    BY <2>2, <2>3, <2>4, <2>5, ContinuesTransitive
  <2> QED
    BY <1>5, <2>5, <2>6, <2>7 DEF FinishBattle
<1> QED
  BY <1>3, <1>4, <1>5 DEF Engine

\* Everything but the engine, publish and the delete of a draft
LEMMA OtherStepsKeepRows ==
  ASSUME IInv, Next, ~Engine
  PROVE  \/ \E q \in Requests : Publish(q)
         \/ \E q \in Requests : DeleteDraft(q)
         \/ /\ UNCHANGED <<match, delta, moved>>
            /\ battle'.status = "gone" <=> battle.status = "gone"
<1>1. CASE ExtendRound \/ Tick
  BY <1>1 DEF ExtendRound, Tick
<1>2. ASSUME NEW q \in Requests, Manage(q)
      PROVE  \/ Publish(q) \/ DeleteDraft(q)
             \/ UNCHANGED <<match, delta, moved>> /\ (battle'.status = "gone" <=> battle.status = "gone")
  <2>1. battle \in Battle
    BY DEF IInv, MatchesOK
  <2>2. CASE (\E op \in Ops : Load(q, op)) \/ Abort(q) \/ SetEntries(q)
    BY <2>2 DEF Load, Abort, SetEntries, board
  <2>3. CASE UpdateDetails(q) \/ SetVisibility(q) \/ ArchiveBattle(q)
    BY <2>1, <2>3 DEF UpdateDetails, SetVisibility, ArchiveBattle, Battle
  <2> QED
    BY <1>2, <2>2, <2>3 DEF Manage
<1> QED
  BY <1>1, <1>2 DEF Next, Engine
-----------------------------------------------------------------------------
(* The draw *)

\* Doubling an order without repetitions gives one
LEMMA DoubledInjective ==
  ASSUME NEW n \in Nat, NEW order \in [1..n -> 1..n],
         \A i, j \in 1..n : order[i] = order[j] => i = j
  PROVE  \A i, j \in 1..(2 * n) : Doubled(order, n)[i] = Doubled(order, n)[j] => i = j
<1> DEFINE d == Doubled(order, n)
<1>1. ASSUME NEW i \in 1..(2 * n)
      PROVE  /\ i % 2 = 1 => (i + 1) \div 2 \in 1..n /\ d[i] = order[(i + 1) \div 2]
             /\ i % 2 # 1 => i \div 2 \in 1..n /\ d[i] = 2 * n + 1 - order[i \div 2]
  BY DEF Doubled
<1>2. \A i \in 1..n : order[i] \in 1..n
  OBVIOUS
<1> HIDE DEF d
<1> SUFFICES ASSUME NEW i \in 1..(2 * n), NEW j \in 1..(2 * n), d[i] = d[j] PROVE i = j
  BY DEF d
<1>3. CASE i % 2 = 1 /\ j % 2 = 1
  <2>1. (i + 1) \div 2 = (j + 1) \div 2
    BY <1>1, <1>3
  <2> QED
    BY <1>3, <2>1
<1>4. CASE i % 2 # 1 /\ j % 2 # 1
  <2>1. order[i \div 2] \in Int /\ order[j \div 2] \in Int
    <3>1. i \div 2 \in 1..n /\ j \div 2 \in 1..n
      BY <1>1, <1>4
    <3>2. \A k \in 1..n : order[k] \in Int
      BY <1>2
    <3> QED
      BY <3>1, <3>2, Zenon
  <2>2. order[i \div 2] = order[j \div 2]
    <3>1. \A x, y \in Int : 2 * n + 1 - x = 2 * n + 1 - y => x = y
      OBVIOUS
    <3>2. 2 * n + 1 - order[i \div 2] = 2 * n + 1 - order[j \div 2]
      BY <1>1, <1>4
    <3> QED
      BY <2>1, <3>1, <3>2, Zenon
  <2>3. i \div 2 = j \div 2
    BY <1>1, <1>4, <2>2
  <2> QED
    BY <1>4, <2>3
<1>5. ASSUME NEW k \in 1..(2 * n), NEW l \in 1..(2 * n), k % 2 = 1, l % 2 # 1 PROVE d[k] # d[l]
  <2>1. d[k] \in 1..n
    BY <1>1, <1>2, <1>5
  <2>2. order[l \div 2] \in 1..n /\ d[l] = 2 * n + 1 - order[l \div 2]
    BY <1>1, <1>2, <1>5
  <2>3. \A x, y \in 1..n : x # 2 * n + 1 - y
    OBVIOUS
  <2> QED
    BY <2>1, <2>2, <2>3, Zenon
<1> QED
  BY <1>3, <1>4, <1>5

LEMMA SeedOrderInjective ==
  ASSUME NEW size \in BracketSizes
  PROVE  \A i, j \in 1..size : StandardSeedOrder(size)[i] = StandardSeedOrder(size)[j] => i = j
<1>2. Order2 \in [1..2 -> 1..2] /\ \A i, j \in 1..2 : Order2[i] = Order2[j] => i = j
  BY DEF Order2
<1>4. Order4 \in [1..4 -> 1..4] /\ \A i, j \in 1..4 : Order4[i] = Order4[j] => i = j
  <2>1. \A i, j \in 1..(2 * 2) : Doubled(Order2, 2)[i] = Doubled(Order2, 2)[j] => i = j
    BY <1>2, DoubledInjective
  <2> QED
    BY <2>1, SeedOrderType DEF Order4, StandardSeedOrder, BracketSizes
<1>8. Order8 \in [1..8 -> 1..8] /\ \A i, j \in 1..8 : Order8[i] = Order8[j] => i = j
  <2>1. \A i, j \in 1..(2 * 4) : Doubled(Order4, 4)[i] = Doubled(Order4, 4)[j] => i = j
    BY <1>4, DoubledInjective
  <2> QED
    BY <2>1, SeedOrderType DEF Order8, StandardSeedOrder, BracketSizes
<1>16. \A i, j \in 1..16 : Order16[i] = Order16[j] => i = j
  <2>1. \A i, j \in 1..(2 * 8) : Doubled(Order8, 8)[i] = Doubled(Order8, 8)[j] => i = j
    BY <1>8, DoubledInjective
  <2> QED
    BY <2>1 DEF Order16
<1> QED
  BY <1>4, <1>8, <1>16 DEF StandardSeedOrder, BracketSizes

\* publish draws the first round between different titles, each of them an
\* entry, and opens nothing else
LEMMA PublishDraws ==
  ASSUME IInv, NEW q \in Requests, Publish(q)
  PROVE  /\ battle.status = "draft" /\ battle'.status = "active"
         /\ \E n \in BracketSizes : DOMAIN match' = Rows(n)
         /\ \A s \in DOMAIN match' :
              IF s[1] = 1
              THEN /\ match'[s].status = "open"
                   /\ {match'[s].a, match'[s].b} \subseteq Ranked(seed')
              ELSE match'[s].status = "pending"
         /\ \A s, t \in DOMAIN match' :
              s[1] = 1 /\ t[1] = 1 =>
                /\ match'[s].a # match'[t].b
                /\ match'[s].a = match'[t].a => s = t
                /\ match'[s].b = match'[t].b => s = t
<1> DEFINE size == battle.size
           order == StandardSeedOrder(size)
<1>1. size \in BracketSizes /\ Numbered(req[q].seed) /\ battle \in Battle
  BY DEF IInv, MatchesOK, Battle, RequestOK
<1>2. PICK sd \in SeedsFor(req[q].seed) :
        seed' = sd /\ match' = [s \in Rows(size) |-> FirstMatch(sd, size, s)]
  BY DEF Publish
<1>3. Cardinality(Ranked(req[q].seed)) = size
  BY DEF Publish
<1>4. battle.status = "draft" /\ battle'.status = "active"
  BY <1>1 DEF Publish, Battle
<1>5. \A i \in 1..size : AtSeed(sd, i) \in Entities /\ sd[AtSeed(sd, i)] = i
  <2>1. IsSeeding(sd) /\ Cardinality(Ranked(sd)) = size
    BY <1>1, <1>2, <1>3, SeedsForKeeps
  <2>2. \A i \in 1..size : \E e \in Entities : sd[e] = i
    BY <1>1, <2>1, SeedingCovers
  <2> QED
    BY <2>2 DEF AtSeed
<1>6. /\ order \in [1..size -> 1..size]
      /\ \A i, j \in 1..size : order[i] = order[j] => i = j
  BY <1>1, SeedOrderType, SeedOrderInjective
<1>7. ASSUME NEW s \in Rows(size), s[1] = 1
      PROVE  /\ s = <<1, s[2]>> /\ s[2] \in Nat
             /\ 2 * s[2] + 1 \in 1..size /\ 2 * s[2] + 2 \in 1..size
  BY <1>1, <1>7 DEF Rows, Slots, MatchesIn, TwoToThe, BracketSizes
<1> HIDE DEF order, size
<1>8. ASSUME NEW s \in Rows(size), s[1] = 1
      PROVE  /\ match'[s].status = "open"
             /\ match'[s].a \in Entities /\ sd[match'[s].a] = order[2 * s[2] + 1]
             /\ match'[s].b \in Entities /\ sd[match'[s].b] = order[2 * s[2] + 2]
  <2>1. /\ match'[s].status = "open"
        /\ match'[s].a = AtSeed(sd, order[2 * s[2] + 1])
        /\ match'[s].b = AtSeed(sd, order[2 * s[2] + 2])
    BY <1>2, <1>8 DEF FirstMatch, FirstRoundPair, order
  <2>2. order[2 * s[2] + 1] \in 1..size /\ order[2 * s[2] + 2] \in 1..size
    BY <1>6, <1>7, <1>8
  <2> QED
    BY <1>5, <2>1, <2>2
<1>9. \A s \in Rows(size) :
        IF s[1] = 1
        THEN match'[s].status = "open" /\ {match'[s].a, match'[s].b} \subseteq Ranked(seed')
        ELSE match'[s].status = "pending"
  <2> TAKE s \in Rows(size)
  <2>1. CASE s[1] = 1
    <3>1. order[2 * s[2] + 1] > 0 /\ order[2 * s[2] + 2] > 0
      <4>1. order[2 * s[2] + 1] \in 1..size /\ order[2 * s[2] + 2] \in 1..size
        BY <1>6, <1>7, <2>1
      <4> QED
        BY <4>1
    <3> QED
      BY <1>2, <1>8, <2>1, <3>1 DEF Ranked
  <2>2. CASE s[1] # 1
    BY <1>2, <2>2 DEF FirstMatch
  <2> QED
    BY <2>1, <2>2
<1>10. ASSUME NEW s \in Rows(size), NEW t \in Rows(size), s[1] = 1, t[1] = 1
       PROVE  /\ match'[s].a # match'[t].b
              /\ match'[s].a = match'[t].a => s = t
              /\ match'[s].b = match'[t].b => s = t
  <2>1. /\ 2 * s[2] + 1 \in 1..size /\ 2 * s[2] + 2 \in 1..size /\ s = <<1, s[2]>> /\ s[2] \in Nat
        /\ 2 * t[2] + 1 \in 1..size /\ 2 * t[2] + 2 \in 1..size /\ t = <<1, t[2]>> /\ t[2] \in Nat
    BY <1>7, <1>10
  <2>2. /\ match'[s].a = match'[t].b => 2 * s[2] + 1 = 2 * t[2] + 2
        /\ match'[s].a = match'[t].a => 2 * s[2] + 1 = 2 * t[2] + 1
        /\ match'[s].b = match'[t].b => 2 * s[2] + 2 = 2 * t[2] + 2
    <3> DEFINE i == 2 * s[2] + 1
               j == 2 * s[2] + 2
               k == 2 * t[2] + 1
               l == 2 * t[2] + 2
    <3>1. i \in 1..size /\ j \in 1..size /\ k \in 1..size /\ l \in 1..size
      BY <2>1
    <3>2. /\ sd[match'[s].a] = order[i] /\ sd[match'[s].b] = order[j]
          /\ sd[match'[t].a] = order[k] /\ sd[match'[t].b] = order[l]
      BY <1>8, <1>10
    <3> HIDE DEF i, j, k, l
    <3>3. /\ match'[s].a = match'[t].b => i = l
          /\ match'[s].a = match'[t].a => i = k
          /\ match'[s].b = match'[t].b => j = l
      BY <1>6, <3>1, <3>2
    <3> QED
      BY <3>3 DEF i, j, k, l
  <2>3. /\ 2 * s[2] + 1 # 2 * t[2] + 2
        /\ 2 * s[2] + 1 = 2 * t[2] + 1 => s[2] = t[2]
        /\ 2 * s[2] + 2 = 2 * t[2] + 2 => s[2] = t[2]
    BY <2>1
  <2> QED
    BY <2>1, <2>2, <2>3
<1>11. DOMAIN match' = Rows(size)
  BY <1>2
<1> QED
  BY <1>1, <1>4, <1>9, <1>10, <1>11

LEMMA DrawStands ==
  ASSUME NEW m, DOMAIN m \subseteq Slots,
         \A s \in DOMAIN m : IF s[1] = 1 THEN m[s].status = "open" ELSE m[s].status = "pending"
  PROVE  Standing(m)
BY DEF Standing, Feeds, Even, Slots

\* Every step keeps the standing, and nobody joins but the entries of a draw
LEMMA StepStanding ==
  ASSUME IInv, Standing(match), Next
  PROVE  Standing(match') /\ Sides(match') \subseteq Sides(match) \cup Ranked(seed')
<1>1. CASE Engine
  BY <1>1, EngineContinues DEF Continues
<1>2. CASE match' = match
  BY <1>2
<1>3. ASSUME NEW q \in Requests, Publish(q)
      PROVE  Standing(match') /\ Sides(match') \subseteq Ranked(seed')
  <2>1. \A s \in DOMAIN match' :
          IF s[1] = 1
          THEN match'[s].status = "open" /\ {match'[s].a, match'[s].b} \subseteq Ranked(seed')
          ELSE match'[s].status = "pending"
    BY <1>3, PublishDraws
  <2>2. DOMAIN match' \subseteq Slots
    BY <1>3, PublishKeeps DEF IInv, MatchesOK
  <2>3. Standing(match')
    BY <2>1, <2>2, DrawStands
  <2> QED
    BY <2>1, <2>3 DEF Sides
<1>4. ASSUME NEW q \in Requests, DeleteDraft(q)
      PROVE  Standing(match') /\ Sides(match') = {}
  <2>1. DOMAIN match' = {}
    BY <1>4 DEF DeleteDraft
  <2> QED
    BY <2>1 DEF Standing, Feeds, Even, Sides
<1> QED
  BY <1>1, <1>2, <1>3, <1>4, OtherStepsKeepRows
-----------------------------------------------------------------------------
(* Tournament implements Elimination *)

LEMMA FeederRows ==
  ASSUME NEW n \in BracketSizes, NEW s \in Rows(n), s[1] > 1
  PROVE  <<s[1] - 1, 2 * s[2]>> \in Rows(n) /\ <<s[1] - 1, 2 * s[2] + 1>> \in Rows(n)
<1>1. s[1] \in 2..TotalRounds(n) /\ s[2] \in 0..7 /\ s[2] < MatchesIn(n, s[1])
  BY DEF Rows, Slots, MaxRounds
<1>2. s[1] \in 2..4
  BY <1>1, TotalRoundsType DEF MaxRounds
<1>3. MatchesIn(n, s[1] - 1) = 2 * MatchesIn(n, s[1]) /\ MatchesIn(n, s[1]) \in 0..4
  <2>1. CASE s[1] = 2
    BY <2>1 DEF MatchesIn, TwoToThe, BracketSizes
  <2>2. CASE s[1] = 3
    BY <2>2, <1>1 DEF MatchesIn, TwoToThe, BracketSizes, TotalRounds
  <2>3. CASE s[1] = 4
    BY <2>3, <1>1 DEF MatchesIn, TwoToThe, BracketSizes, TotalRounds
  <2> QED
    BY <1>2, <2>1, <2>2, <2>3
<1>4. /\ 2 * s[2] + 1 < MatchesIn(n, s[1] - 1) /\ 2 * s[2] < MatchesIn(n, s[1] - 1)
      /\ 2 * s[2] + 1 \in 0..7 /\ 2 * s[2] \in 0..7
  BY <1>1, <1>3
<1>5. s[1] - 1 \in 1..MaxRounds /\ s[1] - 1 <= TotalRounds(n)
  BY <1>1, <1>2, TotalRoundsType DEF MaxRounds
<1> QED
  BY <1>4, <1>5 DEF Rows, Slots

\* The rows of a battle are sound in the sense of Elimination
LEMMA RowsAreSound ==
  ASSUME NEW bt, NEW m, NEW v, MatchesOK(bt, m), VotesOK(m, v), Standing(m),
         DOMAIN m \in {{}} \cup {Rows(n) : n \in BracketSizes}
  PROVE  Elim!Sound(Met(m), Results(m))
<1>1. \A s \in DOMAIN m : InStep(bt, m[s], s) /\ Fair(m, v, s) /\ m[s] \in Match
                           /\ s[1] \in Nat /\ bt.round \in Nat
  BY DEF MatchesOK, VotesOK, Slots, Battle
<1>2. /\ DOMAIN Met(m) = {s \in DOMAIN m : m[s].status # "pending"}
      /\ DOMAIN Results(m) = {s \in DOMAIN m : m[s].status = "closed"}
      /\ \A s \in DOMAIN Met(m) : Met(m)[s] = <<m[s].a, m[s].b>>
      /\ \A s \in DOMAIN Results(m) : Results(m)[s] = m[s].winner
  BY DEF Met, Results
<1>3. \A s \in DOMAIN Results(m) :
        s \in DOMAIN Met(m) /\ Results(m)[s] \in {Met(m)[s][1], Met(m)[s][2]}
  BY <1>1, <1>2 DEF Fair
<1>4. \A s \in DOMAIN Met(m) : Met(m)[s][1] \in Entities /\ Met(m)[s][2] \in Entities
  BY <1>1, <1>2 DEF InStep, Match
<1>5. ASSUME NEW s \in DOMAIN Met(m), s[1] > 1
      PROVE  LET f == <<s[1] - 1, 2 * s[2]>>
                 g == <<s[1] - 1, 2 * s[2] + 1>>
             IN  /\ f \in DOMAIN Results(m) /\ g \in DOMAIN Results(m)
                 /\ Met(m)[s] = <<Results(m)[f], Results(m)[g]>>
  <2> DEFINE f == <<s[1] - 1, 2 * s[2]>>
             g == <<s[1] - 1, 2 * s[2] + 1>>
  <2>1. s \in DOMAIN m /\ m[s].status # "pending"
    BY <1>2
  <2>2. f \in DOMAIN m /\ g \in DOMAIN m
    BY <1>5, <2>1, FeederRows
  <2>3. m[f].winner = m[s].a /\ m[g].winner = m[s].b
    BY <1>5, <2>1, <2>2 DEF Standing, Feeds
  <2>4. f[1] < s[1] /\ g[1] < s[1]
    BY <1>1, <2>1
  <2>5. s[1] <= bt.round
    BY <1>1, <2>1 DEF InStep
  <2>6. m[f].status = "closed" /\ m[g].status = "closed"
    BY <1>1, <2>1, <2>2, <2>4, <2>5 DEF InStep
  <2> HIDE DEF f, g
  <2>7. f \in DOMAIN Results(m) /\ g \in DOMAIN Results(m)
    BY <1>2, <2>2, <2>6
  <2>8. Met(m)[s] = <<Results(m)[f], Results(m)[g]>>
    BY <1>2, <2>3, <2>7
  <2> QED
    BY <2>7, <2>8 DEF f, g
<1>6. ASSUME NEW s \in DOMAIN Results(m), NEW t \in DOMAIN Met(m), t[1] <= s[1]
      PROVE  t \in DOMAIN Results(m)
  <2>1. s \in DOMAIN m /\ m[s].status = "closed" /\ t \in DOMAIN m /\ m[t].status # "pending"
    BY <1>2
  <2>2. s[1] <= bt.round
    BY <1>1, <2>1 DEF InStep
  <2>3. m[t].status = "closed"
    <3>1. CASE t[1] = s[1]
      BY <2>1, <3>1 DEF Standing, Even
    <3>2. CASE t[1] < s[1]
      BY <1>1, <2>1, <2>2, <3>2 DEF InStep
    <3> QED
      BY <1>1, <1>6, <2>1, <3>1, <3>2
  <2> QED
    BY <1>2, <2>1, <2>3
<1> HIDE DEF Met, Results
<1> QED
  BY <1>3, <1>4, <1>5, <1>6 DEF Elim!Sound

\* Playing on is Play, or changes nothing Elimination sees
LEMMA ContinuesIsPlay ==
  ASSUME NEW m, NEW n, Continues(m, n)
  PROVE  /\ Elim!Agrees(Met(m), Met(n)) /\ Elim!Agrees(Results(m), Results(n))
         /\ DOMAIN Met(n) \subseteq DOMAIN m
         /\ DOMAIN Results(n) = DOMAIN Results(m) => n = m
<1>1. ASSUME NEW k
      PROVE  /\ DOMAIN Met(k) = {s \in DOMAIN k : k[s].status # "pending"}
             /\ DOMAIN Results(k) = {s \in DOMAIN k : k[s].status = "closed"}
             /\ \A s \in DOMAIN Met(k) : Met(k)[s] = <<k[s].a, k[s].b>>
             /\ \A s \in DOMAIN Results(k) : Results(k)[s] = k[s].winner
  BY DEF Met, Results
<1>2. Elim!Agrees(Met(m), Met(n))
  <2> SUFFICES ASSUME NEW s \in DOMAIN Met(m)
               PROVE  s \in DOMAIN Met(n) /\ Met(n)[s] = Met(m)[s]
    BY DEF Elim!Agrees
  <2>1. s \in DOMAIN m /\ m[s].status # "pending"
    BY <1>1
  <2>2. s \in DOMAIN n /\ n[s].status # "pending" /\ n[s].a = m[s].a /\ n[s].b = m[s].b
    BY <2>1 DEF Continues
  <2>3. s \in DOMAIN Met(n) /\ Met(n)[s] = <<n[s].a, n[s].b>>
    BY <2>2 DEF Met
  <2>4. Met(m)[s] = <<m[s].a, m[s].b>>
    BY <2>1 DEF Met
  <2> QED
    BY <2>2, <2>3, <2>4
<1>3. Elim!Agrees(Results(m), Results(n))
  <2> SUFFICES ASSUME NEW s \in DOMAIN Results(m)
               PROVE  s \in DOMAIN Results(n) /\ Results(n)[s] = Results(m)[s]
    BY DEF Elim!Agrees
  <2>1. s \in DOMAIN m /\ m[s].status = "closed"
    BY <1>1
  <2>2. s \in DOMAIN n /\ n[s].status = "closed" /\ n[s].winner = m[s].winner
    BY <2>1 DEF Continues
  <2> QED
    BY <1>1, <2>1, <2>2
<1>4. DOMAIN Met(n) \subseteq DOMAIN m
  BY <1>1 DEF Continues
<1>5. DOMAIN Results(n) = DOMAIN Results(m) => n = m
  BY <1>1 DEF Continues
<1> QED
  BY <1>2, <1>3, <1>4, <1>5

LEMMA InitRefines == Init => Elim!Init
<1> SUFFICES ASSUME Init PROVE Elim!Init
  OBVIOUS
<1>1. DOMAIN match = {} /\ battle.status = "draft"
  BY DEF Init
<1> QED
  BY <1>1 DEF Elim!Init, Met, Results

LEMMA StepRefines ==
  ASSUME IInv, Shape, Standing(match), IInv', Shape', Standing(match'), [Next]_vars
  PROVE  [Elim!Next]_(Elim!vars)
<1>1. Elim!Sound(Met(match'), Results(match'))
  BY RowsAreSound DEF IInv, Shape
<1>2. ASSUME match' = match, battle'.status = "gone" <=> battle.status = "gone"
      PROVE  UNCHANGED Elim!vars
  BY <1>2 DEF Elim!vars, Met, Results
<1>3. CASE Engine
  <2>1. /\ Continues(match, match')
        /\ battle.status = "active" /\ battle'.status \in {"active", "completed"}
    BY <1>3, EngineContinues
  <2>2. CASE match' = match
    BY <1>2, <2>1, <2>2
  <2>3. CASE match' # match
    <3>1. /\ Elim!Agrees(Met(match), Met(match')) /\ Elim!Agrees(Results(match), Results(match'))
          /\ DOMAIN Met(match') \subseteq DOMAIN match
          /\ DOMAIN Results(match') # DOMAIN Results(match)
      BY <2>1, <2>3, ContinuesIsPlay
    <3>2. DOMAIN match' = DOMAIN match
      BY <2>1 DEF Continues
    <3> QED
      BY <1>1, <2>1, <3>1, <3>2 DEF Elim!Next, Elim!Play
  <2> QED
    BY <2>2, <2>3
<1>4. ASSUME NEW q \in Requests, Publish(q) PROVE Elim!Draw
  <2>1. /\ battle.status = "draft" /\ battle'.status = "active"
        /\ \A s \in DOMAIN match' :
             IF s[1] = 1 THEN match'[s].status = "open" ELSE match'[s].status = "pending"
        /\ \A s, t \in DOMAIN match' :
             s[1] = 1 /\ t[1] = 1 =>
               /\ match'[s].a # match'[t].b
               /\ match'[s].a = match'[t].a => s = t
               /\ match'[s].b = match'[t].b => s = t
    BY <1>4, PublishDraws
  <2>2. DOMAIN match = {}
    BY <2>1 DEF IInv
  <2>3. /\ DOMAIN Met(match') = {s \in DOMAIN match' : s[1] = 1}
        /\ DOMAIN Results(match') = {}
        /\ \A s \in DOMAIN Met(match') : Met(match')[s] = <<match'[s].a, match'[s].b>>
    BY <2>1 DEF Met, Results
  <2>4. ASSUME NEW s \in DOMAIN Met(match'), NEW t \in DOMAIN Met(match'),
               NEW i \in {1, 2}, NEW j \in {1, 2}, Met(match')[s][i] = Met(match')[t][j]
        PROVE  s = t /\ i = j
    <3>1. s \in DOMAIN match' /\ s[1] = 1 /\ t \in DOMAIN match' /\ t[1] = 1
      BY <2>3
    <3>2. /\ Met(match')[s] = <<match'[s].a, match'[s].b>>
          /\ Met(match')[t] = <<match'[t].a, match'[t].b>>
      BY <2>3
    <3> QED
      BY <2>1, <2>4, <3>1, <3>2
  <2> QED
    BY <1>1, <2>1, <2>2, <2>3, <2>4 DEF Elim!Draw
<1>5. ASSUME NEW q \in Requests, DeleteDraft(q) PROVE Elim!Withdraw
  <2>1. battle'.status = "gone" /\ DOMAIN match' = {}
    BY <1>5 DEF DeleteDraft, IInv, MatchesOK, Battle
  <2> QED
    BY <2>1 DEF Elim!Withdraw, Met, Results
<1>6. CASE UNCHANGED vars
  BY <1>2, <1>6 DEF vars, board
<1> QED
  BY <1>2, <1>3, <1>4, <1>5, <1>6, OtherStepsKeepRows DEF Elim!Next

LEMMA InitStanding == Init => Standing(match)
BY DEF Init, Standing, Feeds, Even

LEMMA StandingInvariance == Spec => [](IInv /\ Shape /\ Standing(match))
<1>1. Init => Shape
  BY UnseededIsSeeding DEF Init, Shape, Idle
<1>2. IInv /\ Standing(match) /\ [Next]_vars => Standing(match)'
  <2>1. IInv /\ Standing(match) /\ Next => Standing(match)'
    BY StepStanding
  <2>2. Standing(match) /\ UNCHANGED vars => Standing(match)'
    BY DEF vars, board
  <2> QED
    BY <2>1, <2>2
<1> QED
  BY <1>1, <1>2, InitStanding, StepShape, Invariance, PTL DEF Spec

\* Tournament implements Elimination, for every bracket size and any number of
\* titles, voters and calls in flight: each step of the engine, of a voter or
\* of the creator draws the first round, decides rounds as a whole, withdraws
\* the bracket or leaves it as it is (publish, _close_current_round,
\* finish_battle, delete_battle).
THEOREM TournamentImplementsElimination == Spec => ImplementsElimination
<1>1. IInv /\ Shape /\ Standing(match) /\ (IInv /\ Shape /\ Standing(match))' /\ [Next]_vars
        => [Elim!Next]_(Elim!vars)
  BY StepRefines
<1> QED
  BY <1>1, InitRefines, StandingInvariance, PTL DEF Spec, ImplementsElimination, Elim!Spec
-----------------------------------------------------------------------------
(* The champion *)

\* A completed battle has been won in the final that is there
Crowned(bt, m) ==
  bt.status = "completed" =>
    <<bt.round, 0>> \in DOMAIN m /\ m[<<bt.round, 0>>].winner = bt.winner

LEMMA CloseCrowns ==
  ASSUME NEW b, GoodBoard(b), b.battle.status = "active", Closable(b), NEW gain
  PROVE  LET c == CloseCurrentRound(b, gain)
         IN  Crowned(c.battle, c.match)
<1> DEFINE c == CloseCurrentRound(b, gain)
           r == b.battle.round
           w == ClosedMatches(b)[<<r, 0>>].winner
<1>1. IsBoard(b) /\ b.battle \in Battle
  BY DEF GoodBoard, MatchesOK
<1>2. CASE LastRound(b)
  <2>1. /\ c.match = ClosedMatches(b) /\ <<r, 0>> \in DOMAIN b.match
        /\ c.battle = [b.battle EXCEPT !.status = "completed", !.winner = w]
    BY <1>1, <1>2, CloseFrame DEF Closable
  <2>2. DOMAIN c.match = DOMAIN b.match
    BY CloseStatus
  <2> HIDE DEF c
  <2>3. c.battle.round = r /\ c.battle.winner = w
    BY <1>1, <2>1 DEF Battle
  <2> QED
    BY <2>1, <2>2, <2>3 DEF Crowned, c
<1>3. CASE ~LastRound(b)
  <2>1. c.battle = [b.battle EXCEPT !.round = @ + 1]
    BY <1>1, <1>3, CloseFrame
  <2> HIDE DEF c
  <2>2. c.battle.status = "active"
    BY <1>1, <2>1 DEF Battle
  <2> QED
    BY <2>2 DEF Crowned, c
<1> QED
  BY <1>2, <1>3

LEMMA CloseNextCrowns ==
  ASSUME NEW b, GoodBoard(b), Crowned(b.battle, b.match), NEW gain
  PROVE  LET c == CloseNext(b, gain)
         IN  GoodBoard(c) /\ Crowned(c.battle, c.match)
BY CloseKeepsBoard, CloseCrowns DEF CloseNext

LEMMA EngineCrowns ==
  ASSUME IInv, Engine
  PROVE  Crowned(battle', match')
<1>1. GoodBoard(Board) /\ Board.battle = battle
  BY BoardIsGood DEF Board
<1>2. battle.status = "active"
  BY DEF Engine, AdvanceIfDue, CloseRoundNow, FinishBattle, CastVote, Due
<1>3. ASSUME NEW b, Crowned(b.battle, b.match), SetBoard(b)
      PROVE  Crowned(battle', match')
  BY <1>3 DEF SetBoard
<1>4. Crowned(Board.battle, Board.match)
  BY <1>1, <1>2 DEF Crowned
<1>5. CASE AdvanceIfDue \/ CloseRoundNow
  <2>1. PICK gain : SetBoard(CloseCurrentRound(Board, gain))
    BY <1>5 DEF AdvanceIfDue, CloseRoundNow
  <2>2. Closable(Board)
    BY <1>5 DEF AdvanceIfDue, CloseRoundNow
  <2> QED
    BY <1>1, <1>2, <1>3, <2>1, <2>2, CloseCrowns
<1>6. CASE \E u \in Users, s \in Slots, e \in Entities : CastVote(u, s, e)
  <2>1. PICK gain : SetBoard(AfterAdvance(gain))
    BY <1>6 DEF CastVote
  <2>2. Due => Closable(Board)
    BY <1>6 DEF CastVote
  <2>3. Crowned(AfterAdvance(gain).battle, AfterAdvance(gain).match)
    BY <1>1, <1>2, <1>4, <2>2, CloseCrowns DEF AfterAdvance
  <2> QED
    BY <1>3, <2>1, <2>3
<1>7. CASE FinishBattle
  <2>1. PICK gain \in [Entities -> Gains] :
          LET b1 == CloseNext(Board, gain)
              b2 == CloseNext(b1, gain)
              b3 == CloseNext(b2, gain)
              b4 == CloseNext(b3, gain)
          IN  b4.battle.status = "completed" /\ SetBoard(b4)
    BY <1>7 DEF FinishBattle
  <2> DEFINE b1 == CloseNext(Board, gain)
             b2 == CloseNext(b1, gain)
             b3 == CloseNext(b2, gain)
             b4 == CloseNext(b3, gain)
  <2>2. GoodBoard(b1) /\ Crowned(b1.battle, b1.match)
    BY <1>1, <1>4, CloseNextCrowns
  <2>3. GoodBoard(b2) /\ Crowned(b2.battle, b2.match)
    BY <2>2, CloseNextCrowns
  <2>4. GoodBoard(b3) /\ Crowned(b3.battle, b3.match)
    BY <2>3, CloseNextCrowns
  <2>5. Crowned(b4.battle, b4.match)
    BY <2>4, CloseNextCrowns
  <2>6. SetBoard(b4)
    BY <2>1
  <2> HIDE DEF b4
  <2> QED
    BY <1>3, <2>5, <2>6
<1> QED
  BY <1>5, <1>6, <1>7 DEF Engine

LEMMA StepCrowned ==
  ASSUME IInv, Crowned(battle, match), [Next]_vars
  PROVE  Crowned(battle', match')
<1>1. battle \in Battle
  BY DEF IInv, MatchesOK
<1>2. CASE Engine
  BY <1>2, EngineCrowns
<1>3. CASE ExtendRound \/ Tick \/ UNCHANGED vars
  <2>1. UNCHANGED <<battle, match>>
    BY <1>3 DEF ExtendRound, Tick, vars, board
  <2> QED
    BY <2>1
<1>4. ASSUME NEW q \in Requests, Manage(q)
      PROVE  Crowned(battle', match')
  <2>1. CASE Publish(q) \/ DeleteDraft(q)
    BY <1>1, <2>1 DEF Publish, DeleteDraft, Crowned, Battle
  <2>2. CASE (\E op \in Ops : Load(q, op)) \/ Abort(q) \/ SetEntries(q)
    <3>1. UNCHANGED <<battle, match>>
      BY <2>2 DEF Load, Abort, SetEntries, board
    <3> QED
      BY <3>1
  <2>3. CASE UpdateDetails(q) \/ SetVisibility(q) \/ ArchiveBattle(q)
    <3>1. /\ match' = match /\ battle'.round = battle.round /\ battle'.winner = battle.winner
          /\ battle'.status \in {battle.status, "archived"}
      BY <1>1, <2>3 DEF UpdateDetails, SetVisibility, ArchiveBattle, Battle
    <3> QED
      BY <3>1 DEF Crowned
  <2> QED
    BY <1>4, <2>1, <2>2, <2>3 DEF Manage
<1> QED
  BY <1>2, <1>3, <1>4 DEF Next, Engine

\* The winner of a match of a later round won a match of the round before
LEMMA WonBefore ==
  ASSUME IInv, Shape, Standing(match), NEW s \in DOMAIN match, s[1] > 1, match[s].status = "closed"
  PROVE  \E t \in DOMAIN match : /\ t[1] = s[1] - 1 /\ match[t].status = "closed"
                                 /\ match[t].winner = match[s].winner
<1> DEFINE f == <<s[1] - 1, 2 * s[2]>>
           g == <<s[1] - 1, 2 * s[2] + 1>>
<1>1. f \in DOMAIN match /\ g \in DOMAIN match
  BY FeederRows DEF Shape
<1>2. match[f].winner = match[s].a /\ match[g].winner = match[s].b
  BY <1>1 DEF Standing, Feeds
<1>3. match[s].winner \in {match[s].a, match[s].b}
  BY DEF IInv, VotesOK, Fair
<1>4. f[1] = s[1] - 1 /\ g[1] = s[1] - 1
  OBVIOUS
<1>5. /\ s[1] \in Nat /\ battle.round \in Nat /\ InStep(battle, match[s], s)
      /\ InStep(battle, match[f], f) /\ InStep(battle, match[g], g)
  BY <1>1 DEF IInv, MatchesOK, Slots, Battle
<1>6. s[1] <= battle.round
  BY <1>5 DEF InStep
<1>7. match[f].status = "closed" /\ match[g].status = "closed"
  BY <1>4, <1>5, <1>6 DEF InStep
<1> HIDE DEF f, g
<1> QED
  BY <1>1, <1>2, <1>3, <1>4, <1>7

\* The champion of a completed battle has won a match of every round: no stale
\* call, no late vote and no way of closing a round crowns a title that lost
\* (_close_current_round, feeder_positions).
THEOREM ChampionsWonEveryRound == Spec => []ChampionWonEveryRound
<1>1. Init => Crowned(battle, match)
  BY DEF Init, Crowned
<1>2. IInv /\ Crowned(battle, match) /\ [Next]_vars => Crowned(battle, match)'
  BY StepCrowned
<1>3. IInv /\ Shape /\ Standing(match) /\ Crowned(battle, match) => ChampionWonEveryRound
  <2> SUFFICES ASSUME IInv, Shape, Standing(match), Crowned(battle, match),
                      battle.status = "completed"
               PROVE  \A r \in 1..battle.round :
                        \E s \in RowsOf(r) : match[s].winner = battle.winner
    BY DEF ChampionWonEveryRound
  <2> DEFINE Won(r) == \E s \in DOMAIN match : /\ s[1] = r /\ match[s].status = "closed"
                                               /\ match[s].winner = battle.winner
             R == battle.round
             final == <<R, 0>>
  <2>1. final \in DOMAIN match /\ match[final].winner = battle.winner /\ final[1] = R
    BY DEF Crowned
  <2>2. InStep(battle, match[final], final) /\ R \in 1..4
    BY <2>1 DEF IInv, MatchesOK, Slots, MaxRounds
  <2>3. Won(R)
    BY <2>1, <2>2 DEF InStep
  <2>4. \A r \in 2..4 : Won(r) => Won(r - 1)
    BY WonBefore
  <2> HIDE DEF Won, R
  <2>5. \A r \in 1..R : Won(r)
    BY <2>2, <2>3, <2>4
  <2> QED
    BY <2>5 DEF Won, R, RowsOf
<1> QED
  BY <1>1, <1>2, <1>3, StandingInvariance, Invariance, PTL DEF Spec
-----------------------------------------------------------------------------
(* A battle that can go on *)

\* A battle that is on has its whole bracket, all of its titles among the
\* participants, and is in one of its rounds
OnInv ==
  battle.status = "active" =>
    /\ DOMAIN match = Rows(battle.size) /\ battle.round \in 1..TotalRounds(battle.size)
    /\ Sides(match) \subseteq Ranked(seed)

LEMMA OnIsClosable ==
  ASSUME IInv, OnInv
  PROVE  NeverStuck
<1> SUFFICES ASSUME battle.status = "active" PROVE Closable(Board)
  BY DEF NeverStuck
<1> DEFINE r == battle.round
           n == battle.size
<1>1. Board.battle = battle /\ Board.match = match
  BY DEF Board
<1>2. n \in BracketSizes /\ r \in Nat
  BY DEF IInv, MatchesOK, Battle
<1>3. /\ DOMAIN match = Rows(n) /\ r \in 1..TotalRounds(n) /\ Sides(match) \subseteq Ranked(seed)
      /\ TotalRounds(n) \in 2..MaxRounds
  BY <1>2, TotalRoundsType DEF OnInv
<1>4. \A s \in DOMAIN match : s[1] = r => match[s].a \in Ranked(seed) /\ match[s].b \in Ranked(seed)
  <2> TAKE s \in DOMAIN match
  <2> HAVE s[1] = r
  <2>1. match[s].status # "pending"
    BY DEF IInv, MatchesOK, InStep
  <2> QED
    BY <1>3, <2>1 DEF Sides
<1>5. ASSUME r >= TotalRounds(n) PROVE <<r, 0>> \in DOMAIN match
  <2>1. r = TotalRounds(n)
    BY <1>2, <1>3, <1>5
  <2>2. 0 < MatchesIn(n, r)
    BY <1>2, <2>1 DEF MatchesIn, TwoToThe, BracketSizes, TotalRounds
  <2> QED
    BY <1>3, <2>1, <2>2 DEF Rows, Slots, MaxRounds
<1>6. ASSUME NEW s \in DOMAIN match, s[1] = r + 1
      PROVE  <<r, 2 * s[2]>> \in DOMAIN match /\ <<r, 2 * s[2] + 1>> \in DOMAIN match
  <2>1. s \in Rows(n) /\ s[1] > 1 /\ s[1] - 1 = r
    BY <1>2, <1>3, <1>6
  <2> QED
    BY <1>2, <1>3, <2>1, FeederRows
<1>7. \A s \in DOMAIN match : <<r, 2 * s[2]>>[1] = r /\ <<r, 2 * s[2] + 1>>[1] = r /\ <<r, 0>>[1] = r
  OBVIOUS
<1> QED
  BY <1>1, <1>4, <1>5, <1>6, <1>7 DEF Closable, LastRound

\* The round goes up by one at most, and not beyond the last
LEMMA EngineRounds ==
  ASSUME IInv, Engine, battle'.status = "active"
  PROVE  \/ battle'.round = battle.round
         \/ battle'.round = battle.round + 1 /\ battle.round < TotalRounds(battle.size)
<1>1. battle \in Battle /\ IsBoard(Board) /\ Board.battle = battle
  BY DEF IInv, MatchesOK, IsBoard, Board
<1>2. TotalRounds(battle.size) \in Nat /\ battle.round \in Nat
  BY <1>1, TotalRoundsType DEF Battle
<1>3. ASSUME NEW gain, SetBoard(CloseCurrentRound(Board, gain))
      PROVE  battle'.round = battle.round + 1 /\ battle.round < TotalRounds(battle.size)
  <2> DEFINE c == CloseCurrentRound(Board, gain)
             w == ClosedMatches(Board)[<<Board.battle.round, 0>>].winner
  <2>1. c.battle = battle'
    BY <1>3 DEF SetBoard
  <2>2. LastRound(Board) => c.battle = [battle EXCEPT !.status = "completed", !.winner = w]
    BY <1>1, CloseFrame
  <2>3. ~LastRound(Board) => c.battle = [battle EXCEPT !.round = @ + 1]
    BY <1>1, CloseFrame
  <2> HIDE DEF c, w
  <2>4. ~LastRound(Board)
    BY <1>1, <2>1, <2>2 DEF Battle
  <2> QED
    BY <1>1, <1>2, <2>1, <2>3, <2>4 DEF Battle, LastRound
<1>4. CASE AdvanceIfDue \/ CloseRoundNow
  BY <1>3, <1>4 DEF AdvanceIfDue, CloseRoundNow
<1>5. CASE \E u \in Users, s \in Slots, e \in Entities : CastVote(u, s, e)
  <2>1. PICK gain : SetBoard(AfterAdvance(gain))
    BY <1>5 DEF CastVote
  <2>2. CASE Due
    BY <1>3, <2>1, <2>2 DEF AfterAdvance
  <2>3. CASE ~Due
    BY <1>1, <2>1, <2>3 DEF AfterAdvance, SetBoard
  <2> QED
    BY <2>2, <2>3
<1>6. CASE FinishBattle
  BY <1>6 DEF FinishBattle, SetBoard
<1> QED
  BY <1>4, <1>5, <1>6 DEF Engine

LEMMA StepOnInv ==
  ASSUME \A p, q \in Requests : p = q, IInv, Standing(match), CallsFitDraft, OnInv, [Next]_vars
  PROVE  OnInv'
<1> SUFFICES ASSUME battle'.status = "active"
             PROVE  /\ DOMAIN match' = Rows(battle'.size)
                    /\ battle'.round \in 1..TotalRounds(battle'.size)
                    /\ Sides(match') \subseteq Ranked(seed')
  BY DEF OnInv
<1>1. battle \in Battle /\ TotalRounds(battle.size) \in Nat /\ TotalRounds(battle.size) >= 2
  BY TotalRoundsType DEF IInv, MatchesOK, Battle, MaxRounds
<1>2. CASE Engine
  <2>1. /\ battle.status = "active" /\ Sides(match') \subseteq Sides(match)
        /\ battle'.size = battle.size /\ seed' = seed /\ DOMAIN match' = DOMAIN match
    BY <1>2, EngineContinues, EngineKeepsRows DEF Continues, Engine
  <2>2. battle'.round \in 1..TotalRounds(battle.size)
    BY <1>1, <1>2, <2>1, EngineRounds DEF OnInv
  <2> QED
    BY <2>1, <2>2 DEF OnInv
<1>3. CASE ExtendRound \/ Tick \/ UNCHANGED vars
  <2>1. UNCHANGED <<battle, seed, match>>
    BY <1>3 DEF ExtendRound, Tick, vars, board
  <2> QED
    BY <2>1 DEF OnInv
<1>4. ASSUME NEW q \in Requests, Manage(q)
      PROVE  OnInv'
  <2>1. CASE Publish(q)
    <3>1. /\ \A s \in DOMAIN match' :
              IF s[1] = 1
              THEN {match'[s].a, match'[s].b} \subseteq Ranked(seed')
              ELSE match'[s].status = "pending"
      BY <2>1, PublishDraws
    <3>2. /\ DOMAIN match' = Rows(battle.size) /\ battle'.size = battle.size /\ battle'.round = 1
      BY <1>1, <2>1 DEF Publish, Battle
    <3>3. Sides(match') \subseteq Ranked(seed')
      BY <3>1 DEF Sides
    <3> QED
      BY <1>1, <3>2, <3>3 DEF OnInv
  <2>2. CASE (\E op \in Ops : Load(q, op)) \/ Abort(q)
    <3>1. UNCHANGED <<battle, seed, match>>
      BY <2>2 DEF Load, Abort, board
    <3> QED
      BY <3>1 DEF OnInv
  <2>3. CASE SetVisibility(q) \/ ArchiveBattle(q)
    <3>1. /\ UNCHANGED <<match, seed>> /\ battle'.round = battle.round /\ battle'.size = battle.size
          /\ battle'.status \in {battle.status, "archived"}
      BY <1>1, <2>3 DEF SetVisibility, ArchiveBattle, Battle
    <3> QED
      BY <3>1 DEF OnInv
  <2>4. CASE SetEntries(q) \/ UpdateDetails(q) \/ DeleteDraft(q)
    <3>1. battle.status = "draft"
      BY <2>4 DEF SetEntries, UpdateDetails, DeleteDraft, Answer, CallsFitDraft
    <3>2. battle'.status # "active"
      BY <1>1, <2>4, <3>1 DEF SetEntries, UpdateDetails, DeleteDraft, Battle
    <3> QED
      BY <3>2 DEF OnInv
  <2> QED
    BY <1>4, <2>1, <2>2, <2>3, <2>4 DEF Manage
<1> QED
  BY <1>2, <1>3, <1>4 DEF Next, Engine, OnInv

\* As long as the creator's calls do not overlap and no title is deleted, the
\* round of a battle that is on can always be closed, so that no due battle
\* raises in the loop (publish, _close_current_round, advance_due_battles).
THEOREM OneCallNeverSticks ==
  ASSUME \A p, q \in Requests : p = q
  PROVE  Spec => []NeverStuck
<1>1. Init => CallsFitDraft /\ OnInv
  BY DEF Init, CallsFitDraft, Idle, OnInv
<1>2. IInv /\ CallsFitDraft /\ [Next]_vars => CallsFitDraft'
  BY OneCallStays
<1>3. IInv /\ Standing(match) /\ CallsFitDraft /\ OnInv /\ [Next]_vars => OnInv'
  BY StepOnInv
<1>4. IInv /\ OnInv => NeverStuck
  BY OnIsClosable
<1> QED
  BY <1>1, <1>2, <1>3, <1>4, StandingInvariance, Invariance, PTL DEF Spec
-----------------------------------------------------------------------------
(* Titles are deleted *)

CIInv ==
  /\ IInv /\ Standing(match)
  /\ live \subseteq Entities /\ Sides(match) \subseteq live

\* What is left of rows, votes and standing when some matches go
LEMMA FewerRowsStand ==
  ASSUME NEW m, NEW S, S \subseteq DOMAIN m, Standing(m)
  PROVE  Standing(Restrict(m, S)) /\ Sides(Restrict(m, S)) \subseteq Sides(m)
<1> DEFINE n == Restrict(m, S)
<1>1. DOMAIN n = S /\ \A s \in S : n[s] = m[s] /\ s \in DOMAIN m
  BY DEF Restrict
<1> HIDE DEF n
<1>2. Feeds(n)
  BY <1>1 DEF Standing, Feeds
<1>3. Even(n)
  BY <1>1 DEF Standing, Even
<1>4. Sides(n) \subseteq Sides(m)
  BY <1>1 DEF Sides
<1> QED
  BY <1>2, <1>3, <1>4 DEF Standing, n

LEMMA FewerRowsAreSound ==
  ASSUME NEW bt, NEW m, NEW v, MatchesOK(bt, m), VotesOK(m, v), NEW S, S \subseteq DOMAIN m
  PROVE  MatchesOK(bt, Restrict(m, S)) /\ VotesOK(Restrict(m, S), Restrict(v, S))
<1> DEFINE n == Restrict(m, S)
           w == Restrict(v, S)
<1>1. /\ n = [s \in S |-> n[s]] /\ DOMAIN n = S /\ \A s \in S : n[s] = m[s] /\ s \in DOMAIN m
      /\ w = [s \in S |-> w[s]] /\ DOMAIN w = S /\ \A s \in S : w[s] = v[s]
  BY DEF Restrict
<1> HIDE DEF n, w
<1>2. MatchesOK(bt, n)
  BY <1>1 DEF MatchesOK
<1>3. \A s \in S : \A e : Count(w, s, e) = Count(v, s, e)
  BY <1>1 DEF Count
<1>4. \A s \in S : Fair(n, w, s)
  BY <1>1, <1>3 DEF VotesOK, Fair
<1>5. VotesOK(n, w)
  BY <1>1, <1>4 DEF VotesOK
<1> QED
  BY <1>2, <1>5 DEF n, w

LEMMA DeleteEntityKeeps ==
  ASSUME CIInv, NEW e \in Entities, DeleteEntity(e)
  PROVE  CIInv'
<1> DEFINE S == Survives(e)
<1>1. S \subseteq DOMAIN match
  BY DEF Survives
<1>2. /\ match' = Restrict(match, S) /\ vote' = Restrict(vote, S) /\ live' = live \ {e}
      /\ req' = req
  BY DEF DeleteEntity
<1>3. MatchesOK(battle, match') /\ VotesOK(match', vote')
  BY <1>1, <1>2, FewerRowsAreSound DEF CIInv, IInv
<1>4. /\ battle' \in Battle /\ battle'.status = battle.status /\ battle'.round = battle.round
  BY DEF DeleteEntity, CIInv, IInv, MatchesOK, Battle
<1>5. MatchesOK(battle', match')
  BY <1>3, <1>4 DEF MatchesOK, InStep
<1>6. Numbered(seed')
  <2>1. Numbered(seed)
    BY DEF CIInv, IInv
  <2>2. seed' = [f \in Entities |-> IF f \in {e} THEN 0 ELSE seed[f]]
    BY <2>1 DEF DeleteEntity, Numbered
  <2> QED
    BY <2>1, <2>2, FewerAreNumbered
<1>7. left' \in Nat \cup {None}
  BY DEF DeleteEntity, CIInv, IInv
<1>8. DOMAIN match' = S
  BY <1>2 DEF Restrict
<1>9. IInv'
  BY <1>1, <1>2, <1>3, <1>4, <1>5, <1>6, <1>7, <1>8 DEF CIInv, IInv
<1>10. Standing(match') /\ Sides(match') \subseteq Sides(match)
  BY <1>1, <1>2, FewerRowsStand DEF CIInv
<1>11. e \notin Sides(match')
  <2>1. \A s \in DOMAIN match' : match'[s] = match[s] /\ e \notin {match[s].a, match[s].b}
    BY <1>2 DEF Restrict, Survives
  <2> QED
    BY <2>1 DEF Sides
<1> QED
  BY <1>2, <1>9, <1>10, <1>11 DEF CIInv

LEMMA StepCIInv == CIInv /\ [CNext]_cvars => CIInv'
<1> SUFFICES ASSUME CIInv, [CNext]_cvars PROVE CIInv'
  OBVIOUS
<1>1. CASE Keep
  <2>1. /\ IInv' /\ Standing(match')
        /\ Sides(match') \subseteq Sides(match) \cup Ranked(seed')
    BY <1>1, StepIInv, StepStanding DEF CIInv, Keep
  <2> QED
    BY <1>1, <2>1 DEF CIInv, Keep
<1>2. ASSUME NEW e \in Entities, DeleteEntity(e) PROVE CIInv'
  BY <1>2, DeleteEntityKeeps
<1>3. CASE UNCHANGED cvars
  <2>1. IInv'
    BY <1>3, StepIInv DEF CIInv, cvars
  <2> QED
    BY <1>3, <2>1 DEF cvars, vars, board, CIInv
<1> QED
  BY <1>1, <1>2, <1>3 DEF CNext

LEMMA CascadeInvariance == CSpec => []CIInv
<1>1. CInit => CIInv
  BY InitIInv, InitStanding DEF CInit, CIInv, Init, Sides
<1> QED
  BY <1>1, StepCIInv, PTL DEF CSpec

\* Deleting titles never promotes anybody and brings nobody back, however the
\* deletes fall between votes, closes, and drafts that are published from
\* copies (the foreign keys of tournament_models.py; set_entries and publish
\* check that the titles exist).
THEOREM StandingsAlwaysSurvive == CSpec => []StandingsSurvive
<1>1. CIInv => StandingsSurvive
  <2> SUFFICES ASSUME CIInv, NEW s \in DOMAIN match, match[s].status # "pending"
               PROVE  /\ {match[s].a, match[s].b} \subseteq live
                      /\ s[1] > 1 =>
                           LET f == <<s[1] - 1, 2 * s[2]>>
                               g == <<s[1] - 1, 2 * s[2] + 1>>
                           IN  /\ f \in DOMAIN match => match[f].winner = match[s].a
                               /\ g \in DOMAIN match => match[g].winner = match[s].b
    BY DEF StandingsSurvive
  <2>1. match[s].a \in Sides(match) /\ match[s].b \in Sides(match)
    BY DEF Sides
  <2> QED
    BY <2>1 DEF CIInv, Standing, Feeds
<1> QED
  BY <1>1, CascadeInvariance, PTL

\* What holds of a tournament without deletes holds with them as well: rounds
\* in order, results that follow the votes, votes for sides only.
THEOREM DeletesKeepTheRules == CSpec => [](RoundsInStep /\ MajorityDecides /\ VotesAreForSides)
<1>1. CIInv => RoundsInStep /\ MajorityDecides /\ VotesAreForSides
  BY DEF CIInv, IInv, RoundsInStep, MatchesOK, MajorityDecides, VotesAreForSides, VotesOK,
         Fair, Count, VotesFor
<1> QED
  BY <1>1, CascadeInvariance, PTL

\* Nothing but a delete of a title takes a result away, and it takes those of
\* that title alone (entity_manager.py with the foreign keys).
THEOREM OnlyDeletesEverForget == CSpec => OnlyDeletesForget
<1> DEFINE Forget ==
      \A s \in DOMAIN match :
        match[s].status = "closed" /\ battle'.status # "gone" =>
          IF s \in DOMAIN match'
          THEN match'[s] = match[s] /\ vote'[s] = vote[s]
          ELSE \E e \in live \ live' : e \in {match[s].a, match[s].b}
<1>1. CIInv /\ [CNext]_cvars => [Forget]_cvars
  <2> SUFFICES ASSUME CIInv, CNext PROVE Forget
    OBVIOUS
  <2>1. CASE Keep
    <3>1. IInv /\ Next
      BY <2>1 DEF CIInv, Keep
    <3>2. History \/ UNCHANGED vars
      BY <3>1, StepIsHistory
    <3>3. UNCHANGED vars => match' = match /\ vote' = vote
      BY DEF vars, board
    <3> QED
      BY <3>2, <3>3 DEF History
  <2>2. ASSUME NEW e \in Entities, DeleteEntity(e) PROVE Forget
    <3>1. /\ DOMAIN match' = Survives(e) /\ live' = live \ {e} /\ e \in live
          /\ \A s \in Survives(e) : match'[s] = match[s] /\ vote'[s] = vote[s]
      BY <2>2 DEF DeleteEntity, Restrict
    <3> QED
      BY <3>1 DEF Survives
  <2> QED
    BY <2>1, <2>2 DEF CNext
<1>2. CSpec => [][Forget]_cvars
  BY <1>1, CascadeInvariance, PTL DEF CSpec
<1> QED
  BY <1>2 DEF OnlyDeletesForget
-----------------------------------------------------------------------------
(* Sums over finite sets, as the folds of the community modules compute    *)
(* them                                                                    *)

\* What holds of a set when it holds of its proper subsets holds of a finite
\* set; good is the set of the sets of which it holds
LEMMA SubsetInduction ==
  ASSUME NEW D, IsFiniteSet(D), NEW good,
         \A T \in SUBSET D : (\A U \in SUBSET T : U # T => U \in good) => T \in good
  PROVE  \A T \in SUBSET D : T \in good
<1> DEFINE bad == {T \in SUBSET D : T \notin good}
<1> SUFFICES ASSUME bad # {} PROVE FALSE
  OBVIOUS
<1>1. IsWellFoundedOn(StrictSubsetOrdering(D), FiniteSubsetsOf(D))
  BY FS_StrictSubsetOrderingWellFounded
<1>2. bad \subseteq FiniteSubsetsOf(D)
  BY FS_Subset DEF FiniteSubsetsOf
<1>3. PICK T \in bad : \A U \in bad : <<U, T>> \notin StrictSubsetOrdering(D)
  <2> HIDE DEF bad
  <2> QED
    BY <1>1, <1>2, WFMin
<1>4. ASSUME NEW U \in SUBSET T, U # T PROVE U \in good
  <2>1. <<U, T>> \in StrictSubsetOrdering(D)
    BY <1>4 DEF StrictSubsetOrdering
  <2> QED
    BY <1>3, <1>4, <2>1
<1> QED
  BY <1>4

Pick(T) == CHOOSE x \in T : TRUE

\* g sums h over the subsets of D, the way the folds of the library do
IsSum(g, h, D) ==
  g = [T \in SUBSET D |-> IF T = {} THEN 0 ELSE h[Pick(T)] + g[T \ {Pick(T)}]]

LEMMA PickIn == \A T : T # {} => Pick(T) \in T
BY DEF Pick

LEMMA SumsAgree ==
  ASSUME NEW D, NEW E, NEW g, NEW k, NEW h, IsSum(g, h, D), IsSum(k, h, E), 
         E \subseteq D, IsFiniteSet(D)
  PROVE  g[E] = k[E]
<1> DEFINE good == {T \in SUBSET E : g[T] = k[T]}
<1>1. ASSUME NEW T \in SUBSET E, \A U \in SUBSET T : U # T => U \in good
      PROVE  T \in good
  <2>1. CASE T = {}
    BY <2>1 DEF IsSum
  <2>2. CASE T # {}
    <3>1. T \ {Pick(T)} \in good
      BY <1>1, <2>2, PickIn
    <3> QED
      BY <2>2, <3>1 DEF IsSum
  <2> QED
    BY <2>1, <2>2
<1>2. IsFiniteSet(E)
  BY FS_Subset
<1>3. \A T \in SUBSET E : T \in good
  <2> HIDE DEF good
  <2> QED
    BY <1>1, <1>2, SubsetInduction
<1> QED
  BY <1>3

LEMMA SumExists ==
  ASSUME NEW D, IsFiniteSet(D), NEW h
  PROVE  \E g : IsSum(g, h, D)
<1> DEFINE good == {T \in SUBSET D : \E g : IsSum(g, h, T)}
           gOf(T) == CHOOSE g : IsSum(g, h, T)
           F(T) == IF T = {} THEN 0 ELSE h[Pick(T)] + gOf(T \ {Pick(T)})[T \ {Pick(T)}]
<1>1. ASSUME NEW T \in SUBSET D, \A U \in SUBSET T : U # T => U \in good
      PROVE  T \in good
  <2> DEFINE g == [V \in SUBSET T |-> F(V)]
  <2>1. \A U \in SUBSET T : U # T => IsSum(gOf(U), h, U)
    BY <1>1
  <2>2. ASSUME NEW V \in SUBSET T, V # {}
        PROVE  g[V] = h[Pick(V)] + g[V \ {Pick(V)}]
    <3> DEFINE W == V \ {Pick(V)}
    <3>1. W \in SUBSET T /\ W # T /\ Pick(V) \in V
      BY <2>2, PickIn
    <3>2. IsSum(gOf(W), h, W)
      BY <2>1, <3>1
    <3>3. g[V] = h[Pick(V)] + gOf(W)[W]
      BY <2>2
    <3>4. g[W] = gOf(W)[W]
      <4>1. CASE W = {}
        BY <3>1, <3>2, <4>1 DEF IsSum
      <4>2. CASE W # {}
        <5> DEFINE X == W \ {Pick(W)}
        <5>1. X \in SUBSET W /\ X \in SUBSET T /\ X # T
          BY <3>1, <4>2
        <5>2. IsSum(gOf(X), h, X)
          BY <2>1, <5>1
        <5>3. g[W] = h[Pick(W)] + gOf(X)[X]
          BY <3>1, <4>2
        <5>4. IsFiniteSet(W)
          BY <3>1, FS_Subset
        <5> HIDE DEF W, X, gOf, g
        <5>5. gOf(W)[X] = gOf(X)[X]
          BY <3>2, <5>1, <5>2, <5>4, SumsAgree
        <5>6. gOf(W)[W] = h[Pick(W)] + gOf(W)[X]
          BY <3>2, <4>2 DEF IsSum, X
        <5> QED
          BY <5>3, <5>5, <5>6
      <4> QED
        BY <4>1, <4>2
    <3> QED
      BY <3>3, <3>4
  <2>3. g[{}] = 0
    OBVIOUS
  <2>4. g = [V \in SUBSET T |-> IF V = {} THEN 0 ELSE h[Pick(V)] + g[V \ {Pick(V)}]]
    <3>1. g = [V \in SUBSET T |-> g[V]]
      OBVIOUS
    <3> HIDE DEF g
    <3> QED
      BY <2>2, <2>3, <3>1
  <2> HIDE DEF g
  <2> QED
    BY <2>4 DEF IsSum
<1>2. \A T \in SUBSET D : T \in good
  <2> HIDE DEF good
  <2> QED
    BY <1>1, SubsetInduction
<1> QED
  BY <1>2

\* A sum of integers is an integer, and any element can be taken out first
LEMMA SumType ==
  ASSUME NEW D, IsFiniteSet(D), NEW h, \A s \in D : h[s] \in Int, NEW g, IsSum(g, h, D)
  PROVE  \A T \in SUBSET D : g[T] \in Int
<1> DEFINE good == {T \in SUBSET D : g[T] \in Int}
<1>1. ASSUME NEW T \in SUBSET D, \A U \in SUBSET T : U # T => U \in good
      PROVE  T \in good
  <2>1. CASE T = {}
    BY <2>1 DEF IsSum
  <2>2. CASE T # {}
    <3>1. g[T \ {Pick(T)}] \in Int /\ h[Pick(T)] \in Int
      BY <1>1, <2>2, PickIn
    <3>2. g[T] = h[Pick(T)] + g[T \ {Pick(T)}]
      BY <2>2 DEF IsSum
    <3> QED
      BY <3>1, <3>2
  <2> QED
    BY <2>1, <2>2
<1>3. \A T \in SUBSET D : T \in good
  <2> HIDE DEF good
  <2> QED
    BY <1>1, SubsetInduction
<1> QED
  BY <1>3

LEMMA SumTakesOut ==
  ASSUME NEW D, IsFiniteSet(D), NEW h, \A s \in D : h[s] \in Int, NEW g, IsSum(g, h, D),
         NEW T \in SUBSET D, NEW x \in T
  PROVE  g[T] = h[x] + g[T \ {x}]
<1> DEFINE good == {U \in SUBSET D : \A y \in U : g[U] = h[y] + g[U \ {y}]}
<1>1. ASSUME NEW U \in SUBSET D, \A V \in SUBSET U : V # U => V \in good
      PROVE  U \in good
  <2> SUFFICES ASSUME NEW y \in U PROVE g[U] = h[y] + g[U \ {y}]
    OBVIOUS
  <2> DEFINE c == Pick(U)
  <2>1. c \in U
    BY PickIn
  <2>2. g[U] = h[c] + g[U \ {c}]
    BY DEF IsSum
  <2> HIDE DEF c
  <2>3. CASE c = y
    BY <2>2, <2>3
  <2>4. CASE c # y
    <3>1. U \ {c} \in good /\ U \ {y} \in good
      BY <1>1, <2>1
    <3>2. g[U \ {c}] = h[y] + g[(U \ {c}) \ {y}]
      BY <2>4, <3>1
    <3>3. g[U \ {y}] = h[c] + g[(U \ {y}) \ {c}]
      BY <2>1, <2>4, <3>1
    <3> DEFINE rest == g[(U \ {c}) \ {y}]
    <3>4. g[(U \ {y}) \ {c}] = rest
      <4>1. (U \ {c}) \ {y} = (U \ {y}) \ {c}
        OBVIOUS
      <4> QED
        BY <4>1
    <3>5. rest \in Int /\ h[c] \in Int /\ h[y] \in Int
      BY <2>1, SumType
    <3>6. g[U] = h[c] + (h[y] + rest) /\ g[U \ {y}] = h[c] + rest
      BY <2>2, <3>2, <3>3, <3>4
    <3> HIDE DEF rest
    <3> QED
      BY <3>5, <3>6
  <2> QED
    BY <2>3, <2>4
<1>2. \A U \in SUBSET D : U \in good
  <2> HIDE DEF good
  <2> QED
    BY <1>1, SubsetInduction
<1> QED
  BY <1>2

\* The sum of h over its domain
Total(h) == (CHOOSE g : IsSum(g, h, DOMAIN h))[DOMAIN h]

LEMMA TotalOf ==
  ASSUME NEW h, IsFiniteSet(DOMAIN h), NEW g, IsSum(g, h, DOMAIN h)
  PROVE  Total(h) = g[DOMAIN h]
BY SumsAgree DEF Total

LEMMA TotalType ==
  ASSUME NEW D, IsFiniteSet(D), NEW h \in [D -> Int]
  PROVE  Total(h) \in Int
<1>1. PICK g : IsSum(g, h, D)
  BY SumExists
<1>2. Total(h) = g[D]
  BY <1>1, TotalOf
<1> QED
  BY <1>1, <1>2, SumType

\* Adding k to some of the terms adds the sum of k
LEMMA TotalAdds ==
  ASSUME NEW D, IsFiniteSet(D), NEW T, T \subseteq D,
         NEW h \in [D -> Int], NEW i \in [D -> Int], NEW k \in [T -> Int],
         \A s \in D : i[s] = h[s] + (IF s \in T THEN k[s] ELSE 0)
  PROVE  Total(i) = Total(h) + Total(k)
<1>1. IsFiniteSet(T)
  BY FS_Subset
<1>2. PICK gh, gi, gk : IsSum(gh, h, D) /\ IsSum(gi, i, D) /\ IsSum(gk, k, T)
  BY <1>1, SumExists
<1> DEFINE good == {U \in SUBSET D : gi[U] = gh[U] + gk[U \cap T]}
<1>3. ASSUME NEW U \in SUBSET D, \A V \in SUBSET U : V # U => V \in good
      PROVE  U \in good
  <2>1. CASE U = {}
    <3>1. gi[U] = 0 /\ gh[U] = 0
      BY <1>2, <2>1 DEF IsSum
    <3>2. gk[U \cap T] = 0
      <4>1. U \cap T = {}
        BY <2>1
      <4> QED
        BY <1>2, <4>1 DEF IsSum
    <3> QED
      BY <3>1, <3>2
  <2>2. CASE U # {}
    <3> DEFINE c == Pick(U)
               V == U \ {c}
    <3>1. c \in U /\ c \in D /\ V \in good /\ V \in SUBSET D
      BY <1>3, <2>2, PickIn
    <3>2. gi[V] = gh[V] + gk[V \cap T]
      BY <3>1
    <3>3. gi[U] = i[c] + gi[V] /\ gh[U] = h[c] + gh[V]
      BY <1>2, <2>2 DEF IsSum
    <3>4. gh[V] \in Int /\ gk[V \cap T] \in Int
      <4>1. V \cap T \in SUBSET T
        OBVIOUS
      <4> QED
        BY <1>1, <1>2, <3>1, <4>1, SumType
    <3> HIDE DEF c
    <3>5. CASE c \in T
      <4>1. gk[U \cap T] = k[c] + gk[(U \cap T) \ {c}]
        BY <1>1, <1>2, <3>1, <3>5, SumTakesOut
      <4>2. (U \cap T) \ {c} = V \cap T
        OBVIOUS
      <4>3. i[c] = h[c] + k[c] /\ h[c] \in Int /\ k[c] \in Int
        BY <3>1, <3>5
      <4>4. gk[U \cap T] = k[c] + gk[V \cap T]
        BY <4>1, <4>2
      <4>5. gi[U] = gh[U] + gk[U \cap T]
        <5> DEFINE n == gk[V \cap T]
                   m == gh[V]
                   p == h[c]
                   q == k[c]
                   x == gi[U]
                   y == gh[U]
                   z == gk[U \cap T]
        <5>1. n \in Int /\ m \in Int /\ p \in Int /\ q \in Int
          BY <3>4, <4>3
        <5>2. x = (p + q) + (m + n) /\ y = p + m /\ z = q + n
          BY <3>2, <3>3, <4>3, <4>4
        <5> HIDE DEF n, m, p, q, x, y, z
        <5>3. x = y + z
          BY <5>1, <5>2
        <5> QED
          BY <5>3 DEF x, y, z
      <4> QED
        BY <4>5
    <3>6. CASE c \notin T
      <4>1. U \cap T = V \cap T
        BY <3>6
      <4>2. i[c] = h[c] /\ h[c] \in Int
        BY <3>1, <3>6
      <4>3. gi[U] = gh[U] + gk[U \cap T]
        <5> DEFINE n == gk[V \cap T]
                   m == gh[V]
                   p == h[c]
        <5>1. n \in Int /\ m \in Int /\ p \in Int /\ (p + m) + n = p + (m + n)
          BY <3>4, <4>2
        <5>2. gi[U] = p + (m + n) /\ gh[U] = p + m /\ gk[U \cap T] = n
          BY <3>2, <3>3, <4>1, <4>2
        <5> HIDE DEF n, m, p, V
        <5> QED
          BY <5>1, <5>2
      <4> QED
        BY <4>3
    <3> QED
      BY <3>5, <3>6
  <2> QED
    BY <2>1, <2>2
<1>4. D \in good
  <2> HIDE DEF good
  <2> QED
    BY <1>3, SubsetInduction
<1>5. gi[D] = gh[D] + gk[T]
  <2>1. D \cap T = T
    OBVIOUS
  <2> QED
    BY <1>4, <2>1
<1>6. Total(i) = gi[D] /\ Total(h) = gh[D] /\ Total(k) = gk[T]
  BY <1>1, <1>2, TotalOf
<1> QED
  BY <1>5, <1>6

LEMMA TotalOne ==
  ASSUME NEW x, NEW k \in [{x} -> Int]
  PROVE  Total(k) = k[x]
<1>1. IsFiniteSet({x})
  BY FS_Singleton
<1>2. PICK g : IsSum(g, k, {x})
  BY <1>1, SumExists
<1>3. g[{x}] = k[x] + g[{x} \ {x}] /\ g[{}] = 0
  <2>1. g[{x}] = k[x] + g[{x} \ {x}]
    <3>1. \A s \in {x} : k[s] \in Int
      OBVIOUS
    <3>2. {x} \in SUBSET {x} /\ x \in {x}
      OBVIOUS
    <3> DEFINE one == {x}
    <3>3. IsFiniteSet(one) /\ IsSum(g, k, one) /\ one \in SUBSET one /\ x \in one
          /\ \A s \in one : k[s] \in Int
      BY <1>1, <1>2, <3>1, <3>2
    <3> HIDE DEF one
    <3>4. g[one] = k[x] + g[one \ {x}]
      BY <3>3, SumTakesOut
    <3> QED
      BY <3>4 DEF one
  <2>2. g[{}] = 0
    BY <1>2 DEF IsSum
  <2> QED
    BY <2>1, <2>2
<1>4. {x} \ {x} = {} /\ k[x] \in Int
  OBVIOUS
<1>5. Total(k) = g[{x}]
  BY <1>1, <1>2, TotalOf
<1>6. g[{x} \ {x}] = 0
  BY <1>3, <1>4
<1> QED
  BY <1>3, <1>4, <1>5, <1>6

LEMMA TotalZero ==
  ASSUME NEW D, IsFiniteSet(D), NEW h \in [D -> Int], \A s \in D : h[s] = 0
  PROVE  Total(h) = 0
<1>1. \A s \in D : h[s] = h[s] + (IF s \in D THEN h[s] ELSE 0)
  OBVIOUS
<1>2. Total(h) = Total(h) + Total(h)
  BY <1>1, TotalAdds
<1> QED
  BY <1>2, TotalType

-----------------------------------------------------------------------------
(* What a battle does to Elo scores *)

UsedTerms(m, d, e) ==
  [s \in DOMAIN m |-> IF d[s] = None THEN 0
                      ELSE (IF m[s].a = e THEN Abs(d[s][1]) ELSE 0)
                         + (IF m[s].b = e THEN Abs(d[s][2]) ELSE 0)]

RecordedTerms(m, d, e) ==
  [s \in DOMAIN d |-> IF d[s] = None THEN 0
                      ELSE IF m[s].a = e THEN d[s][1]
                      ELSE IF m[s].b = e THEN d[s][2] ELSE 0]

LEMMA UsedIsTotal ==
  ASSUME NEW b, IsFiniteSet(DOMAIN b.match), NEW e
  PROVE  Used(b, e) = Total(UsedTerms(b.match, b.delta, e))
<1> DEFINE D == DOMAIN b.match
           f(s) == IF b.delta[s] = None THEN 0
                   ELSE (IF b.match[s].a = e THEN Abs(b.delta[s][1]) ELSE 0)
                      + (IF b.match[s].b = e THEN Abs(b.delta[s][2]) ELSE 0)
           h == UsedTerms(b.match, b.delta, e)
           P(k) == k = [T \in SUBSET D |-> IF T = {} THEN 0
                          ELSE f(CHOOSE x \in T : TRUE) + k[T \ {CHOOSE x \in T : TRUE}]]
<1>1. DOMAIN h = D /\ \A s \in D : h[s] = f(s)
  BY DEF UsedTerms
<1>2. PICK g : IsSum(g, h, D)
  BY SumExists
<1>3. Used(b, e) = (CHOOSE k : P(k))[D]
  BY DEF Used, MapThenSumSet, MapThenFoldSet
<1> HIDE DEF f, h
<1>4. ASSUME NEW k PROVE IsSum(k, h, D) <=> P(k)
  <2>1. \A T \in SUBSET D : T # {} => h[Pick(T)] = f(Pick(T))
    BY <1>1, PickIn
  <2> QED
    BY <2>1 DEF IsSum, Pick
<1> HIDE DEF P
<1>5. P(CHOOSE k : P(k))
  <2>1. P(g)
    BY <1>2, <1>4
  <2> QED
    BY <2>1
<1>6. IsSum(CHOOSE k : P(k), h, DOMAIN h)
  BY <1>1, <1>4, <1>5
<1> QED
  BY <1>1, <1>3, <1>6, TotalOf DEF h

LEMMA RecordedIsTotal ==
  ASSUME NEW m, NEW d, IsFiniteSet(DOMAIN d), NEW e
  PROVE  Recorded(m, d, e) = Total(RecordedTerms(m, d, e))
<1> DEFINE D == DOMAIN d
           f(s) == IF d[s] = None THEN 0
                   ELSE IF m[s].a = e THEN d[s][1]
                   ELSE IF m[s].b = e THEN d[s][2] ELSE 0
           h == RecordedTerms(m, d, e)
           P(k) == k = [T \in SUBSET D |-> IF T = {} THEN 0
                          ELSE f(CHOOSE x \in T : TRUE) + k[T \ {CHOOSE x \in T : TRUE}]]
<1>1. DOMAIN h = D /\ \A s \in D : h[s] = f(s)
  BY DEF RecordedTerms
<1>2. PICK g : IsSum(g, h, D)
  BY SumExists
<1>3. Recorded(m, d, e) = (CHOOSE k : P(k))[D]
  BY DEF Recorded, MapThenSumSet, MapThenFoldSet
<1> HIDE DEF f, h
<1>4. ASSUME NEW k PROVE IsSum(k, h, D) <=> P(k)
  <2>1. \A T \in SUBSET D : T # {} => h[Pick(T)] = f(Pick(T))
    BY <1>1, PickIn
  <2> QED
    BY <2>1 DEF IsSum, Pick
<1> HIDE DEF P
<1>5. P(CHOOSE k : P(k))
  <2>1. P(g)
    BY <1>2, <1>4
  <2> QED
    BY <2>1
<1>6. IsSum(CHOOSE k : P(k), h, DOMAIN h)
  BY <1>1, <1>4, <1>5
<1> QED
  BY <1>1, <1>3, <1>6, TotalOf DEF h

LEMMA SlotsFinite ==
  ASSUME NEW S, S \subseteq Slots
  PROVE  IsFiniteSet(S)
<1>1. IsFiniteSet(1..MaxRounds) /\ IsFiniteSet(0..7)
  <2>1. 1 \in Int /\ MaxRounds \in Int /\ 0 \in Int /\ 7 \in Int
    BY DEF MaxRounds
  <2> QED
    BY <2>1, FS_Interval
<1>2. IsFiniteSet(Slots)
  BY <1>1, FS_Product DEF Slots
<1> QED
  BY <1>2, FS_Subset

\* Nobody stands twice in a round
Apart(m) ==
  \A s, t \in DOMAIN m :
    s[1] = t[1] /\ m[s].status # "pending" /\ m[t].status # "pending" =>
      /\ m[s].a # m[t].b
      /\ m[s].a = m[t].a => s = t
      /\ m[s].b = m[t].b => s = t

\* The recorded changes are numbers of matches that were opened, and add up to
\* no more than the cap
ScoresOK(m, d) ==
  /\ DOMAIN d = DOMAIN m
  /\ \A s \in DOMAIN m : d[s] # None => d[s] \in Int \X Int /\ m[s].status # "pending"
  /\ \A e \in Entities : Total(UsedTerms(m, d, e)) <= Cap

MovesOK(m, d, mv) == \A e \in Entities : mv[e] = Total(RecordedTerms(m, d, e))

LEMMA CloseScores ==
  ASSUME NEW b, IsBoard(b), NEW gain
  PROVE  LET c == CloseCurrentRound(b, gain)
             todo == {s \in Decided(b) : b.delta[s] = None}
             fresh == [s \in todo |-> MatchDelta(b, s, gain)]
         IN  /\ c.delta = [s \in DOMAIN b.match |-> IF s \in todo THEN fresh[s] ELSE b.delta[s]]
             /\ c.moved = [e \in Entities |-> b.moved[e] + Recorded(b.match, fresh, e)]
<1> DEFINE a == ApplyMatchScores(b, Decided(b), gain)
           todo == {s \in Decided(b) : b.delta[s] = None}
           fresh == [s \in todo |-> MatchDelta(b, s, gain)]
           dd == [s \in DOMAIN b.match |-> IF s \in todo THEN fresh[s] ELSE b.delta[s]]
           mm == [e \in Entities |-> b.moved[e] + Recorded(b.match, fresh, e)]
<1>1. IsBoard(a)
  BY ScoreFrame
<1>2. a = [b EXCEPT !.delta = dd, !.moved = mm]
  BY DEF ApplyMatchScores
<1>3. \E m, l, bt : CloseCurrentRound(b, gain)
                      = [a EXCEPT !.match = m, !.left = l, !.battle = bt]
  BY DEF CloseCurrentRound
<1> HIDE DEF a, dd, mm
<1>4. CloseCurrentRound(b, gain).delta = a.delta /\ CloseCurrentRound(b, gain).moved = a.moved
  BY <1>1, <1>3 DEF IsBoard
<1>5. a.delta = dd /\ a.moved = mm
  BY <1>2 DEF IsBoard
<1> QED
  BY <1>4, <1>5 DEF dd, mm

\* The clamp gives a natural number that fits under the cap
LEMMA ClampFits ==
  ASSUME NEW g \in Nat, NEW u \in Int, u <= Cap
  PROVE  LET x == Min({g, Max({Cap - u, 0})})
         IN  x \in Nat /\ u + x <= Cap
<1>1. Cap \in Nat
  BY ConstantsOK DEF ConstantsOK
<1>2. Max({Cap - u, 0}) = Cap - u
  <2> DEFINE S == {Cap - u, 0}
  <2>1. Cap - u \in S /\ \A y \in S : y <= Cap - u
    BY <1>1
  <2>2. \A x \in S : (\A y \in S : y <= x) => x = Cap - u
    BY <1>1
  <2>3. Max(S) = CHOOSE x \in S : \A y \in S : x >= y
    BY DEF Max
  <2> QED
    BY <1>1, <2>1, <2>2, <2>3
<1>3. Min({g, Cap - u}) \in {g, Cap - u} /\ Min({g, Cap - u}) <= Cap - u
  <2> DEFINE S == {g, Cap - u}
             x == IF g <= Cap - u THEN g ELSE Cap - u
  <2>1. x \in S /\ \A y \in S : x <= y
    BY <1>1
  <2>2. Min(S) = CHOOSE z \in S : \A y \in S : z <= y
    BY DEF Min
  <2>3. Min(S) \in S /\ \A y \in S : Min(S) <= y
    <3> HIDE DEF S, x
    <3> QED
      BY <2>1, <2>2
  <2> QED
    BY <2>3
<1>4. Min({g, Max({Cap - u, 0})}) = Min({g, Cap - u})
  BY <1>2
<1> QED
  <2> DEFINE x == Min({g, Cap - u})
  <2>1. Cap - u \in Nat /\ x \in {g, Cap - u} /\ x <= Cap - u
    BY <1>1, <1>3
  <2> HIDE DEF x
  <2>2. x \in Nat /\ u + x <= Cap
    BY <1>1, <2>1
  <2> QED
    BY <1>4, <2>2 DEF x

LEMMA AbsType ==
  ASSUME NEW x \in Int
  PROVE  Abs(x) \in Nat /\ (x \in Nat => Abs(x) = x /\ Abs(-x) = x)
BY DEF Abs

LEMMA TermTypes ==
  ASSUME NEW m, NEW d, NEW e,
         \A s \in DOMAIN d : d[s] # None => d[s] \in Int \X Int
  PROVE  /\ RecordedTerms(m, d, e) \in [DOMAIN d -> Int]
         /\ DOMAIN d = DOMAIN m => UsedTerms(m, d, e) \in [DOMAIN m -> Int]
<1>1. \A s \in DOMAIN d : d[s] # None => /\ d[s][1] \in Int /\ d[s][2] \in Int
                                         /\ Abs(d[s][1]) \in Int /\ Abs(d[s][2]) \in Int
  BY AbsType
<1> QED
  BY <1>1 DEF RecordedTerms, UsedTerms

\* A new change never takes a title over the cap (tournament_score._match_delta)
LEMMA DeltaFits ==
  ASSUME NEW b, NEW s, NEW gain \in [Entities -> Gains],
         b.match[s].a \in Entities, b.match[s].b \in Entities,
         \A e \in Entities : Used(b, e) \in Int /\ Used(b, e) <= Cap
  PROVE  LET x == MatchDelta(b, s, gain)
         IN  /\ x \in Int \X Int
             /\ Used(b, b.match[s].a) + Abs(x[1]) <= Cap
             /\ Used(b, b.match[s].b) + Abs(x[2]) <= Cap
<1> DEFINE clamp(e) == Min({gain[e], Max({Cap - Used(b, e), 0})})
           p == clamp(b.match[s].a)
           q == clamp(b.match[s].b)
           x == MatchDelta(b, s, gain)
<1>1. \A e \in Entities : clamp(e) \in Nat /\ Used(b, e) + clamp(e) <= Cap
  <2> TAKE e \in Entities
  <2>1. gain[e] \in Nat
    BY ConstantsOK DEF ConstantsOK
  <2> QED
    BY <2>1, ClampFits
<1>2. x \in {<<p, -q>>, <<-p, q>>, <<0, 0>>}
  BY DEF MatchDelta
<1> HIDE DEF x, clamp
<1>3. p \in Nat /\ q \in Nat /\ Used(b, b.match[s].a) + p <= Cap /\ Used(b, b.match[s].b) + q <= Cap
  BY <1>1
<1> HIDE DEF p, q
<1>4. /\ Abs(p) = p /\ Abs(-p) = p /\ Abs(q) = q /\ Abs(-q) = q /\ Abs(0) = 0
  BY <1>3 DEF Abs
<1>5. x \in Int \X Int
  BY <1>2, <1>3
<1>6. Abs(x[1]) \in {p, 0} /\ Abs(x[2]) \in {q, 0}
  BY <1>2, <1>4
<1> HIDE DEF x
<1> DEFINE u == Used(b, b.match[s].a)
           v == Used(b, b.match[s].b)
<1>7. u \in Int /\ v \in Int /\ u <= Cap /\ v <= Cap /\ u + p <= Cap /\ v + q <= Cap
  BY <1>3
<1> HIDE DEF u, v
<1>8. u + Abs(x[1]) <= Cap /\ v + Abs(x[2]) <= Cap
  BY <1>6, <1>7
<1> QED
  BY <1>5, <1>8 DEF u, v, x

\* One new change at most concerns a title, so it stays under the cap
LEMMA UsedStaysUnderCap ==
  ASSUME NEW m, IsFiniteSet(DOMAIN m), NEW d, ScoresOK(m, d), NEW todo, todo \subseteq DOMAIN m,
         NEW fresh,
         \A s \in todo : /\ d[s] = None /\ fresh[s] \in Int \X Int
                         /\ Total(UsedTerms(m, d, m[s].a)) + Abs(fresh[s][1]) <= Cap
                         /\ Total(UsedTerms(m, d, m[s].b)) + Abs(fresh[s][2]) <= Cap,
         \A s, t \in todo : /\ m[s].a # m[t].b
                            /\ m[s].a = m[t].a => s = t
                            /\ m[s].b = m[t].b => s = t,
         NEW dd, dd = [s \in DOMAIN m |-> IF s \in todo THEN fresh[s] ELSE d[s]],
         NEW e \in Entities
  PROVE  Total(UsedTerms(m, dd, e)) <= Cap
<1> DEFINE D == DOMAIN m
           old == UsedTerms(m, d, e)
           new == UsedTerms(m, dd, e)
<1>1. /\ \A s \in DOMAIN d : d[s] # None => d[s] \in Int \X Int
      /\ DOMAIN d = D /\ DOMAIN dd = D /\ D = DOMAIN m
  BY DEF ScoresOK
<1>2. \A s \in DOMAIN dd : dd[s] # None => dd[s] \in Int \X Int
  BY <1>1
<1>3. old \in [D -> Int] /\ new \in [D -> Int]
  BY <1>1, <1>2, TermTypes
<1>4. Total(old) \in Int /\ Total(old) <= Cap /\ Cap \in Int
  BY <1>3, TotalType, ConstantsOK DEF ScoresOK, ConstantsOK
<1>5. \A s \in D : s \notin todo => new[s] = old[s]
  BY <1>1 DEF UsedTerms
<1>6. \A s \in todo : old[s] = 0
  BY DEF UsedTerms
<1>7. \A s \in todo : m[s].a # e /\ m[s].b # e => new[s] = 0
  BY DEF UsedTerms
<1>8. CASE \E s \in todo : e \in {m[s].a, m[s].b}
  <2>1. PICK x \in todo : e \in {m[x].a, m[x].b}
    BY <1>8
  <2>2. \A s \in todo : s # x => m[s].a # e /\ m[s].b # e
    BY <2>1
  <2> DEFINE k == [s \in {x} |-> new[s]]
  <2>3. k \in [{x} -> Int] /\ k[x] = new[x] /\ {x} \subseteq D
    BY <1>3
  <2>4. \A s \in D : new[s] = old[s] + (IF s \in {x} THEN k[s] ELSE 0)
    <3> SUFFICES ASSUME NEW s \in D PROVE new[s] = old[s] + (IF s \in {x} THEN k[s] ELSE 0)
      OBVIOUS
    <3>1. new[s] \in Int /\ old[s] \in Int
      BY <1>3
    <3> HIDE DEF new, old
    <3> QED
      BY <1>5, <1>6, <1>7, <2>1, <2>2, <3>1
  <2>5. Total(new) = Total(old) + Total(k)
    <3> HIDE DEF new, old, k, D
    <3> QED
      BY <1>3, <2>3, <2>4, TotalAdds DEF D
  <2>6. Total(k) = new[x]
    <3> HIDE DEF new, k
    <3> QED
      BY <2>3, TotalOne
  <2>7. /\ m[x].a = e => new[x] \in {0, Abs(fresh[x][1])}
        /\ m[x].b = e => new[x] \in {0, Abs(fresh[x][2])}
    <3>1. m[x].a # m[x].b /\ dd[x] = fresh[x]
      OBVIOUS
    <3>2. Abs(fresh[x][1]) \in Int /\ Abs(fresh[x][2]) \in Int
      BY AbsType
    <3> QED
      BY <3>1, <3>2 DEF UsedTerms
  <2>8. Total(old) + new[x] <= Cap
    BY <1>4, <2>1, <2>7
  <2> QED
    BY <2>5, <2>6, <2>8
<1>9. CASE \A s \in todo : e \notin {m[s].a, m[s].b}
  <2>1. \A s \in D : new[s] = old[s]
    BY <1>5, <1>6, <1>7, <1>9
  <2>2. new = old
    <3> HIDE DEF new, old, D
    <3> QED
      BY <1>3, <2>1
  <2> QED
    BY <1>4, <2>2
<1> QED
  BY <1>8, <1>9

\* The next round is filled from different matches, so nobody gets in twice
LEMMA CloseKeepsApart ==
  ASSUME NEW b, GoodBoard(b), b.battle.status = "active", Closable(b), Apart(b.match), NEW gain
  PROVE  Apart(CloseCurrentRound(b, gain).match)
<1> DEFINE c == CloseCurrentRound(b, gain)
           r == b.battle.round
           D == DOMAIN b.match
<1>1. /\ r \in Nat
      /\ \A s \in D : s \in Slots /\ s[1] \in Nat /\ s[2] \in Nat /\ InStep(b.battle, b.match[s], s)
  BY RowNumbers
<1>2. DOMAIN c.match = D
  BY CloseStatus
<1>3. ASSUME NEW s \in D, NEW t \in D, s[1] = t[1], c.match[s].status # "pending",
             c.match[t].status # "pending"
      PROVE  /\ c.match[s].a # c.match[t].b
             /\ c.match[s].a = c.match[t].a => s = t
             /\ c.match[s].b = c.match[t].b => s = t
  <2>1. CASE s[1] = r + 1 /\ ~LastRound(b)
    <3> DEFINE f(x) == <<r, 2 * x[2]>>
               g(x) == <<r, 2 * x[2] + 1>>
    <3>1. \A x \in {s, t} :
            /\ f(x) \in D /\ g(x) \in D
            /\ c.match[x].a = c.match[f(x)].winner /\ c.match[x].b = c.match[g(x)].winner
      <4> TAKE x \in {s, t}
      <4>1. x \in D /\ x[1] = r + 1
        BY <1>3, <2>1
      <4> QED
        BY <2>1, <4>1, CloseRows
    <3>2. \A x : f(x)[1] = r /\ g(x)[1] = r
      OBVIOUS
    <3>3. \A x \in D : x[1] = r =>
            /\ b.match[x].status # "pending"
            /\ c.match[x].winner \in {b.match[x].a, b.match[x].b}
      BY CloseRows
    <3>4. \A x, y \in D : x[1] = r /\ y[1] = r /\ c.match[x].winner = c.match[y].winner => x = y
      BY <3>3 DEF Apart
    <3>5. \A x, y \in {s, t} : f(x) # g(y)
      <4>1. \A x, y \in {s, t} : 2 * x[2] # 2 * y[2] + 1
        BY <1>1
      <4> QED
        BY <4>1
    <3>6. f(s) = f(t) \/ g(s) = g(t) => s = t
      <4>1. f(s) = f(t) \/ g(s) = g(t) => s[2] = t[2]
        BY <1>1
      <4>2. s[2] = t[2] => s = t
        BY <1>1, <1>3 DEF Slots
      <4> QED
        BY <4>1, <4>2
    <3> HIDE DEF f, g, c
    <3> QED
      BY <3>1, <3>2, <3>4, <3>5, <3>6
  <2>2. CASE s[1] # r + 1 \/ LastRound(b)
    <3>1. \A x \in {s, t} : /\ b.match[x].status # "pending"
                            /\ c.match[x].a = b.match[x].a /\ c.match[x].b = b.match[x].b
      <4> TAKE x \in {s, t}
      <4>1. x \in D /\ (x[1] # r + 1 \/ LastRound(b)) /\ c.match[x].status # "pending"
        BY <1>3, <2>2
      <4>2. CASE x[1] = r
        BY <4>1, <4>2, CloseRows
      <4>3. CASE x[1] # r
        <5>1. c.match[x] = b.match[x]
          BY <4>1, <4>3, CloseRows
        <5> QED
          BY <4>1, <5>1
      <4> QED
        BY <4>2, <4>3
    <3> HIDE DEF c
    <3> QED
      BY <1>3, <3>1 DEF Apart
  <2> QED
    BY <2>1, <2>2
<1> HIDE DEF c, D
<1>4. Apart(c.match)
  BY <1>2, <1>3 DEF Apart
<1> QED
  BY <1>4 DEF c

ScoredBoard(b) == Apart(b.match) /\ ScoresOK(b.match, b.delta) /\ MovesOK(b.match, b.delta, b.moved)

LEMMA CloseKeepsScores ==
  ASSUME NEW b, GoodBoard(b), b.battle.status = "active", Closable(b), ScoredBoard(b),
         NEW gain \in [Entities -> Gains]
  PROVE  ScoredBoard(CloseCurrentRound(b, gain))
<1> DEFINE c == CloseCurrentRound(b, gain)
           m == b.match
           d == b.delta
           n == c.match
           r == b.battle.round
           todo == {s \in Decided(b) : d[s] = None}
           fresh == [s \in todo |-> MatchDelta(b, s, gain)]
           dd == [s \in DOMAIN m |-> IF s \in todo THEN fresh[s] ELSE d[s]]
<1>1. /\ c.delta = dd
      /\ c.moved = [e \in Entities |-> b.moved[e] + Recorded(m, fresh, e)]
  BY CloseScores DEF GoodBoard
<1>2. /\ DOMAIN n = DOMAIN m /\ DOMAIN d = DOMAIN m /\ DOMAIN dd = DOMAIN m
      /\ IsFiniteSet(DOMAIN m) /\ todo \subseteq DOMAIN m
      /\ \A s \in DOMAIN d : d[s] # None => d[s] \in Int \X Int
  BY CloseStatus, SlotsFinite DEF GoodBoard, MatchesOK, ScoredBoard, ScoresOK, Decided
<1>3. \A s \in todo : /\ s \in DOMAIN m /\ s[1] = r /\ m[s].status = "open"
                      /\ m[s].a \in Entities /\ m[s].b \in Entities
  <2> TAKE s \in todo
  <2>1. s \in DOMAIN m /\ s[1] = r
    BY DEF Decided
  <2>2. m[s].status = "open"
    BY <2>1, CloseRows
  <2>3. m[s].a \in Ranked(seed) /\ m[s].b \in Ranked(seed)
    BY <2>1 DEF Closable
  <2> QED
    BY <2>1, <2>2, <2>3 DEF Ranked
<1>4. \A e \in Entities : /\ Used(b, e) = Total(UsedTerms(m, d, e))
                          /\ Used(b, e) \in Int /\ Used(b, e) <= Cap
  <2> TAKE e \in Entities
  <2>1. Used(b, e) = Total(UsedTerms(m, d, e))
    BY <1>2, UsedIsTotal
  <2>2. UsedTerms(m, d, e) \in [DOMAIN m -> Int]
    BY <1>2, TermTypes
  <2> QED
    BY <1>2, <2>1, <2>2, TotalType DEF ScoredBoard, ScoresOK
<1>5. \A s \in todo :
        /\ d[s] = None /\ fresh[s] \in Int \X Int
        /\ Total(UsedTerms(m, d, m[s].a)) + Abs(fresh[s][1]) <= Cap
        /\ Total(UsedTerms(m, d, m[s].b)) + Abs(fresh[s][2]) <= Cap
  BY <1>3, <1>4, DeltaFits
<1>6. \A s, t \in todo : /\ m[s].a # m[t].b
                         /\ m[s].a = m[t].a => s = t
                         /\ m[s].b = m[t].b => s = t
  BY <1>3 DEF ScoredBoard, Apart
<1> DEFINE new == dd
<1>7. \A s \in DOMAIN m : new[s] = IF s \in todo THEN fresh[s] ELSE d[s]
  OBVIOUS
<1>8. ScoresOK(m, d) /\ MovesOK(m, d, b.moved)
  BY DEF ScoredBoard
<1>9. ASSUME NEW e \in Entities PROVE Total(UsedTerms(m, new, e)) <= Cap
  <2> HIDE DEF m, d, todo, fresh
  <2> QED
    BY <1>2, <1>5, <1>6, <1>8, UsedStaysUnderCap
\* Sides of scored matches are settled
<1>10. \A s \in DOMAIN m : new[s] # None =>
         m[s].status # "pending" /\ n[s].status # "pending" /\ n[s].a = m[s].a /\ n[s].b = m[s].b
  <2> TAKE s \in DOMAIN m
  <2> HAVE new[s] # None
  <2>1. m[s].status # "pending"
    BY <1>3, <1>7, <1>8 DEF ScoresOK
  <2> QED
    BY <2>1, CloseContinues DEF Continues
<1>11. \A s \in DOMAIN m : new[s] # None => new[s] \in Int \X Int
  BY <1>2, <1>5, <1>7
<1>12. \A e : /\ UsedTerms(n, new, e) = UsedTerms(m, new, e)
              /\ RecordedTerms(n, new, e) = RecordedTerms(m, new, e)
  <2>1. DOMAIN new = DOMAIN m
    OBVIOUS
  <2> HIDE DEF new, m, n
  <2> QED
    BY <1>2, <1>10, <2>1 DEF UsedTerms, RecordedTerms
<1>13. ScoresOK(n, new)
  <2>1. DOMAIN new = DOMAIN n
    BY <1>2
  <2> HIDE DEF new, m, n
  <2> QED
    BY <1>2, <1>9, <1>10, <1>11, <1>12, <2>1 DEF ScoresOK
<1>14. ASSUME NEW e \in Entities
       PROVE  Total(RecordedTerms(m, new, e)) = c.moved[e]
  <2> DEFINE i == RecordedTerms(m, new, e)
             h == RecordedTerms(m, d, e)
             k == RecordedTerms(m, fresh, e)
  <2>1. DOMAIN fresh = todo /\ \A s \in todo : fresh[s] # None => fresh[s] \in Int \X Int
    BY <1>5
  <2>2. i \in [DOMAIN m -> Int] /\ h \in [DOMAIN m -> Int] /\ k \in [todo -> Int]
    <3>1. DOMAIN new = DOMAIN m
      OBVIOUS
    <3> HIDE DEF new, fresh, todo, m, d
    <3> QED
      BY <1>2, <1>11, <2>1, <3>1, TermTypes
  <2>3. \A s \in DOMAIN m : i[s] = h[s] + (IF s \in todo THEN k[s] ELSE 0)
    <3> TAKE s \in DOMAIN m
    <3>1. s \in todo => i[s] = k[s] /\ h[s] = 0
      BY <1>2, <1>7, <2>1 DEF RecordedTerms
    <3>2. s \notin todo => i[s] = h[s]
      BY <1>2, <1>7 DEF RecordedTerms
    <3>3. h[s] \in Int /\ (s \in todo => k[s] \in Int)
      BY <2>2
    <3> HIDE DEF i, h, k, todo
    <3> QED
      BY <3>1, <3>2, <3>3
  <2>4. IsFiniteSet(todo)
    BY <1>2, FS_Subset
  <2>5. Recorded(m, fresh, e) = Total(k)
    <3> HIDE DEF m, fresh
    <3> QED
      BY <2>1, <2>4, RecordedIsTotal
  <2>6. Total(i) = Total(h) + Total(k)
    <3> DEFINE D == DOMAIN m
    <3>1. /\ IsFiniteSet(D) /\ todo \subseteq D
          /\ i \in [D -> Int] /\ h \in [D -> Int] /\ k \in [todo -> Int]
          /\ \A s \in D : i[s] = h[s] + (IF s \in todo THEN k[s] ELSE 0)
      BY <1>2, <2>2, <2>3
    <3> HIDE DEF i, h, k, todo, D
    <3> QED
      BY <3>1, TotalAdds
  <2>7. b.moved[e] = Total(h)
    BY <1>8 DEF MovesOK
  <2>8. c.moved[e] = b.moved[e] + Recorded(m, fresh, e)
    BY <1>1
  <2> QED
    BY <2>5, <2>6, <2>7, <2>8
<1>15. MovesOK(n, new, c.moved)
  <2> HIDE DEF new, m, n, c
  <2> QED
    BY <1>12, <1>14 DEF MovesOK
<1>16. Apart(n)
  BY CloseKeepsApart DEF ScoredBoard
<1>17. c.delta = new
  BY <1>1
<1> HIDE DEF c, new
<1>18. ScoredBoard(c)
  BY <1>13, <1>15, <1>16, <1>17 DEF ScoredBoard
<1> QED
  BY <1>18 DEF c

\* The invariant of the scores.  A battle that was deleted keeps nothing of what
\* it had recorded.
SInv ==
  /\ Apart(match) /\ ScoresOK(match, delta)
  /\ battle.status # "gone" => MovesOK(match, delta, moved)

\* One turn of finish_battle
LEMMA CloseNextKeepsScores ==
  ASSUME NEW b, GoodBoard(b), ScoredBoard(b), NEW gain \in [Entities -> Gains]
  PROVE  GoodBoard(CloseNext(b, gain)) /\ ScoredBoard(CloseNext(b, gain))
BY CloseKeepsBoard, CloseKeepsScores DEF CloseNext

LEMMA EngineKeepsScores ==
  ASSUME IInv, SInv, Engine
  PROVE  SInv'
<1>1. battle.status = "active"
  BY DEF Engine, AdvanceIfDue, CloseRoundNow, FinishBattle, CastVote, Due
<1>2. GoodBoard(Board) /\ ScoredBoard(Board) /\ Board.battle.status = "active"
  BY <1>1, BoardIsGood DEF Board, SInv, ScoredBoard
<1>3. ASSUME NEW b, ScoredBoard(b), SetBoard(b)
      PROVE  SInv'
  BY <1>3 DEF SInv, ScoredBoard, SetBoard
<1>4. CASE AdvanceIfDue \/ CloseRoundNow
  <2>1. PICK gain \in [Entities -> Gains] : SetBoard(CloseCurrentRound(Board, gain))
    BY <1>4 DEF AdvanceIfDue, CloseRoundNow
  <2>2. Closable(Board)
    BY <1>4 DEF AdvanceIfDue, CloseRoundNow
  <2> QED
    BY <1>2, <1>3, <2>1, <2>2, CloseKeepsScores
<1>5. CASE \E u \in Users, s \in Slots, e \in Entities : CastVote(u, s, e)
  <2>1. PICK gain \in [Entities -> Gains] : SetBoard(AfterAdvance(gain))
    BY <1>5 DEF CastVote
  <2>2. Due => Closable(Board)
    BY <1>5 DEF CastVote
  <2>3. ScoredBoard(AfterAdvance(gain))
    BY <1>2, <2>2, CloseKeepsScores DEF AfterAdvance
  <2> QED
    BY <1>3, <2>1, <2>3
<1>6. CASE FinishBattle
  <2>1. PICK gain \in [Entities -> Gains] :
          LET b1 == CloseNext(Board, gain)
              b2 == CloseNext(b1, gain)
              b3 == CloseNext(b2, gain)
              b4 == CloseNext(b3, gain)
          IN  b4.battle.status = "completed" /\ SetBoard(b4)
    BY <1>6 DEF FinishBattle
  <2> DEFINE b1 == CloseNext(Board, gain)
             b2 == CloseNext(b1, gain)
             b3 == CloseNext(b2, gain)
             b4 == CloseNext(b3, gain)
  <2>2. GoodBoard(b1) /\ ScoredBoard(b1)
    BY <1>2, CloseNextKeepsScores
  <2>3. GoodBoard(b2) /\ ScoredBoard(b2)
    BY <2>2, CloseNextKeepsScores
  <2>4. GoodBoard(b3) /\ ScoredBoard(b3)
    BY <2>3, CloseNextKeepsScores
  <2>5. ScoredBoard(b4)
    BY <2>4, CloseNextKeepsScores
  <2>6. SetBoard(b4)
    BY <2>1
  <2> HIDE DEF b4
  <2> QED
    BY <1>3, <2>5, <2>6
<1> QED
  BY <1>4, <1>5, <1>6 DEF Engine

\* Rows without a recorded change
LEMMA NothingRecorded ==
  ASSUME NEW m, DOMAIN m \subseteq Slots, NEW d, DOMAIN d = DOMAIN m, \A s \in DOMAIN m : d[s] = None
  PROVE  /\ ScoresOK(m, d)
         /\ \A e \in Entities : Total(RecordedTerms(m, d, e)) = 0
<1>1. IsFiniteSet(DOMAIN m)
  BY SlotsFinite
<1>2. ASSUME NEW e
      PROVE  Total(UsedTerms(m, d, e)) = 0 /\ Total(RecordedTerms(m, d, e)) = 0
  <2> DEFINE D == DOMAIN m
             h == UsedTerms(m, d, e)
             k == RecordedTerms(m, d, e)
  <2>1. /\ IsFiniteSet(D)
        /\ h \in [D -> Int] /\ k \in [D -> Int] /\ \A s \in D : h[s] = 0 /\ k[s] = 0
    BY <1>1 DEF UsedTerms, RecordedTerms
  <2> HIDE DEF D, h, k
  <2> QED
    BY <2>1, TotalZero DEF h, k
<1>3. 0 <= Cap
  BY ConstantsOK DEF ConstantsOK
<1> QED
  BY <1>2, <1>3 DEF ScoresOK

LEMMA StepSInv == IInv /\ SInv /\ [Next]_vars => SInv'
<1> SUFFICES ASSUME IInv, SInv, [Next]_vars PROVE SInv'
  OBVIOUS
<1>1. CASE Engine
  BY <1>1, EngineKeepsScores
<1>2. ASSUME NEW q \in Requests, Publish(q) PROVE SInv'
  <2>1. /\ battle.status = "draft" /\ battle'.status = "active"
        /\ \A s \in DOMAIN match' :
             IF s[1] = 1 THEN match'[s].status = "open" ELSE match'[s].status = "pending"
        /\ \A s, t \in DOMAIN match' :
             s[1] = 1 /\ t[1] = 1 =>
               /\ match'[s].a # match'[t].b
               /\ match'[s].a = match'[t].a => s = t
               /\ match'[s].b = match'[t].b => s = t
    BY <1>2, PublishDraws
  <2>2. Apart(match')
    BY <2>1 DEF Apart
  <2>3. /\ DOMAIN delta' = DOMAIN match' /\ \A s \in DOMAIN match' : delta'[s] = None
        /\ moved' = moved
    BY <1>2 DEF Publish
  <2>4. DOMAIN match' \subseteq Slots
    BY <1>2, PublishKeeps DEF IInv, MatchesOK
  <2>5. ScoresOK(match', delta') /\ \A e \in Entities : Total(RecordedTerms(match', delta', e)) = 0
    BY <2>3, <2>4, NothingRecorded
  <2>6. DOMAIN match = {} /\ DOMAIN delta = DOMAIN match
    BY <2>1 DEF IInv, SInv, ScoresOK
  <2>7. \A e \in Entities : Total(RecordedTerms(match, delta, e)) = 0
    BY <2>6, NothingRecorded
  <2>8. MovesOK(match', delta', moved')
    BY <2>1, <2>3, <2>5, <2>7 DEF SInv, MovesOK
  <2> QED
    BY <2>2, <2>5, <2>8 DEF SInv
<1>3. ASSUME NEW q \in Requests, DeleteDraft(q) PROVE SInv'
  <2>1. battle'.status = "gone" /\ DOMAIN match' = {} /\ DOMAIN delta' = {}
    BY <1>3 DEF DeleteDraft, IInv, MatchesOK, Battle
  <2>2. ScoresOK(match', delta') /\ Apart(match')
    BY <2>1, NothingRecorded DEF Apart
  <2> QED
    BY <2>1, <2>2 DEF SInv
<1>4. CASE UNCHANGED <<match, delta, moved>> /\ (battle'.status = "gone" <=> battle.status = "gone")
  BY <1>4 DEF SInv
<1>5. CASE UNCHANGED vars
  BY <1>5 DEF vars, board, SInv
<1> QED
  BY <1>1, <1>2, <1>3, <1>4, <1>5, OtherStepsKeepRows

LEMMA InitSInv == Init => SInv
<1> SUFFICES ASSUME Init PROVE SInv
  OBVIOUS
<1>1. DOMAIN match = {} /\ DOMAIN delta = {} /\ \A e \in Entities : moved[e] = 0
  BY DEF Init
<1>2. ScoresOK(match, delta) /\ \A e \in Entities : Total(RecordedTerms(match, delta, e)) = 0
  BY <1>1, NothingRecorded
<1> QED
  BY <1>1, <1>2 DEF SInv, Apart, MovesOK

\* Whatever closes its rounds, in whatever order, a battle moves no title by
\* more than the cap, and what it moved is what its matches recorded
\* (tournament_score, battle_max_elo_effect).
THEOREM EloIsAlwaysSound == Spec => []EloIsSound
<1>1. IInv /\ SInv => EloIsSound
  <2> SUFFICES ASSUME IInv, SInv, NEW e \in Entities
               PROVE  /\ Used(Board, e) <= Cap
                      /\ battle.status # "gone" => moved[e] = Recorded(match, delta, e)
    BY DEF EloIsSound, EloEffectCapped, EloMovesAreRecorded
  <2>1. IsFiniteSet(DOMAIN match) /\ DOMAIN delta = DOMAIN match
    BY SlotsFinite DEF IInv, MatchesOK, SInv, ScoresOK
  <2>2. Board.match = match /\ Board.delta = delta
    BY DEF Board
  <2>3. Used(Board, e) = Total(UsedTerms(match, delta, e))
    BY <2>1, <2>2, UsedIsTotal
  <2>4. Recorded(match, delta, e) = Total(RecordedTerms(match, delta, e))
    BY <2>1, RecordedIsTotal
  <2> QED
    BY <2>3, <2>4 DEF SInv, ScoresOK, MovesOK
<1> QED
  BY <1>1, StepSInv, InitSInv, Invariance, PTL DEF Spec
=============================================================================
