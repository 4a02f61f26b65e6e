--------------------------- MODULE BattleRunProofs ---------------------------
(***************************************************************************)
(* BattleRun: whoever lost stays out, the streak and the results are those *)
(* of the picks, for any number of entries, reads and runs, whatever is    *)
(* skipped while a pick is being saved.                                    *)
(***************************************************************************)
EXTENDS BattleRun, TLAPS, FiniteSetTheorems

Tallies == [Entries -> [wins : Nat, out : Nat]]

\* The run as `t` tells it: c stays with w wins, nobody from entry k on has
\* played, n entries are out.
Standing(t, c, k, w, n) ==
  /\ t \in Tallies
  /\ c \in Entries /\ c < k
  /\ t[c].out = 0 /\ t[c].wins = w
  /\ \A e \in Entries : e >= k => t[e].out = 0 /\ t[e].wins = 0
  /\ Cardinality({e \in Entries : t[e].out # 0}) = n

StreakAfter(p, s) == IF p.winner = "left" THEN s + 1 ELSE 1

\* While a pick is saved the tally is ahead of the cards by that pick, and the
\* cards may be ahead of the pick by pairs skipped.
CardsOK ==
  /\ number \in Nat /\ step \in Nat \ {0} /\ streak \in Nat /\ voted \in Nat
  /\ champion \in Entries /\ champion < step
  /\ signedIn \in BOOLEAN /\ picking \in Picking \cup {None}
  /\ picking = None => Standing(tally, champion, step, streak, voted)
  /\ picking # None =>
       LET p == picking.pick IN
       /\ p.challenger <= step
       /\ Standing(tally, Winner(p), p.challenger + 1, StreakAfter(p, streak), voted + 1)

LEMMA SkippedOrNot ==
  ASSUME NEW t, NEW c, NEW k \in Nat, NEW j \in Nat, NEW w, NEW n, Standing(t, c, k, w, n), k <= j
  PROVE  Standing(t, c, j, w, n)
  BY DEF Standing, Entries

\* A pick changes two entries' counts
LEMMA TalliedCounts ==
  ASSUME tally \in Tallies, voted \in Nat, NEW p, Winner(p) \in Entries, Loser(p) \in Entries,
         Winner(p) # Loser(p)
  PROVE  LET t == Tallied(p) IN
         /\ t \in Tallies
         /\ t[Winner(p)].wins = tally[Winner(p)].wins + 1
         /\ t[Winner(p)].out = tally[Winner(p)].out
         /\ t[Loser(p)].out = voted + 1
         /\ \A e \in Entries : e \notin {Winner(p), Loser(p)} => t[e] = tally[e]
  BY DEF Tallied, Tallies

\* The pair on the cards, picked: the winner stays, one more entry is out
LEMMA PickStands ==
  ASSUME Standing(tally, champion, step, streak, voted), step \in Entries, voted \in Nat,
         streak \in Nat, RunBounds, NEW w \in Sides, NEW p, p = Pick(number, champion, step, w)
  PROVE  Standing(Tallied(p), Winner(p), step + 1, StreakAfter(p, streak), voted + 1)
<1>1. /\ p.winner = w /\ p.champion = champion /\ p.challenger = step
      /\ champion \in Entries /\ champion < step /\ tally \in Tallies
  BY DEF Pick, Standing
<1>2. \/ w = "left" /\ Winner(p) = champion /\ Loser(p) = step /\ StreakAfter(p, streak) = streak + 1
      \/ w = "right" /\ Winner(p) = step /\ Loser(p) = champion /\ StreakAfter(p, streak) = 1
  BY <1>1 DEF Winner, Loser, StreakAfter, Sides
<1> DEFINE t == Tallied(p)
           before == {e \in Entries : tally[e].out # 0}
           after == {e \in Entries : t[e].out # 0}
<1>3. Winner(p) # Loser(p) /\ Winner(p) \in Entries /\ Loser(p) \in Entries
  BY <1>1, <1>2 DEF Entries
<1>4. /\ t \in Tallies
      /\ t[Winner(p)].wins = tally[Winner(p)].wins + 1
      /\ t[Winner(p)].out = tally[Winner(p)].out
      /\ t[Loser(p)].out = voted + 1
      /\ \A e \in Entries : e \notin {Winner(p), Loser(p)} => t[e] = tally[e]
  BY <1>1, <1>3, TalliedCounts
<1> HIDE DEF t
<1>5. /\ tally[champion].out = 0 /\ tally[champion].wins = streak
      /\ \A e \in Entries : e >= step => tally[e].out = 0 /\ tally[e].wins = 0
      /\ Cardinality(before) = voted
  BY DEF Standing
<1>6. t[Winner(p)].out = 0 /\ t[Winner(p)].wins = StreakAfter(p, streak) /\ Winner(p) < step + 1
  BY <1>1, <1>2, <1>4, <1>5 DEF Entries
<1>7. \A e \in Entries : e >= step + 1 => t[e].out = 0 /\ t[e].wins = 0
  BY <1>1, <1>2, <1>4, <1>5 DEF Entries
<1>8. Loser(p) \notin before /\ after = before \cup {Loser(p)}
  BY <1>1, <1>2, <1>3, <1>4, <1>5, <1>6 DEF Entries
<1>9. IsFiniteSet(before)
  <2>1. IsFiniteSet(Entries)
    BY FS_Interval, RunBounds DEF Entries
  <2> QED
    BY <2>1, FS_Subset
<1>10. Cardinality(after) = voted + 1
  <2>1. \A e : e \notin before => Cardinality(before \cup {e}) = Cardinality(before) + 1
    BY <1>9, FS_AddElement
  <2> HIDE DEF before, after
  <2> QED
    BY <1>5, <1>8, <2>1
<1> QED
  BY <1>3, <1>4, <1>6, <1>7, <1>10 DEF Standing, t, after

\* The cards after a pick that was counted before
LEMMA AdvanceStep ==
  ASSUME CardsOK, NEW p, p.challenger \in Entries, p.challenger <= step,
         Standing(tally', Winner(p), p.challenger + 1, StreakAfter(p, streak), voted + 1),
         Advance(p), picking' = None, number' = number, signedIn' = signedIn
  PROVE  CardsOK'
<1>1. /\ champion' = Winner(p) /\ streak' = StreakAfter(p, streak) /\ voted' = voted + 1
      /\ step' = step + 1
  BY DEF Advance, StreakAfter
<1>2. /\ p.challenger \in Nat /\ step \in Nat /\ streak \in Nat /\ voted \in Nat /\ number \in Nat
      /\ Winner(p) \in Entries /\ Winner(p) < p.challenger + 1
  BY DEF CardsOK, Standing, Entries
<1>3. signedIn' \in BOOLEAN
  BY DEF CardsOK
<1>5. streak' \in Nat /\ step' \in Nat \ {0} /\ voted' \in Nat /\ champion' < step'
  BY <1>1, <1>2 DEF StreakAfter, Entries
<1>4. Standing(tally', champion', step', streak', voted')
  <2>1. Standing(tally', Winner(p), step + 1, StreakAfter(p, streak), voted + 1)
    BY <1>2, SkippedOrNot
  <2> QED
    BY <1>1, <2>1
<1> QED
  BY <1>1, <1>2, <1>3, <1>4, <1>5 DEF CardsOK

LEMMA TapStep ==
  ASSUME CardsOK, NEW w \in Sides, Tap(w)
  PROVE  CardsOK'
<1> DEFINE p == Pick(number, champion, step, w)
<1>1. /\ step \in Entries /\ picking = None /\ voted \in Nat /\ streak \in Nat
      /\ Standing(tally, champion, step, streak, voted) /\ step \in Nat /\ champion \in Entries
      /\ number \in Nat /\ signedIn \in BOOLEAN
  BY RunBounds DEF Tap, CanPick, Done, CardsOK, Entries
<1>2. p \in Picks /\ p.challenger = step
  BY <1>1 DEF Pick, Picks
<1>3. Standing(Tallied(p), Winner(p), step + 1, StreakAfter(p, streak), voted + 1)
  BY <1>1, PickStands, RunBounds
<1>4. tally' = Tallied(p) /\ number' = number /\ signedIn' = signedIn
  BY DEF Tap
<1> HIDE DEF p
<1>5. CASE place.waits
  <2>1. picking' = [pick |-> p, asked |-> signedIn] /\ UNCHANGED cards
    BY <1>5 DEF Tap, p
  <2>2. picking'.pick = p
    BY <2>1
  <2>3. picking' \in Picking
    BY <1>1, <1>2, <2>1 DEF Picking
  <2>4. picking' # None
    BY <2>3, NoneIsNoPick
  <2>5. /\ champion' = champion /\ step' = step /\ streak' = streak /\ voted' = voted
        /\ champion < step
    BY <2>1 DEF cards, CardsOK
  <2> QED
    BY <1>1, <1>2, <1>3, <1>4, <2>2, <2>3, <2>4, <2>5 DEF CardsOK
<1>6. CASE ~place.waits
  <2>1. Advance(p) /\ picking' = None
    BY <1>1, <1>6 DEF Tap, p
  <2> QED
    BY <1>1, <1>2, <1>3, <1>4, <2>1, AdvanceStep
<1> QED
  BY <1>5, <1>6

LEMMA SkipStep ==
  ASSUME CardsOK, Skip
  PROVE  CardsOK'
<1>1. /\ step' = step + 1 /\ step \in Nat \ {0}
      /\ UNCHANGED <<champion, streak, voted, number, signedIn, picking, tally>>
  BY DEF Skip, CardsOK
<1>2. champion < step' /\ step' \in Nat \ {0}
  BY <1>1 DEF CardsOK, Entries
<1>3. CASE picking = None
  <2>1. Standing(tally, champion, step + 1, streak, voted)
    BY <1>1, <1>3, SkippedOrNot DEF CardsOK
  <2> QED
    BY <1>1, <1>2, <1>3, <2>1 DEF CardsOK
<1>4. CASE picking # None
  <2>1. picking.pick.challenger \in Nat
    BY <1>4 DEF CardsOK, Picking, Picks, Entries
  <2> QED
    BY <1>1, <1>2, <1>4, <2>1 DEF CardsOK
<1> QED
  BY <1>3, <1>4

LEMMA ShownStep ==
  ASSUME CardsOK, Shown
  PROVE  CardsOK'
<1>1. picking # None /\ picking.pick.challenger \in Entries
  BY DEF Shown, CardsOK, Picking, Picks
<1>2. /\ Advance(picking.pick) /\ picking' = None
      /\ UNCHANGED <<number, signedIn, tally>>
  BY DEF Shown
<1>3. /\ picking.pick.challenger <= step
      /\ Standing(tally', Winner(picking.pick), picking.pick.challenger + 1,
                  StreakAfter(picking.pick, streak), voted + 1)
  BY <1>1, <1>2 DEF CardsOK
<1> QED
  BY <1>1, <1>2, <1>3, AdvanceStep

\* A run that starts from nothing
LEMMA FreshStands ==
  Standing(Fresh, 0, 1, 0, 0)
<1>1. 0 \in Entries
  BY RunBounds DEF Entries
<1>2. \A e \in Entries : Fresh[e].wins = 0 /\ Fresh[e].out = 0
  BY DEF Fresh
<1>3. {e \in Entries : Fresh[e].out # 0} = {}
  BY <1>2
<1>4. Fresh \in Tallies
  BY DEF Fresh, Tallies
<1> QED
  BY <1>1, <1>2, <1>3, <1>4, FS_EmptySet DEF Standing

LEMMA StartOverStep ==
  ASSUME CardsOK, StartOver
  PROVE  CardsOK'
<1>1. Standing(Fresh, 0, 1, 0, 0)
  BY FreshStands
<1>2. /\ number' = number + 1 /\ champion' = 0 /\ step' = 1 /\ streak' = 0 /\ voted' = 0
      /\ picking' = None /\ tally' = Fresh /\ signedIn' = signedIn
  BY DEF StartOver
<1>3. 0 \in Entries
  BY RunBounds DEF Entries
<1> QED
  BY <1>1, <1>2, <1>3 DEF CardsOK

LEMMA CardsStep ==
  ASSUME CardsOK, [Next]_vars
  PROVE  CardsOK'
<1>1. ASSUME UNCHANGED <<cards, number, signedIn, picking, tally>>
      PROVE  CardsOK'
  BY <1>1 DEF cards, CardsOK
<1>2. CASE SaveSteps
  BY <1>1, <1>2 DEF SaveSteps, SaveServed, SaveAnswered, SaveFailed
<1>3. CASE ReadEnds \/ \E r \in reads : ReadServed(r)
  BY <1>1, <1>3 DEF ReadEnds, ReadArrives, ReadFails, ReadServed
<1>4. CASE Report \/ Poll \/ PoolArrives \/ PoolFails \/ Retry \/ UNCHANGED vars
  BY <1>1, <1>4 DEF Report, Poll, PoolArrives, PoolFails, Retry, vars, cards
<1>5. CASE SignIn
  <2>1. UNCHANGED <<cards, number, picking, tally>> /\ signedIn' = TRUE
    BY <1>5 DEF SignIn
  <2> QED
    BY <2>1 DEF cards, CardsOK
<1>6. CASE NextRun \/ AskAgain
  BY <1>6, StartOverStep DEF NextRun, AskAgain
<1> QED
  BY <1>2, <1>3, <1>4, <1>5, <1>6, TapStep, SkipStep, ShownStep DEF Next

LEMMA CardsInit ==
  ASSUME Init
  PROVE  CardsOK
<1>1. 0 \in Entries /\ Standing(Fresh, 0, 1, 0, 0)
  BY FreshStands, RunBounds DEF Entries
<1>2. /\ champion = 0 /\ step = 1 /\ streak = 0 /\ voted = 0 /\ number = 1
      /\ picking = None /\ tally = Fresh /\ signedIn \in BOOLEAN
  BY DEF Init
<1> QED
  BY <1>1, <1>2 DEF CardsOK

\* An entry that lost is never on a card again, also when pairs are skipped
\* while a pick is being saved (components/battle/WinnerStaysBattle.tsx)
THEOREM LosersAlwaysStayOut == Spec => []LosersStayOut
<1>1. CardsOK => LosersStayOut
  <2> SUFFICES ASSUME CardsOK, picking = None PROVE LosersStayOut
    BY DEF LosersStayOut
  <2>1. Standing(tally, champion, step, streak, voted) /\ step \in Nat \ {0}
    BY DEF CardsOK
  <2>2. tally[champion].out = 0 /\ champion # step
    BY <2>1 DEF Standing, Entries
  <2>3. ASSUME ~Done PROVE tally[step] = [wins |-> 0, out |-> 0]
    <3>1. step \in Entries
      BY <2>1, <2>3, RunBounds DEF Done, Entries
    <3>2. tally[step] \in [wins : Nat, out : Nat] /\ tally[step].wins = 0 /\ tally[step].out = 0
      BY <2>1, <3>1 DEF Standing, Tallies, Entries
    <3> QED
      BY <3>2
  <2> QED
    BY <2>2, <2>3 DEF LosersStayOut
<1> QED
  BY <1>1, CardsInit, CardsStep, PTL DEF Spec

\* The streak shared at the end is all the champion's wins, and every pick put
\* one more entry out (the finished view and PoolView's tally)
THEOREM StreakIsAlwaysTheChampions == Spec => []StreakIsTheChampions
<1>1. CardsOK => StreakIsTheChampions
  BY DEF CardsOK, Standing, StreakIsTheChampions, KnockedOut
<1> QED
  BY <1>1, CardsInit, CardsStep, PTL DEF Spec

(***************************************************************************)
(* The results a pool page shows of the viewer's own run.                  *)
(***************************************************************************)
ReportsOK ==
  /\ due => place.tells
  /\ mine # None => Done /\ place.tells /\ place.board
  /\ mine # None /\ ~due => mine = RunResults

LEMMA ReportsStep ==
  ASSUME ReportsOK, CardsOK, [Next]_vars
  PROVE  ReportsOK'
<1> USE DEF ReportsOK
<1>1. step \in Nat /\ Last \in Nat
  BY RunBounds DEF CardsOK
<1>2. CASE UNCHANGED <<place, cards, tally, due, mine>>
  BY <1>2 DEF cards, Done, RunResults
<1>3. CASE \E w \in Sides : Tap(w)
  <2>1. ~Done /\ mine = None /\ mine' = None /\ place' = place /\ (due' => due \/ place.tells)
    BY <1>3 DEF Tap, CanPick, EffectAfter
  <2> QED
    BY <2>1
<1>4. CASE Skip \/ Shown
  <2>1. /\ step' = step + 1 /\ place' = place /\ mine' = mine /\ tally' = tally
        /\ due' <=> (due \/ (place.tells /\ step' > Last /\ (~Done \/ champion' # champion)))
    BY <1>4 DEF Skip, Shown, EffectAfter, Advance
  <2>2. Done => Done'
    BY <1>1, <2>1 DEF Done
  <2>3. (due' => place.tells) /\ (mine # None /\ ~due' => champion' = champion)
    BY <1>1, <2>1, <2>2 DEF Done
  <2> QED
    BY <2>1, <2>2, <2>3 DEF RunResults
<1>5. CASE Report
  <2>1. /\ due /\ Done /\ due' = FALSE /\ UNCHANGED <<place, cards, tally>>
        /\ IF place.board THEN mine' = RunResults ELSE mine' = mine
    BY <1>5 DEF Report
  <2>2. Done' /\ RunResults' = RunResults
    BY <2>1 DEF cards, Done, RunResults
  <2> QED
    BY <2>1, <2>2
<1>6. CASE ReadEnds
  <2>1. PICK r \in reads : ReadArrives(r) \/ ReadFails(r)
    BY <1>6 DEF ReadEnds
  <2>2. CASE ReadFails(r)
    BY <1>2, <2>2 DEF ReadFails
  <2>3. CASE ReadArrives(r)
    <3>1. UNCHANGED <<place, cards, tally, mine>> /\ due' = (due \/ (Done /\ place.tells))
      BY <2>3 DEF ReadArrives
    <3>2. (due' => due \/ place.tells) /\ (~due' => ~due)
      BY <3>1, Zenon
    <3>3. (Done' <=> Done) /\ RunResults' = RunResults
      BY <3>1 DEF cards, Done, RunResults
    <3> QED
      BY <3>1, <3>2, <3>3
  <2> QED
    BY <2>1, <2>2, <2>3
<1>7. CASE NextRun \/ AskAgain
  <2>1. due' = FALSE /\ mine' = None /\ place' = place
    BY <1>7 DEF NextRun, AskAgain, StartOver
  <2> QED
    BY <2>1
<1>8. CASE \/ SaveSteps \/ Poll \/ \E r \in reads : ReadServed(r)
           \/ SignIn \/ PoolArrives \/ PoolFails \/ Retry \/ UNCHANGED vars
  BY <1>2, <1>8 DEF SaveSteps, SaveServed, SaveAnswered, SaveFailed, Poll, ReadServed, SignIn,
                    PoolArrives, PoolFails, Retry, vars, page, cards
<1> QED
  BY <1>3, <1>4, <1>5, <1>6, <1>7, <1>8 DEF Next

\* What a pool page shows as the viewer's own results is what the finished run
\* came to, also when its champion changed after the end was reported
\* (components/tournament/PoolView.tsx and the effect of WinnerStaysBattle.tsx)
THEOREM ResultsAreAlwaysOfTheRun == Spec => []ResultsAreOfTheRun
<1>1. Init => ReportsOK
  BY DEF Init, ReportsOK
<1>2. ReportsOK => ResultsAreOfTheRun
  BY DEF ReportsOK, ResultsAreOfTheRun
<1> QED
  BY <1>1, <1>2, CardsInit, CardsStep, ReportsStep, PTL DEF Spec

(***************************************************************************)
(* Types, and how far the numbers of a run reach.                          *)
(***************************************************************************)
ReadType == [id : 1 .. MaxReads, has : (SUBSET Picks) \cup {None}]
SaveType == [pick : Picks, at : {"sent", "served"}]
MineType == [champion : Entries, tally : [Entries -> [wins : 0 .. Last, out : 0 .. Last]]] \cup {None}

\* Picks made in this run
Picked == voted + (IF picking = None THEN 0 ELSE 1)
Within(t, n) == \A e \in Entries : t[e].wins <= n /\ t[e].out <= n

\* Nothing in a run counts further than its pairs
RangeOK ==
  /\ streak <= voted /\ voted < step /\ voted <= Last /\ step <= Last + 2
  /\ picking # None => step <= Last + 1 /\ voted < picking.pick.challenger
  /\ tally \in Tallies /\ Within(tally, Picked)

\* The pool is asked for again once at most, when a guest has signed in
PoolOK ==
  /\ place \in Runs /\ signedIn \in BOOLEAN /\ number \in 1 .. MaxRuns + 1
  /\ pool \in [by : BOOLEAN, is : {"ready", "loading", "error"}]
  /\ pool.by => signedIn
  /\ number = MaxRuns + 1 => pool.by

SavedOK == saves \subseteq SaveType /\ recorded \subseteq Picks /\ failed \in BOOLEAN

PageOK ==
  /\ due \in BOOLEAN /\ reported \in 0 .. 2 /\ mine \in MineType
  /\ reads \subseteq ReadType /\ IsFiniteSet(reads)
  /\ board \in (SUBSET Picks) \cup {None}

TypesOK == CardsOK /\ RangeOK /\ PoolOK /\ SavedOK /\ PageOK

LEMMA TallyTyped ==
  ASSUME CardsOK, RangeOK
  PROVE  tally \in [Entries -> [wins : 0 .. Last, out : 0 .. Last]]
<1>1. Picked <= Last /\ Picked \in Nat
  <2>1. voted \in Nat /\ Last \in Nat
    BY RunBounds DEF CardsOK
  <2>2. CASE picking = None
    BY <2>1, <2>2 DEF RangeOK, Picked
  <2>3. CASE picking # None
    <3>1. picking.pick.challenger \in 0 .. Last
      BY <2>3 DEF CardsOK, Picking, Picks, Entries
    <3> QED
      BY <2>1, <2>3, <3>1 DEF RangeOK, Picked
  <2> QED
    BY <2>2, <2>3
<1> HIDE DEF Picked
<1>2. ASSUME NEW e \in Entries PROVE tally[e] \in [wins : 0 .. Last, out : 0 .. Last]
  <2>1. tally[e] \in [wins : Nat, out : Nat] /\ tally[e].wins <= Picked /\ tally[e].out <= Picked
    BY DEF RangeOK, Tallies, Within
  <2> QED
    BY <1>1, <2>1, RunBounds
<1> QED
  BY <1>2 DEF RangeOK, Tallies

LEMMA TypesGive == ASSUME TypesOK PROVE TypeOK
<1>1. tally \in [Entries -> [wins : 0 .. Last, out : 0 .. Last]]
  BY TallyTyped DEF TypesOK
<1>2. /\ champion \in Entries /\ step \in 1 .. Last + 2 /\ picking \in Picking \cup {None}
      /\ streak \in 0 .. Last /\ voted \in 0 .. Last
  BY RunBounds DEF TypesOK, CardsOK, RangeOK
<1> QED
  BY <1>1, <1>2 DEF TypesOK, PoolOK, SavedOK, PageOK, TypeOK, SaveType, ReadType, MineType

\* The report of an end depends on the cards alone
LEMMA DueTyped == ASSUME PageOK, EffectAfter PROVE due' \in BOOLEAN
BY DEF PageOK, EffectAfter

LEMMA RangeStays ==
  ASSUME RangeOK, UNCHANGED <<cards, picking, tally>>
  PROVE  RangeOK'
BY DEF RangeOK, cards, Picked, Within

\* The picked pair counts for two entries
LEMMA TapRange ==
  ASSUME CardsOK, RangeOK, NEW w \in Sides, Tap(w)
  PROVE  RangeOK'
<1> DEFINE p == Pick(number, champion, step, w)
           t == Tallied(p)
<1>1. /\ step \in Entries /\ picking = None /\ voted \in Nat /\ streak \in Nat /\ step \in Nat
      /\ champion \in Entries /\ champion < step /\ number \in Nat /\ step <= Last
  BY RunBounds DEF Tap, CanPick, Done, CardsOK, Entries
<1>2. p \in Picks /\ p.challenger = step /\ p.champion = champion /\ p.winner = w
  BY <1>1 DEF Pick, Picks
<1>3. Winner(p) \in Entries /\ Loser(p) \in Entries /\ Winner(p) # Loser(p)
  BY <1>1, <1>2 DEF Winner, Loser
<1>4. tally \in Tallies /\ Within(tally, voted) /\ voted < step /\ streak <= voted
  BY <1>1 DEF RangeOK, Picked
<1>5. /\ t \in Tallies
      /\ t[Winner(p)].wins = tally[Winner(p)].wins + 1
      /\ t[Winner(p)].out = tally[Winner(p)].out
      /\ t[Loser(p)].out = voted + 1
      /\ \A e \in Entries : e \notin {Winner(p), Loser(p)} => t[e] = tally[e]
  BY <1>1, <1>3, <1>4, TalliedCounts
<1>6. t[Loser(p)].wins = tally[Loser(p)].wins
  BY <1>3, <1>4 DEF Tallied, Tallies
<1> HIDE DEF t
<1>7. Within(t, voted + 1)
  <2> SUFFICES ASSUME NEW e \in Entries PROVE t[e].wins <= voted + 1 /\ t[e].out <= voted + 1
    BY DEF Within
  <2>1. /\ tally[e].wins \in Nat /\ tally[e].out \in Nat
        /\ tally[e].wins <= voted /\ tally[e].out <= voted
    BY <1>4 DEF Tallies, Within
  <2> QED
    BY <1>1, <1>5, <1>6, <2>1
<1>8. tally' = t
  BY DEF Tap, t
<1>9. CASE place.waits
  <2>1. picking' = [pick |-> p, asked |-> signedIn] /\ UNCHANGED cards
    BY <1>9 DEF Tap
  <2>2. picking' \in Picking
    BY <1>2, <2>1 DEF Picking, CardsOK
  <2>3. picking' # None /\ picking'.pick = p
    BY <2>1, <2>2, NoneIsNoPick
  <2>4. Picked' = voted + 1
    BY <2>1, <2>3 DEF Picked, cards
  <2> HIDE DEF p
  <2> QED
    BY <1>1, <1>2, <1>4, <1>5, <1>7, <1>8, <2>1, <2>3, <2>4, RunBounds DEF RangeOK, Within, cards
<1>10. CASE ~place.waits
  <2>1. /\ step' = step + 1 /\ voted' = voted + 1 /\ picking' = None
        /\ streak' = streak + 1 \/ streak' = 1
    BY <1>1, <1>10 DEF Tap, Advance
  <2>2. Picked' = voted + 1
    BY <1>1, <2>1 DEF Picked
  <2> QED
    BY <1>1, <1>4, <1>5, <1>7, <1>8, <2>1, <2>2, RunBounds DEF RangeOK, Within
<1> QED
  BY <1>9, <1>10

LEMMA ShownRange ==
  ASSUME CardsOK, RangeOK, Shown
  PROVE  RangeOK'
<1>1. /\ picking # None /\ picking' = None /\ tally' = tally
      /\ step' = step + 1 /\ voted' = voted + 1
      /\ streak' = streak + 1 \/ streak' = 1
  BY DEF Shown, Advance
<1>2. /\ voted \in Nat /\ streak \in Nat /\ step \in Nat
      /\ picking.pick.challenger \in 0 .. Last
  BY <1>1 DEF CardsOK, Picking, Picks, Entries
<1>3. Picked' = Picked
  BY <1>1, <1>2 DEF Picked
<1> QED
  BY <1>1, <1>2, <1>3, RunBounds DEF RangeOK, Within

LEMMA SkipRange ==
  ASSUME CardsOK, RangeOK, Skip
  PROVE  RangeOK'
<1>1. /\ step' = step + 1 /\ step <= Last /\ step \in Nat /\ voted \in Nat
      /\ UNCHANGED <<streak, voted, picking, tally>>
  BY RunBounds DEF Skip, Done, CardsOK
<1>2. Picked' = Picked
  BY <1>1 DEF Picked
<1> QED
  BY <1>1, <1>2, RunBounds DEF RangeOK, Within

LEMMA FreshRange ==
  /\ Fresh \in Tallies /\ Within(Fresh, 0)
  /\ StartOver => RangeOK'
<1>1. Fresh \in Tallies /\ Within(Fresh, 0)
  BY DEF Fresh, Tallies, Within
<1>2. ASSUME StartOver PROVE RangeOK'
  <2>1. step' = 1 /\ streak' = 0 /\ voted' = 0 /\ picking' = None /\ tally' = Fresh
    BY <1>2 DEF StartOver
  <2>2. Picked' = 0
    BY <2>1 DEF Picked
  <2> QED
    BY <1>1, <2>1, <2>2, RunBounds DEF RangeOK, Within
<1> QED
  BY <1>1, <1>2

\* There is a number for one more read
LEMMA NewReadTyped ==
  ASSUME PageOK, MayRead
  PROVE  NewRead \in ReadType
<1> DEFINE ids == {r.id : r \in reads}
           f == [r \in reads |-> r.id]
<1>1. f \in Surjection(reads, ids)
  BY DEF Surjection
<1>2. IsFiniteSet(ids) /\ Cardinality(ids) <= Cardinality(reads)
  BY <1>1, FS_Surjection DEF PageOK
<1>3. Cardinality(1 .. MaxReads) = MaxReads /\ IsFiniteSet(1 .. MaxReads)
  BY RunBounds, FS_Interval
<1>4. \E i \in 1 .. MaxReads : i \notin ids
  <2> SUFFICES ASSUME 1 .. MaxReads \subseteq ids PROVE FALSE
    OBVIOUS
  <2>1. Cardinality(1 .. MaxReads) <= Cardinality(ids)
    BY <1>2, FS_Subset
  <2>2. Cardinality(ids) \in Nat /\ Cardinality(reads) \in Nat
    BY <1>2, FS_CardinalityType DEF PageOK
  <2> HIDE DEF ids
  <2> QED
    BY <1>2, <1>3, <2>1, <2>2, RunBounds DEF MayRead
<1>5. \E i \in 1 .. MaxReads : \A r \in reads : r.id # i
  BY <1>4
<1> DEFINE x == CHOOSE i \in 1 .. MaxReads : \A r \in reads : r.id # i
<1>6. x \in 1 .. MaxReads
  BY <1>5
<1>7. NewRead = [id |-> x, has |-> None]
  BY DEF NewRead
<1> HIDE DEF ids, f, x
<1>8. None \in (SUBSET Picks) \cup {None}
  OBVIOUS
<1> DEFINE sets == (SUBSET Picks) \cup {None}
<1> HIDE DEF sets
<1>9. [id |-> x, has |-> None] \in [id : 1 .. MaxReads, has : sets]
  <2>1. None \in sets
    BY <1>8 DEF sets
  <2> QED
    BY <1>6, <2>1
<1> QED
  BY <1>7, <1>9 DEF ReadType, sets

LEMMA SavesTyped == ASSUME TypesOK, SaveSteps PROVE TypesOK'
<1>1. PICK s \in saves : SaveServed(s) \/ SaveAnswered(s) \/ SaveFailed(s)
  BY DEF SaveSteps
<1>2. s \in SaveType
  BY DEF TypesOK, SavedOK
<1>3. [s EXCEPT !.at = "served"] \in SaveType /\ s.pick \in Picks
  BY <1>2 DEF SaveType
<1>4. UNCHANGED <<place, signedIn, pool, number, cards, picking, tally, page>>
  BY <1>1 DEF SaveServed, SaveAnswered, SaveFailed
<1>5. saves' \subseteq SaveType /\ recorded' \subseteq Picks
  BY <1>1, <1>3 DEF SaveServed, SaveAnswered, SaveFailed, TypesOK, SavedOK
<1>6. failed' \in BOOLEAN
  BY <1>1 DEF SaveServed, SaveAnswered, SaveFailed, TypesOK, SavedOK
<1>7. CardsOK'
  BY CardsStep DEF TypesOK, Next
<1>8. RangeOK'
  BY <1>4, RangeStays DEF TypesOK
<1> QED
  BY <1>4, <1>5, <1>6, <1>7, <1>8 DEF TypesOK, PoolOK, SavedOK, PageOK, page

\* A step that plays leaves the page, the pool and the server alone
LEMMA PlayTyped ==
  ASSUME TypesOK, (\E w \in Sides : Tap(w)) \/ Skip \/ Shown
  PROVE  TypesOK'
<1>1. CardsOK'
  BY CardsStep DEF TypesOK, Next
<1>2. RangeOK'
  BY TapRange, SkipRange, ShownRange DEF TypesOK
<1>3. /\ UNCHANGED <<place, signedIn, pool, number, recorded, failed, reported, mine, reads, board>>
      /\ EffectAfter \/ due' = due
  BY DEF Tap, Skip, Shown
<1>4. saves' \subseteq SaveType
  <2>1. ASSUME NEW w \in Sides, Tap(w) PROVE saves' \subseteq SaveType
    <3>1. Pick(number, champion, step, w) \in Picks
      BY <2>1, RunBounds DEF Tap, CanPick, Done, TypesOK, CardsOK, Pick, Picks, Entries
    <3> DEFINE s == [pick |-> Pick(number, champion, step, w), at |-> "sent"]
    <3>2. s \in SaveType
      BY <3>1 DEF SaveType
    <3>3. saves' = saves \cup {s} \/ saves' = saves
      BY <2>1 DEF Tap
    <3> HIDE DEF s
    <3> QED
      BY <3>2, <3>3 DEF TypesOK, SavedOK
  <2>2. CASE Skip \/ Shown
    BY <2>2 DEF Skip, Shown, TypesOK, SavedOK
  <2> QED
    BY <2>1, <2>2
<1>5. due' \in BOOLEAN
  BY <1>3, DueTyped DEF TypesOK, PageOK
<1> QED
  BY <1>1, <1>2, <1>3, <1>4, <1>5 DEF TypesOK, PoolOK, SavedOK, PageOK

LEMMA ReadsTyped ==
  ASSUME TypesOK, Report \/ Poll \/ SignIn \/ ReadEnds \/ \E r \in reads : ReadServed(r)
  PROVE  TypesOK'
<1>1. CardsOK'
  BY CardsStep DEF TypesOK, Next
<1>2. UNCHANGED <<place, pool, number, cards, picking, saves, recorded, failed, tally>>
  BY DEF Report, Poll, SignIn, ReadEnds, ReadArrives, ReadFails, ReadServed
<1>3. RangeOK'
  BY <1>2, RangeStays DEF TypesOK
<1>4. reads \subseteq ReadType /\ IsFiniteSet(reads)
  BY DEF TypesOK, PageOK
<1>5. MayRead => NewRead \in ReadType /\ IsFiniteSet(reads \cup {NewRead})
  BY <1>4, NewReadTyped, FS_AddElement DEF TypesOK
<1>6. CASE Report
  <2>1. RunResults \in MineType
    BY TallyTyped DEF TypesOK, RunResults, MineType, CardsOK
  <2>2. /\ due' = FALSE /\ UNCHANGED <<signedIn, board>>
        /\ reported' \in 0 .. 2
        /\ mine' = RunResults \/ mine' = mine
        /\ reads' = reads \/ (MayRead /\ reads' = reads \cup {NewRead})
    BY <1>6 DEF Report, TypesOK, PageOK
  <2> QED
    BY <1>1, <1>2, <1>3, <1>4, <1>5, <2>1, <2>2 DEF TypesOK, PoolOK, SavedOK, PageOK
<1>7. CASE Poll
  <2>1. /\ UNCHANGED <<signedIn, board, due, reported, mine>> /\ MayRead /\ reads' = reads \cup {NewRead}
    BY <1>7 DEF Poll
  <2> QED
    BY <1>1, <1>2, <1>3, <1>4, <1>5, <2>1 DEF TypesOK, PoolOK, SavedOK, PageOK
<1>8. CASE SignIn
  <2>1. /\ UNCHANGED <<board, due, reported, mine>> /\ signedIn' = TRUE
        /\ reads' = reads \/ (MayRead /\ reads' = reads \cup {NewRead})
    BY <1>8 DEF SignIn
  <2> QED
    BY <1>1, <1>2, <1>3, <1>4, <1>5, <2>1 DEF TypesOK, PoolOK, SavedOK, PageOK
<1>9. ASSUME NEW r \in reads, ReadServed(r) PROVE TypesOK'
  <2>1. [r EXCEPT !.has = recorded] \in ReadType
    BY <1>4 DEF ReadType, TypesOK, SavedOK
  <2>2. /\ reads' = (reads \ {r}) \cup {[r EXCEPT !.has = recorded]}
        /\ UNCHANGED <<signedIn, due, reported, mine, board>>
    BY <1>9 DEF ReadServed
  <2>3. IsFiniteSet(reads')
    BY <1>4, <2>2, FS_RemoveElement, FS_AddElement
  <2>4. reads' \subseteq ReadType
    BY <1>4, <2>1, <2>2
  <2> QED
    BY <1>1, <1>2, <1>3, <2>2, <2>3, <2>4 DEF TypesOK, PoolOK, SavedOK, PageOK
<1>10. ASSUME NEW r \in reads, ReadArrives(r) \/ ReadFails(r) PROVE TypesOK'
  <2>1. /\ reads' = reads \ {r} /\ r.has # None
        /\ board' = r.has \/ board' = board
        /\ due' = (due \/ (Done /\ place.tells)) \/ due' = due
        /\ UNCHANGED <<signedIn, reported, mine>>
    BY <1>10 DEF ReadArrives, ReadFails
  <2>2. IsFiniteSet(reads') /\ reads' \subseteq ReadType
    BY <1>4, <2>1, FS_RemoveElement
  <2>3. r.has \in (SUBSET Picks) \cup {None}
    BY <1>4 DEF ReadType
  <2>4. due' \in BOOLEAN
    BY <2>1 DEF TypesOK, PageOK
  <2> QED
    BY <1>1, <1>2, <1>3, <2>1, <2>2, <2>3, <2>4 DEF TypesOK, PoolOK, SavedOK, PageOK
<1> QED
  BY <1>6, <1>7, <1>8, <1>9, <1>10 DEF ReadEnds

LEMMA RunsTyped ==
  ASSUME TypesOK, NextRun \/ AskAgain
  PROVE  TypesOK'
<1>1. StartOver /\ (Ask \/ pool' = pool)
  BY DEF NextRun, AskAgain
<1>2. CardsOK' /\ RangeOK'
  BY <1>1, CardsStep, FreshRange DEF TypesOK, Next
<1>3. /\ number' = number + 1 /\ failed' = FALSE /\ due' = FALSE /\ reported' = 0 /\ mine' = None
      /\ UNCHANGED <<place, signedIn, saves, recorded, reads, board>>
  BY <1>1 DEF StartOver
<1>4. /\ number' \in 1 .. MaxRuns + 1
      /\ pool' \in [by : BOOLEAN, is : {"ready", "loading", "error"}] /\ (pool'.by => signedIn)
      /\ number' = MaxRuns + 1 => pool'.by
  <2>1. /\ number \in 1 .. MaxRuns + 1 /\ signedIn \in BOOLEAN
        /\ pool \in [by : BOOLEAN, is : {"ready", "loading", "error"}]
        /\ pool.by => signedIn
        /\ number = MaxRuns + 1 => pool.by
    BY DEF TypesOK, PoolOK
  <2>2. pool' = [by |-> signedIn, is |-> "loading"] \/ pool' = pool
    BY <1>1 DEF Ask
  <2>3. CASE NextRun
    <3>1. number < MaxRuns
      BY <2>3 DEF NextRun
    <3>2. number' \in 1 .. MaxRuns + 1 /\ number' # MaxRuns + 1
      BY <1>3, <2>1, <3>1, RunBounds
    <3> QED
      BY <2>1, <2>2, <3>2
  <2>4. CASE AskAgain
    <3>1. pool' = [by |-> signedIn, is |-> "loading"] /\ pool.by # signedIn
      BY <2>4 DEF AskAgain, Ask, PoolIsStale
    <3>2. ~pool.by /\ signedIn
      BY <2>1, <3>1
    <3>3. number' \in 1 .. MaxRuns + 1
      BY <1>3, <2>1, <3>2, RunBounds
    <3> QED
      BY <2>1, <3>1, <3>2, <3>3
  <2> QED
    BY <2>3, <2>4
<1>5. PoolOK'
  <2>1. place' \in Runs /\ signedIn' \in BOOLEAN /\ signedIn' = signedIn
    BY <1>3 DEF TypesOK, PoolOK
  <2> QED
    BY <1>4, <2>1 DEF PoolOK
<1>6. SavedOK'
  BY <1>3 DEF TypesOK, SavedOK
<1>7. PageOK'
  <2>1. reads' \subseteq ReadType /\ IsFiniteSet(reads') /\ board' \in (SUBSET Picks) \cup {None}
    BY <1>3 DEF TypesOK, PageOK
  <2>2. mine' \in MineType
    <3>1. mine' = None
      BY <1>3
    <3> QED
      BY <3>1 DEF MineType
  <2>3. due' \in BOOLEAN
    BY <1>3
  <2>4. reported' = 0
    BY <1>3
  <2> QED
    BY <2>1, <2>2, <2>3, <2>4 DEF PageOK
<1> QED
  BY <1>2, <1>5, <1>6, <1>7 DEF TypesOK

LEMMA PoolTyped ==
  ASSUME TypesOK, PoolArrives \/ PoolFails \/ Retry
  PROVE  TypesOK'
<1>1. CardsOK'
  BY CardsStep DEF TypesOK, Next
<1>2. UNCHANGED <<place, signedIn, number, cards, picking, saves, recorded, failed, tally, page>>
  BY DEF PoolArrives, PoolFails, Retry
<1>3. RangeOK'
  BY <1>2, RangeStays DEF TypesOK
<1>4. /\ pool' \in [by : BOOLEAN, is : {"ready", "loading", "error"}]
      /\ pool'.by = pool.by \/ pool'.by = signedIn
  BY DEF PoolArrives, PoolFails, Retry, Ask, TypesOK, PoolOK
<1>5. PoolOK'
  <2>1. /\ number \in 1 .. MaxRuns + 1 /\ signedIn \in BOOLEAN /\ pool.by \in BOOLEAN
        /\ pool.by => signedIn
        /\ number = MaxRuns + 1 => pool.by
    BY DEF TypesOK, PoolOK
  <2> QED
    BY <1>2, <1>4, <2>1 DEF TypesOK, PoolOK
<1> QED
  BY <1>1, <1>2, <1>3, <1>5 DEF TypesOK, SavedOK, PageOK, page

\* The numbers of a run stay within its entries: the streak, the picks and the
\* wins count its pairs, and the cards are at most one pair past the end, when
\* a pair was skipped while the last pick was being saved; a page starts over
\* once beyond its runs, for a guest who has signed in.
THEOREM TypeCorrect == Spec => []TypeOK
<1>1. Init => TypesOK
  <2> SUFFICES ASSUME Init PROVE TypesOK
    OBVIOUS
  <2>1. RangeOK
    <3>1. step = 1 /\ streak = 0 /\ voted = 0 /\ picking = None /\ tally = Fresh
      BY DEF Init
    <3>2. Picked = 0
      BY <3>1 DEF Picked
    <3> QED
      BY <3>1, <3>2, FreshRange, RunBounds DEF RangeOK
  <2>2. PoolOK
    BY RunBounds DEF Init, PoolOK
  <2>3. SavedOK
    BY DEF Init, SavedOK
  <2>4. PageOK
    <3>1. reads \subseteq ReadType /\ IsFiniteSet(reads) /\ board \in (SUBSET Picks) \cup {None}
      BY FS_EmptySet DEF Init
    <3>2. mine \in MineType
      <4>1. mine = None
        BY DEF Init
      <4> QED
        BY <4>1 DEF MineType
    <3>3. due \in BOOLEAN
      BY DEF Init
    <3>4. reported = 0
      BY DEF Init
    <3> QED
      BY <3>1, <3>2, <3>3, <3>4 DEF PageOK
  <2> QED
    BY <2>1, <2>2, <2>3, <2>4, CardsInit DEF TypesOK
<1>2. TypesOK /\ [Next]_vars => TypesOK'
  <2> SUFFICES ASSUME TypesOK, [Next]_vars PROVE TypesOK'
    OBVIOUS
  <2>1. CASE UNCHANGED vars
    <3>1. CardsOK' /\ RangeOK'
      BY <2>1, CardsStep, RangeStays DEF TypesOK, vars, cards
    <3> QED
      BY <2>1, <3>1 DEF vars, TypesOK, PoolOK, SavedOK, PageOK
  <2> QED
    BY <2>1, SavesTyped, PlayTyped, ReadsTyped, RunsTyped, PoolTyped DEF Next
<1>3. TypesOK => TypeOK
  BY TypesGive
<1> QED
  BY <1>1, <1>2, <1>3, PTL DEF Spec
=============================================================================
