------------------------------ MODULE BattleRun ------------------------------
(***************************************************************************)
(* A "winner stays" run in the browser: two cards, the picked one stays    *)
(* and meets the next entry until the entries run out.  One component      *)
(* plays it everywhere (components/battle/WinnerStaysBattle.tsx); the list *)
(* page has its own (components/list-detail/ListBattlePreview.tsx).  A     *)
(* pick is saved for a signed-in viewer; a pool battle's page reads its    *)
(* standings again when the run is over (components/tournament/            *)
(* PoolView.tsx under TournamentView.tsx, which also polls).               *)
(*                                                                         *)
(* A handler keeps the values of the render it belongs to: a pick advances *)
(* the run from the pair that was shown when it was clicked, whatever      *)
(* happened while it was being saved.                                      *)
(***************************************************************************)
EXTENDS Integers, FiniteSets

CONSTANTS
    Runs,        \* the places explored, a set of the records below
    Last,        \* the entries are 0 .. Last, in play order; 0 opens as champion
    MaxReads,    \* bound: reads of the battle under way at once
    MaxRuns,     \* bound: runs after one another
    None

ASSUME RunBounds == Last \in Nat \ {0} /\ MaxReads \in Nat \ {0} /\ MaxRuns \in Nat \ {0}

Entries == 0 .. Last
Sides == {"left", "right"}     \* the champion, the challenger

(***************************************************************************)
(* The places a run is played.                                             *)
(***************************************************************************)
\* waits: the cards move on when the save was answered (and a moment passed).
\* guests: a guest may pick, nothing is saved.  board: standings of the battle.
\* tells: the page is told of the end.  next: another run follows on the page.
\* leave: a run may be left before its end.  fetch: the server is asked for
\* the entries, a random pool for a guest and one of their taste for a user.
Place == [waits : BOOLEAN, guests : BOOLEAN, board : BOOLEAN, tells : BOOLEAN,
          next : BOOLEAN, leave : BOOLEAN, fetch : BOOLEAN]
TitleRun == [waits |-> TRUE, guests |-> TRUE, board |-> FALSE, tells |-> TRUE,
             next |-> TRUE, leave |-> FALSE, fetch |-> FALSE]
PersonRun == TitleRun
FeaturedRun == [TitleRun EXCEPT !.next = FALSE]
PoolPage == [FeaturedRun EXCEPT !.board = TRUE]
QuickBattle == [TitleRun EXCEPT !.tells = FALSE, !.leave = TRUE, !.fetch = TRUE]
ListRun == [TitleRun EXCEPT !.waits = FALSE, !.guests = FALSE, !.tells = FALSE,
                            !.leave = TRUE]
PoolPages == {PoolPage}
AllPlaces == {TitleRun, PersonRun, FeaturedRun, PoolPage, QuickBattle, ListRun}

VARIABLES
    place,       \* where the run is played
    signedIn,
    pool,        \* where the entries come from: asked as whom, and how far it got
    number,      \* which run this is
    champion,    \* the entry that stays
    step,        \* the entry it meets; past Last the run is over
    streak,      \* the champion's wins in a row
    voted,       \* pairs picked
    picking,     \* the pick being saved or shown: its winner and its pair, or None
    saves,       \* picks on their way to the server, of this run and earlier ones
    recorded,    \* picks the server counts in the standings of the page
    failed,      \* an error of a save is on the screen
    tally,       \* per entry: wins in this run, and the pick it lost (0: none)
    due,         \* the effect that reports the end will run
    reported,    \* how often this run was reported over (capped at 2)
    mine,        \* the results of the run on the page: its champion and wins, or None
    reads,       \* reads of the battle: the picks they were served, or None yet
    board        \* the picks in the standings on the screen, or None
vars == <<place, signedIn, pool, number, champion, step, streak, voted, picking, saves,
          recorded, failed, tally, due, reported, mine, reads, board>>
cards == <<champion, step, streak, voted>>
page == <<due, reported, mine, reads, board>>

Pick(r, c, d, w) == [run |-> r, champion |-> c, challenger |-> d, winner |-> w]
Picks == [run : Nat, champion : Entries, challenger : Entries, winner : Sides]
Picking == [pick : Picks, asked : BOOLEAN]
ASSUME NoneIsNoPick == None \notin Picking
Fresh == [e \in Entries |-> [wins |-> 0, out |-> 0]]
Done == step > Last

TypeOK ==
    /\ place \in Runs /\ signedIn \in BOOLEAN /\ number \in 1 .. MaxRuns + 1
    /\ pool \in [by : BOOLEAN, is : {"ready", "loading", "error"}]
    /\ champion \in Entries /\ step \in 1 .. Last + 2
    /\ streak \in 0 .. Last /\ voted \in 0 .. Last
    /\ picking \in Picking \cup {None}
    /\ saves \in SUBSET [pick : Picks, at : {"sent", "served"}]
    /\ recorded \in SUBSET Picks
    /\ failed \in BOOLEAN
    /\ tally \in [Entries -> [wins : 0 .. Last, out : 0 .. Last]]
    /\ due \in BOOLEAN /\ reported \in 0 .. 2
    /\ mine \in [champion : Entries, tally : [Entries -> [wins : 0 .. Last, out : 0 .. Last]]] \cup {None}
    /\ reads \in SUBSET ([id : 1 .. MaxReads, has : (SUBSET Picks) \cup {None}])
    /\ board \in (SUBSET Picks) \cup {None}

Winner(p) == IF p.winner = "left" THEN p.champion ELSE p.challenger
Loser(p) == IF p.winner = "left" THEN p.challenger ELSE p.champion

\* PoolView counts a pick before it is saved: a win, and when the other went out.
Tallied(p) ==
    [tally EXCEPT ![Winner(p)].wins = @ + 1, ![Loser(p)].out = voted + 1]

\* Mutant: the right card's entry is read when the run moves on.
AdvanceToCurrent(p) ==
    /\ champion' = IF p.winner = "left" THEN champion ELSE step
    /\ streak' = IF p.winner = "left" THEN streak + 1 ELSE 1
    /\ voted' = voted + 1 /\ step' = step + 1

\* The cards after a pick: the winner stays, the pair's number is left behind.
\* `p` has the pair of the click's render; the steps are counted from now.
Advance(p) ==
    /\ champion' = Winner(p)
    /\ streak' = IF p.winner = "left" THEN streak + 1 ELSE 1
    /\ voted' = voted + 1
    /\ step' = step + 1

\* Mutant: only the end itself is reported.
EffectOnce == due' = (due \/ (place.tells /\ step' > Last /\ ~Done))

\* The effect [done, onDone, championId]: a run that became over is reported,
\* and so is an over run whose champion changed.
EffectAfter == due' = (due \/ (place.tells /\ step' > Last /\ (~Done \/ champion' # champion)))

\* The cards take a tap, on the list page of a signed-in viewer.
CanPick ==
    /\ ~Done /\ picking = None /\ pool.is = "ready"
    /\ place.guests \/ signedIn

\* Mutant: a card answers a second tap while the first pick is being saved.
TapTwice(w) ==
    /\ ~Done /\ pool.is = "ready" /\ signedIn
    /\ LET p == Pick(number, champion, step, w) IN
       /\ tally' = Tallied(p)
       /\ saves' = saves \cup {[pick |-> p, at |-> "sent"]}
       /\ picking' = [pick |-> p, asked |-> TRUE]
    /\ UNCHANGED <<place, signedIn, pool, number, cards, recorded, failed, due, reported, mine, reads, board>>

\* A tap on a card.
Tap(w) ==
    /\ CanPick
    /\ LET p == Pick(number, champion, step, w) IN
       /\ tally' = Tallied(p)
       /\ saves' = IF signedIn THEN saves \cup {[pick |-> p, at |-> "sent"]} ELSE saves
       /\ IF place.waits
          THEN /\ picking' = [pick |-> p, asked |-> signedIn]
               /\ UNCHANGED <<cards, due>>
          ELSE Advance(p) /\ EffectAfter /\ UNCHANGED picking
    /\ UNCHANGED <<place, signedIn, pool, number, recorded, failed, reported, mine, reads, board>>

\* "Skip this pair" is not off while a pick is being saved.
Skip ==
    /\ ~Done /\ pool.is = "ready"
    /\ step' = step + 1
    /\ UNCHANGED <<champion, streak, voted>>
    /\ EffectAfter
    /\ UNCHANGED <<place, signedIn, pool, number, picking, saves, recorded, failed, tally,
                   reported, mine, reads, board>>

\* Mutant: a pick whose save failed does not move on.
ShownIfSaved ==
    /\ picking # None /\ ~failed
    /\ picking.asked => ~\E s \in saves : s.pick = picking.pick
    /\ picking' = None /\ Advance(picking.pick) /\ EffectAfter
    /\ UNCHANGED <<place, signedIn, pool, number, saves, recorded, failed, tally, reported, mine,
                   reads, board>>

\* The check mark was shown, after the answer, whatever it was: the run moves on.
Shown ==
    /\ picking # None
    /\ picking.asked => ~\E s \in saves : s.pick = picking.pick
    /\ picking' = None
    /\ Advance(picking.pick)
    /\ EffectAfter
    /\ UNCHANGED <<place, signedIn, pool, number, saves, recorded, failed, tally, reported, mine,
                   reads, board>>

(***************************************************************************)
(* Saving.                                                                 *)
(***************************************************************************)
SaveServed(s) ==
    /\ s.at = "sent"
    /\ recorded' = IF place.board THEN recorded \cup {s.pick} ELSE recorded
    /\ saves' = (saves \ {s}) \cup {[s EXCEPT !.at = "served"]}
    /\ UNCHANGED <<place, signedIn, pool, number, cards, picking, failed, tally, page>>
SaveAnswered(s) ==
    /\ s.at = "served"
    /\ saves' = saves \ {s}
    /\ UNCHANGED <<place, signedIn, pool, number, cards, picking, recorded, failed, tally, page>>
\* Refused, or lost after it was recorded; an earlier run's error is nobody's.
SaveFailed(s) ==
    /\ saves' = saves \ {s}
    /\ failed' = (failed \/ s.pick.run = number)
    /\ UNCHANGED <<place, signedIn, pool, number, cards, picking, recorded, tally, page>>

(***************************************************************************)
(* The page around the run.                                                *)
(***************************************************************************)
NewRead == [id |-> CHOOSE i \in 1 .. MaxReads : \A r \in reads : r.id # i, has |-> None]
MayRead == Cardinality(reads) < MaxReads

\* The rows of the run: who stayed, and every entry's wins and when it went out.
RunResults == [champion |-> champion, tally |-> tally]

\* The run is reported over: a pool page reads the battle, the others note it.
Report ==
    /\ due /\ Done /\ (place.board => MayRead)
    /\ due' = FALSE
    /\ reported' = IF reported = 2 THEN 2 ELSE reported + 1
    /\ mine' = IF place.board THEN RunResults ELSE mine
    /\ reads' = IF place.board THEN reads \cup {NewRead} ELSE reads
    /\ UNCHANGED <<place, signedIn, pool, number, cards, picking, saves, recorded, failed,
                   tally, board>>

\* The page polls while the battle is active.
Poll ==
    /\ place.board /\ MayRead
    /\ reads' = reads \cup {NewRead}
    /\ UNCHANGED <<place, signedIn, pool, number, cards, picking, saves, recorded, failed,
                   tally, due, reported, mine, board>>

ReadServed(r) ==
    /\ r.has = None
    /\ reads' = (reads \ {r}) \cup {[r EXCEPT !.has = recorded]}
    /\ UNCHANGED <<place, signedIn, pool, number, cards, picking, saves, recorded, failed,
                   tally, due, reported, mine, board>>

\* Mutant: the first standings stay.
ReadArrivesOnce(r) ==
    /\ r.has # None
    /\ reads' = reads \ {r} /\ board' = IF board = None THEN r.has ELSE board
    /\ due' = (due \/ (Done /\ place.tells))
    /\ UNCHANGED <<place, signedIn, pool, number, cards, picking, saves, recorded, failed,
                   tally, reported, mine>>

\* The answer is a new object: the entries are a new array, the callback that
\* reports the end is rebuilt, and the effect of an over run runs again.
ReadArrives(r) ==
    /\ r.has # None
    /\ reads' = reads \ {r}
    /\ board' = r.has
    /\ due' = (due \/ (Done /\ place.tells))
    /\ UNCHANGED <<place, signedIn, pool, number, cards, picking, saves, recorded, failed,
                   tally, reported, mine>>

ReadFails(r) ==
    /\ r.has # None
    /\ reads' = reads \ {r}
    /\ UNCHANGED <<place, signedIn, pool, number, cards, picking, saves, recorded, failed,
                   tally, due, reported, mine, board>>

\* A guest signs in on the page; the run goes on, a pool page reads the battle.
SignIn ==
    /\ ~signedIn /\ signedIn' = TRUE
    /\ place.board => MayRead
    /\ reads' = IF place.board THEN reads \cup {NewRead} ELSE reads
    /\ UNCHANGED <<place, pool, number, cards, picking, saves, recorded, failed, tally, due,
                   reported, mine, board>>

(***************************************************************************)
(* The runs of a page, and where they come from.                           *)
(***************************************************************************)
\* The next run starts from nothing; what this one was saving goes on.
StartOver ==
    /\ number' = number + 1
    /\ champion' = 0 /\ step' = 1 /\ streak' = 0 /\ voted' = 0
    /\ picking' = None /\ failed' = FALSE /\ tally' = Fresh
    /\ due' = FALSE /\ reported' = 0 /\ mine' = None
    /\ UNCHANGED <<place, signedIn, saves, recorded, reads, board>>
Ask == pool' = [by |-> signedIn, is |-> "loading"]

\* The finished view offers the next battle, some places a way out before.
MayLeave == Done \/ place.leave

\* "Next battle", "skip this battle"; a list's run also starts over at another
\* entry and whenever the ids of its entries change.
NextRun ==
    /\ place.next /\ number < MaxRuns /\ MayLeave
    /\ pool.is = "ready"
    /\ StartOver
    /\ IF place.fetch THEN Ask ELSE UNCHANGED pool

\* Mutant: only a visitor without a pool asks for one.
PoolIsMissing == pool.is # "ready"
\* The pool of the cards was asked for as somebody else: it is asked for again.
PoolIsStale == pool.by # signedIn
AskAgain ==
    /\ place.fetch /\ pool.is = "ready" /\ PoolIsStale
    /\ StartOver /\ Ask
PoolArrives ==
    /\ pool.is = "loading" /\ pool' = [pool EXCEPT !.is = "ready"]
    /\ UNCHANGED <<place, signedIn, number, cards, picking, saves, recorded, failed, tally, page>>
PoolFails ==
    /\ pool.is = "loading" /\ pool' = [pool EXCEPT !.is = "error"]
    /\ UNCHANGED <<place, signedIn, number, cards, picking, saves, recorded, failed, tally, page>>
Retry ==
    /\ pool.is = "error" /\ Ask
    /\ UNCHANGED <<place, signedIn, number, cards, picking, saves, recorded, failed, tally, page>>
-----------------------------------------------------------------------------
Init ==
    /\ place \in Runs /\ signedIn \in BOOLEAN /\ number = 1
    /\ pool = [by |-> signedIn, is |-> IF place.fetch THEN "loading" ELSE "ready"]
    /\ champion = 0 /\ step = 1 /\ streak = 0 /\ voted = 0
    /\ picking = None /\ saves = {} /\ recorded = {} /\ failed = FALSE
    /\ tally = Fresh /\ due = FALSE /\ reported = 0 /\ mine = None
    /\ reads = {} /\ board = None

SaveSteps == \E s \in saves : SaveServed(s) \/ SaveAnswered(s) \/ SaveFailed(s)
ReadEnds == \E r \in reads : ReadArrives(r) \/ ReadFails(r)
Next ==
    \/ \E w \in Sides : Tap(w)
    \/ Skip
    \/ Shown
    \/ SaveSteps
    \/ Report \/ Poll
    \/ \E r \in reads : ReadServed(r)
    \/ ReadEnds
    \/ SignIn
    \/ NextRun
    \/ AskAgain \/ PoolArrives \/ PoolFails \/ Retry

\* Requests end, timers fire, effects run (the reads a report must wait for are
\* bounded here only); the polls do not fail forever.
Fairness ==
    /\ WF_vars(SaveSteps) /\ WF_vars(Shown) /\ SF_vars(Report) /\ WF_vars(Poll)
    /\ WF_vars(\E r \in reads : ReadServed(r)) /\ WF_vars(ReadEnds)
    /\ SF_vars(\E r \in reads : ReadArrives(r))
    /\ WF_vars(AskAgain) /\ WF_vars(PoolArrives \/ PoolFails)
Spec == Init /\ [][Next]_vars /\ Fairness

\* What the page shows of everyone's picks: nothing before the run is over.
CommunityResults == IF reported = 0 THEN None ELSE board

(***************************************************************************)
(* Properties.                                                             *)
(***************************************************************************)
\* An entry that lost is never on a card again, and nobody meets itself, also
\* when pairs are skipped while a pick is being saved.
LosersStayOut ==
    picking = None =>
        /\ tally[champion].out = 0
        /\ ~Done => champion # step /\ tally[step] = [wins |-> 0, out |-> 0]

\* What the page shares and ranks by agrees with what was picked: the streak of
\* the champion is all its wins, and every pick sent one more entry out.
KnockedOut == {e \in Entries : tally[e].out # 0}
StreakIsTheChampions ==
    picking = None => streak = tally[champion].wins /\ voted = Cardinality(KnockedOut)

\* The viewer's own results are those of the finished run, also when its last
\* pair was skipped while a pick was being saved and the champion changed after.
ResultsAreOfTheRun ==
    (mine # None /\ ~due /\ picking = None) => mine = RunResults

\* A pick under way ends, however its save does, and the run can go on.
PicksEnd == picking # None ~> picking = None

\* Once the run is over, the standings on a pool page come to hold every pick
\* of it that the server has.
BoardCatchesUp ==
    (Done /\ place.board /\ picking = None /\ saves = {}) ~> CommunityResults = recorded

\* Somebody who signs in comes to play a pool of their own taste, also when the
\* guest's pool was being loaded, or a pick of it saved, at that moment.
PoolIsTheViewers ==
    (place.fetch /\ signedIn) ~> (pool.is = "error" \/ (pool.is = "ready" /\ pool.by = signedIn))

\* "Called once when the run is over": the end of a run is reported once.
ReportedOnce == reported < 2
=============================================================================
