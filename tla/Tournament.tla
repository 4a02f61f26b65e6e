------------------------------ MODULE Tournament ------------------------------
(***************************************************************************)
(* One tournament battle: the engine (tournament_service.py), its scoring  *)
(* (tournament_score.py) and the creator's management calls                *)
(* (tournament_manage.py), as tournament_router.py and the periodic loop   *)
(* run them.                                                               *)
(*                                                                         *)
(* Engine operations take the battle's row lock (lock_battle re-reads the  *)
(* row), so each is one step.  Management operations do not: the router    *)
(* reads the battle, and the handler decides on that copy.  They are two   *)
(* steps, Load and the operation, with any other step in between; req      *)
(* holds the copy.  A transaction commits at its end or not at all, so a   *)
(* crash or an error answer is Abort, or a locked operation that does not  *)
(* happen.                                                                 *)
(*                                                                         *)
(* Time is kept as the time left in the current round: all its matches     *)
(* open together and are extended together, so they share closes_at, and   *)
(* no code reads closes_at of another round.                               *)
(***************************************************************************)
EXTENDS Bracket, FiniteSetsExt, Functions

CONSTANTS
  Entities,     \* titles that may be entered
  Users,        \* voters
  Creator,      \* the voter who owns the battle
  Requests,     \* management calls that may be in flight at once
  Randomize,    \* the answers to "shuffle the seeds?" a publish may carry
  Sizes,        \* bracket sizes the creator may choose
  Durations,    \* round durations; None closes every round by hand
  Extras,       \* extensions the creator may ask for
  MaxLeft,      \* bound: the longest time left an extension may reach
  EntryLists,   \* entry lists the creator may submit, as seedings
  Gains,        \* what one match may move an Elo score by, before the cap
  Cap,          \* battle_max_elo_effect
  MinVoters,    \* battle_min_voters_for_score
  None

VARIABLES
  battle,   \* the battles row
  seed,     \* battle_participants: entity -> seed, 0 without a row
  match,    \* battle_matches: the rows that exist, by <<round, position>>
  vote,     \* battle_votes: match -> user -> choice
  delta,    \* score_delta_a and score_delta_b of each match, None before scoring
  moved,    \* how far this battle has moved each Elo score in all
  left,     \* time left until closes_at of the current round
  req       \* management calls in flight and the copy they decide on

board == <<battle, seed, match, vote, delta, moved, left>>
vars == <<board, req>>
-----------------------------------------------------------------------------
(* Rows and types *)

Statuses == {"draft", "active", "completed", "archived", "gone"}
Visibilities == {"draft", "unlisted", "public"}
Slots == (1..MaxRounds) \X (0..7)
Rows(size) == {s \in Slots : s[1] <= TotalRounds(size) /\ s[2] < MatchesIn(size, s[1])}
RowsOf(rnd) == {s \in DOMAIN match : s[1] = rnd}

Ranked(sd) == {e \in Entities : sd[e] > 0}
Unseeded == [e \in Entities |-> 0]
IsSeeding(sd) ==
  /\ sd \in [Entities -> 0..16]
  /\ \E n \in 0..16 :
       /\ \A i \in 1..n : \E e \in Entities : sd[e] = i
       /\ \A e \in Entities : sd[e] <= n
  /\ \A e, f \in Ranked(sd) : sd[e] = sd[f] => e = f

Battle == [status : Statuses, visibility : Visibilities, size : BracketSizes,
           round : 0..(MaxRounds + 1), duration : Durations \cup {None},
           winner : Entities \cup {None}]
Match == [a : Entities \cup {None}, b : Entities \cup {None},
          winner : Entities \cup {None}, status : {"pending", "open", "closed"}]

Ops == {"entries", "details", "publish", "visibility", "delete", "archive"}
Idle == [op |-> "idle", archived |-> FALSE, visibility |-> "draft", size |-> 4, seed |-> Unseeded]

ASSUME ConstantsOK ==
  /\ Sizes \subseteq BracketSizes /\ Sizes # {}
  /\ Durations \subseteq Nat \ {0} /\ Extras \subseteq Nat \ {0} /\ MaxLeft \in Nat
  /\ \A sd \in EntryLists : IsSeeding(sd)
  /\ Randomize \subseteq BOOLEAN
  /\ Gains \subseteq Nat /\ Cap \in Nat /\ MinVoters \in Nat \ {0}
  /\ IsFiniteSet(Users) /\ IsFiniteSet(Entities)
  /\ None \notin Entities /\ None \notin Nat

\* What create_draft leaves: an empty draft of a chosen size
Init ==
  /\ \E n \in Sizes :
       battle = [status |-> "draft", visibility |-> "draft", size |-> n, round |-> 0,
                 duration |-> None, winner |-> None]
  /\ seed = Unseeded
  /\ match = [s \in {} |-> None]
  /\ vote = [s \in {} |-> None]
  /\ delta = [s \in {} |-> None]
  /\ moved = [e \in Entities |-> 0]
  /\ left = None
  /\ req = [q \in Requests |-> Idle]
-----------------------------------------------------------------------------
(* Closing a round.  The operators work on a copy of the board, so that    *)
(* finish_battle can close several rounds in its one transaction.          *)

Board == [battle |-> battle, match |-> match, delta |-> delta, moved |-> moved, left |-> left]

SetBoard(b) ==
  /\ battle' = b.battle /\ match' = b.match /\ delta' = b.delta
  /\ moved' = b.moved /\ left' = b.left

VotesFor(s, e) == Cardinality({u \in Users : vote[s][u] = e})
VotesByOthers(s, e) == Cardinality({u \in Users \ {Creator} : vote[s][u] = e})

Abs(x) == IF x < 0 THEN -x ELSE x

\* What the matches scored so far moved an entity by, in either direction
Used(b, e) ==
  MapThenSumSet(LAMBDA s : IF b.delta[s] = None THEN 0
                           ELSE (IF b.match[s].a = e THEN Abs(b.delta[s][1]) ELSE 0)
                              + (IF b.match[s].b = e THEN Abs(b.delta[s][2]) ELSE 0),
                DOMAIN b.match)

\* Mutant of MatchDelta: battle_max_elo_effect is not applied
MatchDeltaUncapped(b, s, gain) ==
  LET ea == b.match[s].a
      eb == b.match[s].b
      va == VotesByOthers(s, ea)
      vb == VotesByOthers(s, eb)
  IN  IF va + vb >= MinVoters /\ va # vb
      THEN IF va > vb THEN <<gain[ea], -gain[eb]>> ELSE <<-gain[ea], gain[eb]>>
      ELSE <<0, 0>>

\* The two Elo changes of a decided match: gain[e] is what update_ratings
\* would move e by; too few voters, or a tie, moves nothing.  The votes of
\* the creator do not count here.
MatchDelta(b, s, gain) ==
  LET ea == b.match[s].a
      eb == b.match[s].b
      va == VotesByOthers(s, ea)
      vb == VotesByOthers(s, eb)
      clamp(e) == Min({gain[e], Max({Cap - Used(b, e), 0})})
  IN  IF va + vb >= MinVoters /\ va # vb
      THEN IF va > vb THEN <<clamp(ea), -clamp(eb)>> ELSE <<-clamp(ea), clamp(eb)>>
      ELSE <<0, 0>>

\* What the recorded changes d moved an entity by
Recorded(m, d, e) ==
  MapThenSumSet(LAMBDA s : IF d[s] = None THEN 0
                           ELSE IF m[s].a = e THEN d[s][1]
                           ELSE IF m[s].b = e THEN d[s][2] ELSE 0,
                DOMAIN d)

\* Mutant of ApplyMatchScores: the size of the change is recorded, not its sign
ApplyMatchScoresUnsigned(b, decided, gain) ==
  LET fresh == [s \in decided |-> MatchDelta(b, s, gain)]
  IN  [b EXCEPT
        !.delta = [s \in DOMAIN b.match |->
                     IF s \in decided THEN <<Abs(fresh[s][1]), Abs(fresh[s][2])>> ELSE b.delta[s]],
        !.moved = [e \in Entities |-> b.moved[e] + Recorded(b.match, fresh, e)]]

\* A match that has its score_delta is never scored again
ApplyMatchScores(b, decided, gain) ==
  LET todo == {s \in decided : b.delta[s] = None}
      fresh == [s \in todo |-> MatchDelta(b, s, gain)]
  IN  [b EXCEPT
        !.delta = [s \in DOMAIN b.match |-> IF s \in todo THEN fresh[s] ELSE b.delta[s]],
        !.moved = [e \in Entities |-> b.moved[e] + Recorded(b.match, fresh, e)]]

LastRound(b) == b.battle.round >= TotalRounds(b.battle.size)

\* A match is decided on the participants' seeds, so both sides must still
\* have a participant row; the next round is filled from this round's list by
\* index, so a missing feeder raises; the last round must have a match.
Closable(b) ==
  LET r == b.battle.round
      rows == {s \in DOMAIN b.match : s[1] = r}
  IN  /\ \A s \in rows : b.match[s].a \in Ranked(seed) /\ b.match[s].b \in Ranked(seed)
      /\ IF LastRound(b)
         THEN <<r, 0>> \in rows
         ELSE \A s \in DOMAIN b.match : s[1] = r + 1 =>
                <<r, 2 * s[2]>> \in rows /\ <<r, 2 * s[2] + 1>> \in rows

DecidedMatch(m, s) ==
  [m EXCEPT !.winner = PickWinner(m.a, m.b, VotesFor(s, m.a), VotesFor(s, m.b),
                                  seed[m.a], seed[m.b]),
            !.status = "closed"]

Decided(b) == {s \in DOMAIN b.match : s[1] = b.battle.round /\ b.match[s].status # "closed"}

ClosedMatches(b) ==
  [s \in DOMAIN b.match |->
     IF s \in Decided(b) THEN DecidedMatch(b.match[s], s) ELSE b.match[s]]

\* What a match of the next round looks like between these two
Opened(m, a, b) == [m EXCEPT !.a = a, !.b = b, !.status = "open"]

\* Mutant of OpenedMatches: the sides are filled in, the status is left
OpenedStillPending(b) ==
  [s \in DOMAIN b.match |->
     IF s[1] = b.battle.round + 1
     THEN LET f == FeederPositions(s[2])
          IN  [Opened(ClosedMatches(b)[s], ClosedMatches(b)[<<b.battle.round, f[1]>>].winner,
                      ClosedMatches(b)[<<b.battle.round, f[2]>>].winner) EXCEPT !.status = "pending"]
     ELSE ClosedMatches(b)[s]]

\* Mutant of OpenedMatches: the first side goes on, not the winner
OpenedWithFirstSides(b) ==
  [s \in DOMAIN b.match |->
     IF s[1] = b.battle.round + 1
     THEN LET f == FeederPositions(s[2])
          IN  Opened(ClosedMatches(b)[s], b.match[<<b.battle.round, f[1]>>].a,
                     b.match[<<b.battle.round, f[2]>>].a)
     ELSE ClosedMatches(b)[s]]

\* Mutant of OpenedMatches: the two feeders are swapped
OpenedCrossed(b) ==
  [s \in DOMAIN b.match |->
     IF s[1] = b.battle.round + 1
     THEN LET f == FeederPositions(s[2])
          IN  Opened(ClosedMatches(b)[s], ClosedMatches(b)[<<b.battle.round, f[2]>>].winner,
                     ClosedMatches(b)[<<b.battle.round, f[1]>>].winner)
     ELSE ClosedMatches(b)[s]]

\* The next round, if it has matches, is filled with this round's winners
OpenedMatches(b) ==
  [s \in DOMAIN b.match |->
     IF s[1] = b.battle.round + 1
     THEN LET f == FeederPositions(s[2])
          IN  Opened(ClosedMatches(b)[s], ClosedMatches(b)[<<b.battle.round, f[1]>>].winner,
                     ClosedMatches(b)[<<b.battle.round, f[2]>>].winner)
     ELSE ClosedMatches(b)[s]]

CloseCurrentRound(b, gain) ==
  LET scored == ApplyMatchScores(b, Decided(b), gain)
  IN  IF LastRound(b)
      THEN [scored EXCEPT !.match = ClosedMatches(b),
                          !.left = None,
                          !.battle = [b.battle EXCEPT
                             !.status = "completed",
                             !.winner = ClosedMatches(b)[<<b.battle.round, 0>>].winner]]
      ELSE [scored EXCEPT !.match = OpenedMatches(b),
                          !.left = IF \E s \in DOMAIN b.match : s[1] = b.battle.round + 1
                                   THEN b.battle.duration ELSE None,
                          !.battle = [b.battle EXCEPT !.round = @ + 1]]
-----------------------------------------------------------------------------
(* The engine: each operation holds the row lock from its first read on *)

\* The current round is overdue
Due == battle.status = "active" /\ left = 0

AfterAdvance(gain) == IF Due THEN CloseCurrentRound(Board, gain) ELSE Board

\* Mutant of AdvanceIfDue: the loop skips battles that are not listed
AdvanceIfPublic ==
  /\ Due /\ Closable(Board) /\ battle.visibility = "public"
  /\ \E gain \in [Entities -> Gains] : SetBoard(CloseCurrentRound(Board, gain))
  /\ UNCHANGED <<seed, vote, req>>

\* advance_if_due, from a read of the battle, the internal endpoint or the
\* periodic loop: at most one round per call, however late it is
AdvanceIfDue ==
  /\ Due /\ Closable(Board)
  /\ \E gain \in [Entities -> Gains] : SetBoard(CloseCurrentRound(Board, gain))
  /\ UNCHANGED <<seed, vote, req>>

CloseRoundNow ==
  /\ battle.status = "active" /\ Closable(Board)
  /\ \E gain \in [Entities -> Gains] : SetBoard(CloseCurrentRound(Board, gain))
  /\ UNCHANGED <<seed, vote, req>>

\* One turn of the loop of finish_battle; a round that cannot be closed
\* raises, which leaves the battle active
CloseNext(b, gain) ==
  IF b.battle.status = "active" /\ Closable(b) THEN CloseCurrentRound(b, gain) ELSE b

\* The loop ends within MaxRounds turns; if it raises, nothing is committed
FinishBattle ==
  /\ battle.status = "active"
  /\ \E gain \in [Entities -> Gains] :
       LET b1 == CloseNext(Board, gain)
           b2 == CloseNext(b1, gain)
           b3 == CloseNext(b2, gain)
           b4 == CloseNext(b3, gain)
       IN  b4.battle.status = "completed" /\ SetBoard(b4)
  /\ UNCHANGED <<seed, vote, req>>

\* A round closed by hand gets a deadline from its first extension
ExtendRound ==
  /\ battle.status = "active" /\ RowsOf(battle.round) # {}
  /\ \E extra \in Extras :
       left' = (IF left = None THEN 0 ELSE left) + extra /\ left' <= MaxLeft
  /\ UNCHANGED <<battle, seed, match, vote, delta, moved, req>>

\* Mutant of CastVote: any match that has the title takes the vote
CastVoteAnyMatch(u, s, e) ==
  /\ battle.status = "active" /\ ~ Due
  /\ s \in DOMAIN match /\ e \in {match[s].a, match[s].b}
  /\ vote' = [vote EXCEPT ![s][u] = e]
  /\ UNCHANGED <<battle, seed, match, delta, moved, left, req>>

\* cast_vote advances an overdue round first, in the same transaction; a vote
\* that is then refused takes the advance back with it
CastVote(u, s, e) ==
  /\ battle.status = "active" /\ (Due => Closable(Board))
  /\ s \in DOMAIN match
  /\ \E gain \in [Entities -> Gains] :
       LET b == AfterAdvance(gain)
       IN  /\ b.battle.status = "active"
           /\ s[1] = b.battle.round /\ b.match[s].status = "open"
           /\ e \in {b.match[s].a, b.match[s].b}
           /\ SetBoard(b)
  /\ vote' = [vote EXCEPT ![s][u] = e]
  /\ UNCHANGED <<seed, req>>

Tick ==
  /\ left \in Nat \ {0}
  /\ left' = left - 1
  /\ UNCHANGED <<battle, seed, match, vote, delta, moved, req>>
-----------------------------------------------------------------------------
(* Management: the router reads the battle (_owned), the handler checks    *)
(* that copy and acts on it.  A copy the handler refuses is an error       *)
(* answer, so Load starts only what the copy allows, and keeps of it only  *)
(* what the handler still uses.                                            *)

\* Mutant of Allowed: no check that the copy is a draft
AllowedAnyStatus(op) == battle.status # "gone"

Allowed(op) ==
  CASE op \in {"entries", "details", "delete"} -> battle.status = "draft"
    [] op = "visibility" -> battle.status \in {"active", "completed"}
    [] op = "archive" -> battle.status \in {"active", "completed", "archived"}
    [] op = "publish" -> battle.status # "gone"   \* decided under the lock

\* publish_draft also reads the entries before the lock is taken
Copy(op) ==
  [op |-> op,
   archived |-> op = "archive" /\ battle.status = "archived",
   visibility |-> IF op \in {"visibility", "archive"} THEN battle.visibility ELSE "draft",
   size |-> IF op \in {"entries", "details"} THEN battle.size ELSE 4,
   seed |-> IF op = "publish" THEN seed ELSE Unseeded]

Load(q, op) ==
  /\ req[q].op = "idle" /\ Allowed(op)
  /\ req' = [req EXCEPT ![q] = Copy(op)]
  /\ UNCHANGED board

\* A refusal, an error, a lost connection or a crash: nothing is committed
Abort(q) ==
  /\ req[q].op # "idle"
  /\ req' = [req EXCEPT ![q] = Idle]
  /\ UNCHANGED board

Answer(q, op) == req[q].op = op /\ req' = [req EXCEPT ![q] = Idle]

SetEntries(q) ==
  /\ Answer(q, "entries")
  /\ battle.status # "gone"
  /\ \E list \in EntryLists :
       Cardinality(Ranked(list)) <= req[q].size /\ seed' = list
  /\ UNCHANGED <<battle, match, vote, delta, moved, left>>

\* The structural part of update_details: a new bracket size (None: not sent)
\* cuts the entries beyond it, a new entity type empties them.  Only a value
\* that differs from the copy is written.
UpdateDetails(q) ==
  /\ Answer(q, "details")
  /\ battle.status # "gone"
  /\ \E n \in Sizes \cup {None}, retype \in BOOLEAN :
       /\ battle' = [battle EXCEPT !.size = IF n \in {None, req[q].size} THEN @ ELSE n]
       /\ seed' = [e \in Entities |->
                     IF retype \/ (n # None /\ seed[e] > n) THEN 0 ELSE seed[e]]
  /\ UNCHANGED <<match, vote, delta, moved, left>>

AtSeed(sd, i) == CHOOSE e \in Entities : sd[e] = i

Shuffles(sd) ==
  {[e \in Entities |-> IF sd[e] > 0 THEN sd[p[e]] ELSE 0] :
     p \in Bijection(Ranked(sd), Ranked(sd))}

\* The entries in the order of their seeds, counted from 1 again: a title that
\* was deleted leaves a gap among the participants of a draft
Renumbered(sd) ==
  [e \in Entities |-> Cardinality({f \in Ranked(sd) : sd[e] > 0 /\ sd[f] <= sd[e]})]

\* assign_seeds: the order of the creator, or a shuffle of it
SeedsFor(sd) ==
  UNION {IF shuffle THEN Shuffles(Renumbered(sd)) ELSE {Renumbered(sd)} : shuffle \in Randomize}

\* Mutant of FirstMatch: the seeds meet in plain order
FirstMatchInOrder(sd, size, s) ==
  IF s[1] = 1
  THEN [a |-> AtSeed(sd, 2 * s[2] + 1), b |-> AtSeed(sd, 2 * s[2] + 2), winner |-> None,
        status |-> "open"]
  ELSE [a |-> None, b |-> None, winner |-> None, status |-> "pending"]

FirstMatch(sd, size, s) ==
  IF s[1] = 1
  THEN LET pair == FirstRoundPair(size, s[2])
       IN  [a |-> AtSeed(sd, pair[1]), b |-> AtSeed(sd, pair[2]), winner |-> None, status |-> "open"]
  ELSE [a |-> None, b |-> None, winner |-> None, status |-> "pending"]

\* Mutant of Publish: the matches of the later rounds are not created
PublishFirstRoundOnly(q) ==
  /\ Answer(q, "publish")
  /\ battle.status = "draft"
  /\ Cardinality(Ranked(req[q].seed)) = battle.size
  /\ battle' = [battle EXCEPT !.status = "active", !.visibility = "public", !.round = 1]
  /\ left' = None /\ seed' = req[q].seed
  /\ LET rows == {s \in Rows(battle.size) : s[1] = 1}
     IN  /\ match' = [s \in rows |-> FirstMatch(req[q].seed, battle.size, s)]
         /\ vote' = [s \in rows |-> [u \in Users |-> None]]
         /\ delta' = [s \in rows |-> None]
  /\ UNCHANGED moved

\* publish locks and re-reads the battle, but not the entries it was given;
\* the participants are rewritten from those, so both agree
Publish(q) ==
  /\ Answer(q, "publish")
  /\ battle.status = "draft"
  /\ Cardinality(Ranked(req[q].seed)) = battle.size
  /\ \E d \in Durations \cup {None}, vis \in {"unlisted", "public"} :
       /\ battle' = [battle EXCEPT !.status = "active", !.visibility = vis, !.round = 1,
                                   !.duration = d]
       /\ left' = d
  /\ \E sd \in SeedsFor(req[q].seed) :
       /\ seed' = sd
       /\ match' = [s \in Rows(battle.size) |-> FirstMatch(sd, battle.size, s)]
  /\ vote' = [s \in Rows(battle.size) |-> [u \in Users |-> None]]
  /\ delta' = [s \in Rows(battle.size) |-> None]
  /\ UNCHANGED moved

SetVisibility(q) ==
  /\ Answer(q, "visibility")
  /\ battle.status # "gone"
  /\ \E vis \in {"unlisted", "public"} \ {req[q].visibility} :
       battle' = [battle EXCEPT !.visibility = vis]
  /\ UNCHANGED <<seed, match, vote, delta, moved, left>>

\* A draft: the row is deleted and the database cascades to everything else
DeleteDraft(q) ==
  /\ Answer(q, "delete")
  /\ battle' = [battle EXCEPT !.status = "gone"]
  /\ seed' = Unseeded
  /\ match' = [s \in {} |-> None] /\ vote' = [s \in {} |-> None] /\ delta' = [s \in {} |-> None]
  /\ left' = None
  /\ UNCHANGED moved

\* Anything else is archived; only what differs from the copy is written
ArchiveBattle(q) ==
  /\ Answer(q, "archive")
  /\ battle.status # "gone"
  /\ battle' = [battle EXCEPT
                  !.status = IF req[q].archived THEN @ ELSE "archived",
                  !.visibility = IF req[q].visibility = "unlisted" THEN @ ELSE "unlisted"]
  /\ UNCHANGED <<seed, match, vote, delta, moved, left>>
-----------------------------------------------------------------------------
Manage(q) ==
  \/ \E op \in Ops : Load(q, op)
  \/ Abort(q)
  \/ SetEntries(q)
  \/ UpdateDetails(q)
  \/ Publish(q)
  \/ SetVisibility(q)
  \/ DeleteDraft(q)
  \/ ArchiveBattle(q)

Next ==
  \/ AdvanceIfDue
  \/ CloseRoundNow
  \/ FinishBattle
  \/ ExtendRound
  \/ \E u \in Users, s \in Slots, e \in Entities : CastVote(u, s, e)
  \/ Tick
  \/ \E q \in Requests : Manage(q)

Spec == Init /\ [][Next]_vars
-----------------------------------------------------------------------------
(* Properties *)

TypeOK ==
  /\ battle \in Battle
  /\ seed \in [Entities -> 0..16]
  /\ DOMAIN match \in {{}} \cup {Rows(n) : n \in BracketSizes}
  /\ match \in [DOMAIN match -> Match]
  /\ vote \in [DOMAIN match -> [Users -> Entities \cup {None}]]
  /\ left \in Nat \cup {None}
  /\ \A q \in Requests :
       /\ req[q].op \in Ops \cup {"idle"}
       /\ req[q].archived \in BOOLEAN /\ req[q].visibility \in Visibilities
       /\ req[q].size \in BracketSizes /\ IsSeeding(req[q].seed)

\* Rounds are played strictly in order (tournament_service._close_current_round
\* and publish): while a battle is on, the rounds before current_round are
\* decided, that round takes votes and the later ones wait without sides.
\* Once it is over no match is left open.
InStep(bt, m, s) ==
  /\ m.status = "pending" <=> m.a = None
  /\ m.status = "pending" <=> m.b = None
  /\ m.status = "closed" <=> m.winner # None
  /\ s[1] < bt.round => m.status = "closed"
  /\ s[1] > bt.round => m.status = "pending"
  /\ s[1] = bt.round => /\ m.status # "pending"
                        /\ bt.status = "active" => m.status = "open"
                        /\ bt.status = "completed" => m.status = "closed"

RoundsInStep == \A s \in DOMAIN match : InStep(battle, match[s], s)

\* pick_winner with the votes as they are for good: nobody wins a match
\* against an opponent who has more votes in it, however votes, changes of
\* vote and the close interleave.
MajorityDecides ==
  \A s \in DOMAIN match :
    match[s].status = "closed" =>
      /\ match[s].winner \in {match[s].a, match[s].b}
      /\ \A e \in {match[s].a, match[s].b} : VotesFor(s, e) <= VotesFor(s, match[s].winner)

\* A vote is for a side of its match, and only matches that were opened have
\* any (cast_vote), so finish_battle really decides the rounds it opens
\* itself on seeds alone.
VotesAreForSides ==
  \A s \in DOMAIN match, u \in Users :
    vote[s][u] # None => vote[s][u] \in {match[s].a, match[s].b} \ {None}

\* The champion of a completed battle won a match in every round that was
\* played: the winners are carried from round to round by feeder_positions.
ChampionWonEveryRound ==
  battle.status = "completed" =>
    \A r \in 1..battle.round :
      \E s \in RowsOf(r) : match[s].winner = battle.winner

\* battle_max_elo_effect is "most Elo points one battle may move one entity
\* in total" (config.py): the scored matches of an entity never add up to
\* more, whatever closes them.
EloEffectCapped == \A e \in Entities : Used(Board, e) <= Cap

\* No match is scored twice and no score is lost: what the battle did to an
\* Elo score is exactly what its matches recorded (tournament_score).
EloMovesAreRecorded ==
  battle.status # "gone" => \A e \in Entities : moved[e] = Recorded(match, delta, e)

\* Both: Elo points are neither made up nor lost, nor given beyond the cap.
EloIsSound == EloEffectCapped /\ EloMovesAreRecorded

\* A closed match is history: its sides, its winner, its votes and its score
\* never change as long as the battle exists (cast_vote refuses it,
\* _close_current_round skips it, apply_match_scores scores it once).
ClosedMatchIsFinal ==
  [][\A s \in DOMAIN match :
       match[s].status = "closed" /\ battle'.status # "gone" =>
         /\ s \in DOMAIN match'
         /\ match'[s] = match[s] /\ vote'[s] = vote[s] /\ delta'[s] = delta[s]]_vars

\* The round of a battle that is on can be closed: both sides of its matches
\* are among the participants, the last round has its final and every match of
\* the next round its two feeders.  Otherwise _close_current_round raises, and
\* the loop over the due battles with it.  Deletes of titles and management
\* calls that overlap can break it.
NeverStuck == battle.status = "active" => Closable(Board)

\* What tournament_manage.delete_battle promises: "a published battle is
\* archived so its results and links keep working".
PublishedIsNeverDeleted ==
  [][battle.status \in {"active", "completed", "archived"} => battle'.status # "gone"]_vars

\* What tournament_manage.update_details promises: "entity type and bracket
\* size only in a draft".
StructureOnlyInDraft ==
  [][battle.status # "draft" => battle'.size = battle.size]_vars

\* Both: what a published battle is no request can undo.
PublishedStays == PublishedIsNeverDeleted /\ StructureOnlyInDraft

\* Who has met, and who has won, on the rows m
Met(m) == [s \in {t \in DOMAIN m : m[t].status # "pending"} |-> <<m[s].a, m[s].b>>]
Results(m) == [s \in {t \in DOMAIN m : m[t].status = "closed"} |-> m[s].winner]

Elim == INSTANCE Elimination WITH
  Entrants <- Entities, slots <- DOMAIN match, pair <- Met(match), won <- Results(match),
  gone <- (battle.status = "gone")

\* Tournament implements Elimination: no interleaving of votes, closes,
\* deadlines and management calls rewrites a result or lets a title meet one
\* that the bracket does not give it.
ImplementsElimination == Elim!Spec
=============================================================================
