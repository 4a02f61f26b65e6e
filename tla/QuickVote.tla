------------------------------- MODULE QuickVote -------------------------------
(***************************************************************************)
(* Votes between two titles (battles/service.py, repository.py) and star   *)
(* ratings (users/service.py), as concurrent READ COMMITTED transactions   *)
(* that change the titles' Elo rows, their ranking rows (ranking/          *)
(* service.py) and the contribution counts of the user (taste/compute.py). *)
(*                                                                         *)
(* A step is one statement of a transaction.  What a transaction wrote is  *)
(* in its record `tx` and becomes visible at Commit; a row it wrote or     *)
(* locked belongs to it until then, and others wait for it.  Abort is any  *)
(* rollback: an error answer, a lost connection, a killed process, or the  *)
(* victim the database chooses in a deadlock.                              *)
(*                                                                         *)
(* A ranking score stands for the inputs it was computed from.  Titles are *)
(* numbered in the order of their ids.  The votes counted are those of one *)
(* day; Limit is MAX_VOTES_PER_DAY.                                        *)
(***************************************************************************)
EXTENDS Integers, Sequences, FiniteSets

CONSTANTS
  Entities,   \* titles of one category
  Users,
  Requests,   \* transactions in flight at once
  Stars,      \* the ratings used
  Gains,      \* how far one vote may move a title
  Limit,
  MaxBegun,   \* bound: how many transactions ever begin
  None

\* An Elo row
Row == [score : Int, played : Nat]

\* None is no number, no row, and no table of rows
ASSUME QuickVoteConstantsOK ==
  /\ Entities \subseteq Nat
  /\ Gains \subseteq Nat
  /\ Limit \in Nat \ {0} /\ MaxBegun \in Nat
  /\ IsFiniteSet(Requests) /\ IsFiniteSet(Entities)
  /\ None \notin Nat /\ None \notin Stars /\ None \notin Requests
  /\ None \notin Row /\ \A S \in SUBSET Entities : None \notin [S -> Row]

VARIABLES
  elo,         \* entity_elo_scores; None before a title's first vote
  eloOwner,    \* the transaction that inserted or locked that row
  pair_votes,  \* the votes of the day
  rating,      \* user_ratings; None without one
  ranking,     \* entity_rankings; None before the first recompute
  rankOwner,
  stats,       \* user_contribution_stats
  statsOwner,
  tx,          \* the transactions in flight
  raced,       \* history: titles and users whose derived row was last
               \* rewritten by a transaction that overlapped another of theirs
  begun

db == <<elo, pair_votes, rating, ranking, stats, raced>>
owners == <<eloOwner, rankOwner, statsOwner>>
vars == <<db, owners, tx, begun>>

DefaultElo == [score |-> 0, played |-> 0]
EloOf(e) == IF elo[e] = None THEN DefaultElo ELSE elo[e]

\* The ranking row recompute_entities stores for these inputs: battle_adjustment
\* makes nothing of an Elo row before the first battle
Score(row, ratings) ==
  [total_votes |-> ratings,
   computed_score |-> <<IF row.played = 0 THEN None ELSE row, ratings>>]

VotesBy(u) == {i \in DOMAIN pair_votes : pair_votes[i].user = u}
Decided(t) == t.kind = "vote" /\ t.winner # "skip"
DecidedBy(u) == {i \in VotesBy(u) : pair_votes[i].winner # "skip"}

Titles(t) == {t.items[i] : i \in DOMAIN t.items}
InOrder(items) == IF Len(items) = 2 /\ items[1] > items[2] THEN <<items[2], items[1]>> ELSE items

\* The titles and the user whose derived rows a task rewrites
Keys(t) ==
  (IF t.kind # "vote" \/ Decided(t) THEN {<<"entity", e>> : e \in Titles(t)} ELSE {})
    \cup (IF t.kind # "recompute" THEN {<<"user", t.user>>} ELSE {})

\* Two votes on a title queue up at its Elo row and do not overlap there
Overlap(t, v) ==
  {k \in Keys(t) \cap Keys(v) : k[1] = "user" \/ ~ (Decided(t) /\ Decided(v))}

NoTask == [kind |-> "none"]
Idle == [pc |-> "idle", task |-> NoTask, todo |-> <<>>, overlaps |-> {},
         before |-> None, after |-> None, input |-> None, loaded |-> None, counts |-> None]

Running(r) == tx[r].pc # "idle"
At(r, p) == tx[r].pc = p

Init ==
  /\ elo = [e \in Entities |-> None]
  /\ pair_votes = <<>>
  /\ rating = [u \in Users |-> [e \in Entities |-> None]]
  /\ \E row \in {None, Score(DefaultElo, [u \in Users |-> None])} : ranking = [e \in Entities |-> row]
  /\ stats = [u \in Users |-> [votes_count |-> 0, battles_count |-> 0]]
  /\ raced = {}
  /\ begun = 0
  /\ eloOwner = [e \in Entities |-> None]
  /\ rankOwner = [e \in Entities |-> None]
  /\ statsOwner = [u \in Users |-> None]
  /\ tx = [r \in Requests |-> Idle]
-----------------------------------------------------------------------------
(* Starting.  The new transaction and those in flight note where they      *)
(* overlap.                                                                *)

Begin(r, pc, t) ==
  /\ ~ Running(r) /\ begun < MaxBegun
  /\ begun' = begun + 1
  /\ LET others == {q \in Requests : Running(q)} IN
     tx' = [q \in Requests |->
       IF q = r THEN [Idle EXCEPT !.pc = pc, !.task = t, !.todo = t.items,
                        !.overlaps = UNION {Overlap(t, tx[o].task) : o \in others}]
       ELSE IF q \in others THEN [tx[q] EXCEPT !.overlaps = @ \cup Overlap(t, tx[q].task)]
       ELSE tx[q]]
  /\ UNCHANGED <<db, owners>>

\* Mutant of MayVote: off by one
MayVoteOnceMore(u) == Cardinality(VotesBy(u)) <= Limit

\* _enforce_rate_limit
MayVote(u) == Cardinality(VotesBy(u)) < Limit

\* cast_vote, up to the first statement that writes
StartVote(r, u, l, e, w) ==
  /\ l # e /\ MayVote(u)
  /\ Begin(r, "insert", [kind |-> "vote", user |-> u, items |-> <<l, e>>, winner |-> w])

\* rate_entity, and unrate_entity if there is a rating to take away: the row
\* of the rating is written first, by one transaction at a time (upsert_rating,
\* delete_rating)
StartRate(r, u, e, s) ==
  /\ s = None => rating[u][e] # None
  /\ \A q \in Requests : tx[q].task.kind = "rate" => tx[q].task.user # u \/ e \notin Titles(tx[q].task)
  /\ Begin(r, "read", [kind |-> "rate", user |-> u, items |-> <<e>>, stars |-> s])

\* scripts/recompute_rankings.py, and the admin's recompute
StartRecompute(r, e) == Begin(r, "read", [kind |-> "recompute", items |-> <<e>>])
-----------------------------------------------------------------------------
(* The statements of a transaction *)

\* Mutant of LockOrder: the rows are locked as the request names them
LockOrderAsNamed(items) == items

\* lock_elo_rows, ORDER BY entity_id
LockOrder(items) == InOrder(items)

\* lock_elo_rows, INSERT ... ON CONFLICT DO NOTHING: the rows of the statement
\* one by one, as the request names them.  It waits for a transaction that
\* has just inserted the row, and does nothing about a row that is there.
InsertElo(r) ==
  LET t == tx[r]  e == Head(t.todo) IN
  /\ At(r, "insert")
  /\ elo[e] = None => eloOwner[e] = None
  /\ eloOwner' = IF elo[e] = None THEN [eloOwner EXCEPT ![e] = r] ELSE eloOwner
  /\ tx' = [tx EXCEPT ![r] =
       IF Len(t.todo) = 1 THEN [t EXCEPT !.pc = "lock", !.todo = LockOrder(t.task.items)]
       ELSE [t EXCEPT !.todo = Tail(@)]]
  /\ UNCHANGED <<db, rankOwner, statsOwner, begun>>

\* Mutant of Locks: the rows are read without FOR UPDATE
LocksNothing(r, e) == TRUE

Locks(r, e) == eloOwner[e] \in {None, r}

\* lock_elo_rows, SELECT ... ORDER BY entity_id FOR UPDATE
LockElo(r) ==
  LET t == tx[r]  e == Head(t.todo) IN
  /\ At(r, "lock") /\ t.todo # <<>>
  /\ Locks(r, e)
  /\ eloOwner' = [eloOwner EXCEPT ![e] = r]
  /\ tx' = [tx EXCEPT ![r].todo = Tail(@)]
  /\ UNCHANGED <<db, rankOwner, statsOwner, begun>>

\* Mutant of Plus: matches_played follows the sign of the move
PlusSigned(row, d) == [score |-> row.score + d, played |-> row.played + (IF d < 0 THEN -1 ELSE 1)]

Plus(row, d) == [score |-> row.score + d, played |-> row.played + 1]

\* update_ratings, and create_vote.  A skip moves nothing, and is counted only
\* in the vote log.
ApplyVote(r) ==
  LET t == tx[r]
      both == Titles(t.task)
      sign(e) == IF (t.task.winner = "left") = (e = t.task.items[1]) THEN 1 ELSE -1
      before == [e \in both |-> EloOf(e)]
      after(g) == [e \in both |->
                     IF Decided(t.task) THEN Plus(before[e], sign(e) * g[e]) ELSE before[e]]
  IN
  /\ At(r, "lock") /\ t.todo = <<>>
  /\ \E g \in [both -> Gains] :
       tx' = [tx EXCEPT ![r] = [t EXCEPT !.pc = IF Decided(t.task) THEN "read" ELSE "count",
                                         !.before = before, !.after = after(g)]]
  /\ UNCHANGED <<db, owners, begun>>

\* Mutant of SeenElo: the ranking is recomputed before the Elo rows are flushed
SeenEloUnflushed(r, e) == EloOf(e)

\* Mutant of SeenRating: the counts are read before the rating is flushed
SeenRatingUnflushed(r, u, e) == rating[u][e]

\* What a transaction sees: what is committed, and its own changes
SeenElo(r, e) == IF tx[r].after # None THEN tx[r].after[e] ELSE EloOf(e)
SeenRating(r, u, e) ==
  LET t == tx[r].task IN
  IF t.kind = "rate" /\ t.user = u /\ e \in Titles(t) THEN t.stars ELSE rating[u][e]

\* score_breakdowns
ReadInputs(r) ==
  /\ At(r, "read")
  /\ tx' = [tx EXCEPT ![r].pc = "load", ![r].input =
       [e \in Titles(tx[r].task) |-> Score(SeenElo(r, e), [u \in Users |-> SeenRating(r, u, e)])]]
  /\ UNCHANGED <<db, owners, begun>>

\* recompute_entities: the ranking rows there are
LoadRankings(r) ==
  /\ At(r, "load")
  /\ tx' = [tx EXCEPT ![r].pc = "flush", ![r].todo = InOrder(tx[r].task.items), ![r].loaded =
       [e \in Titles(tx[r].task) |-> ranking[e]]]
  /\ UNCHANGED <<db, owners, begun>>

\* ... and the flush: rows that changed, by primary key.  A row that another
\* transaction inserted since is an error of the unique key (Abort).
FlushRanking(r) ==
  LET t == tx[r]  e == Head(t.todo) IN
  /\ At(r, "flush")
  /\ \/ /\ t.loaded[e] # t.input[e]
        /\ rankOwner[e] = None /\ (t.loaded[e] = None => ranking[e] = None)
        /\ rankOwner' = [rankOwner EXCEPT ![e] = r]
     \/ /\ t.loaded[e] = t.input[e]
        /\ UNCHANGED rankOwner
  /\ tx' = [tx EXCEPT ![r].todo = Tail(@), ![r].pc =
       IF Len(t.todo) > 1 THEN "flush" ELSE IF t.task.kind = "recompute" THEN "commit" ELSE "count"]
  /\ UNCHANGED <<db, eloOwner, statsOwner, begun>>

\* compute_contribution_stats: the counts ...
CountContributions(r) ==
  LET t == tx[r].task IN
  /\ At(r, "count")
  /\ tx' = [tx EXCEPT ![r].pc = "stats", ![r].counts =
       [votes_count |-> Cardinality({e \in Entities : SeenRating(r, t.user, e) # None}),
        battles_count |-> Cardinality(DecidedBy(t.user)) + (IF Decided(t) THEN 1 ELSE 0)]]
  /\ UNCHANGED <<db, owners, begun>>

\* ... and their upsert
UpsertStats(r) ==
  LET u == tx[r].task.user IN
  /\ At(r, "stats") /\ statsOwner[u] = None
  /\ statsOwner' = [statsOwner EXCEPT ![u] = r]
  /\ tx' = [tx EXCEPT ![r].pc = "commit"]
  /\ UNCHANGED <<db, eloOwner, rankOwner, begun>>

Without(owner, r) == [k \in DOMAIN owner |-> IF owner[k] = r THEN None ELSE owner[k]]
Release(r) ==
  /\ eloOwner' = Without(eloOwner, r)
  /\ rankOwner' = Without(rankOwner, r)
  /\ statsOwner' = Without(statsOwner, r)
  /\ tx' = [tx EXCEPT ![r] = Idle]

\* Of a loaded row the flush writes the columns that changed
Written(row, loaded, input) ==
  IF loaded = None THEN input
  ELSE [c \in DOMAIN input |-> IF loaded[c] # input[c] THEN input[c] ELSE row[c]]

Commit(r) ==
  LET t == tx[r]  v == t.task IN
  /\ At(r, "commit")
  /\ elo' = IF v.kind # "vote" THEN elo
            ELSE [e \in Entities |-> IF e \in Titles(v) THEN t.after[e] ELSE elo[e]]
  /\ pair_votes' = IF v.kind # "vote" THEN pair_votes
                   ELSE Append(pair_votes, [user |-> v.user, items |-> v.items, winner |-> v.winner])
  /\ rating' = IF v.kind # "rate" THEN rating
               ELSE [rating EXCEPT ![v.user][v.items[1]] = v.stars]
  /\ ranking' = [e \in Entities |->
                   IF rankOwner[e] = r THEN Written(ranking[e], t.loaded[e], t.input[e]) ELSE ranking[e]]
  /\ stats' = IF v.kind = "recompute" THEN stats ELSE [stats EXCEPT ![v.user] = t.counts]
  /\ raced' = (raced \ Keys(v)) \cup t.overlaps
  /\ Release(r)
  /\ UNCHANGED begun

Abort(r) == Running(r) /\ Release(r) /\ UNCHANGED <<db, begun>>

Start(r) ==
  \/ \E u \in Users, l, e \in Entities, w \in {"left", "right", "skip"} : StartVote(r, u, l, e, w)
  \/ \E u \in Users, e \in Entities, s \in Stars \cup {None} : StartRate(r, u, e, s)
  \/ \E e \in Entities : StartRecompute(r, e)

Next ==
  \E r \in Requests :
    \/ Start(r)
    \/ InsertElo(r) \/ LockElo(r) \/ ApplyVote(r)
    \/ ReadInputs(r) \/ LoadRankings(r) \/ FlushRanking(r)
    \/ CountContributions(r) \/ UpsertStats(r)
    \/ Commit(r) \/ Abort(r)

Spec == Init /\ [][Next]_vars
-----------------------------------------------------------------------------
(* Properties *)

Ratings == [Users -> Stars \cup {None}]
Ranking == [total_votes : Ratings, computed_score : (Row \cup {None}) \X Ratings]
Contributions == [votes_count : Nat, battles_count : Nat]
Winners == {"left", "right", "skip"}
Vote == [user : Users, items : Entities \X Entities, winner : Winners]
Task == [kind : {"vote"}, user : Users, items : Entities \X Entities, winner : Winners]
          \cup [kind : {"rate"}, user : Users, items : Seq(Entities), stars : Stars \cup {None}]
          \cup [kind : {"recompute"}, items : Seq(Entities)]
Steps == {"insert", "lock", "read", "load", "flush", "count", "stats", "commit"}

TypeOK ==
  /\ elo \in [Entities -> Row \cup {None}]
  /\ pair_votes \in Seq(Vote)
  /\ rating \in [Users -> [Entities -> Stars \cup {None}]]
  /\ ranking \in [Entities -> Ranking \cup {None}]
  /\ stats \in [Users -> Contributions]
  /\ begun \in Nat
  /\ raced \subseteq ({"entity"} \X Entities) \cup ({"user"} \X Users)
  /\ eloOwner \in [Entities -> Requests \cup {None}]
  /\ rankOwner \in [Entities -> Requests \cup {None}]
  /\ statsOwner \in [Users -> Requests \cup {None}]
  /\ \A r \in Requests :
       tx[r] = Idle \/ (tx[r].pc \in Steps /\ tx[r].task \in Task /\ tx[r].todo \in Seq(Entities))

\* lock_elo_rows: "concurrent votes on the same entity queue up".  The scores
\* a vote starts from, which it also logs (left_score_before), are the scores
\* of the two titles until it has committed what it made of them.
VotesMoveCurrentScores ==
  \A r \in Requests : tx[r].before # None =>
    \A e \in Titles(tx[r].task) : tx[r].before[e] = EloOf(e)

\* Two tables tell the same story: a title has played as many battles as there
\* are decided votes it stood in (models.py: the Elo table is "derived from
\* pair_votes"), whichever votes were aborted half way.
PlayedIsVotesCast ==
  \A e \in Entities :
    EloOf(e).played = Cardinality({i \in DOMAIN pair_votes :
      pair_votes[i].winner # "skip" /\ e \in {pair_votes[i].items[1], pair_votes[i].items[2]}})

\* "Battle results feed the ranking score, so refresh both sides": the ranking
\* row of a title is what its votes and ratings make of it.  Votes alone keep
\* it so, however many are in flight; only a rating, or a recompute, that
\* overlapped another change of the title leaves it behind, until the next
\* change or recompute that nothing overlaps.
RankingIsExact ==
  \A e \in Entities : <<"entity", e>> \notin raced =>
    LET exact == Score(EloOf(e), [u \in Users |-> rating[u][e]])
    IN  ranking[e] = exact \/ (ranking[e] = None /\ exact = Score(DefaultElo, [u \in Users |-> None]))

\* The counts on a user's profile are those of the log, but for actions of the
\* same user that overlapped.
ContributionsAreExact ==
  \A u \in Users : <<"user", u>> \notin raced =>
    stats[u] = [votes_count |-> Cardinality({e \in Entities : rating[u][e] # None}),
                battles_count |-> Cardinality(DecidedBy(u))]

\* Both: what is derived from ratings and votes agrees with them.
DerivedIsExact == RankingIsExact /\ ContributionsAreExact

\* "Daily vote limit reached": votes in flight at once may all pass the check,
\* so the limit is exceeded by as many as can be in flight, but never by more.
VotesPerDay ==
  \A u \in Users : Cardinality(VotesBy(u)) < Limit + Cardinality(Requests)

WaitsFor(r, q) ==
  LET t == tx[r] IN
  /\ r # q
  /\ \/ t.pc = "insert" /\ elo[Head(t.todo)] = None /\ eloOwner[Head(t.todo)] = q
     \/ t.pc = "lock" /\ t.todo # <<>> /\ eloOwner[Head(t.todo)] = q
     \/ /\ t.pc = "flush"
        /\ t.loaded[Head(t.todo)] # t.input[Head(t.todo)] /\ rankOwner[Head(t.todo)] = q
     \/ t.pc = "stats" /\ statsOwner[t.task.user] = q

Deadlocked(S) == S # {} /\ \A r \in S : \E q \in S : WaitsFor(r, q)

\* lock_elo_rows: "fixed lock order, so no deadlocks".
NoDeadlock == \A S \in SUBSET Requests : ~ Deadlocked(S)

\* What holds of it: no locks of rows that are there, of Elo, ranking and
\* contribution rows together, close a cycle.  Only inserting the rows of
\* titles that have never been in a battle does.
OnlyNewTitlesDeadlock ==
  \A S \in SUBSET Requests : Deadlocked(S) => \E r \in S : At(r, "insert")
=============================================================================
