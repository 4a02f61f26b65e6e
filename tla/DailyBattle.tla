------------------------------ MODULE DailyBattle ------------------------------
(***************************************************************************)
(* The daily battle: its lazy creation and the votes                       *)
(* (daily_battle/service.py), the loop that creates it ahead of the first  *)
(* visitor (precreate.py) and its curation (admin_service.py).             *)
(*                                                                         *)
(* A vote reads the battle of the day, then inserts the vote and bumps the *)
(* counter in one transaction, then feeds the Elo of the two films from    *)
(* the copy it read at first; each is a step.  Admin changes take the row  *)
(* lock and are one step each.  The quota of guests per IP address and a   *)
(* crash are Abort: the request ends without its next step.                *)
(***************************************************************************)
EXTENDS Integers, FiniteSets

CONSTANTS
  Days,       \* bound: how many days pass
  Ids,        \* bound: the battles that are ever created
  Pairs,      \* pairs of films, left and right
  Users,      \* signed-in voters
  Guests,     \* voters known by a guest id
  Requests,   \* votes in flight at once
  Makers,     \* requests and instances that may be creating the day's battle
  None,
  Gone

Voters == Users \cup Guests
Sides == {"left", "right"}

ASSUME DailyConstantsOK ==
  /\ Days \in Nat \ {0}
  /\ IsFiniteSet(Voters)
  /\ None \notin Sides /\ None # Gone

VARIABLES
  today,
  row,      \* daily_battles: None before it is created, Gone after a delete
  votes,    \* daily_battle_votes: battle -> voter -> side
  count,    \* left_votes and right_votes
  fed,      \* the Elo votes cast along: battle -> user -> pair and side
  maker,    \* get_or_create_today in flight: the day and the pair picked
  req       \* votes in flight

vars == <<today, row, votes, count, fed, maker, req>>

Exists(k) == row[k] \notin {None, Gone}
Taken(d) == \E k \in Ids : Exists(k) /\ row[k].date = d
VotesOf(k, s) == {v \in Voters : votes[k][v] = s}

Idle == [pc |-> "idle"]

Init ==
  /\ today = 1
  /\ row = [k \in Ids |-> None]
  /\ votes = [k \in Ids |-> [v \in Voters |-> None]]
  /\ count = [k \in Ids |-> [s \in Sides |-> 0]]
  /\ fed = [k \in Ids |-> [u \in Users |-> None]]
  /\ maker = [m \in Makers |-> None]
  /\ req = [r \in Requests |-> Idle]

NextDay ==
  /\ today < Days
  /\ today' = today + 1
  /\ UNCHANGED <<row, votes, count, fed, maker, req>>
-----------------------------------------------------------------------------
(* Creation *)

\* get_or_create_today found nothing and picks a pair, which takes a while
PickPair(m) ==
  /\ maker[m] = None /\ ~ Taken(today)
  /\ \E p \in Pairs : maker' = [maker EXCEPT ![m] = [date |-> today, pair |-> p]]
  /\ UNCHANGED <<today, row, votes, count, fed, req>>

\* Mutant of InsertBattle: no unique constraint on battle_date
InsertAnyway(m) ==
  /\ maker[m] # None
  /\ \E k \in Ids : row[k] = None /\ row' = [row EXCEPT ![k] = maker[m]]
  /\ maker' = [maker EXCEPT ![m] = None]
  /\ UNCHANGED <<today, votes, count, fed, req>>

\* The loser of the unique battle_date takes the row of the winner
InsertBattle(m) ==
  /\ maker[m] # None
  /\ IF Taken(maker[m].date)
     THEN UNCHANGED row
     ELSE \E k \in Ids : row[k] = None /\ row' = [row EXCEPT ![k] = maker[m]]
  /\ maker' = [maker EXCEPT ![m] = None]
  /\ UNCHANGED <<today, votes, count, fed, req>>
-----------------------------------------------------------------------------
(* Voting *)

\* The client names a battle; it must be the one of today, and the voter must
\* not have voted in it.  Anything else ends the request at once.
Lookup(r, v, k, s) ==
  /\ req[r] = Idle
  /\ Exists(k) /\ row[k].date = today /\ votes[k][v] = None
  /\ req' = [req EXCEPT ![r] = [pc |-> "record", voter |-> v, id |-> k, side |-> s,
                                pair |-> row[k].pair]]
  /\ UNCHANGED <<today, row, votes, count, fed, maker>>

\* Mutant of Record: a duplicate does not stop the request
RecordAgain(r) ==
  /\ req[r].pc = "record"
  /\ LET q == req[r]
     IN  /\ votes' = [votes EXCEPT ![q.id][q.voter] = q.side]
         /\ count' = [count EXCEPT ![q.id][q.side] = @ + 1]
         /\ req' = [req EXCEPT ![r] = IF q.voter \in Users THEN [q EXCEPT !.pc = "feed"] ELSE Idle]
  /\ UNCHANGED <<today, row, fed, maker>>

\* Mutant of Record: the votes of guests go on to Elo too
RecordThenFeed(r) ==
  /\ req[r].pc = "record"
  /\ LET q == req[r]
     IN  /\ Exists(q.id) /\ votes[q.id][q.voter] = None
         /\ votes' = [votes EXCEPT ![q.id][q.voter] = q.side]
         /\ count' = [count EXCEPT ![q.id][q.side] = @ + 1]
  /\ req' = [req EXCEPT ![r].pc = "feed"]
  /\ UNCHANGED <<today, row, fed, maker>>

\* _record_vote: a duplicate, or a battle deleted meanwhile, is an
\* IntegrityError and counts nothing
Record(r) ==
  /\ req[r].pc = "record"
  /\ LET q == req[r]
     IN  IF Exists(q.id) /\ votes[q.id][q.voter] = None
         THEN /\ votes' = [votes EXCEPT ![q.id][q.voter] = q.side]
              /\ count' = [count EXCEPT ![q.id][q.side] = @ + 1]
              /\ req' = [req EXCEPT ![r] = IF q.voter \in Users THEN [q EXCEPT !.pc = "feed"]
                                                                ELSE Idle]
         ELSE UNCHANGED <<votes, count>> /\ req' = [req EXCEPT ![r] = Idle]
  /\ UNCHANGED <<today, row, fed, maker>>

\* Mutant of FeedElo: the choice is the other film
FeedSwapped(r) ==
  /\ req[r].pc = "feed"
  /\ LET q == req[r]
         other == CHOOSE s \in Sides : s # q.side
     IN  fed' = [fed EXCEPT ![q.id][q.voter] = <<q.pair, other>>]
  /\ req' = [req EXCEPT ![r] = Idle]
  /\ UNCHANGED <<today, row, votes, count, maker>>

\* _feed_elo casts a regular battle vote between the films of the copy
FeedElo(r) ==
  /\ req[r].pc = "feed"
  /\ LET q == req[r]
     IN  fed' = [fed EXCEPT ![q.id][q.voter] = <<q.pair, q.side>>]
  /\ req' = [req EXCEPT ![r] = Idle]
  /\ UNCHANGED <<today, row, votes, count, maker>>

Abort(r) ==
  /\ req[r] # Idle
  /\ req' = [req EXCEPT ![r] = Idle]
  /\ UNCHANGED <<today, row, votes, count, fed, maker>>
-----------------------------------------------------------------------------
(* Curation *)

HasVotes(k) == count[k]["left"] + count[k]["right"] > 0

AdminCreate(k, d, p) ==
  /\ row[k] = None /\ d >= today /\ ~ Taken(d)
  /\ row' = [row EXCEPT ![k] = [date |-> d, pair |-> p]]
  /\ UNCHANGED <<today, votes, count, fed, maker, req>>

\* Mutant of AdminUpdate: only the votes for the left film are looked at
AdminUpdateLeftVotes(k, d, p) ==
  /\ Exists(k) /\ count[k]["left"] = 0 /\ row[k].date >= today
  /\ d = row[k].date \/ (d >= today /\ ~ Taken(d))
  /\ row' = [row EXCEPT ![k] = [date |-> d, pair |-> p]]
  /\ UNCHANGED <<today, votes, count, fed, maker, req>>

\* Under the row lock: another pair, another day, or both
AdminUpdate(k, d, p) ==
  /\ Exists(k) /\ ~ HasVotes(k) /\ row[k].date >= today
  /\ d = row[k].date \/ (d >= today /\ ~ Taken(d))
  /\ row' = [row EXCEPT ![k] = [date |-> d, pair |-> p]]
  /\ UNCHANGED <<today, votes, count, fed, maker, req>>

AdminDelete(k) ==
  /\ Exists(k) /\ row[k].date > today /\ ~ HasVotes(k)
  /\ row' = [row EXCEPT ![k] = Gone]
  /\ UNCHANGED <<today, votes, count, fed, maker, req>>
-----------------------------------------------------------------------------
Next ==
  \/ NextDay
  \/ \E m \in Makers : PickPair(m) \/ InsertBattle(m)
  \/ \E r \in Requests :
       \/ \E v \in Voters, k \in Ids, s \in Sides : Lookup(r, v, k, s)
       \/ Record(r) \/ FeedElo(r) \/ Abort(r)
  \/ \E k \in Ids :
       \/ \E d \in 1..Days, p \in Pairs : AdminCreate(k, d, p) \/ AdminUpdate(k, d, p)
       \/ AdminDelete(k)

Spec == Init /\ [][Next]_vars
-----------------------------------------------------------------------------
Row == [date : 1..Days, pair : Pairs]
Request == [pc : {"record", "feed"}, voter : Voters, id : Ids, side : Sides, pair : Pairs]

TypeOK ==
  /\ today \in 1..Days
  /\ row \in [Ids -> Row \cup {None, Gone}]
  /\ votes \in [Ids -> [Voters -> Sides \cup {None}]]
  /\ count \in [Ids -> [Sides -> Nat]]
  /\ fed \in [Ids -> [Users -> (Pairs \X Sides) \cup {None}]]
  /\ maker \in [Makers -> Row \cup {None}]
  /\ req \in [Requests -> Request \cup {Idle}]
  /\ \A r \in Requests : req[r].pc = "feed" => req[r].voter \in Users

\* get_or_create_today: "Two servers racing to create it end up on the same
\* row"; nor do the admin's creations and moves ever give a day two battles.
OneBattlePerDay ==
  \A j, k \in Ids : Exists(j) /\ Exists(k) /\ row[j].date = row[k].date => j = k

\* The denormalized counters are the votes, whatever double clicks, crashes
\* and lost connections do to the requests (_record_vote: "in one
\* transaction").
CountersMatchVotes ==
  \A k \in Ids, s \in Sides : count[k][s] = Cardinality(VotesOf(k, s))

\* What people have voted on is not edited or deleted under them: an admin's
\* change and the first vote cannot both go through on the state before
\* (admin_service.update, delete).
VotedBattleIsFrozen ==
  [][\A k \in Ids : (\E v \in Voters : votes[k][v] # None) => row'[k] = row[k]]_vars

\* Elo is only ever fed a vote that was counted, as it was counted: a request
\* that lost to a duplicate with the other choice does not feed its own.
FedVotesWereCounted ==
  \A k \in Ids, u \in Users : fed[k][u] # None => fed[k][u][2] = votes[k][u]

\* _feed_elo: "A signed-in vote also counts as a regular battle vote", between
\* the two films of the battle it was counted in.
FedVoteIsTheCountedVote ==
  \A k \in Ids, u \in Users :
    fed[k][u] # None => Exists(k) /\ fed[k][u] = <<row[k].pair, votes[k][u]>>
=============================================================================
