-------------------------- MODULE DailyBattleProofs --------------------------
(***************************************************************************)
(* DailyBattle: the counters are the votes, a day has one battle, what was *)
(* fed was counted and what was voted on is frozen, for any number of      *)
(* days, battles, voters and requests in flight.                           *)
(***************************************************************************)
EXTENDS DailyBattle, FiniteSetTheorems, TLAPS

Counted == TypeOK /\ CountersMatchVotes

LEMMA VotersCounted ==
  ASSUME NEW S \in SUBSET Voters
  PROVE  IsFiniteSet(S) /\ Cardinality(S) \in Nat
<1>1. IsFiniteSet(S)
  BY DailyConstantsOK, FS_Subset DEF DailyConstantsOK
<1> QED
  BY <1>1, FS_CardinalityType

LEMMA InitCounted == Init => Counted
<1> SUFFICES ASSUME Init PROVE Counted
  OBVIOUS
<1>1. TypeOK
  BY DailyConstantsOK DEF Init, TypeOK, DailyConstantsOK, Idle
<1>2. \A k \in Ids, s \in Sides : VotesOf(k, s) = {} /\ count[k][s] = 0
  BY DailyConstantsOK DEF Init, VotesOf, DailyConstantsOK
<1>3. Cardinality({}) = 0
  BY FS_EmptySet
<1> QED
  BY <1>1, <1>2, <1>3 DEF Counted, CountersMatchVotes

\* What is in flight is a request
LEMMA InFlight ==
  ASSUME TypeOK, NEW r \in Requests, req[r].pc \in {"record", "feed"}
  PROVE  req[r] \in Request
BY DEF TypeOK, Idle

LEMMA RecordCounts ==
  ASSUME Counted, NEW r \in Requests, Record(r)
  PROVE  Counted'
<1> DEFINE q == req[r]
<1>1. q \in Request
  BY InFlight DEF Record, Counted
<1>2. q.id \in Ids /\ q.voter \in Voters /\ q.side \in Sides /\ q.pair \in Pairs
  BY <1>1 DEF Request
<1>3. CASE Exists(q.id) /\ votes[q.id][q.voter] = None
  <2>1. /\ votes' = [votes EXCEPT ![q.id][q.voter] = q.side]
        /\ count' = [count EXCEPT ![q.id][q.side] = @ + 1]
        /\ req' = [req EXCEPT ![r] = IF q.voter \in Users THEN [q EXCEPT !.pc = "feed"] ELSE Idle]
        /\ UNCHANGED <<today, row, fed, maker>>
    BY <1>3 DEF Record
  <2>2. [q EXCEPT !.pc = "feed"] \in Request /\ [q EXCEPT !.pc = "feed"].voter = q.voter
    BY <1>1 DEF Request
  <2>3. TypeOK'
    <3>1. votes' \in [Ids -> [Voters -> Sides \cup {None}]] /\ count' \in [Ids -> [Sides -> Nat]]
      BY <1>2, <2>1 DEF Counted, TypeOK
    <3>2. /\ req' \in [Requests -> Request \cup {Idle}]
          /\ \A p \in Requests : req'[p].pc = "feed" => req'[p].voter \in Users
      BY <2>1, <2>2 DEF Counted, TypeOK, Idle
    <3> QED
      BY <2>1, <3>1, <3>2 DEF Counted, TypeOK
  <2>4. ASSUME NEW k \in Ids, NEW s \in Sides
        PROVE  count'[k][s] = Cardinality(VotesOf(k, s)')
    <3>0. \A v \in Voters : votes'[k][v] = IF k = q.id /\ v = q.voter THEN q.side ELSE votes[k][v]
      BY <1>2, <2>1 DEF Counted, TypeOK
    <3>1. CASE k = q.id /\ s = q.side
      <4>1. VotesOf(k, s)' = VotesOf(k, s) \cup {q.voter}
        BY <1>2, <3>0, <3>1 DEF VotesOf
      <4>2. q.voter \notin VotesOf(k, s)
        BY <1>3, <3>1, DailyConstantsOK DEF VotesOf, DailyConstantsOK
      <4>3. Cardinality(VotesOf(k, s) \cup {q.voter}) = Cardinality(VotesOf(k, s)) + 1
        <5>1. IsFiniteSet(VotesOf(k, s))
          BY VotersCounted DEF VotesOf
        <5> QED
          BY <4>2, <5>1, FS_AddElement
      <4>4. count'[k][s] = count[k][s] + 1
        BY <1>2, <2>1, <3>1 DEF Counted, TypeOK
      <4> QED
        BY <4>1, <4>3, <4>4 DEF Counted, CountersMatchVotes
    <3>2. CASE ~ (k = q.id /\ s = q.side)
      <4>1. VotesOf(k, s)' = VotesOf(k, s)
        BY <1>3, <3>0, <3>2, DailyConstantsOK DEF VotesOf, DailyConstantsOK
      <4>2. count'[k][s] = count[k][s]
        BY <1>2, <2>1, <3>2 DEF Counted, TypeOK
      <4> QED
        BY <4>1, <4>2 DEF Counted, CountersMatchVotes
    <3> QED
      BY <3>1, <3>2
  <2> QED
    BY <2>3, <2>4 DEF Counted, CountersMatchVotes
<1>4. CASE ~ (Exists(q.id) /\ votes[q.id][q.voter] = None)
  <2>1. req' = [req EXCEPT ![r] = Idle] /\ UNCHANGED <<today, row, votes, count, fed, maker>>
    BY <1>4 DEF Record
  <2>2. /\ req' \in [Requests -> Request \cup {Idle}]
        /\ \A p \in Requests : req'[p].pc = "feed" => req'[p].voter \in Users
    BY <2>1 DEF Counted, TypeOK, Idle
  <2> QED
    BY <2>1, <2>2 DEF Counted, TypeOK, CountersMatchVotes, VotesOf
<1> QED
  BY <1>3, <1>4

\* Every other step leaves the votes and the counters alone
LEMMA OthersKeepVotes ==
  ASSUME Counted, TypeOK', UNCHANGED <<votes, count>>
  PROVE  Counted'
BY DEF Counted, CountersMatchVotes, VotesOf

LEMMA StepCounted == Counted /\ [Next]_vars => Counted'
<1> SUFFICES ASSUME Counted, [Next]_vars PROVE Counted'
  OBVIOUS
<1>0. TypeOK
  BY DEF Counted
<1>1. CASE NextDay
  <2>1. TypeOK'
    BY <1>0, <1>1, DailyConstantsOK DEF NextDay, TypeOK, DailyConstantsOK
  <2> QED
    BY <1>1, <2>1, OthersKeepVotes DEF NextDay
<1>2. ASSUME NEW m \in Makers, PickPair(m) PROVE Counted'
  <2>1. TypeOK'
    BY <1>0, <1>2 DEF PickPair, TypeOK, Row
  <2> QED
    BY <1>2, <2>1, OthersKeepVotes DEF PickPair
<1>3. ASSUME NEW m \in Makers, InsertBattle(m) PROVE Counted'
  <2>1. maker[m] \in Row
    BY <1>0, <1>3 DEF InsertBattle, TypeOK
  <2>2. row' \in [Ids -> Row \cup {None, Gone}] /\ maker' \in [Makers -> Row \cup {None}]
    BY <1>0, <1>3, <2>1 DEF InsertBattle, TypeOK
  <2>3. TypeOK'
    BY <1>0, <1>3, <2>2 DEF InsertBattle, TypeOK
  <2> QED
    BY <1>3, <2>3, OthersKeepVotes DEF InsertBattle
<1>4. ASSUME NEW r \in Requests, NEW v \in Voters, NEW k \in Ids, NEW s \in Sides,
             Lookup(r, v, k, s)
      PROVE  Counted'
  <2>1. row[k] \in Row
    BY <1>0, <1>4 DEF Lookup, Exists, TypeOK
  <2>2. /\ req' = [req EXCEPT ![r] = [pc |-> "record", voter |-> v, id |-> k, side |-> s,
                                      pair |-> row[k].pair]]
        /\ UNCHANGED <<today, row, votes, count, fed, maker>>
    BY <1>4 DEF Lookup
  <2>3. row[k].pair \in Pairs
    BY <2>1 DEF Row
  <2>4. /\ req' \in [Requests -> Request \cup {Idle}]
        /\ \A p \in Requests : req'[p].pc = "feed" => req'[p].voter \in Users
    BY <1>0, <2>2, <2>3 DEF TypeOK, Request
  <2>5. TypeOK'
    BY <1>0, <2>2, <2>4 DEF TypeOK
  <2> QED
    BY <2>2, <2>5, OthersKeepVotes
<1>5. ASSUME NEW r \in Requests, Record(r) PROVE Counted'
  BY <1>5, RecordCounts
<1>6. ASSUME NEW r \in Requests, FeedElo(r) PROVE Counted'
  <2>1. req[r] \in Request /\ req[r].voter \in Users
    BY <1>0, <1>6, InFlight DEF FeedElo, TypeOK
  <2>2. <<req[r].pair, req[r].side>> \in Pairs \X Sides /\ req[r].id \in Ids
    BY <2>1 DEF Request
  <2>3. /\ fed' = [fed EXCEPT ![req[r].id][req[r].voter] = <<req[r].pair, req[r].side>>]
        /\ req' = [req EXCEPT ![r] = Idle] /\ UNCHANGED <<today, row, votes, count, maker>>
    BY <1>6 DEF FeedElo
  <2>4. fed' \in [Ids -> [Users -> (Pairs \X Sides) \cup {None}]]
    BY <1>0, <2>1, <2>2, <2>3 DEF TypeOK
  <2>5. TypeOK'
    BY <1>0, <2>3, <2>4 DEF TypeOK, Idle
  <2> QED
    BY <2>3, <2>5, OthersKeepVotes
<1>7. ASSUME NEW r \in Requests, Abort(r) PROVE Counted'
  <2>1. TypeOK'
    BY <1>0, <1>7 DEF Abort, TypeOK, Idle
  <2> QED
    BY <1>7, <2>1, OthersKeepVotes DEF Abort
<1>8. ASSUME NEW k \in Ids, NEW d \in 1..Days, NEW p \in Pairs,
             AdminCreate(k, d, p) \/ AdminUpdate(k, d, p)
      PROVE  Counted'
  <2>1. /\ row' = [row EXCEPT ![k] = [date |-> d, pair |-> p]]
        /\ UNCHANGED <<today, votes, count, fed, maker, req>>
    BY <1>8 DEF AdminCreate, AdminUpdate
  <2>2. TypeOK'
    BY <1>0, <2>1 DEF TypeOK, Row
  <2> QED
    BY <2>1, <2>2, OthersKeepVotes
<1>9. ASSUME NEW k \in Ids, AdminDelete(k) PROVE Counted'
  <2>1. TypeOK'
    BY <1>0, <1>9 DEF AdminDelete, TypeOK
  <2> QED
    BY <1>9, <2>1, OthersKeepVotes DEF AdminDelete
<1>10. CASE UNCHANGED vars
  BY <1>10 DEF vars, Counted, TypeOK, CountersMatchVotes, VotesOf
<1> QED
  BY <1>1, <1>2, <1>3, <1>4, <1>5, <1>6, <1>7, <1>8, <1>9, <1>10 DEF Next

\* The counters a page shows are the votes that are stored, after any number
\* of double clicks, crashes and admin changes (_record_vote).
THEOREM CountersAlwaysMatchVotes == Spec => []CountersMatchVotes
<1>1. Spec => []Counted
  BY InitCounted, StepCounted, PTL DEF Spec
<1>2. Counted => CountersMatchVotes
  BY DEF Counted
<1> QED
  BY <1>1, <1>2, PTL

\* The rows keep the shape the database gives them; a request that is to feed
\* Elo is of a signed-in voter (vote: only a user's vote reaches update_ratings).
THEOREM TypeCorrect == Spec => []TypeOK
<1>1. Counted => TypeOK
  BY DEF Counted
<1> QED
  BY <1>1, InitCounted, StepCounted, PTL DEF Spec
-----------------------------------------------------------------------------
(* Which battles there are, and what their votes were fed as *)

\* Only a battle that exists has votes, and what goes on to Elo is stored
BattleOfVotes == \A k \in Ids : (\E v \in Voters : votes[k][v] # None) => Exists(k)
FeedsStored == \A r \in Requests : req[r].pc = "feed" => votes[req[r].id][req[r].voter] = req[r].side

DInv == Counted /\ OneBattlePerDay /\ BattleOfVotes /\ FeedsStored /\ FedVotesWereCounted

\* The admin sees from the counters that somebody has voted
LEMMA VotesShow ==
  ASSUME Counted, NEW k \in Ids, NEW v \in Voters, votes[k][v] # None
  PROVE  HasVotes(k)
<1> DEFINE s == votes[k][v]
<1>1. s \in Sides /\ count[k]["left"] \in Nat /\ count[k]["right"] \in Nat
  BY DEF Counted, TypeOK, Sides
<1>2. VotesOf(k, s) \in SUBSET Voters /\ VotesOf(k, s) # {}
  BY DEF VotesOf
<1>3. Cardinality(VotesOf(k, s)) \in Nat /\ Cardinality(VotesOf(k, s)) # 0
  BY <1>2, VotersCounted, FS_EmptySet
<1>4. count[k][s] \in Nat \ {0}
  BY <1>1, <1>3 DEF Counted, CountersMatchVotes
<1> HIDE DEF s
<1> QED
  BY <1>1, <1>4 DEF HasVotes, Sides

\* A step that gives one battle a row of its own, or moves it, on a free day
LEMMA NewRow ==
  ASSUME DInv, NEW k \in Ids, NEW x, row' = [row EXCEPT ![k] = x],
         x \in Row, \A j \in Ids \ {k} : Exists(j) => row[j].date # x.date,
         votes' = votes, DailyConstantsOK
  PROVE  OneBattlePerDay'
<1>1. \A j \in Ids : row'[j] = IF j = k THEN x ELSE row[j]
  BY DEF DInv, Counted, TypeOK
<1>2. ASSUME NEW i \in Ids, NEW j \in Ids, Exists(i)', Exists(j)', row'[i].date = row'[j].date
      PROVE  i = j
  BY <1>1, <1>2 DEF DInv, OneBattlePerDay, Exists
<1> QED
  BY <1>2 DEF OneBattlePerDay

\* Battles that have votes keep their rows
LEMMA VotedRowsStay ==
  ASSUME DInv, [Next]_vars, NEW k \in Ids, NEW v \in Voters, votes[k][v] # None
  PROVE  row'[k] = row[k]
<1>1. HasVotes(k) /\ Exists(k)
  BY VotesShow DEF DInv, BattleOfVotes
<1>2. row = [j \in Ids |-> row[j]]
  BY DEF DInv, Counted, TypeOK
<1>3. ASSUME NEW m \in Makers, InsertBattle(m) PROVE row'[k] = row[k]
  BY <1>1, <1>2, <1>3 DEF InsertBattle, Exists
<1>4. ASSUME NEW j \in Ids, NEW d \in 1..Days, NEW p \in Pairs,
             AdminCreate(j, d, p) \/ AdminUpdate(j, d, p)
      PROVE  row'[k] = row[k]
  BY <1>1, <1>2, <1>4 DEF AdminCreate, AdminUpdate, Exists
<1>5. ASSUME NEW j \in Ids, AdminDelete(j) PROVE row'[k] = row[k]
  BY <1>1, <1>2, <1>5 DEF AdminDelete
<1>6. CASE UNCHANGED row
  BY <1>6
<1> QED
  BY <1>3, <1>4, <1>5, <1>6
     DEF Next, vars, NextDay, PickPair, Lookup, Record, FeedElo, Abort

\* No step gives a day a second battle
LEMMA DaysStayApart == DInv /\ [Next]_vars => OneBattlePerDay'
<1> SUFFICES ASSUME DInv, [Next]_vars PROVE OneBattlePerDay'
  OBVIOUS
<1>1. CASE UNCHANGED row
  BY <1>1 DEF DInv, OneBattlePerDay, Exists
<1>2. ASSUME NEW m \in Makers, InsertBattle(m) PROVE OneBattlePerDay'
  <2>1. CASE Taken(maker[m].date)
    BY <1>1, <1>2, <2>1 DEF InsertBattle
  <2>2. CASE ~ Taken(maker[m].date)
    <3>1. PICK k \in Ids : row' = [row EXCEPT ![k] = maker[m]]
      BY <1>2, <2>2 DEF InsertBattle
    <3>2. maker[m] \in Row
      BY <1>2 DEF InsertBattle, DInv, Counted, TypeOK
    <3> QED
      BY <1>2, <2>2, <3>1, <3>2, NewRow, DailyConstantsOK DEF InsertBattle, Taken
  <2> QED
    BY <2>1, <2>2
<1>3. ASSUME NEW k \in Ids, NEW d \in 1..Days, NEW p \in Pairs, AdminCreate(k, d, p) \/ AdminUpdate(k, d, p)
      PROVE  OneBattlePerDay'
  <2> DEFINE x == [date |-> d, pair |-> p]
  <2>1. x \in Row /\ x.date = d /\ row' = [row EXCEPT ![k] = x] /\ votes' = votes
    BY <1>3 DEF AdminCreate, AdminUpdate, Row
  <2>2. ASSUME NEW j \in Ids \ {k}, Exists(j) PROVE row[j].date # x.date
    <3>1. CASE ~ Taken(d)
      BY <2>1, <2>2, <3>1 DEF Taken
    <3>2. CASE Exists(k) /\ d = row[k].date
      BY <2>1, <2>2, <3>2 DEF DInv, OneBattlePerDay
    <3> QED
      BY <1>3, <3>1, <3>2 DEF AdminCreate, AdminUpdate
  <2> HIDE DEF x
  <2> QED
    BY <2>1, <2>2, NewRow, DailyConstantsOK
<1>4. ASSUME NEW k \in Ids, AdminDelete(k) PROVE OneBattlePerDay'
  <2>1. \A j \in Ids : row'[j] = IF j = k THEN Gone ELSE row[j]
    BY <1>4 DEF AdminDelete, DInv, Counted, TypeOK
  <2> QED
    BY <2>1 DEF DInv, OneBattlePerDay, Exists
<1> QED
  BY <1>1, <1>2, <1>3, <1>4
     DEF Next, vars, NextDay, PickPair, Lookup, Record, FeedElo, Abort

\* What a step may do to the votes and to what is fed
LEMMA VotesStep ==
  ASSUME DInv, [Next]_vars
  PROVE  \/ UNCHANGED votes
         \/ \E r \in Requests : /\ req[r].pc = "record" /\ Record(r) /\ Exists(req[r].id)
                                /\ votes[req[r].id][req[r].voter] = None
                                /\ votes' = [votes EXCEPT ![req[r].id][req[r].voter] = req[r].side]
BY DEF Next, vars, NextDay, PickPair, InsertBattle, Lookup, Record, FeedElo, Abort,
       AdminCreate, AdminUpdate, AdminDelete

\* A vote that is stored stays as it is
LEMMA VotesStay ==
  ASSUME DInv, [Next]_vars, NEW k \in Ids, NEW v \in Voters, votes[k][v] # None
  PROVE  votes'[k][v] = votes[k][v]
<1>1. ASSUME NEW r \in Requests, req[r].pc = "record", votes[req[r].id][req[r].voter] = None,
             votes' = [votes EXCEPT ![req[r].id][req[r].voter] = req[r].side]
      PROVE  votes'[k][v] = votes[k][v]
  <2>1. req[r].id \in Ids /\ req[r].voter \in Voters
    BY <1>1, InFlight DEF DInv, Counted, Request
  <2> QED
    BY <1>1, <2>1 DEF DInv, Counted, TypeOK
<1> QED
  BY <1>1, VotesStep

LEMMA BattleOfVotesStays == DInv /\ [Next]_vars => BattleOfVotes'
<1> SUFFICES ASSUME DInv, [Next]_vars, NEW k \in Ids, NEW v \in Voters, votes'[k][v] # None
             PROVE  Exists(k)'
  BY DEF BattleOfVotes
<1>1. CASE votes[k][v] # None
  BY <1>1, VotedRowsStay DEF DInv, BattleOfVotes, Exists
<1>2. CASE votes[k][v] = None
  <2>1. PICK r \in Requests :
               /\ req[r].pc = "record" /\ Record(r) /\ Exists(req[r].id)
               /\ votes' = [votes EXCEPT ![req[r].id][req[r].voter] = req[r].side]
    BY <1>2, VotesStep
  <2>2. req[r].id \in Ids /\ row' = row
    BY <2>1, InFlight DEF DInv, Counted, Request, Record
  <2>3. k = req[r].id
    BY <1>2, <2>1, <2>2 DEF DInv, Counted, TypeOK
  <2> QED
    BY <2>1, <2>2, <2>3 DEF Exists
<1> QED
  BY <1>1, <1>2

LEMMA FeedsStoredStays == DInv /\ [Next]_vars => FeedsStored'
<1> SUFFICES ASSUME DInv, [Next]_vars, NEW r \in Requests, req'[r].pc = "feed"
             PROVE  votes'[req'[r].id][req'[r].voter] = req'[r].side
  BY DEF FeedsStored
<1>1. Counted' /\ TypeOK /\ Counted
  BY StepCounted DEF DInv, Counted
<1>2. CASE req'[r] = req[r]
  <2>1. req[r].id \in Ids /\ req[r].voter \in Voters /\ req[r].side \in Sides
    BY <1>1, <1>2, InFlight DEF Request
  <2>2. votes[req[r].id][req[r].voter] = req[r].side /\ req[r].side # None
    BY <1>2, <2>1, DailyConstantsOK DEF DInv, FeedsStored, DailyConstantsOK
  <2> QED
    BY <1>2, <2>1, <2>2, VotesStay
<1>3. CASE req'[r] # req[r]
  <2>1. req = [p \in Requests |-> req[p]] /\ Idle.pc # "feed"
    BY <1>1 DEF TypeOK, Idle
  <2>2. ASSUME NEW p \in Requests, NEW v, NEW k, NEW z, Lookup(p, v, k, z) PROVE FALSE
    <3> DEFINE x == [pc |-> "record", voter |-> v, id |-> k, side |-> z, pair |-> row[k].pair]
    <3>1. req' = [req EXCEPT ![p] = x] /\ x.pc = "record"
      BY <2>2 DEF Lookup
    <3> HIDE DEF x
    <3> QED
      BY <1>3, <2>1, <3>1
  <2>3. ASSUME NEW p \in Requests, FeedElo(p) \/ Abort(p) PROVE FALSE
    BY <1>3, <2>1, <2>3 DEF FeedElo, Abort
  <2>4. PICK p \in Requests : Record(p)
    BY <1>3, <2>2, <2>3 DEF Next, vars, NextDay, PickPair, InsertBattle,
       AdminCreate, AdminUpdate, AdminDelete
  <2>5. p = r
    BY <1>3, <2>1, <2>4 DEF Record
  <2> DEFINE q == req[r]
             onward == [q EXCEPT !.pc = "feed"]
  <2>6. q \in Request /\ q.id \in Ids /\ q.voter \in Voters
    BY <1>1, <2>4, <2>5, InFlight DEF Record, Request
  <2>7. votes' = [votes EXCEPT ![q.id][q.voter] = q.side] /\ req'[r] \in {onward, Idle}
    BY <1>3, <2>1, <2>4, <2>5 DEF Record
  <2>8. onward.id = q.id /\ onward.voter = q.voter /\ onward.side = q.side
    BY <2>6 DEF Request
  <2>9. votes'[q.id][q.voter] = q.side
    BY <1>1, <2>6, <2>7 DEF TypeOK
  <2> HIDE DEF q, onward
  <2> QED
    BY <2>1, <2>7, <2>8, <2>9
<1> QED
  BY <1>2, <1>3

LEMMA FedStays == DInv /\ [Next]_vars => FedVotesWereCounted'
<1> SUFFICES ASSUME DInv, [Next]_vars, NEW k \in Ids, NEW u \in Users, fed'[k][u] # None
             PROVE  fed'[k][u][2] = votes'[k][u]
  BY DEF FedVotesWereCounted
<1>1. Counted /\ TypeOK /\ u \in Voters
  BY DEF DInv, Counted, Voters
<1>2. CASE fed'[k][u] = fed[k][u]
  <2>1. fed[k][u] \in Pairs \X Sides
    BY <1>1, <1>2 DEF TypeOK
  <2>2. votes[k][u] = fed[k][u][2] /\ votes[k][u] # None
    BY <1>2, <2>1, DailyConstantsOK DEF DInv, FedVotesWereCounted, DailyConstantsOK
  <2> QED
    BY <1>1, <1>2, <2>2, VotesStay
<1>3. CASE fed'[k][u] # fed[k][u]
  <2>1. PICK r \in Requests : FeedElo(r)
    BY <1>3 DEF Next, vars, NextDay, PickPair, InsertBattle, Lookup, Record, Abort,
       AdminCreate, AdminUpdate, AdminDelete
  <2>2. /\ req[r].pc = "feed" /\ votes' = votes
        /\ fed' = [fed EXCEPT ![req[r].id][req[r].voter] = <<req[r].pair, req[r].side>>]
    BY <2>1 DEF FeedElo
  <2>3. req[r].id = k /\ req[r].voter = u
    BY <1>1, <1>3, <2>2 DEF TypeOK
  <2>4. fed'[k][u] = <<req[r].pair, req[r].side>>
    BY <1>1, <2>2, <2>3 DEF TypeOK
  <2> QED
    BY <2>2, <2>3, <2>4 DEF DInv, FeedsStored
<1> QED
  BY <1>2, <1>3

LEMMA InitDInv == Init => DInv
<1> SUFFICES ASSUME Init PROVE DInv
  OBVIOUS
<1>1. Counted
  BY InitCounted
<1> QED
  BY <1>1 DEF Init, DInv, OneBattlePerDay, BattleOfVotes, FeedsStored, FedVotesWereCounted, Exists, Idle

LEMMA StepDInv == DInv /\ [Next]_vars => DInv'
  BY StepCounted, DaysStayApart, BattleOfVotesStays, FeedsStoredStays, FedStays DEF DInv

\* However many visitors and instances race to create it, and whatever the
\* admin creates and moves, a day has one battle (get_or_create_today).
THEOREM AlwaysOneBattlePerDay == Spec => []OneBattlePerDay
<1>1. DInv => OneBattlePerDay
  BY DEF DInv
<1> QED
  BY <1>1, InitDInv, StepDInv, PTL DEF Spec

\* A request that lost to a duplicate with the other choice feeds nothing
\* (vote, _record_vote): Elo is fed as the vote was counted.
THEOREM FedVotesWereAlwaysCounted == Spec => []FedVotesWereCounted
<1>1. DInv => FedVotesWereCounted
  BY DEF DInv
<1> QED
  BY <1>1, InitDInv, StepDInv, PTL DEF Spec

\* Nothing that has votes is edited or deleted, since the counters the admin
\* calls check under the row lock are the votes (update, delete).
THEOREM VotedBattlesAreFrozen == Spec => VotedBattleIsFrozen
<1> DEFINE A == \A k \in Ids : (\E v \in Voters : votes[k][v] # None) => row'[k] = row[k]
<1>1. DInv /\ [Next]_vars => [A]_vars
  BY VotedRowsStay
<1>2. Spec => [][A]_vars
  <2> HIDE DEF A
  <2> QED
    BY <1>1, InitDInv, StepDInv, PTL DEF Spec
<1> QED
  BY <1>2 DEF VotedBattleIsFrozen
=============================================================================
