--------------------------- MODULE QuickVoteProofs ---------------------------
(***************************************************************************)
(* QuickVote: the scores a vote starts from are current until it commits,  *)
(* only new titles deadlock, what is derived from votes and ratings is     *)
(* exact but for overlaps, titles have played the votes of the log, and    *)
(* few votes pass the daily limit, for any number of titles, users and     *)
(* transactions in flight.                                                 *)
(***************************************************************************)
EXTENDS QuickVote, FiniteSetTheorems, WellFoundedInduction, TLAPS

\* A transaction is a record of these fields, whatever their values
Fields == {"pc", "task", "todo", "overlaps", "before", "after", "input", "loaded", "counts"}
IsTx(t) == t = [f \in Fields |-> t[f]]

ShapeOK ==
  /\ tx = [r \in Requests |-> tx[r]]
  /\ \A r \in Requests : IsTx(tx[r])
  /\ elo = [e \in Entities |-> elo[e]]
  /\ eloOwner \in [Entities -> Requests \cup {None}]

\* The rows a transaction has yet to lock, and those it has locked
Waits(t, e) == t.todo \in Seq(Entities) /\ \E i \in DOMAIN t.todo : t.todo[i] = e
Owns(r) == \A e \in Titles(tx[r].task) : eloOwner[e] = r /\ tx[r].before[e] = EloOf(e)

\* A vote owns the Elo rows of its titles from its last lock to its end
LocksOK(r) ==
  LET t == tx[r] IN
  /\ t.task.kind = "vote" => t.task.items \in Entities \X Entities
  /\ t.pc \in {"insert", "lock"} => t.task.kind = "vote" /\ t.before = None
  /\ t.pc = "lock" =>
       /\ t.todo \in Seq(Entities)
       /\ \A e \in Titles(t.task) : eloOwner[e] = r \/ \E i \in DOMAIN t.todo : t.todo[i] = e
  /\ t.before # None => t.task.kind = "vote"
  /\ t.task.kind = "vote" /\ t.pc \notin {"insert", "lock"} => Owns(r)
  /\ t.pc = "idle" => t.task.kind = "none"

IInv == ShapeOK /\ \A r \in Requests : LocksOK(r)

\* A vote is about its two titles
LEMMA TwoTitles ==
  ASSUME NEW t, t.items \in Entities \X Entities
  PROVE  Titles(t) = {t.items[1], t.items[2]} /\ Titles(t) \subseteq Entities
<1>1. DOMAIN t.items = {1, 2}
  OBVIOUS
<1> QED
  BY <1>1 DEF Titles

\* Putting two titles in order loses none
LEMMA OrderKeepsTitles ==
  ASSUME NEW t, t.items \in Entities \X Entities
  PROVE  /\ LockOrder(t.items) \in Seq(Entities)
         /\ \A e \in Titles(t) : \E i \in DOMAIN LockOrder(t.items) : LockOrder(t.items)[i] = e
<1>1. PICK a \in Entities, b \in Entities : t.items = <<a, b>>
  OBVIOUS
<1>2. Titles(t) = {a, b}
  BY <1>1, TwoTitles
<1>3. LockOrder(t.items) = <<a, b>> \/ LockOrder(t.items) = <<b, a>>
  BY <1>1 DEF LockOrder, InOrder
<1>4. CASE LockOrder(t.items) = <<a, b>>
  <2>1. DOMAIN <<a, b>> = 1..2 /\ <<a, b>>[1] = a /\ <<a, b>>[2] = b /\ <<a, b>> \in Seq(Entities)
    OBVIOUS
  <2> QED
    BY <1>2, <1>4, <2>1
<1>5. CASE LockOrder(t.items) = <<b, a>>
  <2>1. DOMAIN <<b, a>> = 1..2 /\ <<b, a>>[1] = b /\ <<b, a>>[2] = a /\ <<b, a>> \in Seq(Entities)
    OBVIOUS
  <2> QED
    BY <1>2, <1>5, <2>1
<1> QED
  BY <1>3, <1>4, <1>5

\* What is left of a list is in its tail
LEMMA HeadOrTail ==
  ASSUME NEW s \in Seq(Entities), s # <<>>, NEW i \in DOMAIN s
  PROVE  s[i] = Head(s) \/ \E j \in DOMAIN Tail(s) : Tail(s)[j] = s[i]
<1>1. CASE i = 1
  BY <1>1
<1>2. CASE i # 1
  <2>1. i - 1 \in DOMAIN Tail(s) /\ Tail(s)[i - 1] = s[i]
    BY <1>2
  <2> QED
    BY <2>1
<1> QED
  BY <1>1, <1>2

LEMMA InitOK == Init => IInv
<1> SUFFICES ASSUME Init PROVE IInv
  OBVIOUS
<1>1. ShapeOK
  BY DEF Init, ShapeOK, IsTx, Fields, Idle
<1>2. ASSUME NEW r \in Requests PROVE LocksOK(r)
  <2>1. tx[r].pc = "idle" /\ tx[r].before = None /\ tx[r].task.kind = "none"
    BY DEF Init, Idle, NoTask
  <2> QED
    BY <2>1 DEF LocksOK
<1> QED
  BY <1>1, <1>2 DEF IInv

\* What a step of another transaction must leave alone
LEMMA Undisturbed ==
  ASSUME NEW r \in Requests, LocksOK(r),
         tx'[r].pc = tx[r].pc, tx'[r].task = tx[r].task, tx'[r].todo = tx[r].todo,
         tx'[r].before = tx[r].before,
         tx[r].task.kind = "vote" =>
           \A e \in Titles(tx[r].task) : eloOwner[e] = r => eloOwner'[e] = r /\ EloOf(e)' = EloOf(e)
  PROVE  LocksOK(r)'
<1>1. Titles(tx[r].task)' = Titles(tx[r].task)
  BY DEF Titles
<1> QED
  BY <1>1 DEF LocksOK, Owns

\* A transaction that begins has no locks, and owes none
LEMMA BeginOK ==
  ASSUME IInv, NEW r \in Requests, NEW pc, NEW t, Begin(r, pc, t),
         \/ pc = "insert" /\ t.kind = "vote" /\ t.items \in Entities \X Entities
         \/ pc = "read" /\ t.kind \in {"rate", "recompute"}
  PROVE  IInv'
<1>1. UNCHANGED <<elo, eloOwner>>
  BY DEF Begin, db, owners
<1>2. ~ Running(r)
  BY DEF Begin
<1> DEFINE others == {q \in Requests : Running(q)}
           new == [Idle EXCEPT !.pc = pc, !.task = t, !.todo = t.items,
                     !.overlaps = UNION {Overlap(t, tx[o].task) : o \in others}]
           told(q) == [tx[q] EXCEPT !.overlaps = tx[q].overlaps \cup Overlap(t, tx[q].task)]
<1>3. tx' = [q \in Requests |-> IF q = r THEN new ELSE IF q \in others THEN told(q) ELSE tx[q]]
  BY DEF Begin
<1>4. IsTx(new) /\ new.pc = pc /\ new.task = t /\ new.before = None
  BY DEF Idle, IsTx, Fields
<1>5. ASSUME NEW q \in Requests
      PROVE  /\ IsTx(told(q))
             /\ told(q).pc = tx[q].pc /\ told(q).task = tx[q].task
             /\ told(q).todo = tx[q].todo /\ told(q).before = tx[q].before
  <2>1. IsTx(tx[q])
    BY DEF IInv, ShapeOK
  <2> HIDE DEF others
  <2> QED
    BY <2>1 DEF IsTx, Fields
<1> HIDE DEF others, new, told
<1>6. ShapeOK'
  BY <1>1, <1>3, <1>4, <1>5 DEF IInv, ShapeOK
<1>7. ASSUME NEW q \in Requests PROVE LocksOK(q)'
  <2>1. CASE q = r
    <3>1. tx'[r] = new
      BY <1>3
    <3> QED
      BY <2>1, <3>1, <1>4 DEF LocksOK
  <2>2. CASE q # r
    <3>1. tx'[q] = told(q) \/ tx'[q] = tx[q]
      BY <1>3, <2>2
    <3>2. \A x : EloOf(x)' = EloOf(x)
      BY <1>1 DEF EloOf
    <3> QED
      BY <1>1, <1>5, <3>1, <3>2, Undisturbed DEF IInv
  <2> QED
    BY <2>1, <2>2
<1> QED
  BY <1>6, <1>7 DEF IInv

LEMMA StartOK == ASSUME IInv, NEW r \in Requests, Start(r) PROVE IInv'
<1>1. ASSUME NEW u \in Users, NEW l \in Entities, NEW e \in Entities, NEW w, StartVote(r, u, l, e, w)
      PROVE  IInv'
  <2> DEFINE t == [kind |-> "vote", user |-> u, items |-> <<l, e>>, winner |-> w]
  <2>1. Begin(r, "insert", t)
    BY <1>1 DEF StartVote
  <2>2. t.kind = "vote" /\ t.items \in Entities \X Entities
    OBVIOUS
  <2> QED
    BY <2>1, <2>2, BeginOK
<1>2. ASSUME NEW u \in Users, NEW e \in Entities, NEW s, StartRate(r, u, e, s)
      PROVE  IInv'
  <2> DEFINE t == [kind |-> "rate", user |-> u, items |-> <<e>>, stars |-> s]
  <2>1. Begin(r, "read", t) /\ t.kind = "rate"
    BY <1>2 DEF StartRate
  <2> QED
    BY <2>1, BeginOK
<1>3. ASSUME NEW e \in Entities, StartRecompute(r, e)
      PROVE  IInv'
  <2> DEFINE t == [kind |-> "recompute", items |-> <<e>>]
  <2>1. Begin(r, "read", t) /\ t.kind = "recompute"
    BY <1>3 DEF StartRecompute
  <2> QED
    BY <2>1, BeginOK
<1> QED
  BY <1>1, <1>2, <1>3 DEF Start

LEMMA InsertEloOK == ASSUME IInv, NEW r \in Requests, InsertElo(r) PROVE IInv'
<1> DEFINE t == tx[r]
           e == Head(t.todo)
           locking == [t EXCEPT !.pc = "lock", !.todo = LockOrder(t.task.items)]
           onward == [t EXCEPT !.todo = Tail(@)]
<1>1. /\ t.pc = "insert" /\ elo' = elo
      /\ elo[e] = None => eloOwner[e] = None
      /\ eloOwner' = IF elo[e] = None THEN [eloOwner EXCEPT ![e] = r] ELSE eloOwner
      /\ tx' = [tx EXCEPT ![r] = IF Len(t.todo) = 1 THEN locking ELSE onward]
  BY DEF InsertElo, At, db
<1>2. IsTx(t) /\ t.task.kind = "vote" /\ t.before = None /\ t.task.items \in Entities \X Entities
  BY <1>1 DEF IInv, ShapeOK, LocksOK
<1>3. /\ IsTx(locking) /\ locking.pc = "lock" /\ locking.task = t.task
      /\ locking.before = None /\ locking.todo = LockOrder(t.task.items)
  BY <1>2 DEF IsTx, Fields
<1>4. IsTx(onward) /\ onward.pc = "insert" /\ onward.task = t.task /\ onward.before = None
  BY <1>1, <1>2 DEF IsTx, Fields
<1> HIDE DEF t, e, locking, onward
<1>5. ShapeOK'
  BY <1>1, <1>3, <1>4 DEF IInv, ShapeOK
<1>6. ASSUME NEW q \in Requests PROVE LocksOK(q)'
  <2>1. CASE q = r
    <3>1. tx'[r] = locking \/ tx'[r] = onward
      BY <1>1 DEF IInv, ShapeOK
    <3>2. CASE tx'[r] = locking
      <4>1. /\ LockOrder(t.task.items) \in Seq(Entities)
            /\ \A x \in Titles(t.task) :
                 \E i \in DOMAIN LockOrder(t.task.items) : LockOrder(t.task.items)[i] = x
        BY <1>2, OrderKeepsTitles
      <4>2. Titles(tx[r].task)' = Titles(t.task)
        BY <1>3, <3>2 DEF Titles
      <4> QED
        BY <1>2, <1>3, <2>1, <3>2, <4>1, <4>2 DEF LocksOK
    <3>3. CASE tx'[r] = onward
      BY <1>2, <1>4, <2>1, <3>3 DEF LocksOK
    <3> QED
      BY <3>1, <3>2, <3>3
  <2>2. CASE q # r
    <3>1. tx'[q] = tx[q]
      BY <1>1, <2>2 DEF IInv, ShapeOK
    <3>2. \A x : eloOwner[x] = q => eloOwner'[x] = q
      BY <1>1, <2>2, QuickVoteConstantsOK DEF IInv, ShapeOK, QuickVoteConstantsOK
    <3>3. \A x : EloOf(x)' = EloOf(x)
      BY <1>1 DEF EloOf
    <3> QED
      BY <3>1, <3>2, <3>3, Undisturbed DEF IInv
  <2> QED
    BY <2>1, <2>2
<1> QED
  BY <1>5, <1>6 DEF IInv

LEMMA LockEloOK == ASSUME IInv, NEW r \in Requests, LockElo(r) PROVE IInv'
<1> DEFINE t == tx[r]
           e == Head(t.todo)
           new == [t EXCEPT !.todo = Tail(t.todo)]
<1>1. /\ t.pc = "lock" /\ t.todo # <<>> /\ elo' = elo
      /\ eloOwner[e] \in {None, r}
      /\ eloOwner' = [eloOwner EXCEPT ![e] = r]
      /\ tx' = [tx EXCEPT ![r] = new]
  BY DEF LockElo, At, db, Locks
<1>2. /\ IsTx(t) /\ t.task.kind = "vote" /\ t.before = None /\ t.task.items \in Entities \X Entities
      /\ t.todo \in Seq(Entities)
      /\ \A x \in Titles(t.task) : eloOwner[x] = r \/ \E i \in DOMAIN t.todo : t.todo[i] = x
  BY <1>1 DEF IInv, ShapeOK, LocksOK
<1>3. /\ IsTx(new) /\ new.pc = "lock" /\ new.task = t.task /\ new.before = None
      /\ new.todo = Tail(t.todo)
  BY <1>1, <1>2 DEF IsTx, Fields
<1>4. e \in Entities /\ Tail(t.todo) \in Seq(Entities)
  BY <1>1, <1>2
<1>5. \A x \in Titles(t.task) : x = e \/ eloOwner[x] = r \/ \E j \in DOMAIN Tail(t.todo) : Tail(t.todo)[j] = x
  BY <1>1, <1>2, HeadOrTail
<1>6. Titles(t.task) \subseteq Entities
  BY <1>2, TwoTitles
<1> HIDE DEF t, e, new
<1>7. ShapeOK'
  BY <1>1, <1>3 DEF IInv, ShapeOK
<1>8. ASSUME NEW q \in Requests PROVE LocksOK(q)'
  <2>1. CASE q = r
    <3>1. tx'[r] = new
      BY <1>1 DEF IInv, ShapeOK
    <3>2. Titles(tx[r].task)' = Titles(t.task)
      BY <1>3, <3>1 DEF Titles
    <3>3. \A x \in Titles(t.task) : eloOwner'[x] = r \/ \E j \in DOMAIN new.todo : new.todo[j] = x
      BY <1>1, <1>3, <1>5, <1>6 DEF IInv, ShapeOK
    <3> QED
      BY <1>2, <1>3, <1>4, <2>1, <3>1, <3>2, <3>3 DEF LocksOK
  <2>2. CASE q # r
    <3>1. tx'[q] = tx[q]
      BY <1>1, <2>2 DEF IInv, ShapeOK
    <3>2. \A x : eloOwner[x] = q => eloOwner'[x] = q
      BY <1>1, <2>2, QuickVoteConstantsOK DEF IInv, ShapeOK, QuickVoteConstantsOK
    <3>3. \A x : EloOf(x)' = EloOf(x)
      BY <1>1 DEF EloOf
    <3> QED
      BY <3>1, <3>2, <3>3, Undisturbed DEF IInv
  <2> QED
    BY <2>1, <2>2
<1> QED
  BY <1>7, <1>8 DEF IInv

\* A step that moves a vote on from its last lock, or any transaction on
\* without touching Elo rows
LEMMA OnwardOK ==
  ASSUME IInv, NEW r \in Requests, NEW new, UNCHANGED <<elo, eloOwner>>,
         tx' = [tx EXCEPT ![r] = new], IsTx(new), new.task = tx[r].task,
         new.pc \notin {"idle", "insert", "lock"}, tx[r].pc # "idle",
         \/ tx[r].pc \notin {"insert", "lock"} /\ new.before = tx[r].before
         \/ /\ tx[r].pc = "lock" /\ tx[r].todo = <<>>
            /\ new.before = [e \in Titles(tx[r].task) |-> EloOf(e)]
  PROVE  IInv'
<1>1. ShapeOK'
  BY DEF IInv, ShapeOK
<1>2. \A x : EloOf(x)' = EloOf(x)
  BY DEF EloOf
<1>3. ASSUME NEW q \in Requests PROVE LocksOK(q)'
  <2>1. CASE q # r
    <3>1. tx'[q] = tx[q]
      BY <2>1 DEF IInv, ShapeOK
    <3> QED
      BY <1>2, <3>1, Undisturbed DEF IInv
  <2>2. CASE q = r
    <3>1. tx'[r] = new
      BY DEF IInv, ShapeOK
    <3>2. Titles(tx[r].task)' = Titles(tx[r].task)
      BY <3>1 DEF Titles
    <3>3. LocksOK(r)
      BY DEF IInv
    <3>4. tx[r].task.kind = "vote" => Owns(r)'
      BY <1>2, <3>1, <3>2, <3>3 DEF LocksOK, Owns
    <3>5. new.before # None => tx[r].task.kind = "vote"
      BY <3>3 DEF LocksOK
    <3> QED
      BY <2>2, <3>1, <3>3, <3>4, <3>5 DEF LocksOK
  <2> QED
    BY <2>1, <2>2
<1> QED
  BY <1>1, <1>3 DEF IInv

LEMMA ApplyVoteOK == ASSUME IInv, NEW r \in Requests, ApplyVote(r) PROVE IInv'
<1> DEFINE t == tx[r]
           before == [e \in Titles(t.task) |-> EloOf(e)]
           next == IF Decided(t.task) THEN "read" ELSE "count"
           new(after) == [t EXCEPT !.pc = next, !.before = before, !.after = after]
<1>1. IsTx(t)
  BY DEF IInv, ShapeOK
<1>2. PICK after : tx' = [tx EXCEPT ![r] = new(after)]
  BY DEF ApplyVote
<1>3. t.pc = "lock" /\ t.todo = <<>> /\ UNCHANGED <<elo, eloOwner>>
  BY DEF ApplyVote, At, db, owners
<1>4. /\ IsTx(new(after)) /\ new(after).task = t.task /\ new(after).before = before
      /\ new(after).pc \in {"read", "count"}
  BY <1>1 DEF IsTx, Fields
<1> HIDE DEF new
<1> QED
  BY <1>2, <1>3, <1>4, OnwardOK

\* The steps after a transaction's Elo rows are settled
LEMMA LaterStepsOK ==
  ASSUME IInv, NEW r \in Requests,
         ReadInputs(r) \/ LoadRankings(r) \/ FlushRanking(r) \/ CountContributions(r) \/ UpsertStats(r)
  PROVE  IInv'
<1>1. IsTx(tx[r])
  BY DEF IInv, ShapeOK
<1>2. UNCHANGED <<elo, eloOwner>>
  BY DEF ReadInputs, LoadRankings, FlushRanking, CountContributions, UpsertStats, db, owners
<1>3. tx[r].pc \notin {"idle", "insert", "lock"}
  BY DEF ReadInputs, LoadRankings, FlushRanking, CountContributions, UpsertStats, At
<1>4. \E new : /\ tx' = [tx EXCEPT ![r] = new] /\ IsTx(new)
               /\ new.task = tx[r].task /\ new.before = tx[r].before
               /\ new.pc \notin {"idle", "insert", "lock"}
  <2>1. CASE ReadInputs(r)
    <3> DEFINE x == [e \in Titles(tx[r].task) |-> Score(SeenElo(r, e), [u \in Users |-> SeenRating(r, u, e)])]
               new == [tx[r] EXCEPT !.pc = "load", !.input = x]
    <3>1. tx' = [tx EXCEPT ![r] = new]
      BY <2>1 DEF ReadInputs, IInv, ShapeOK
    <3> HIDE DEF x
    <3>3. IsTx(new) /\ new.task = tx[r].task /\ new.before = tx[r].before
          /\ new.pc \notin {"idle", "insert", "lock"}
      BY <1>1 DEF IsTx, Fields
    <3> HIDE DEF new
    <3> QED
      BY <3>1, <3>3
  <2>2. CASE LoadRankings(r)
    <3> DEFINE x == [e \in Titles(tx[r].task) |-> ranking[e]]
               y == InOrder(tx[r].task.items)
               new == [tx[r] EXCEPT !.pc = "flush", !.todo = y, !.loaded = x]
    <3>1. tx' = [tx EXCEPT ![r] = new]
      BY <2>2 DEF LoadRankings, IInv, ShapeOK
    <3> HIDE DEF x, y
    <3>3. IsTx(new) /\ new.task = tx[r].task /\ new.before = tx[r].before
          /\ new.pc \notin {"idle", "insert", "lock"}
      BY <1>1 DEF IsTx, Fields
    <3> HIDE DEF new
    <3> QED
      BY <3>1, <3>3
  <2>3. CASE FlushRanking(r)
    <3> DEFINE x == IF Len(tx[r].todo) > 1 THEN "flush"
                    ELSE IF tx[r].task.kind = "recompute" THEN "commit" ELSE "count"
               y == Tail(tx[r].todo)
               new == [tx[r] EXCEPT !.todo = y, !.pc = x]
    <3>1. tx' = [tx EXCEPT ![r] = new]
      BY <2>3 DEF FlushRanking, IInv, ShapeOK
    <3>2. x \in {"flush", "commit", "count"}
      OBVIOUS
    <3> HIDE DEF x, y
    <3>3. IsTx(new) /\ new.task = tx[r].task /\ new.before = tx[r].before
          /\ new.pc \notin {"idle", "insert", "lock"}
      BY <1>1, <3>2 DEF IsTx, Fields
    <3> HIDE DEF new
    <3> QED
      BY <3>1, <3>3
  <2>4. CASE CountContributions(r)
    <3> DEFINE v == tx[r].task
               x == [votes_count |-> Cardinality({e \in Entities : SeenRating(r, v.user, e) # None}),
                     battles_count |-> Cardinality(DecidedBy(v.user)) + (IF Decided(v) THEN 1 ELSE 0)]
               new == [tx[r] EXCEPT !.pc = "stats", !.counts = x]
    <3>1. tx' = [tx EXCEPT ![r] = new]
      BY <2>4 DEF CountContributions, IInv, ShapeOK
    <3> HIDE DEF x
    <3>3. IsTx(new) /\ new.task = tx[r].task /\ new.before = tx[r].before
          /\ new.pc \notin {"idle", "insert", "lock"}
      BY <1>1 DEF IsTx, Fields
    <3> HIDE DEF new
    <3> QED
      BY <3>1, <3>3
  <2>5. CASE UpsertStats(r)
    <3> DEFINE new == [tx[r] EXCEPT !.pc = "commit"]
    <3>1. tx' = [tx EXCEPT ![r] = new]
      BY <2>5 DEF UpsertStats, IInv, ShapeOK
    <3>3. IsTx(new) /\ new.task = tx[r].task /\ new.before = tx[r].before
          /\ new.pc \notin {"idle", "insert", "lock"}
      BY <1>1 DEF IsTx, Fields
    <3> HIDE DEF new
    <3> QED
      BY <3>1, <3>3
  <2> QED
    BY <2>1, <2>2, <2>3, <2>4, <2>5
<1> QED
  BY <1>2, <1>3, <1>4, OnwardOK

\* The end of a transaction frees its rows and no others
LEMMA ReleaseOK ==
  ASSUME IInv, NEW r \in Requests, Release(r),
         elo' = [e \in Entities |-> elo'[e]],
         \A e \in Entities : \A q \in Requests : q # r /\ eloOwner[e] = q => EloOf(e)' = EloOf(e)
  PROVE  IInv'
<1>1. eloOwner' = [e \in Entities |-> IF eloOwner[e] = r THEN None ELSE eloOwner[e]]
  BY DEF Release, Without, IInv, ShapeOK
<1>2. tx' = [tx EXCEPT ![r] = Idle]
  BY DEF Release
<1>3. IsTx(Idle) /\ Idle.pc = "idle" /\ Idle.before = None /\ Idle.task.kind = "none"
  BY DEF Idle, NoTask, IsTx, Fields
<1>4. ShapeOK'
  BY <1>1, <1>2, <1>3 DEF IInv, ShapeOK
<1>5. ASSUME NEW q \in Requests PROVE LocksOK(q)'
  <2>1. CASE q = r
    <3>1. tx'[r] = Idle
      BY <1>2 DEF IInv, ShapeOK
    <3> QED
      BY <1>3, <2>1, <3>1 DEF LocksOK
  <2>2. CASE q # r
    <3>1. tx'[q] = tx[q] /\ LocksOK(q)
      BY <1>2, <2>2 DEF IInv, ShapeOK
    <3>2. ASSUME tx[q].task.kind = "vote", NEW e \in Titles(tx[q].task), eloOwner[e] = q
          PROVE  eloOwner'[e] = q /\ EloOf(e)' = EloOf(e)
      <4>1. e \in Entities
        BY <3>1, <3>2, TwoTitles DEF LocksOK
      <4> QED
        BY <1>1, <2>2, <3>2, <4>1
    <3> QED
      BY <3>1, <3>2, Undisturbed
  <2> QED
    BY <2>1, <2>2
<1> QED
  BY <1>4, <1>5 DEF IInv

LEMMA CommitOK == ASSUME IInv, NEW r \in Requests, Commit(r) PROVE IInv'
<1> DEFINE v == tx[r].task
<1>1. Release(r) /\ At(r, "commit")
  BY DEF Commit
<1>2. elo' = IF v.kind # "vote" THEN elo
             ELSE [e \in Entities |-> IF e \in Titles(v) THEN tx[r].after[e] ELSE elo[e]]
  BY DEF Commit
<1>3. elo' = [e \in Entities |-> elo'[e]]
  BY <1>2 DEF IInv, ShapeOK
<1>4. v.kind = "vote" => v.items \in Entities \X Entities /\ \A e \in Titles(v) : eloOwner[e] = r
  BY <1>1 DEF IInv, LocksOK, Owns, At
<1>5. ASSUME NEW e \in Entities, NEW q \in Requests, q # r, eloOwner[e] = q
      PROVE  EloOf(e)' = EloOf(e)
  <2>1. CASE v.kind # "vote"
    BY <1>2, <2>1 DEF EloOf
  <2>2. CASE v.kind = "vote"
    BY <1>2, <1>4, <1>5, <2>2 DEF EloOf, IInv, ShapeOK
  <2> QED
    BY <2>1, <2>2
<1> QED
  BY <1>1, <1>3, <1>5, ReleaseOK

LEMMA AbortOK == ASSUME IInv, NEW r \in Requests, Abort(r) PROVE IInv'
<1>1. Release(r) /\ elo' = elo
  BY DEF Abort, db
<1>2. elo' = [e \in Entities |-> elo'[e]]
  BY <1>1 DEF IInv, ShapeOK
<1>3. \A e : EloOf(e)' = EloOf(e)
  BY <1>1 DEF EloOf
<1> QED
  BY <1>1, <1>2, <1>3, ReleaseOK

LEMMA StutterOK == ASSUME IInv, UNCHANGED vars PROVE IInv'
<1>1. UNCHANGED <<elo, eloOwner, tx>>
  BY DEF vars, db, owners
<1>2. \A r, e : EloOf(e)' = EloOf(e) /\ Titles(tx[r].task)' = Titles(tx[r].task)
  BY <1>1 DEF EloOf, Titles
<1>3. ShapeOK'
  BY <1>1 DEF IInv, ShapeOK, IsTx
<1>4. ASSUME NEW r \in Requests PROVE LocksOK(r)'
  BY <1>1, <1>2, Undisturbed DEF IInv
<1> QED
  BY <1>3, <1>4 DEF IInv

LEMMA NextOK == ASSUME IInv, [Next]_vars PROVE IInv'
<1>1. ASSUME NEW r \in Requests, Start(r) PROVE IInv'
  BY <1>1, StartOK
<1>2. ASSUME NEW r \in Requests, InsertElo(r) PROVE IInv'
  BY <1>2, InsertEloOK
<1>3. ASSUME NEW r \in Requests, LockElo(r) PROVE IInv'
  BY <1>3, LockEloOK
<1>4. ASSUME NEW r \in Requests, ApplyVote(r) PROVE IInv'
  BY <1>4, ApplyVoteOK
<1>5. ASSUME NEW r \in Requests,
             ReadInputs(r) \/ LoadRankings(r) \/ FlushRanking(r)
               \/ CountContributions(r) \/ UpsertStats(r)
      PROVE  IInv'
  BY <1>5, LaterStepsOK
<1>6. ASSUME NEW r \in Requests, Commit(r) PROVE IInv'
  BY <1>6, CommitOK
<1>7. ASSUME NEW r \in Requests, Abort(r) PROVE IInv'
  BY <1>7, AbortOK
<1> QED
  BY <1>1, <1>2, <1>3, <1>4, <1>5, <1>6, <1>7, StutterOK DEF Next

\* The invariant says what the property does, of the votes that took scores
LEMMA IInvGives == IInv => VotesMoveCurrentScores
<1> SUFFICES ASSUME IInv, NEW r \in Requests, tx[r].before # None, NEW e \in Titles(tx[r].task)
             PROVE  tx[r].before[e] = EloOf(e)
  BY DEF VotesMoveCurrentScores
<1>1. tx[r].task.kind = "vote" /\ tx[r].pc \notin {"insert", "lock"}
  BY DEF IInv, LocksOK
<1> QED
  BY <1>1 DEF IInv, LocksOK, Owns

\* No update of an Elo score is lost: the scores a vote starts from, and logs,
\* are those of its titles until it has committed what it made of them
\* (lock_elo_rows takes both rows before update_ratings reads them).
THEOREM VotesAlwaysMoveCurrentScores == Spec => []VotesMoveCurrentScores
<1>1. Init => IInv
  BY InitOK
<1>2. IInv /\ [Next]_vars => IInv'
  BY NextOK
<1>3. IInv => VotesMoveCurrentScores
  BY IInvGives
<1> QED
  BY <1>1, <1>2, <1>3, PTL DEF Spec

\* At most one transaction at a time is between the last lock of a title's Elo
\* row and its end (FOR UPDATE): two votes on a title never both hold scores of it.
THEOREM VotesQueueUp ==
  Spec => [](\A q, r \in Requests : \A e \in Entities :
               tx[q].before # None /\ tx[r].before # None
                 /\ e \in Titles(tx[q].task) /\ e \in Titles(tx[r].task) => q = r)
<1> DEFINE Q == \A q, r \in Requests : \A e \in Entities :
               tx[q].before # None /\ tx[r].before # None
                 /\ e \in Titles(tx[q].task) /\ e \in Titles(tx[r].task) => q = r
<1>1. Init => IInv
  BY InitOK
<1>2. IInv /\ [Next]_vars => IInv'
  BY NextOK
<1>3. IInv => Q
  <2> SUFFICES ASSUME IInv, NEW q \in Requests, NEW r \in Requests, NEW e,
                      tx[q].before # None, tx[r].before # None,
                      e \in Titles(tx[q].task), e \in Titles(tx[r].task)
               PROVE  q = r
    OBVIOUS
  <2>1. eloOwner[e] = q
    BY DEF IInv, LocksOK, Owns
  <2>2. eloOwner[e] = r
    BY DEF IInv, LocksOK, Owns
  <2> QED
    BY <2>1, <2>2
<1> QED
  BY <1>1, <1>2, <1>3, PTL DEF Spec
-----------------------------------------------------------------------------
(* The order in which a transaction takes its rows *)

IsTask(v) ==
  \/ \E u \in Users, l, e \in Entities, w \in Winners :
       l # e /\ v = [kind |-> "vote", user |-> u, items |-> <<l, e>>, winner |-> w]
  \/ \E u \in Users, e \in Entities, s \in Stars \cup {None} :
       v = [kind |-> "rate", user |-> u, items |-> <<e>>, stars |-> s]
  \/ \E e \in Entities : v = [kind |-> "recompute", items |-> <<e>>]

LEMMA TaskStays ==
  ASSUME NEW r, tx'[r].task = tx[r].task, IsTask(tx[r].task)
  PROVE  IsTask(tx[r].task)'
<1>1. CASE \E u \in Users, l, e \in Entities, w \in Winners :
             l # e /\ tx[r].task = [kind |-> "vote", user |-> u, items |-> <<l, e>>, winner |-> w]
  BY <1>1, Zenon DEF IsTask
<1>2. CASE \E u \in Users, e \in Entities, s \in Stars \cup {None} :
             tx[r].task = [kind |-> "rate", user |-> u, items |-> <<e>>, stars |-> s]
  BY <1>2, Zenon DEF IsTask
<1>3. CASE \E e \in Entities : tx[r].task = [kind |-> "recompute", items |-> <<e>>]
  BY <1>3, Zenon DEF IsTask
<1> QED
  BY <1>1, <1>2, <1>3 DEF IsTask

\* A list of rows still to take, in the order of their ids
Queue(s) ==
  /\ s \in Seq(Entities)
  /\ \A i, j \in DOMAIN s : i < j => s[i] < s[j]

Behind(t, e) == \A i \in DOMAIN t.todo : e < t.todo[i]

\* The Elo row is there, or r has just inserted it
There(r, e) == elo[e] # None \/ eloOwner[e] = r

TablesOK ==
  /\ elo \in [Entities -> Row \cup {None}]
  /\ rankOwner \in [Entities -> Requests \cup {None}]
  /\ statsOwner \in [Users -> Requests \cup {None}]

\* What a vote makes of the scores it has read
MovedOK(r) ==
  LET t == tx[r] IN
  IF t.task.kind = "vote" /\ t.pc \notin {"insert", "lock"}
  THEN t.after \in [Titles(t.task) -> Row]
  ELSE t.after = None

\* Elo rows that are there are locked in order, and ranking rows are written
\* in order; whoever has written ranking rows takes no more Elo rows, and
\* whoever has written the counts takes nothing any more
OrderOK(r) ==
  LET t == tx[r] IN
  /\ t.pc = "idle" \/ (t.pc \in Steps /\ IsTask(t.task))
  /\ t.pc = "insert" =>
       \/ t.todo = t.task.items
       \/ t.todo = <<t.task.items[2]>> /\ There(r, t.task.items[1])
  /\ t.pc = "lock" => Queue(t.todo) /\ \A i \in DOMAIN t.todo : There(r, t.todo[i])
  /\ t.pc = "flush" =>
       Queue(t.todo) /\ t.todo # <<>> /\ \A i \in DOMAIN t.todo : t.todo[i] \in Titles(t.task)
  /\ t.task.kind = "vote" /\ t.pc \in {"read", "load", "flush"} => Decided(t.task)
  /\ t.pc \in {"count", "stats"} => t.task.kind # "recompute"
  /\ MovedOK(r)
  /\ \A e \in Entities : eloOwner[e] = r =>
       /\ t.pc # "idle"
       /\ elo[e] # None => t.pc # "insert" /\ (t.pc = "lock" => Behind(t, e))
  /\ \A e \in Entities : rankOwner[e] = r =>
       /\ t.pc \in {"flush", "count", "stats", "commit"} /\ (t.pc = "flush" => Behind(t, e))
       /\ e \in Titles(t.task) /\ (t.task.kind = "vote" => Decided(t.task))
  /\ \A u \in Users : statsOwner[u] = r => t.pc = "commit"

JInv == IInv /\ TablesOK /\ \A r \in Requests : OrderOK(r)

\* The titles of a task, in the order in which it takes them
LEMMA TaskQueue ==
  ASSUME NEW v, IsTask(v)
  PROVE  /\ Titles(v) \subseteq Entities
         /\ Queue(InOrder(v.items)) /\ InOrder(v.items) # <<>>
         /\ \A i \in DOMAIN InOrder(v.items) : InOrder(v.items)[i] \in Titles(v)
<1>1. CASE \E l, e \in Entities : l # e /\ v.items = <<l, e>>
  <2>1. PICK l \in Entities, e \in Entities : l # e /\ v.items = <<l, e>>
    BY <1>1
  <2>2. l \in Nat /\ e \in Nat
    BY QuickVoteConstantsOK DEF QuickVoteConstantsOK
  <2>3. Titles(v) = {l, e}
    <3>1. v.items \in Entities \X Entities /\ v.items[1] = l /\ v.items[2] = e
      BY <2>1
    <3> QED
      BY <3>1, TwoTitles
  <2>4. InOrder(v.items) = IF l > e THEN <<e, l>> ELSE <<l, e>>
    BY <2>1 DEF InOrder
  <2>5. CASE l > e
    <3>1. InOrder(v.items) = <<e, l>>
      BY <2>4, <2>5
    <3>2. DOMAIN <<e, l>> = {1, 2} /\ <<e, l>>[1] = e /\ <<e, l>>[2] = l /\ <<e, l>> \in Seq(Entities)
      OBVIOUS
    <3> QED
      BY <2>2, <2>3, <2>5, <3>1, <3>2 DEF Queue
  <2>6. CASE ~ (l > e)
    <3>1. InOrder(v.items) = <<l, e>> /\ l < e
      BY <2>1, <2>2, <2>4, <2>6
    <3>2. DOMAIN <<l, e>> = {1, 2} /\ <<l, e>>[1] = l /\ <<l, e>>[2] = e /\ <<l, e>> \in Seq(Entities)
      OBVIOUS
    <3> QED
      BY <2>2, <2>3, <3>1, <3>2 DEF Queue
  <2> QED
    BY <2>5, <2>6
<1>2. CASE \E e \in Entities : v.items = <<e>>
  <2>1. PICK e \in Entities : v.items = <<e>>
    BY <1>2
  <2>2. DOMAIN v.items = {1} /\ v.items[1] = e
    BY <2>1
  <2>3. Titles(v) = {e}
    BY <2>2 DEF Titles
  <2>4. InOrder(v.items) = <<e>>
    BY <2>1 DEF InOrder
  <2> QED
    BY <2>3, <2>4 DEF Queue
<1> QED
  BY <1>1, <1>2 DEF IsTask

\* Of finitely many numbered things one has no successor
LEMMA NoEndlessAscent ==
  ASSUME NEW S, IsFiniteSet(S), S # {}, NEW h, \A r \in S : h[r] \in Int
  PROVE  \E r \in S : \A q \in S : h[q] <= h[r]
<1> DEFINE above(r) == {q \in S : h[q] > h[r]}
           views == {above(r) : r \in S}
<1>1. IsWellFoundedOn(StrictSubsetOrdering(S), FiniteSubsetsOf(S))
  BY FS_StrictSubsetOrderingWellFounded
<1>2. views \subseteq FiniteSubsetsOf(S) /\ views # {}
  <2>1. \A r \in S : above(r) \in SUBSET S
    OBVIOUS
  <2>2. \A T \in SUBSET S : IsFiniteSet(T)
    BY FS_Subset
  <2> QED
    BY <2>1, <2>2 DEF FiniteSubsetsOf
<1>3. PICK T \in views : \A U \in views : <<U, T>> \notin StrictSubsetOrdering(S)
  <2> HIDE DEF views
  <2> QED
    BY <1>1, <1>2, WFMin
<1>4. PICK r \in S : T = above(r)
  BY <1>3
<1>5. ASSUME NEW q \in S, h[q] > h[r] PROVE FALSE
  <2>1. above(q) \subseteq above(r) /\ q \in above(r) /\ q \notin above(q)
    BY <1>5
  <2>2. <<above(q), above(r)>> \in StrictSubsetOrdering(S)
    BY <2>1 DEF StrictSubsetOrdering
  <2> QED
    BY <1>3, <1>4, <2>2
<1> QED
  BY <1>5

LEMMA HeadIsFirst ==
  ASSUME NEW s \in Seq(Entities), s # <<>>
  PROVE  /\ Head(s) \in Entities /\ 1 \in DOMAIN s /\ s[1] = Head(s) /\ Len(s) \in Nat \ {0}
         /\ Tail(s) \in Seq(Entities) /\ (Len(s) = 1 <=> Tail(s) = <<>>)
         /\ \A i \in DOMAIN Tail(s) : i + 1 \in DOMAIN s /\ Tail(s)[i] = s[i + 1] /\ i \in Int /\ i + 1 > 1
<1>1. Len(s) \in Nat \ {0} /\ DOMAIN s = 1 .. Len(s)
  OBVIOUS
<1>2. Head(s) = s[1] /\ 1 \in DOMAIN s /\ s[1] \in Entities
  BY <1>1
<1>3. Tail(s) \in Seq(Entities)
  OBVIOUS
<1>4. Len(Tail(s)) = Len(s) - 1 /\ DOMAIN Tail(s) = 1 .. Len(s) - 1
  OBVIOUS
<1>5. Len(s) = 1 <=> Tail(s) = <<>>
  <2>1. \A z \in Seq(Entities) : Len(z) = 0 <=> z = <<>>
    OBVIOUS
  <2>2. Len(Tail(s)) = 0 <=> Tail(s) = <<>>
    BY <1>3, <2>1
  <2> QED
    BY <1>1, <1>4, <2>2
<1>7. \A i \in 1 .. Len(s) - 1 : Tail(s)[i] = s[i + 1]
  OBVIOUS
<1>6. \A i \in DOMAIN Tail(s) : i + 1 \in DOMAIN s /\ Tail(s)[i] = s[i + 1] /\ i \in Int /\ i + 1 > 1
  BY <1>1, <1>4, <1>7
<1> QED
  BY <1>1, <1>2, <1>3, <1>5, <1>6

LEMMA FirstTitle ==
  ASSUME NEW v, IsTask(v)
  PROVE  v.items[1] \in Entities /\ (v.kind = "vote" => v.items \in Entities \X Entities)
BY DEF IsTask

\* Only the recompute is nobody's
LEMMA TaskOwner == ASSUME NEW v, IsTask(v), v.kind # "recompute" PROVE v.user \in Users
<1>1. CASE \E u \in Users, l, e \in Entities, w \in Winners :
             v = [kind |-> "vote", user |-> u, items |-> <<l, e>>, winner |-> w]
  BY <1>1
<1>2. CASE \E u \in Users, e \in Entities, s \in Stars \cup {None} :
             v = [kind |-> "rate", user |-> u, items |-> <<e>>, stars |-> s]
  BY <1>2
<1> QED
  BY <1>1, <1>2 DEF IsTask

\* The title whose row a transaction takes next
Wants(r) == Head(tx[r].todo)

LEMMA WantsATitle ==
  ASSUME JInv, NEW r \in Requests,
         tx[r].pc = "flush" \/ (tx[r].pc = "lock" /\ tx[r].todo # <<>>)
  PROVE  /\ Wants(r) \in Entities /\ Wants(r) \in Nat
         /\ 1 \in DOMAIN tx[r].todo /\ tx[r].todo[1] = Wants(r)
<1>1. tx[r].todo \in Seq(Entities) /\ tx[r].todo # <<>>
  BY DEF JInv, OrderOK, Queue
<1>2. Wants(r) \in Entities /\ 1 \in DOMAIN tx[r].todo /\ tx[r].todo[1] = Wants(r)
  BY <1>1, HeadIsFirst DEF Wants
<1> QED
  BY <1>2, QuickVoteConstantsOK DEF Wants, QuickVoteConstantsOK

\* Whoever is waited for is further on, or waits for a later row
LEMMA WaitsAscend ==
  ASSUME JInv, NEW r \in Requests, NEW q \in Requests, WaitsFor(r, q), tx[q].pc # "insert"
  PROVE  /\ tx[r].pc = "stats" => tx[q].pc = "commit"
         /\ tx[r].pc = "flush" => /\ tx[q].pc \in {"flush", "count", "stats", "commit"}
                                  /\ tx[q].pc = "flush" => Wants(r) < Wants(q)
         /\ tx[r].pc = "lock" /\ tx[q].pc = "lock" /\ tx[q].todo # <<>> => Wants(r) < Wants(q)
<1>1. OrderOK(r) /\ OrderOK(q)
  BY DEF JInv
<1>2. CASE tx[r].pc = "stats"
  <2>1. statsOwner[tx[r].task.user] = q /\ IsTask(tx[r].task) /\ tx[r].task.kind # "recompute"
    BY <1>1, <1>2 DEF WaitsFor, OrderOK
  <2>2. tx[r].task.user \in Users
    BY <2>1, TaskOwner
  <2> QED
    BY <1>1, <1>2, <2>1, <2>2 DEF OrderOK
<1>3. CASE tx[r].pc = "flush"
  <2>1. rankOwner[Wants(r)] = q /\ Wants(r) \in Entities
    BY <1>3, WantsATitle DEF WaitsFor, Wants
  <2>2. /\ tx[q].pc \in {"flush", "count", "stats", "commit"}
        /\ tx[q].pc = "flush" => Behind(tx[q], Wants(r))
    BY <1>1, <2>1 DEF OrderOK
  <2> QED
    BY <1>3, <2>2, WantsATitle DEF Behind
<1>4. CASE tx[r].pc = "lock" /\ tx[q].pc = "lock" /\ tx[q].todo # <<>>
  <2>1. eloOwner[Wants(r)] = q /\ r # q /\ tx[r].todo # <<>>
    BY <1>4 DEF WaitsFor, Wants
  <2>2. /\ Wants(r) \in Entities /\ There(r, Wants(r))
    BY <1>1, <1>4, <2>1, WantsATitle DEF OrderOK
  <2>3. elo[Wants(r)] # None
    BY <2>1, <2>2 DEF There
  <2>4. Behind(tx[q], Wants(r))
    BY <1>1, <1>4, <2>1, <2>2, <2>3 DEF OrderOK
  <2> QED
    BY <1>4, <2>4, WantsATitle DEF Behind
<1> QED
  BY <1>2, <1>3, <1>4

\* What the order gives: a cycle goes through an insert
LEMMA NoCycle == JInv => OnlyNewTitlesDeadlock
<1> SUFFICES ASSUME JInv, NEW S \in SUBSET Requests, Deadlocked(S), \A r \in S : tx[r].pc # "insert"
             PROVE  FALSE
  BY DEF OnlyNewTitlesDeadlock, At
<1>1. S # {} /\ \A r \in S : \E q \in S : WaitsFor(r, q)
  BY DEF Deadlocked
<1>2. \A r \in S : tx[r].pc \in {"flush", "stats"} \/ (tx[r].pc = "lock" /\ tx[r].todo # <<>>)
  BY <1>1 DEF WaitsFor
<1>3. \A r \in S : tx[r].pc # "stats"
  BY <1>1, <1>2, WaitsAscend
<1> DEFINE flushing == {r \in S : tx[r].pc = "flush"}
           want == [r \in S |-> Wants(r)]
<1>4. IsFiniteSet(S) /\ IsFiniteSet(flushing)
  BY FS_Subset, QuickVoteConstantsOK DEF QuickVoteConstantsOK
<1>5. \A r \in S : want[r] \in Int
  BY <1>2, <1>3, WantsATitle
<1>6. CASE flushing # {}
  <2>1. PICK r \in flushing : \A q \in flushing : want[q] <= want[r]
    <3> HIDE DEF want, flushing
    <3>1. \A r \in flushing : want[r] \in Int
      BY <1>5 DEF flushing
    <3> QED
      BY <1>4, <1>6, <3>1, NoEndlessAscent
  <2>2. PICK q \in S : WaitsFor(r, q)
    BY <1>1
  <2>3. tx[q].pc = "flush" /\ Wants(r) < Wants(q)
    BY <1>2, <1>3, <2>2, WaitsAscend
  <2> QED
    BY <1>5, <2>1, <2>2, <2>3
<1>7. CASE flushing = {}
  <2>1. PICK r \in S : \A q \in S : want[q] <= want[r]
    <3> HIDE DEF want
    <3> QED
      BY <1>1, <1>4, <1>5, NoEndlessAscent
  <2>2. PICK q \in S : WaitsFor(r, q)
    BY <1>1
  <2>3. Wants(r) < Wants(q)
    BY <1>2, <1>3, <1>7, <2>2, WaitsAscend
  <2> QED
    BY <1>5, <2>1, <2>2, <2>3
<1> QED
  BY <1>6, <1>7

\* A queue without its head is one, and is behind it
LEMMA QueueMoves ==
  ASSUME NEW s, Queue(s), s # <<>>
  PROVE  /\ Queue(Tail(s)) /\ \A i \in DOMAIN Tail(s) : Head(s) < Tail(s)[i]
         /\ \A i \in DOMAIN Tail(s) : \E j \in DOMAIN s : Tail(s)[i] = s[j]
<1>1. s \in Seq(Entities)
  BY DEF Queue
<1>2. /\ Head(s) = s[1] /\ 1 \in DOMAIN s /\ Tail(s) \in Seq(Entities)
      /\ \A i \in DOMAIN Tail(s) : i + 1 \in DOMAIN s /\ Tail(s)[i] = s[i + 1] /\ i \in Int /\ i + 1 > 1
  BY <1>1, HeadIsFirst
<1>3. \A i \in DOMAIN Tail(s) : Head(s) < Tail(s)[i]
  BY <1>2 DEF Queue
<1>4. \A i, j \in DOMAIN Tail(s) : i < j => Tail(s)[i] < Tail(s)[j]
  <2> SUFFICES ASSUME NEW i \in DOMAIN Tail(s), NEW j \in DOMAIN Tail(s), i < j
               PROVE  Tail(s)[i] < Tail(s)[j]
    OBVIOUS
  <2>1. i + 1 \in DOMAIN s /\ j + 1 \in DOMAIN s /\ i + 1 < j + 1
    BY <1>2
  <2> QED
    BY <1>2, <2>1 DEF Queue
<1> QED
  BY <1>2, <1>3, <1>4 DEF Queue

\* What a step of another transaction leaves of a transaction's record
Same(q) ==
  /\ tx'[q].pc = tx[q].pc /\ tx'[q].task = tx[q].task /\ tx'[q].todo = tx[q].todo
  /\ tx'[q].before = tx[q].before /\ tx'[q].after = tx[q].after
  /\ tx'[q].input = tx[q].input /\ tx'[q].loaded = tx[q].loaded
  /\ tx'[q].counts = tx[q].counts

LEMMA OneMoves ==
  ASSUME IInv, NEW r \in Requests, NEW new, tx' = [tx EXCEPT ![r] = new]
  PROVE  /\ tx'[r] = new
         /\ \A q \in Requests : q # r => tx'[q] = tx[q] /\ Same(q)
BY DEF IInv, ShapeOK, Same

\* A transaction begins; those in flight only note where they overlap
Began(r, pc, t) ==
  /\ tx[r].pc = "idle" /\ UNCHANGED <<db, owners>>
  /\ tx'[r].pc = pc /\ tx'[r].task = t /\ tx'[r].todo = t.items
  /\ tx'[r].overlaps = UNION {Overlap(t, tx[o].task) : o \in {q \in Requests : Running(q)}}
  /\ tx'[r].before = None /\ tx'[r].after = None
  /\ \A q \in Requests : q # r =>
       /\ Same(q)
       /\ tx'[q].overlaps = IF Running(q) THEN tx[q].overlaps \cup Overlap(t, tx[q].task)
                            ELSE tx[q].overlaps

LEMMA BeginMoves ==
  ASSUME IInv, NEW r \in Requests, NEW pc, NEW t, Begin(r, pc, t)
  PROVE  Began(r, pc, t)
<1> DEFINE others == {q \in Requests : Running(q)}
           new == [Idle EXCEPT !.pc = pc, !.task = t, !.todo = t.items,
                     !.overlaps = UNION {Overlap(t, tx[o].task) : o \in others}]
           told(q) == [tx[q] EXCEPT !.overlaps = tx[q].overlaps \cup Overlap(t, tx[q].task)]
<1>1. tx' = [q \in Requests |-> IF q = r THEN new ELSE IF q \in others THEN told(q) ELSE tx[q]]
  BY DEF Begin
<1>2. /\ new.pc = pc /\ new.task = t /\ new.todo = t.items /\ new.before = None /\ new.after = None
      /\ new.overlaps = UNION {Overlap(t, tx[o].task) : o \in others}
  BY DEF Idle
<1>3. ASSUME NEW q \in Requests
      PROVE  /\ told(q).pc = tx[q].pc /\ told(q).task = tx[q].task /\ told(q).todo = tx[q].todo
             /\ told(q).before = tx[q].before /\ told(q).after = tx[q].after
             /\ told(q).input = tx[q].input /\ told(q).loaded = tx[q].loaded
             /\ told(q).counts = tx[q].counts
             /\ told(q).overlaps = tx[q].overlaps \cup Overlap(t, tx[q].task)
  <2>1. IsTx(tx[q])
    BY DEF IInv, ShapeOK
  <2> HIDE DEF others
  <2> QED
    BY <2>1 DEF IsTx, Fields
<1>4. \A q \in Requests : q \in others <=> Running(q)
  OBVIOUS
<1>5. ASSUME NEW q \in Requests, q # r
      PROVE  /\ Same(q)
             /\ tx'[q].overlaps = IF Running(q) THEN tx[q].overlaps \cup Overlap(t, tx[q].task)
                                  ELSE tx[q].overlaps
  <2>1. tx'[q] = IF Running(q) THEN told(q) ELSE tx[q]
    BY <1>1, <1>4, <1>5
  <2> HIDE DEF told, others, new
  <2> QED
    BY <1>3, <2>1 DEF Same
<1>6. tx[r].pc = "idle" /\ UNCHANGED <<db, owners>>
  BY DEF Begin, Running
<1>7. tx'[r] = new
  BY <1>1
<1>8. /\ tx'[r].pc = pc /\ tx'[r].task = t /\ tx'[r].todo = t.items
      /\ tx'[r].overlaps = UNION {Overlap(t, tx[o].task) : o \in {q \in Requests : Running(q)}}
      /\ tx'[r].before = None /\ tx'[r].after = None
  BY <1>2, <1>7
<1> HIDE DEF told, new, others
<1> QED
  BY <1>5, <1>6, <1>8 DEF Began

\* The order of a transaction survives the steps of the others
LEMMA OtherInOrder ==
  ASSUME NEW r \in Requests, OrderOK(r), Same(r),
         \A e \in Entities :
           /\ eloOwner'[e] = r <=> eloOwner[e] = r
           /\ elo[e] # None => elo'[e] # None
           /\ eloOwner[e] = r => elo'[e] = elo[e]
           /\ rankOwner'[e] = r <=> rankOwner[e] = r,
         \A u \in Users : statsOwner'[u] = r <=> statsOwner[u] = r
  PROVE  OrderOK(r)'
<1>1. Titles(tx[r].task)' = Titles(tx[r].task) /\ Decided(tx[r].task)' = Decided(tx[r].task)
  BY DEF Same, Titles, Decided
<1>2. \A e \in Entities : There(r, e) => There(r, e)'
  BY DEF There
<1>3. \A e : Behind(tx[r], e)' = Behind(tx[r], e)
  BY DEF Same, Behind
<1>4. MovedOK(r)'
  BY <1>1 DEF OrderOK, MovedOK, Same
<1>5. IsTask(tx[r].task)' = IsTask(tx[r].task) /\ Queue(tx[r].todo)' = Queue(tx[r].todo)
  BY DEF Same, IsTask, Queue
<1>6. /\ tx'[r].pc = tx[r].pc /\ tx'[r].task = tx[r].task /\ tx'[r].todo = tx[r].todo
  BY DEF Same
<1>7. (tx[r].pc = "insert" =>
         \/ tx[r].todo = tx[r].task.items
         \/ tx[r].todo = <<tx[r].task.items[2]>> /\ There(r, tx[r].task.items[1]))'
  <2>1. CASE tx[r].pc = "insert" /\ tx[r].todo # tx[r].task.items
    <3>1. IsTask(tx[r].task) /\ There(r, tx[r].task.items[1])
      BY <2>1 DEF OrderOK
    <3>2. tx[r].task.items[1] \in Entities
      BY <3>1, FirstTitle
    <3> QED
      BY <1>2, <1>6, <2>1, <3>1, <3>2 DEF OrderOK
  <2> QED
    BY <1>6, <2>1
<1>8. (tx[r].pc = "lock" => Queue(tx[r].todo) /\ \A i \in DOMAIN tx[r].todo : There(r, tx[r].todo[i]))'
  BY <1>2, <1>5, <1>6 DEF OrderOK, Queue
<1> QED
  BY <1>1, <1>3, <1>4, <1>5, <1>6, <1>7, <1>8 DEF OrderOK

\* A task that begins is one of the three
LEMMA StartTasks ==
  ASSUME NEW r \in Requests, Start(r)
  PROVE  \E v, pc : /\ Begin(r, pc, v) /\ IsTask(v)
                    /\ \/ pc = "insert" /\ v.kind = "vote" /\ MayVote(v.user)
                       \/ pc = "read" /\ v.kind # "vote"
<1>1. ASSUME NEW u \in Users, NEW l \in Entities, NEW e \in Entities, NEW w \in {"left", "right", "skip"},
             StartVote(r, u, l, e, w)
      PROVE  \E v, pc : /\ Begin(r, pc, v) /\ IsTask(v)
                        /\ \/ pc = "insert" /\ v.kind = "vote" /\ MayVote(v.user)
                           \/ pc = "read" /\ v.kind # "vote"
  <2> DEFINE v == [kind |-> "vote", user |-> u, items |-> <<l, e>>, winner |-> w]
  <2>1. Begin(r, "insert", v) /\ l # e /\ MayVote(u)
    BY <1>1 DEF StartVote
  <2>2. IsTask(v) /\ v.kind = "vote" /\ v.user = u
    BY <2>1 DEF IsTask, Winners
  <2> QED
    BY <2>1, <2>2
<1>2. ASSUME NEW u \in Users, NEW e \in Entities, NEW s \in Stars \cup {None}, StartRate(r, u, e, s)
      PROVE  \E v, pc : /\ Begin(r, pc, v) /\ IsTask(v)
                        /\ \/ pc = "insert" /\ v.kind = "vote" /\ MayVote(v.user)
                           \/ pc = "read" /\ v.kind # "vote"
  <2> DEFINE v == [kind |-> "rate", user |-> u, items |-> <<e>>, stars |-> s]
  <2>1. Begin(r, "read", v)
    BY <1>2 DEF StartRate
  <2>2. IsTask(v) /\ v.kind # "vote"
    BY DEF IsTask
  <2> QED
    BY <2>1, <2>2
<1>3. ASSUME NEW e \in Entities, StartRecompute(r, e)
      PROVE  \E v, pc : /\ Begin(r, pc, v) /\ IsTask(v)
                        /\ \/ pc = "insert" /\ v.kind = "vote" /\ MayVote(v.user)
                           \/ pc = "read" /\ v.kind # "vote"
  <2> DEFINE v == [kind |-> "recompute", items |-> <<e>>]
  <2>1. Begin(r, "read", v)
    BY <1>3 DEF StartRecompute
  <2>2. IsTask(v) /\ v.kind # "vote"
    BY DEF IsTask
  <2> QED
    BY <2>1, <2>2
<1> QED
  BY <1>1, <1>2, <1>3 DEF Start

LEMMA StartInOrder == ASSUME JInv, NEW r \in Requests, Start(r) PROVE TablesOK' /\ \A q \in Requests : OrderOK(q)'
<1>1. PICK v, pc : /\ Begin(r, pc, v) /\ IsTask(v)
                   /\ \/ pc = "insert" /\ v.kind = "vote"
                      \/ pc = "read" /\ v.kind # "vote"
  BY StartTasks
<1>2. /\ tx[r].pc = "idle" /\ UNCHANGED <<db, owners>>
      /\ tx'[r].pc = pc /\ tx'[r].task = v /\ tx'[r].todo = v.items /\ tx'[r].after = None
      /\ \A q \in Requests : q # r => Same(q)
  <2>1. IInv
    BY DEF JInv
  <2>2. Began(r, pc, v)
    BY <1>1, <2>1, BeginMoves
  <2> QED
    BY <2>2 DEF Began
<1>3. UNCHANGED <<elo, eloOwner, rankOwner, statsOwner>>
  BY <1>2 DEF db, owners
<1>4. TablesOK'
  BY <1>3 DEF JInv, TablesOK
<1>5. OrderOK(r)
  BY DEF JInv
<1>6. /\ \A e \in Entities : eloOwner[e] # r /\ rankOwner[e] # r
      /\ \A u \in Users : statsOwner[u] # r
  BY <1>2, <1>5 DEF OrderOK
<1>7. OrderOK(r)'
  <2>1. MovedOK(r)'
    BY <1>1, <1>2 DEF MovedOK
  <2>2. IsTask(tx[r].task)'
    BY <1>1, <1>2 DEF IsTask
  <2>3. tx'[r].pc \in {"insert", "read"}
    BY <1>1, <1>2
  <2>4. tx'[r].pc = "insert" => tx'[r].todo = tx'[r].task.items
    BY <1>2
  <2> QED
    BY <1>1, <1>2, <1>3, <1>6, <2>1, <2>2, <2>3, <2>4 DEF OrderOK, Steps
<1>8. ASSUME NEW q \in Requests, q # r PROVE OrderOK(q)'
  BY <1>2, <1>3, <1>8, OtherInOrder DEF JInv
<1> QED
  BY <1>4, <1>7, <1>8

\* An insert hands the row to r or to nobody
LEMMA InsertInOrder ==
  ASSUME JInv, NEW r \in Requests, InsertElo(r) PROVE TablesOK' /\ \A q \in Requests : OrderOK(q)'
<1> DEFINE t == tx[r]
           e == Head(t.todo)
           new == IF Len(t.todo) = 1 THEN [t EXCEPT !.pc = "lock", !.todo = LockOrder(t.task.items)]
                  ELSE [t EXCEPT !.todo = Tail(t.todo)]
<1>1. /\ t.pc = "insert" /\ UNCHANGED <<elo, rankOwner, statsOwner>>
      /\ elo[e] = None => eloOwner[e] = None
      /\ eloOwner' = IF elo[e] = None THEN [eloOwner EXCEPT ![e] = r] ELSE eloOwner
      /\ tx' = [tx EXCEPT ![r] = new]
  BY DEF InsertElo, At, db
<1>2. IsTx(t) /\ eloOwner \in [Entities -> Requests \cup {None}] /\ None \notin Requests
  BY QuickVoteConstantsOK DEF JInv, IInv, ShapeOK, QuickVoteConstantsOK
<1>3. tx'[r] = new /\ \A q \in Requests : q # r => Same(q)
  BY <1>1, OneMoves DEF JInv
<1>4. IsTask(t.task) /\ t.task.kind = "vote" /\ MovedOK(r) /\ OrderOK(r)
  BY <1>1 DEF JInv, IInv, LocksOK, OrderOK
<1>5. PICK a \in Entities, b \in Entities : t.task.items = <<a, b>> /\ Titles(t.task) = {a, b}
  <2>1. t.task.items \in Entities \X Entities
    BY <1>4, FirstTitle
  <2> QED
    BY <2>1, TwoTitles
<1>6. t.todo = <<a, b>> \/ (t.todo = <<b>> /\ There(r, a))
  BY <1>1, <1>4, <1>5 DEF OrderOK
<1>7. /\ Len(t.todo) = 1 => new.pc = "lock" /\ new.todo = LockOrder(t.task.items)
      /\ Len(t.todo) # 1 => new.pc = "insert" /\ new.todo = Tail(t.todo)
      /\ new.task = t.task /\ new.after = t.after
  BY <1>1, <1>2 DEF IsTx, Fields
<1> HIDE DEF t, new
<1>8. /\ e \in Entities
      /\ \A x \in Entities : /\ eloOwner'[x] # eloOwner[x] => eloOwner'[x] = r /\ elo[x] = None
                             /\ eloOwner[x] # None => eloOwner'[x] = eloOwner[x]
      /\ elo[e] # None \/ eloOwner'[e] = r
  BY <1>1, <1>2, <1>6
<1>9. \A x \in Entities : There(r, x) => There(r, x)'
  BY <1>1, <1>2, <1>8 DEF There
<1>10. \A x \in Entities : x = e => There(r, x)'
  BY <1>1, <1>8 DEF There
<1> HIDE DEF e
<1>11. /\ tx'[r].task = t.task /\ tx'[r].after = t.after
       /\ tx'[r].pc \in {"insert", "lock"}
  BY <1>3, <1>7
<1>12. \/ tx'[r].pc = "insert" /\ tx'[r].todo = <<b>> /\ There(r, a)'
       \/ tx'[r].pc = "lock" /\ tx'[r].todo = LockOrder(t.task.items) /\ There(r, a)' /\ There(r, b)'
  <2>1. CASE t.todo = <<a, b>>
    <3>1. Head(<<a, b>>) = a /\ Tail(<<a, b>>) = <<b>> /\ Len(<<a, b>>) # 1
      OBVIOUS
    <3> QED
      BY <1>3, <1>7, <1>10, <2>1, <3>1 DEF e
  <2>2. CASE t.todo = <<b>> /\ There(r, a)
    <3>1. Head(<<b>>) = b /\ Len(<<b>>) = 1
      OBVIOUS
    <3> QED
      BY <1>3, <1>7, <1>9, <1>10, <2>2, <3>1 DEF e
  <2> QED
    BY <1>6, <2>1, <2>2
<1>13. OrderOK(r)'
  <2>1. IsTask(tx[r].task)' /\ tx'[r].task.kind = "vote" /\ tx'[r].task.items = <<a, b>>
    <3>1. tx'[r].task = tx[r].task
      BY <1>11 DEF t
    <3>2. IsTask(tx[r].task)'
      BY <1>4, <3>1, TaskStays DEF t
    <3> QED
      BY <1>4, <1>5, <1>11, <3>2
  <2>2. MovedOK(r)'
    BY <1>1, <1>4, <1>11 DEF MovedOK, t
  <2>3. tx'[r].pc = "insert" => tx'[r].todo = <<tx'[r].task.items[2]>> /\ There(r, tx[r].task.items[1])'
    BY <1>12, <2>1
  <2>4. (tx[r].pc = "lock" => Queue(tx[r].todo) /\ \A i \in DOMAIN tx[r].todo : There(r, tx[r].todo[i]))'
    <3>1. /\ Queue(LockOrder(t.task.items))
          /\ \A i \in DOMAIN LockOrder(t.task.items) : LockOrder(t.task.items)[i] \in {a, b}
      BY <1>4, <1>5, TaskQueue DEF LockOrder
    <3>2. Queue(tx'[r].todo) <=> Queue(tx[r].todo)'
      BY DEF Queue
    <3> QED
      BY <1>12, <3>1, <3>2
  <2>5. \A x \in Entities : eloOwner'[x] = r => elo'[x] = None
    BY <1>1, <1>4, <1>8 DEF OrderOK, t
  <2>6. /\ \A x \in Entities : rankOwner'[x] # r
        /\ \A u \in Users : statsOwner'[u] # r
    BY <1>1, <1>4 DEF OrderOK, t
  <2> QED
    BY <1>11, <2>1, <2>2, <2>3, <2>4, <2>5, <2>6 DEF OrderOK, Steps
<1>14. ASSUME NEW q \in Requests, q # r PROVE OrderOK(q)'
  <2>1. \A x \in Entities : eloOwner'[x] = q <=> eloOwner[x] = q
    BY <1>2, <1>8, <1>14
  <2> QED
    BY <1>1, <1>3, <1>14, <2>1, OtherInOrder DEF JInv
<1>15. TablesOK'
  BY <1>1 DEF JInv, TablesOK
<1> QED
  BY <1>13, <1>14, <1>15

\* A lock is taken on the first title of the queue, and what is left is behind it
LEMMA LockInOrder ==
  ASSUME JInv, NEW r \in Requests, LockElo(r) PROVE TablesOK' /\ \A q \in Requests : OrderOK(q)'
<1> DEFINE t == tx[r]
           e == Wants(r)
           new == [t EXCEPT !.todo = Tail(t.todo)]
<1>1. /\ t.pc = "lock" /\ t.todo # <<>> /\ UNCHANGED <<elo, rankOwner, statsOwner>>
      /\ eloOwner[e] \in {None, r}
      /\ eloOwner' = [eloOwner EXCEPT ![e] = r]
      /\ tx' = [tx EXCEPT ![r] = new]
  BY DEF LockElo, At, db, Locks, Wants
<1>2. IsTx(t) /\ eloOwner \in [Entities -> Requests \cup {None}] /\ None \notin Requests
  BY QuickVoteConstantsOK DEF JInv, IInv, ShapeOK, QuickVoteConstantsOK
<1>3. tx'[r] = new /\ \A q \in Requests : q # r => Same(q)
  BY <1>1, OneMoves DEF JInv
<1>4. OrderOK(r) /\ t.task.kind = "vote"
  BY <1>1 DEF JInv, IInv, LocksOK
<1>5. Queue(t.todo) /\ (\A i \in DOMAIN t.todo : There(r, t.todo[i])) /\ IsTask(t.task) /\ MovedOK(r)
  BY <1>1, <1>4 DEF OrderOK
<1>6. /\ tx'[r].pc = "lock" /\ tx'[r].task = t.task /\ tx'[r].after = t.after
      /\ tx'[r].todo = Tail(t.todo)
  BY <1>1, <1>2, <1>3 DEF IsTx, Fields
<1>7. e \in Entities
  BY <1>1, WantsATitle
<1>8. /\ Queue(Tail(t.todo)) /\ \A i \in DOMAIN Tail(t.todo) : e < Tail(t.todo)[i]
      /\ \A i \in DOMAIN Tail(t.todo) : \E j \in DOMAIN t.todo : Tail(t.todo)[i] = t.todo[j]
  BY <1>1, <1>5, QueueMoves DEF Wants
<1> HIDE DEF t, new, e
<1>9. \A x \in Entities : There(r, x) => There(r, x)'
  BY <1>1, <1>2 DEF There
<1>10. \A x \in Entities : (\E i \in DOMAIN Tail(t.todo) : x = Tail(t.todo)[i]) => There(r, x)'
  BY <1>5, <1>8, <1>9
<1>11. OrderOK(r)'
  <2>1. IsTask(tx[r].task)' /\ tx'[r].task.kind = "vote"
    <3>1. tx'[r].task = tx[r].task /\ IsTask(tx[r].task)
      BY <1>5, <1>6 DEF t
    <3>2. IsTask(tx[r].task)'
      BY <3>1, TaskStays
    <3> QED
      BY <1>4, <1>6, <3>2
  <2>2. MovedOK(r)'
    BY <1>1, <1>4, <1>5, <1>6 DEF MovedOK, t
  <2>3. Queue(tx[r].todo)' /\ (\A i \in DOMAIN tx[r].todo : There(r, tx[r].todo[i]))'
    <3>1. Queue(tx'[r].todo) <=> Queue(tx[r].todo)'
      BY DEF Queue
    <3>2. \A i \in DOMAIN Tail(t.todo) : Tail(t.todo)[i] \in Entities
      BY <1>8 DEF Queue
    <3> QED
      BY <1>6, <1>8, <1>10, <3>1, <3>2
  <2>4. \A x \in Entities : eloOwner'[x] = r /\ elo'[x] # None => Behind(tx[r], x)'
    <3> SUFFICES ASSUME NEW x \in Entities, eloOwner'[x] = r, elo'[x] # None
                 PROVE  \A i \in DOMAIN Tail(t.todo) : x < Tail(t.todo)[i]
      BY <1>6 DEF Behind
    <3>1. CASE x = e
      BY <1>8, <3>1
    <3>2. CASE x # e
      <4>1. eloOwner[x] = r /\ elo[x] # None
        BY <1>1, <1>2, <3>2
      <4>2. \A j \in DOMAIN t.todo : x < t.todo[j]
        BY <1>1, <1>4, <4>1 DEF OrderOK, Behind, t
      <4> QED
        BY <1>8, <4>2
    <3> QED
      BY <3>1, <3>2
  <2>5. /\ \A x \in Entities : rankOwner'[x] # r
        /\ \A u \in Users : statsOwner'[u] # r
    BY <1>1, <1>4 DEF OrderOK, t
  <2> QED
    BY <1>6, <2>1, <2>2, <2>3, <2>4, <2>5 DEF OrderOK, Steps
<1>12. ASSUME NEW q \in Requests, q # r PROVE OrderOK(q)'
  <2>1. \A x \in Entities : eloOwner'[x] = q <=> eloOwner[x] = q
    BY <1>1, <1>2, <1>12
  <2> QED
    BY <1>1, <1>3, <1>12, <2>1, OtherInOrder DEF JInv
<1>13. TablesOK'
  BY <1>1 DEF JInv, TablesOK
<1> QED
  BY <1>11, <1>12, <1>13

\* A step past the last Elo lock: r may take a ranking row or a row of counts
LEMMA OnwardInOrder ==
  ASSUME JInv, NEW r \in Requests, NEW new, tx' = [tx EXCEPT ![r] = new],
         UNCHANGED <<elo, eloOwner>>, IsTask(tx[r].task), new.task = tx[r].task,
         new.pc \in Steps \ {"insert", "lock"}, MovedOK(r)',
         new.pc = "flush" => /\ Queue(new.todo) /\ new.todo # <<>>
                             /\ \A i \in DOMAIN new.todo : new.todo[i] \in Titles(tx[r].task),
         tx[r].task.kind = "vote" /\ new.pc \in {"read", "load", "flush"} => Decided(tx[r].task),
         new.pc \in {"count", "stats"} => tx[r].task.kind # "recompute",
         TablesOK',
         \A e \in Entities : rankOwner'[e] # rankOwner[e] => rankOwner[e] = None /\ rankOwner'[e] = r,
         \A u \in Users : statsOwner'[u] # statsOwner[u] => statsOwner[u] = None /\ statsOwner'[u] = r,
         \A e \in Entities : rankOwner'[e] = r =>
           /\ new.pc \in {"flush", "count", "stats", "commit"} /\ (new.pc = "flush" => Behind(new, e))
           /\ e \in Titles(tx[r].task) /\ (tx[r].task.kind = "vote" => Decided(tx[r].task)),
         \A u \in Users : statsOwner'[u] = r => new.pc = "commit"
  PROVE  \A q \in Requests : OrderOK(q)'
<1>1. tx'[r] = new /\ \A q \in Requests : q # r => Same(q)
  BY OneMoves DEF JInv
<1>2. None \notin Requests
  BY QuickVoteConstantsOK DEF QuickVoteConstantsOK
<1>3. OrderOK(r)'
  <2>1. IsTask(tx[r].task)'
    BY <1>1, TaskStays
  <2>2. Titles(tx[r].task)' = Titles(tx[r].task) /\ (Decided(tx[r].task)' <=> Decided(tx[r].task))
    BY <1>1 DEF Titles, Decided
  <2>3. (tx[r].pc = "flush" =>
           Queue(tx[r].todo) /\ tx[r].todo # <<>> /\ \A i \in DOMAIN tx[r].todo : tx[r].todo[i] \in Titles(tx[r].task))'
    <3>1. Queue(new.todo) <=> Queue(tx[r].todo)'
      BY <1>1 DEF Queue
    <3> QED
      BY <1>1, <2>2, <3>1
  <2>4. \A e \in Entities : Behind(new, e) <=> Behind(tx[r], e)'
    BY <1>1 DEF Behind
  <2> QED
    BY <1>1, <2>1, <2>2, <2>3, <2>4 DEF OrderOK, Steps
<1>4. ASSUME NEW q \in Requests, q # r PROVE OrderOK(q)'
  <2>1. OrderOK(q) /\ Same(q)
    BY <1>1, <1>4 DEF JInv
  <2>2. /\ \A e \in Entities : rankOwner'[e] = q <=> rankOwner[e] = q
        /\ \A u \in Users : statsOwner'[u] = q <=> statsOwner[u] = q
    BY <1>2, <1>4
  <2> QED
    BY <2>1, <2>2, OtherInOrder
<1> QED
  BY <1>3, <1>4

\* The score of a title, from its first vote on or before it
LEMMA EloIsRow == ASSUME TablesOK, NEW e \in Entities PROVE EloOf(e) \in Row
BY DEF TablesOK, EloOf, DefaultElo, Row

LEMMA ApplyInOrder ==
  ASSUME JInv, NEW r \in Requests, ApplyVote(r) PROVE TablesOK' /\ \A q \in Requests : OrderOK(q)'
<1> DEFINE t == tx[r]
           both == Titles(t.task)
           sign(e) == IF (t.task.winner = "left") = (e = t.task.items[1]) THEN 1 ELSE -1
           before == [e \in both |-> EloOf(e)]
           after(g) == [e \in both |->
                          IF Decided(t.task) THEN Plus(before[e], sign(e) * g[e]) ELSE before[e]]
           next == IF Decided(t.task) THEN "read" ELSE "count"
           new(g) == [t EXCEPT !.pc = next, !.before = before, !.after = after(g)]
<1>1. PICK g \in [both -> Gains] : tx' = [tx EXCEPT ![r] = new(g)]
  BY DEF ApplyVote
<1>2. t.pc = "lock" /\ UNCHANGED <<elo, eloOwner, rankOwner, statsOwner>>
  BY DEF ApplyVote, At, db, owners
<1>3. IsTx(t) /\ t.task.kind = "vote" /\ OrderOK(r) /\ IsTask(t.task)
  BY <1>2 DEF JInv, IInv, ShapeOK, LocksOK, OrderOK
<1>4. both \subseteq Entities
  BY <1>3, TaskQueue
<1>5. after(g) \in [both -> Row]
  <2>1. ASSUME NEW e \in both PROVE Plus(before[e], sign(e) * g[e]) \in Row /\ before[e] \in Row
    <3>1. before[e] \in Row
      BY <1>4, EloIsRow DEF JInv
    <3>2. sign(e) * g[e] \in Int
      <4>1. g[e] \in Int
        BY <1>1, QuickVoteConstantsOK DEF QuickVoteConstantsOK
      <4> QED
        BY <4>1
    <3> QED
      BY <3>1, <3>2 DEF Plus, Row
  <2> QED
    BY <2>1
<1>6. new(g).pc = next /\ new(g).task = t.task /\ new(g).after = after(g)
  BY <1>3 DEF IsTx, Fields
<1>7. tx'[r] = new(g)
  BY <1>1, OneMoves DEF JInv
<1>8. MovedOK(r)'
  <2>1. Titles(tx[r].task)' = both
    BY <1>6, <1>7 DEF Titles
  <2>2. tx'[r].after \in [both -> Row] /\ tx'[r].pc = next /\ tx'[r].task = t.task
    <3> HIDE DEF both, after, next, new
    <3> QED
      BY <1>5, <1>6, <1>7
  <2> HIDE DEF after, both, t, new
  <2> QED
    BY <1>3, <2>1, <2>2 DEF MovedOK
<1>9. /\ \A e \in Entities : rankOwner[e] # r
      /\ \A u \in Users : statsOwner[u] # r
  BY <1>2, <1>3 DEF OrderOK
<1>10. TablesOK'
  BY <1>2 DEF JInv, TablesOK
<1>11. /\ next \in {"read", "count"} /\ (next = "read" => Decided(t.task))
  OBVIOUS
<1> DEFINE n == new(g)
<1>12. /\ tx' = [tx EXCEPT ![r] = n] /\ n.task = tx[r].task /\ n.pc \in {"read", "count"}
       /\ n.pc = "read" => Decided(tx[r].task)
  BY <1>1, <1>6, <1>11
<1> HIDE DEF n, new, after, before, next
<1>13. \A q \in Requests : OrderOK(q)'
  BY <1>2, <1>3, <1>8, <1>9, <1>10, <1>12, OnwardInOrder DEF Steps
<1> QED
  BY <1>10, <1>13

\* Reading the inputs, loading the rows, and counting take no row
LEMMA ReadingInOrder ==
  ASSUME JInv, NEW r \in Requests, ReadInputs(r) \/ LoadRankings(r) \/ CountContributions(r)
  PROVE  TablesOK' /\ \A q \in Requests : OrderOK(q)'
<1>1. /\ tx[r].pc \in {"read", "load", "count"} /\ UNCHANGED <<elo, eloOwner, rankOwner, statsOwner>>
  BY DEF ReadInputs, LoadRankings, CountContributions, At, db, owners
<1>2. IsTx(tx[r]) /\ OrderOK(r) /\ IsTask(tx[r].task) /\ MovedOK(r)
  BY <1>1 DEF JInv, IInv, ShapeOK, OrderOK
<1>3. /\ \A e \in Entities : rankOwner[e] = r => tx[r].pc = "count"
      /\ \A e \in Entities : rankOwner[e] = r => 
           e \in Titles(tx[r].task) /\ (tx[r].task.kind = "vote" => Decided(tx[r].task))
      /\ \A u \in Users : statsOwner[u] # r
  BY <1>1, <1>2 DEF OrderOK
<1>4. TablesOK'
  BY <1>1 DEF JInv, TablesOK
<1>5. \E new : /\ tx' = [tx EXCEPT ![r] = new] /\ new.task = tx[r].task /\ new.after = tx[r].after
               /\ \/ tx[r].pc = "read" /\ new.pc = "load"
                  \/ tx[r].pc = "load" /\ new.pc = "flush" /\ new.todo = InOrder(tx[r].task.items)
                  \/ tx[r].pc = "count" /\ new.pc = "stats"
  <2>1. CASE ReadInputs(r)
    <3> DEFINE x == [e \in Titles(tx[r].task) |-> Score(SeenElo(r, e), [u \in Users |-> SeenRating(r, u, e)])]
               new == [tx[r] EXCEPT !.pc = "load", !.input = x]
    <3>1. tx' = [tx EXCEPT ![r] = new] /\ tx[r].pc = "read"
      BY <2>1 DEF ReadInputs, At, JInv, IInv, ShapeOK
    <3> HIDE DEF x
    <3>2. new.task = tx[r].task /\ new.after = tx[r].after /\ new.pc = "load"
      BY <1>2 DEF IsTx, Fields
    <3> HIDE DEF new
    <3> QED
      BY <3>1, <3>2
  <2>2. CASE LoadRankings(r)
    <3> DEFINE x == [e \in Titles(tx[r].task) |-> ranking[e]]
               y == InOrder(tx[r].task.items)
               new == [tx[r] EXCEPT !.pc = "flush", !.todo = y, !.loaded = x]
    <3>1. tx' = [tx EXCEPT ![r] = new] /\ tx[r].pc = "load"
      BY <2>2 DEF LoadRankings, At, JInv, IInv, ShapeOK
    <3> HIDE DEF x, y
    <3>2. new.task = tx[r].task /\ new.after = tx[r].after /\ new.pc = "flush" /\ new.todo = y
      BY <1>2 DEF IsTx, Fields
    <3> HIDE DEF new
    <3> QED
      BY <3>1, <3>2 DEF y
  <2>3. CASE CountContributions(r)
    <3> DEFINE v == tx[r].task
               x == [votes_count |-> Cardinality({e \in Entities : SeenRating(r, v.user, e) # None}),
                     battles_count |-> Cardinality(DecidedBy(v.user)) + (IF Decided(v) THEN 1 ELSE 0)]
               new == [tx[r] EXCEPT !.pc = "stats", !.counts = x]
    <3>1. tx' = [tx EXCEPT ![r] = new] /\ tx[r].pc = "count"
      BY <2>3 DEF CountContributions, At, JInv, IInv, ShapeOK
    <3> HIDE DEF x
    <3>2. new.task = tx[r].task /\ new.after = tx[r].after /\ new.pc = "stats"
      BY <1>2 DEF IsTx, Fields
    <3> HIDE DEF new
    <3> QED
      BY <3>1, <3>2
  <2> QED
    BY <2>1, <2>2, <2>3
<1>6. PICK new : /\ tx' = [tx EXCEPT ![r] = new] /\ new.task = tx[r].task /\ new.after = tx[r].after
                 /\ \/ tx[r].pc = "read" /\ new.pc = "load"
                    \/ tx[r].pc = "load" /\ new.pc = "flush" /\ new.todo = InOrder(tx[r].task.items)
                    \/ tx[r].pc = "count" /\ new.pc = "stats"
  BY <1>5
<1>7. tx'[r] = new
  BY <1>6, OneMoves DEF JInv
<1>8. MovedOK(r)'
  <2>1. Titles(tx[r].task)' = Titles(tx[r].task)
    BY <1>6, <1>7 DEF Titles
  <2>2. /\ tx'[r].task = tx[r].task /\ tx'[r].after = tx[r].after
        /\ tx[r].pc \notin {"insert", "lock"} /\ tx'[r].pc \notin {"insert", "lock"}
    BY <1>6, <1>7
  <2> QED
    BY <1>2, <2>1, <2>2 DEF MovedOK
<1>9. new.pc = "flush" => /\ Queue(new.todo) /\ new.todo # <<>>
                          /\ \A i \in DOMAIN new.todo : new.todo[i] \in Titles(tx[r].task)
  BY <1>2, <1>6, TaskQueue
<1>10. /\ tx[r].task.kind = "vote" /\ new.pc \in {"read", "load", "flush"} => Decided(tx[r].task)
       /\ new.pc \in {"count", "stats"} => tx[r].task.kind # "recompute"
       /\ new.pc \in {"load", "flush", "stats"}
  BY <1>2, <1>6 DEF OrderOK
<1>11. \A e \in Entities : rankOwner'[e] = r => new.pc = "stats"
  BY <1>1, <1>3, <1>6
<1>12. \A q \in Requests : OrderOK(q)'
  BY <1>1, <1>2, <1>3, <1>4, <1>6, <1>8, <1>9, <1>10, <1>11, OnwardInOrder DEF Steps
<1> QED
  BY <1>4, <1>12

\* A ranking row is written in the order of the queue
LEMMA FlushInOrder ==
  ASSUME JInv, NEW r \in Requests, FlushRanking(r) PROVE TablesOK' /\ \A q \in Requests : OrderOK(q)'
<1> DEFINE t == tx[r]
           e == Wants(r)
           next == IF Len(t.todo) > 1 THEN "flush"
                   ELSE IF t.task.kind = "recompute" THEN "commit" ELSE "count"
           new == [t EXCEPT !.todo = Tail(t.todo), !.pc = next]
<1>1. /\ t.pc = "flush" /\ UNCHANGED <<elo, eloOwner, statsOwner>>
      /\ \/ rankOwner[e] = None /\ rankOwner' = [rankOwner EXCEPT ![e] = r]
         \/ rankOwner' = rankOwner
      /\ tx' = [tx EXCEPT ![r] = new]
  BY DEF FlushRanking, At, db, Wants
<1>2. IsTx(t) /\ rankOwner \in [Entities -> Requests \cup {None}] /\ None \notin Requests
  BY QuickVoteConstantsOK DEF JInv, IInv, ShapeOK, TablesOK, QuickVoteConstantsOK
<1>3. tx'[r] = new /\ new.pc = next /\ new.task = t.task /\ new.after = t.after /\ new.todo = Tail(t.todo)
  BY <1>1, <1>2, OneMoves DEF JInv, IsTx, Fields
<1>4. /\ OrderOK(r) /\ IsTask(t.task) /\ MovedOK(r)
      /\ Queue(t.todo) /\ t.todo # <<>> /\ \A i \in DOMAIN t.todo : t.todo[i] \in Titles(t.task)
      /\ t.task.kind = "vote" => Decided(t.task)
  BY <1>1 DEF JInv, OrderOK
<1>5. e \in Entities /\ e \in Titles(t.task)
  BY <1>1, <1>4, WantsATitle
<1>6. /\ Queue(Tail(t.todo)) /\ \A i \in DOMAIN Tail(t.todo) : e < Tail(t.todo)[i]
      /\ \A i \in DOMAIN Tail(t.todo) : \E j \in DOMAIN t.todo : Tail(t.todo)[i] = t.todo[j]
  BY <1>4, QueueMoves DEF Wants
<1>7. Len(t.todo) > 1 => Tail(t.todo) # <<>>
  BY <1>4, HeadIsFirst DEF Queue
<1>8. /\ next \in {"flush", "commit", "count"}
      /\ next = "flush" => Len(t.todo) > 1
      /\ next = "count" => t.task.kind # "recompute"
  OBVIOUS
<1> HIDE DEF e, next, new
<1>9. TablesOK'
  BY <1>1, <1>2, <1>5 DEF JInv, TablesOK
<1>10. MovedOK(r)'
  <2>1. Titles(tx[r].task)' = Titles(t.task)
    BY <1>3 DEF Titles
  <2> QED
    BY <1>1, <1>3, <1>4, <1>8, <2>1 DEF MovedOK
<1>11. new.pc = "flush" => /\ Queue(new.todo) /\ new.todo # <<>>
                           /\ \A i \in DOMAIN new.todo : new.todo[i] \in Titles(t.task)
  BY <1>3, <1>4, <1>6, <1>7, <1>8
<1>12. ASSUME NEW x \in Entities, rankOwner'[x] = r
       PROVE  Behind(new, x) /\ x \in Titles(t.task)
  <2>1. CASE x = e
    BY <1>3, <1>5, <1>6, <2>1 DEF Behind
  <2>2. CASE x # e
    <3>1. rankOwner[x] = r
      BY <1>1, <1>2, <1>12, <2>2
    <3>2. (\A j \in DOMAIN t.todo : x < t.todo[j]) /\ x \in Titles(t.task)
      BY <1>1, <1>4, <3>1 DEF OrderOK, Behind
    <3> QED
      BY <1>3, <1>6, <3>2 DEF Behind
  <2> QED
    BY <2>1, <2>2
<1>13. \A x \in Entities : rankOwner'[x] # rankOwner[x] => rankOwner[x] = None /\ rankOwner'[x] = r
  BY <1>1, <1>2
<1>14. \A u \in Users : statsOwner'[u] # r
  BY <1>1, <1>4 DEF OrderOK
<1>15. \A q \in Requests : OrderOK(q)'
  BY <1>1, <1>3, <1>4, <1>8, <1>9, <1>10, <1>11, <1>12, <1>13, <1>14, OnwardInOrder DEF Steps
<1> QED
  BY <1>9, <1>15

LEMMA UpsertInOrder ==
  ASSUME JInv, NEW r \in Requests, UpsertStats(r) PROVE TablesOK' /\ \A q \in Requests : OrderOK(q)'
<1> DEFINE t == tx[r]
           u == t.task.user
           new == [t EXCEPT !.pc = "commit"]
<1>1. /\ t.pc = "stats" /\ UNCHANGED <<elo, eloOwner, rankOwner>> /\ statsOwner[u] = None
      /\ statsOwner' = [statsOwner EXCEPT ![u] = r]
      /\ tx' = [tx EXCEPT ![r] = new]
  BY DEF UpsertStats, At, db
<1>2. IsTx(t) /\ statsOwner \in [Users -> Requests \cup {None}]
  BY DEF JInv, IInv, ShapeOK, TablesOK
<1>3. tx'[r] = new /\ new.pc = "commit" /\ new.task = t.task /\ new.after = t.after
  BY <1>1, <1>2, OneMoves DEF JInv, IsTx, Fields
<1>4. /\ OrderOK(r) /\ IsTask(t.task) /\ MovedOK(r)
  BY <1>1 DEF JInv, OrderOK
<1> HIDE DEF u, new
<1>5. TablesOK'
  BY <1>1, <1>2 DEF JInv, TablesOK
<1>6. MovedOK(r)'
  <2>1. Titles(tx[r].task)' = Titles(t.task)
    BY <1>3 DEF Titles
  <2> QED
    BY <1>1, <1>3, <1>4, <2>1 DEF MovedOK
<1>7. \A x \in Entities : rankOwner'[x] = r => x \in Titles(t.task) /\ (t.task.kind = "vote" => Decided(t.task))
  BY <1>1, <1>4 DEF OrderOK
<1>8. \A x \in Users : statsOwner'[x] # statsOwner[x] => statsOwner[x] = None /\ statsOwner'[x] = r
  BY <1>1, <1>2
<1>9. \A q \in Requests : OrderOK(q)'
  BY <1>1, <1>3, <1>4, <1>5, <1>6, <1>7, <1>8, OnwardInOrder DEF Steps
<1> QED
  BY <1>5, <1>9

\* The end of a transaction gives its rows back, and leaves a row with a score
\* where there was one
LEMMA EndInOrder ==
  ASSUME JInv, NEW r \in Requests, Release(r), elo' \in [Entities -> Row \cup {None}],
         \A e \in Entities : elo[e] # None => elo'[e] # None,
         \A e \in Entities : eloOwner[e] # r => elo'[e] = elo[e]
  PROVE  TablesOK' /\ \A q \in Requests : OrderOK(q)'
<1>1. /\ \A e \in Entities : eloOwner'[e] = IF eloOwner[e] = r THEN None ELSE eloOwner[e]
      /\ \A e \in Entities : rankOwner'[e] = IF rankOwner[e] = r THEN None ELSE rankOwner[e]
      /\ \A u \in Users : statsOwner'[u] = IF statsOwner[u] = r THEN None ELSE statsOwner[u]
      /\ TablesOK'
  BY DEF JInv, IInv, ShapeOK, TablesOK, Release, Without
<1>2. tx'[r] = Idle /\ \A q \in Requests : q # r => Same(q)
  BY OneMoves DEF Release, JInv
<1>3. None \notin Requests
  BY QuickVoteConstantsOK DEF QuickVoteConstantsOK
<1>4. Idle.pc = "idle" /\ Idle.after = None /\ Idle.task.kind = "none"
  BY DEF Idle, NoTask
<1>5. OrderOK(r)'
  <2>1. MovedOK(r)'
    BY <1>2, <1>4 DEF MovedOK
  <2>2. /\ \A e \in Entities : eloOwner'[e] # r /\ rankOwner'[e] # r
        /\ \A u \in Users : statsOwner'[u] # r
    BY <1>1, <1>3
  <2> QED
    BY <1>2, <1>4, <2>1, <2>2 DEF OrderOK
<1>6. ASSUME NEW q \in Requests, q # r PROVE OrderOK(q)'
  <2>1. OrderOK(q) /\ Same(q)
    BY <1>2, <1>6 DEF JInv
  <2>2. /\ \A e \in Entities : /\ eloOwner'[e] = q <=> eloOwner[e] = q
                               /\ rankOwner'[e] = q <=> rankOwner[e] = q
                               /\ eloOwner[e] = q => elo'[e] = elo[e]
        /\ \A u \in Users : statsOwner'[u] = q <=> statsOwner[u] = q
    BY <1>1, <1>3, <1>6
  <2> QED
    BY <2>1, <2>2, OtherInOrder
<1> QED
  BY <1>1, <1>5, <1>6

LEMMA CommitInOrder ==
  ASSUME JInv, NEW r \in Requests, Commit(r) PROVE TablesOK' /\ \A q \in Requests : OrderOK(q)'
<1> DEFINE v == tx[r].task
<1>1. Release(r) /\ tx[r].pc = "commit"
  BY DEF Commit, At
<1>2. elo' = IF v.kind # "vote" THEN elo
             ELSE [e \in Entities |-> IF e \in Titles(v) THEN tx[r].after[e] ELSE elo[e]]
  BY DEF Commit
<1>3. v.kind = "vote" => tx[r].after \in [Titles(v) -> Row] /\ \A e \in Titles(v) : eloOwner[e] = r
  BY <1>1 DEF JInv, IInv, LocksOK, Owns, OrderOK, MovedOK
<1>4. elo \in [Entities -> Row \cup {None}] /\ None \notin Row
  BY QuickVoteConstantsOK DEF JInv, TablesOK, QuickVoteConstantsOK
<1> HIDE DEF v
<1>5. CASE v.kind # "vote"
  BY <1>1, <1>2, <1>4, <1>5, EndInOrder
<1>6. CASE v.kind = "vote"
  <2>1. \A e \in Entities : elo'[e] = IF e \in Titles(v) THEN tx[r].after[e] ELSE elo[e]
    BY <1>2, <1>6
  <2>2. \A e \in Titles(v) : tx[r].after[e] \in Row
    BY <1>3, <1>6
  <2>3. elo' \in [Entities -> Row \cup {None}]
    BY <1>2, <1>4, <1>6, <2>2
  <2> QED
    BY <1>1, <1>3, <1>4, <1>6, <2>1, <2>2, <2>3, EndInOrder
<1> QED
  BY <1>5, <1>6

LEMMA NextInOrder == ASSUME JInv, [Next]_vars PROVE JInv'
<1>1. IInv'
  BY NextOK DEF JInv
<1>2. TablesOK' /\ \A q \in Requests : OrderOK(q)'
  <2>1. ASSUME NEW r \in Requests, Abort(r) PROVE TablesOK' /\ \A q \in Requests : OrderOK(q)'
    <3>1. Release(r) /\ elo' = elo
      BY <2>1 DEF Abort, db
    <3> QED
      BY <3>1, EndInOrder DEF JInv, TablesOK
  <2>2. CASE UNCHANGED vars
    <3>1. UNCHANGED <<elo, eloOwner, rankOwner, statsOwner, tx>>
      BY <2>2 DEF vars, db, owners
    <3>2. \A q \in Requests : OrderOK(q) /\ Same(q)
      BY <3>1 DEF JInv, Same
    <3> QED
      BY <3>1, <3>2, OtherInOrder DEF JInv, TablesOK
  <2>3. CASE Next
    <3>1. PICK r \in Requests :
             \/ Start(r)
             \/ InsertElo(r) \/ LockElo(r) \/ ApplyVote(r)
             \/ ReadInputs(r) \/ LoadRankings(r) \/ FlushRanking(r)
             \/ CountContributions(r) \/ UpsertStats(r)
             \/ Commit(r) \/ Abort(r)
      BY <2>3 DEF Next
    <3> QED
      BY <2>1, <3>1, StartInOrder, InsertInOrder, LockInOrder, ApplyInOrder, ReadingInOrder,
         FlushInOrder, UpsertInOrder, CommitInOrder
  <2> QED
    BY <2>2, <2>3
<1> QED
  BY <1>1, <1>2 DEF JInv

LEMMA InitInOrder == Init => JInv
<1> SUFFICES ASSUME Init PROVE JInv
  OBVIOUS
<1>1. IInv
  BY InitOK
<1>2. TablesOK
  BY DEF Init, TablesOK
<1>3. ASSUME NEW r \in Requests PROVE OrderOK(r)
  <2>1. tx[r].pc = "idle" /\ tx[r].after = None /\ tx[r].task.kind = "none"
    BY DEF Init, Idle, NoTask
  <2>2. /\ \A e \in Entities : eloOwner[e] # r /\ rankOwner[e] # r
        /\ \A u \in Users : statsOwner[u] # r
    BY QuickVoteConstantsOK DEF Init, QuickVoteConstantsOK
  <2> QED
    BY <2>1, <2>2 DEF OrderOK, MovedOK
<1> QED
  BY <1>1, <1>2, <1>3 DEF JInv

\* However many transactions are in flight, every cycle of waits goes through
\* the insert of the rows of titles that have never been in a battle: rows
\* that are there are locked in order (lock_elo_rows), ranking rows are
\* flushed in order after them (recompute_entities), the counts come last.
THEOREM OnlyNewTitlesEverDeadlock == Spec => []OnlyNewTitlesDeadlock
<1>1. Init => JInv
  BY InitInOrder
<1>2. JInv /\ [Next]_vars => JInv'
  BY NextInOrder
<1>3. JInv => OnlyNewTitlesDeadlock
  BY NoCycle
<1> QED
  BY <1>1, <1>2, <1>3, PTL DEF Spec
-----------------------------------------------------------------------------
(* What a transaction has read of the rows it rewrites is still so when it  *)
(* commits, unless it overlapped another one there                          *)

Title(e) == <<"entity", e>>
User(u) == <<"user", u>>

\* r has a derived row of its own to rewrite, and met nobody there
Alone(r, k) == k \in Keys(tx[r].task) /\ k \notin tx[r].overlaps

LogOK ==
  /\ rating \in [Users -> [Entities -> Stars \cup {None}]]
  /\ ranking = [e \in Entities |-> ranking[e]]
  /\ stats = [u \in Users |-> stats[u]]
  /\ pair_votes \in Seq(Vote)

\* Whoever is in flight together knows of it
MeetOK(r) ==
  /\ tx[r].overlaps \subseteq Keys(tx[r].task)
  /\ \A q \in Requests : q # r /\ Running(q) => Overlap(tx[q].task, tx[r].task) \subseteq tx[r].overlaps

\* A ranking row is settled when it is written, or needs no writing
SettledOK(r, e) ==
  LET t == tx[r] IN
  \/ rankOwner[e] = r \/ t.loaded[e] = t.input[e]
  \/ t.pc = "flush" /\ \E i \in DOMAIN t.todo : t.todo[i] = e

InputOK(r, e) ==
  LET t == tx[r] IN
  /\ t.pc \in {"load", "flush", "count", "stats", "commit"} =>
       t.input[e] = Score(SeenElo(r, e), [u \in Users |-> SeenRating(r, u, e)])
  /\ t.pc \in {"flush", "count", "stats", "commit"} =>
       t.loaded[e] = ranking[e] /\ SettledOK(r, e)

CountsOf(r, u) ==
  [votes_count |-> Cardinality({e \in Entities : SeenRating(r, u, e) # None}),
   battles_count |-> Cardinality(DecidedBy(u)) + (IF Decided(tx[r].task) THEN 1 ELSE 0)]

SeenOK(r) ==
  Running(r) =>
    /\ MeetOK(r)
    /\ tx[r].task.kind = "vote" /\ tx[r].pc \notin {"insert", "lock"} /\ ~ Decided(tx[r].task) =>
         tx[r].after = tx[r].before
    /\ \A e \in Entities : Alone(r, Title(e)) => InputOK(r, e)
    /\ \A u \in Users : Alone(r, User(u)) /\ tx[r].pc \in {"stats", "commit"} =>
         tx[r].counts = CountsOf(r, u)

KInv == JInv /\ LogOK /\ (\A r \in Requests : SeenOK(r)) /\ DerivedIsExact

LEMMA KeysOf ==
  ASSUME NEW v, IsTask(v)
  PROVE  /\ \A e : Title(e) \in Keys(v) <=> e \in Titles(v) /\ (v.kind = "vote" => Decided(v))
         /\ \A u : User(u) \in Keys(v) <=> v.kind # "recompute" /\ u = v.user
<1>1. \A e, u : Title(e) # User(u)
  BY DEF Title, User
<1>2. \A e, f : Title(e) = Title(f) <=> e = f
  BY DEF Title
<1>3. \A u, w : User(u) = User(w) <=> u = w
  BY DEF User
<1>4. Decided(v) => v.kind = "vote"
  BY DEF Decided
<1>5. Keys(v) = (IF v.kind # "vote" \/ Decided(v) THEN {Title(e) : e \in Titles(v)} ELSE {})
                  \cup (IF v.kind # "recompute" THEN {User(v.user)} ELSE {})
  BY DEF Keys, Title, User
<1> QED
  BY <1>1, <1>2, <1>3, <1>4, <1>5

LEMMA OverlapOf ==
  ASSUME NEW v, NEW w
  PROVE  /\ Overlap(v, w) = Overlap(w, v) /\ Overlap(v, w) \subseteq Keys(v)
         /\ \A u : User(u) \in Keys(v) /\ User(u) \in Keys(w) => User(u) \in Overlap(v, w)
         /\ \A e : Title(e) \in Keys(v) /\ Title(e) \in Keys(w) =>
              Title(e) \in Overlap(v, w) \/ (Decided(v) /\ Decided(w))
<1>1. \A e : Title(e)[1] = "entity"
  BY DEF Title
<1>2. \A u : User(u)[1] = "user"
  BY DEF User
<1> QED
  BY <1>1, <1>2 DEF Overlap

\* Every title of a task is in its queue
LEMMA TaskQueued ==
  ASSUME NEW v, IsTask(v), NEW e \in Titles(v)
  PROVE  \E i \in DOMAIN InOrder(v.items) : InOrder(v.items)[i] = e
<1>1. CASE \E l, x \in Entities : v.items = <<l, x>>
  <2>1. v.items \in Entities \X Entities
    BY <1>1
  <2> QED
    BY <2>1, OrderKeepsTitles DEF LockOrder
<1>2. CASE \E x \in Entities : v.items = <<x>>
  <2>1. PICK x \in Entities : v.items = <<x>>
    BY <1>2
  <2>2. InOrder(v.items) = <<x>> /\ Titles(v) = {x}
    BY <2>1 DEF InOrder, Titles
  <2>3. DOMAIN <<x>> = {1} /\ <<x>>[1] = x
    OBVIOUS
  <2> QED
    BY <2>2, <2>3
<1> QED
  BY <1>1, <1>2 DEF IsTask

\* What r has read survives a step that leaves its own rows alone
LEMMA OtherHasSeen ==
  ASSUME NEW r \in Requests, SeenOK(r), Same(r), Running(r) => MeetOK(r)',
         Running(r) => tx[r].overlaps \subseteq tx'[r].overlaps,
         \A e \in Entities :
           Alone(r, Title(e)) /\ tx[r].pc \in {"load", "flush", "count", "stats", "commit"} =>
             /\ EloOf(e)' = EloOf(e) /\ ranking'[e] = ranking[e]
             /\ \A u \in Users : rating'[u][e] = rating[u][e]
             /\ rankOwner'[e] = r <=> rankOwner[e] = r,
         \A u \in Users :
           Running(r) /\ Alone(r, User(u)) => rating'[u] = rating[u] /\ DecidedBy(u)' = DecidedBy(u)
  PROVE  SeenOK(r)'
<1> SUFFICES ASSUME Running(r) PROVE SeenOK(r)'
  BY DEF SeenOK, Same, Running
<1>1. /\ tx'[r].pc = tx[r].pc /\ tx'[r].task = tx[r].task /\ tx'[r].todo = tx[r].todo
      /\ tx'[r].before = tx[r].before /\ tx'[r].after = tx[r].after
      /\ tx'[r].input = tx[r].input /\ tx'[r].loaded = tx[r].loaded
      /\ tx'[r].counts = tx[r].counts
  BY DEF Same
<1>2. Decided(tx[r].task)' <=> Decided(tx[r].task)
  BY <1>1 DEF Decided
<1>3. \A k : Alone(r, k)' => Alone(r, k)
  BY <1>1 DEF Alone, Keys, Titles, Decided
<1>4. ASSUME NEW e \in Entities, Alone(r, Title(e))' PROVE InputOK(r, e)'
  <2>1. Alone(r, Title(e)) /\ InputOK(r, e)
    BY <1>3, <1>4 DEF SeenOK
  <2>2. CASE tx[r].pc \in {"load", "flush", "count", "stats", "commit"}
    <3>1. SeenElo(r, e)' = SeenElo(r, e)
      BY <1>1, <2>1, <2>2 DEF SeenElo
    <3>2. \A u \in Users : SeenRating(r, u, e)' = SeenRating(r, u, e)
      BY <1>1, <2>1, <2>2 DEF SeenRating, Titles
    <3>3. [u \in Users |-> SeenRating(r, u, e)]' = [u \in Users |-> SeenRating(r, u, e)]
      BY <3>2
    <3>4. Score(SeenElo(r, e), [u \in Users |-> SeenRating(r, u, e)])'
          = Score(SeenElo(r, e), [u \in Users |-> SeenRating(r, u, e)])
      BY <3>1, <3>3 DEF Score
    <3>5. SettledOK(r, e) => SettledOK(r, e)'
      BY <1>1, <2>1, <2>2 DEF SettledOK
    <3>6. ranking'[e] = ranking[e]
      BY <2>1, <2>2
    <3> QED
      BY <1>1, <2>1, <3>4, <3>5, <3>6 DEF InputOK
  <2>3. CASE tx[r].pc \notin {"load", "flush", "count", "stats", "commit"}
    BY <1>1, <2>3 DEF InputOK
  <2> QED
    BY <2>2, <2>3
<1>5. ASSUME NEW u \in Users, Alone(r, User(u))', tx[r].pc \in {"stats", "commit"}
      PROVE  (tx[r].counts = CountsOf(r, u))'
  <2>1. Alone(r, User(u)) /\ tx[r].counts = CountsOf(r, u)
    BY <1>3, <1>5 DEF SeenOK
  <2>2. rating'[u] = rating[u] /\ DecidedBy(u)' = DecidedBy(u)
    BY <2>1
  <2>3. \A e \in Entities : SeenRating(r, u, e)' = SeenRating(r, u, e)
    BY <1>1, <2>2 DEF SeenRating, Titles
  <2>4. {e \in Entities : SeenRating(r, u, e) # None}' = {e \in Entities : SeenRating(r, u, e) # None}
    BY <2>3
  <2>5. CountsOf(r, u)' = CountsOf(r, u)
    BY <1>2, <2>2, <2>4 DEF CountsOf
  <2> QED
    BY <1>1, <2>1, <2>5
<1> QED
  BY <1>1, <1>2, <1>4, <1>5 DEF SeenOK, Running

LEMMA MeetStays ==
  ASSUME NEW r \in Requests, MeetOK(r),
         tx'[r].task = tx[r].task, tx'[r].overlaps = tx[r].overlaps,
         \A q \in Requests : q # r /\ tx'[q].pc # "idle" => Running(q) /\ tx'[q].task = tx[q].task
  PROVE  MeetOK(r)'
<1>1. Keys(tx[r].task)' = Keys(tx[r].task)
  BY DEF Keys, Titles, Decided
<1>2. ASSUME NEW q \in Requests, q # r, tx'[q].pc # "idle"
      PROVE  Overlap(tx[q].task, tx[r].task)' = Overlap(tx[q].task, tx[r].task) /\ Running(q)
  BY <1>2 DEF Overlap, Keys, Titles, Decided
<1> QED
  BY <1>1, <1>2 DEF MeetOK, Running

\* The tables stay as they are until a commit
LEMMA TablesStay ==
  ASSUME LogOK, DerivedIsExact, UNCHANGED db PROVE LogOK' /\ DerivedIsExact'
<1>1. UNCHANGED <<elo, pair_votes, rating, ranking, stats, raced>>
  BY DEF db
<1>2. LogOK'
  BY <1>1 DEF LogOK
<1>3. \A e : EloOf(e)' = EloOf(e)
  BY <1>1 DEF EloOf
<1>4. RankingIsExact'
  BY <1>1, <1>3 DEF DerivedIsExact, RankingIsExact
<1>5. \A u : DecidedBy(u)' = DecidedBy(u)
  BY <1>1 DEF DecidedBy, VotesBy
<1>6. ContributionsAreExact'
  BY <1>1, <1>5 DEF DerivedIsExact, ContributionsAreExact
<1> QED
  BY <1>2, <1>4, <1>6 DEF DerivedIsExact

\* A step of r within its transaction, seen by the others
LEMMA InnerStep ==
  ASSUME KInv, NEW r \in Requests, NEW new, tx' = [tx EXCEPT ![r] = new], Running(r),
         new.task = tx[r].task, new.overlaps = tx[r].overlaps, new.pc # "idle", UNCHANGED db,
         \A e \in Entities : rankOwner'[e] # rankOwner[e] => rankOwner[e] = None /\ rankOwner'[e] = r
  PROVE  /\ LogOK' /\ DerivedIsExact' /\ tx'[r] = new /\ MeetOK(r)'
         /\ \A q \in Requests : q # r => SeenOK(q)'
<1>1. tx'[r] = new /\ \A q \in Requests : q # r => tx'[q] = tx[q] /\ Same(q)
  BY OneMoves DEF KInv, JInv
<1>2. LogOK' /\ DerivedIsExact'
  BY TablesStay DEF KInv
<1>3. None \notin Requests
  BY QuickVoteConstantsOK DEF QuickVoteConstantsOK
<1>4. MeetOK(r)'
  BY <1>1, MeetStays DEF KInv, SeenOK, Running
<1>5. UNCHANGED <<elo, pair_votes, rating, ranking>>
  BY DEF db
<1>6. /\ \A e : EloOf(e)' = EloOf(e)
      /\ \A u : DecidedBy(u)' = DecidedBy(u)
  BY <1>5 DEF EloOf, DecidedBy, VotesBy
<1>7. ASSUME NEW q \in Requests, q # r PROVE SeenOK(q)'
  <2>1. SeenOK(q) /\ Same(q) /\ tx'[q] = tx[q]
    BY <1>1, <1>7 DEF KInv
  <2>2. Running(q) => MeetOK(q)'
    BY <1>1, <2>1, MeetStays DEF SeenOK, Running
  <2>3. \A e \in Entities : rankOwner'[e] = q <=> rankOwner[e] = q
    BY <1>3, <1>7
  <2> QED
    BY <1>5, <1>6, <2>1, <2>2, <2>3, OtherHasSeen
<1> QED
  BY <1>1, <1>2, <1>4, <1>7

LEMMA StartHasSeen ==
  ASSUME KInv, NEW r \in Requests, Start(r)
  PROVE  LogOK' /\ DerivedIsExact' /\ \A q \in Requests : SeenOK(q)'
<1>1. PICK v, pc : /\ Begin(r, pc, v) /\ IsTask(v)
                   /\ \/ pc = "insert" /\ v.kind = "vote"
                      \/ pc = "read" /\ v.kind # "vote"
  BY StartTasks
<1>2. /\ UNCHANGED <<db, owners>> /\ tx'[r].pc = pc /\ tx'[r].task = v /\ tx[r].pc = "idle"
      /\ tx'[r].overlaps = UNION {Overlap(v, tx[o].task) : o \in {q \in Requests : Running(q)}}
      /\ \A q \in Requests : q # r =>
           /\ Same(q)
           /\ tx'[q].overlaps = IF Running(q) THEN tx[q].overlaps \cup Overlap(v, tx[q].task)
                                ELSE tx[q].overlaps
  <2>1. IInv
    BY DEF KInv, JInv
  <2>2. Began(r, pc, v)
    BY <1>1, <2>1, BeginMoves
  <2> QED
    BY <2>2 DEF Began
<1>3. LogOK' /\ DerivedIsExact'
  BY <1>2, TablesStay DEF KInv
<1>4. UNCHANGED <<elo, pair_votes, rating, ranking, rankOwner>>
  BY <1>2 DEF db, owners
<1>5. /\ \A e : EloOf(e)' = EloOf(e)
      /\ \A u : DecidedBy(u)' = DecidedBy(u)
  BY <1>4 DEF EloOf, DecidedBy, VotesBy
<1>6. \A q \in Requests : q # r => tx'[q].pc = tx[q].pc /\ tx'[q].task = tx[q].task
  BY <1>2 DEF Same
<1>7. ASSUME NEW q \in Requests, q # r, Running(q)
      PROVE  Overlap(tx[q].task, v) \subseteq tx'[r].overlaps /\ Overlap(v, tx[q].task) \subseteq tx'[q].overlaps
  <2>1. Overlap(tx[q].task, v) = Overlap(v, tx[q].task)
    BY OverlapOf
  <2> QED
    BY <1>2, <1>7, <2>1
<1>8. SeenOK(r)'
  <2>1. tx'[r].overlaps \subseteq Keys(v)
    BY <1>2, OverlapOf
  <2>2. Keys(tx[r].task)' = Keys(v)
    BY <1>2 DEF Keys, Titles, Decided
  <2>3. ASSUME NEW q \in Requests, q # r, Running(q)'
        PROVE  Overlap(tx[q].task, tx[r].task)' \subseteq tx'[r].overlaps
    <3>1. Overlap(tx[q].task, tx[r].task)' = Overlap(tx[q].task, v) /\ Running(q)
      BY <1>2, <1>6, <2>3 DEF Overlap, Keys, Titles, Decided, Running
    <3> QED
      BY <1>7, <2>3, <3>1
  <2>4. MeetOK(r)'
    BY <2>1, <2>2, <2>3 DEF MeetOK
  <2> QED
    BY <1>1, <1>2, <2>4 DEF SeenOK, InputOK
<1>9. ASSUME NEW q \in Requests, q # r PROVE SeenOK(q)'
  <2>1. SeenOK(q) /\ Same(q)
    BY <1>2, <1>9 DEF KInv
  <2>2. Running(q) => MeetOK(q)' /\ tx[q].overlaps \subseteq tx'[q].overlaps
    <3> SUFFICES ASSUME Running(q) PROVE MeetOK(q)' /\ tx[q].overlaps \subseteq tx'[q].overlaps
      OBVIOUS
    <3>1. MeetOK(q) /\ tx'[q].overlaps = tx[q].overlaps \cup Overlap(v, tx[q].task)
      BY <1>2, <1>9, <2>1 DEF SeenOK
    <3>2. Keys(tx[q].task)' = Keys(tx[q].task)
      BY <1>6, <1>9 DEF Keys, Titles, Decided
    <3>3. Overlap(v, tx[q].task) \subseteq Keys(tx[q].task)
      BY OverlapOf
    <3>4. ASSUME NEW p \in Requests, p # q, Running(p)'
          PROVE  Overlap(tx[p].task, tx[q].task)' \subseteq tx'[q].overlaps
      <4>1. CASE p = r
        <5>1. Overlap(tx[p].task, tx[q].task)' = Overlap(v, tx[q].task)
          BY <1>2, <1>6, <1>9, <4>1 DEF Overlap, Keys, Titles, Decided
        <5> QED
          BY <3>1, <5>1
      <4>2. CASE p # r
        <5>1. Overlap(tx[p].task, tx[q].task)' = Overlap(tx[p].task, tx[q].task) /\ Running(p)
          BY <1>6, <1>9, <3>4, <4>2 DEF Overlap, Keys, Titles, Decided, Running
        <5> QED
          BY <3>1, <3>4, <5>1 DEF MeetOK
      <4> QED
        BY <4>1, <4>2
    <3> QED
      BY <3>1, <3>2, <3>3, <3>4 DEF MeetOK
  <2> QED
    BY <1>4, <1>5, <2>1, <2>2, OtherHasSeen
<1> QED
  BY <1>3, <1>8, <1>9

LEMMA LocksHaveSeen ==
  ASSUME KInv, NEW r \in Requests, InsertElo(r) \/ LockElo(r)
  PROVE  LogOK' /\ DerivedIsExact' /\ \A q \in Requests : SeenOK(q)'
<1>1. IsTx(tx[r]) /\ Running(r)
  BY DEF KInv, JInv, IInv, ShapeOK, InsertElo, LockElo, At, Running
<1>2. UNCHANGED <<db, rankOwner>>
  BY DEF InsertElo, LockElo
<1>3. PICK new : /\ tx' = [tx EXCEPT ![r] = new] /\ new.task = tx[r].task
                 /\ new.overlaps = tx[r].overlaps /\ new.pc \in {"insert", "lock"}
  <2>1. CASE InsertElo(r)
    <3> DEFINE a == [tx[r] EXCEPT !.pc = "lock", !.todo = LockOrder(tx[r].task.items)]
               b == [tx[r] EXCEPT !.todo = Tail(tx[r].todo)]
    <3>1. tx' = [tx EXCEPT ![r] = IF Len(tx[r].todo) = 1 THEN a ELSE b] /\ tx[r].pc = "insert"
      BY <2>1 DEF InsertElo, At
    <3>2. /\ a.task = tx[r].task /\ a.overlaps = tx[r].overlaps /\ a.pc = "lock"
          /\ b.task = tx[r].task /\ b.overlaps = tx[r].overlaps /\ b.pc = tx[r].pc
      BY <1>1 DEF IsTx, Fields
    <3> HIDE DEF a, b
    <3> QED
      BY <3>1, <3>2
  <2>2. CASE LockElo(r)
    <3> DEFINE b == [tx[r] EXCEPT !.todo = Tail(tx[r].todo)]
    <3>1. tx' = [tx EXCEPT ![r] = b] /\ tx[r].pc = "lock"
      BY <2>2 DEF LockElo, At
    <3>2. b.task = tx[r].task /\ b.overlaps = tx[r].overlaps /\ b.pc = tx[r].pc
      BY <1>1 DEF IsTx, Fields
    <3> HIDE DEF b
    <3> QED
      BY <3>1, <3>2
  <2> QED
    BY <2>1, <2>2
<1>4. /\ LogOK' /\ DerivedIsExact' /\ tx'[r] = new /\ MeetOK(r)'
      /\ \A q \in Requests : q # r => SeenOK(q)'
  BY <1>1, <1>2, <1>3, InnerStep
<1>5. SeenOK(r)'
  BY <1>3, <1>4 DEF SeenOK, InputOK
<1> QED
  BY <1>4, <1>5

LEMMA ApplyHasSeen ==
  ASSUME KInv, NEW r \in Requests, ApplyVote(r)
  PROVE  LogOK' /\ DerivedIsExact' /\ \A q \in Requests : SeenOK(q)'
<1> DEFINE t == tx[r]
           both == Titles(t.task)
           sign(e) == IF (t.task.winner = "left") = (e = t.task.items[1]) THEN 1 ELSE -1
           before == [e \in both |-> EloOf(e)]
           after(g) == [e \in both |->
                          IF Decided(t.task) THEN Plus(before[e], sign(e) * g[e]) ELSE before[e]]
           next == IF Decided(t.task) THEN "read" ELSE "count"
           new(g) == [t EXCEPT !.pc = next, !.before = before, !.after = after(g)]
<1>1. PICK g \in [both -> Gains] : tx' = [tx EXCEPT ![r] = new(g)]
  BY DEF ApplyVote
<1>2. t.pc = "lock" /\ UNCHANGED <<db, rankOwner>>
  BY DEF ApplyVote, At, owners
<1>3. IsTx(t) /\ Running(r) /\ t.task.kind = "vote" /\ IsTask(t.task)
  BY <1>2 DEF KInv, JInv, IInv, ShapeOK, LocksOK, OrderOK, Running
<1>4. ~ Decided(t.task) => after(g) = before
  OBVIOUS
<1>5. /\ new(g).pc = next /\ new(g).task = t.task /\ new(g).overlaps = t.overlaps
      /\ new(g).after = after(g) /\ new(g).before = before
  BY <1>3 DEF IsTx, Fields
<1>6. next \in {"read", "count"} /\ (next = "count" => ~ Decided(t.task))
  OBVIOUS
<1> DEFINE n == new(g)
<1>7. /\ tx' = [tx EXCEPT ![r] = n] /\ n.pc = next /\ n.task = t.task /\ n.overlaps = t.overlaps
      /\ ~ Decided(t.task) => n.after = n.before
  BY <1>1, <1>4, <1>5
<1> HIDE DEF n, new, after, before, next
<1>8. /\ LogOK' /\ DerivedIsExact' /\ tx'[r] = n /\ MeetOK(r)'
      /\ \A q \in Requests : q # r => SeenOK(q)'
  BY <1>2, <1>3, <1>6, <1>7, InnerStep
<1>9. ASSUME NEW e \in Entities, Alone(r, Title(e))' PROVE InputOK(r, e)'
  <2>1. Title(e) \in Keys(t.task)
    BY <1>7, <1>8, <1>9 DEF Alone, Keys, Titles, Decided
  <2>2. Decided(t.task)
    BY <1>3, <2>1, KeysOf
  <2> QED
    BY <1>6, <1>7, <1>8, <2>2 DEF InputOK
<1>10. Decided(tx[r].task)' <=> Decided(t.task)
  BY <1>7, <1>8 DEF Decided
<1>11. SeenOK(r)'
  BY <1>6, <1>7, <1>8, <1>9, <1>10 DEF SeenOK
<1> QED
  BY <1>8, <1>11

\* The inputs are those of the moment they are read
LEMMA ReadHasSeen ==
  ASSUME KInv, NEW r \in Requests, ReadInputs(r)
  PROVE  LogOK' /\ DerivedIsExact' /\ \A q \in Requests : SeenOK(q)'
<1> DEFINE t == tx[r]
           x == [e \in Titles(t.task) |-> Score(SeenElo(r, e), [u \in Users |-> SeenRating(r, u, e)])]
           new == [t EXCEPT !.pc = "load", !.input = x]
<1>1. tx' = [tx EXCEPT ![r] = new] /\ t.pc = "read" /\ UNCHANGED <<db, rankOwner>>
  BY DEF ReadInputs, At, owners
<1>2. IsTx(t) /\ Running(r) /\ SeenOK(r) /\ IsTask(t.task)
  BY <1>1 DEF KInv, JInv, IInv, ShapeOK, Running, OrderOK
<1>3. /\ new.pc = "load" /\ new.task = t.task /\ new.overlaps = t.overlaps
      /\ new.after = t.after /\ new.before = t.before /\ new.input = x
  BY <1>2 DEF IsTx, Fields
<1>4. \A e \in Titles(t.task) : x[e] = Score(SeenElo(r, e), [u \in Users |-> SeenRating(r, u, e)])
  OBVIOUS
<1> HIDE DEF x, new
<1>5. /\ LogOK' /\ DerivedIsExact' /\ tx'[r] = new /\ MeetOK(r)'
      /\ \A q \in Requests : q # r => SeenOK(q)'
  BY <1>1, <1>2, <1>3, InnerStep
<1>6. UNCHANGED <<elo, rating>>
  BY <1>1 DEF db
<1>7. ASSUME NEW e \in Entities, Alone(r, Title(e))' PROVE InputOK(r, e)'
  <2>1. Title(e) \in Keys(t.task)
    BY <1>3, <1>5, <1>7 DEF Alone, Keys, Titles, Decided
  <2>2. e \in Titles(t.task)
    BY <1>2, <2>1, KeysOf
  <2>3. SeenElo(r, e)' = SeenElo(r, e)
    BY <1>3, <1>5, <1>6 DEF SeenElo, EloOf
  <2>4. \A u \in Users : SeenRating(r, u, e)' = SeenRating(r, u, e)
    BY <1>3, <1>5, <1>6 DEF SeenRating, Titles
  <2>5. [u \in Users |-> SeenRating(r, u, e)]' = [u \in Users |-> SeenRating(r, u, e)]
    BY <2>4
  <2>6. Score(SeenElo(r, e), [u \in Users |-> SeenRating(r, u, e)])'
        = Score(SeenElo(r, e), [u \in Users |-> SeenRating(r, u, e)])
    BY <2>3, <2>5 DEF Score
  <2> QED
    BY <1>3, <1>4, <1>5, <2>2, <2>6 DEF InputOK
<1>8. Decided(tx[r].task)' <=> Decided(t.task)
  BY <1>3, <1>5 DEF Decided
<1>9. SeenOK(r)'
  BY <1>1, <1>2, <1>3, <1>5, <1>7, <1>8 DEF SeenOK
<1> QED
  BY <1>5, <1>9

\* What r would read does not change within its transaction
LEMMA SightStays ==
  ASSUME NEW r \in Requests, UNCHANGED db,
         tx'[r].task = tx[r].task, tx'[r].after = tx[r].after, tx'[r].overlaps = tx[r].overlaps
  PROVE  /\ \A e : Score(SeenElo(r, e), [u \in Users |-> SeenRating(r, u, e)])'
                   = Score(SeenElo(r, e), [u \in Users |-> SeenRating(r, u, e)])
         /\ \A u : CountsOf(r, u)' = CountsOf(r, u)
         /\ \A k : Alone(r, k)' <=> Alone(r, k)
         /\ Decided(tx[r].task)' <=> Decided(tx[r].task)
<1>1. UNCHANGED <<elo, rating, pair_votes>>
  BY DEF db
<1>2. \A e : SeenElo(r, e)' = SeenElo(r, e)
  BY <1>1 DEF SeenElo, EloOf
<1>3. \A u, e : SeenRating(r, u, e)' = SeenRating(r, u, e)
  BY <1>1 DEF SeenRating, Titles
<1>4. ASSUME NEW e
      PROVE  Score(SeenElo(r, e), [u \in Users |-> SeenRating(r, u, e)])'
             = Score(SeenElo(r, e), [u \in Users |-> SeenRating(r, u, e)])
  <2>1. [u \in Users |-> SeenRating(r, u, e)]' = [u \in Users |-> SeenRating(r, u, e)]
    BY <1>3
  <2> QED
    BY <1>2, <2>1 DEF Score
<1>5. Decided(tx[r].task)' <=> Decided(tx[r].task)
  BY DEF Decided
<1>6. ASSUME NEW u PROVE CountsOf(r, u)' = CountsOf(r, u)
  <2>1. {e \in Entities : SeenRating(r, u, e) # None}' = {e \in Entities : SeenRating(r, u, e) # None}
    BY <1>3
  <2>2. DecidedBy(u)' = DecidedBy(u)
    BY <1>1 DEF DecidedBy, VotesBy
  <2> QED
    BY <1>5, <2>1, <2>2 DEF CountsOf
<1>7. \A k : Alone(r, k)' <=> Alone(r, k)
  BY DEF Alone, Keys, Titles, Decided
<1> QED
  BY <1>4, <1>5, <1>6, <1>7

LEMMA LoadHasSeen ==
  ASSUME KInv, NEW r \in Requests, LoadRankings(r)
  PROVE  LogOK' /\ DerivedIsExact' /\ \A q \in Requests : SeenOK(q)'
<1> DEFINE t == tx[r]
           x == [e \in Titles(t.task) |-> ranking[e]]
           y == InOrder(t.task.items)
           new == [t EXCEPT !.pc = "flush", !.todo = y, !.loaded = x]
<1>1. tx' = [tx EXCEPT ![r] = new] /\ t.pc = "load" /\ UNCHANGED <<db, rankOwner>>
  BY DEF LoadRankings, At, owners
<1>2. IsTx(t) /\ Running(r) /\ SeenOK(r) /\ IsTask(t.task)
  BY <1>1 DEF KInv, JInv, IInv, ShapeOK, Running, OrderOK
<1>3. /\ new.pc = "flush" /\ new.task = t.task /\ new.overlaps = t.overlaps
      /\ new.after = t.after /\ new.before = t.before /\ new.input = t.input
      /\ new.loaded = x /\ new.todo = y
  BY <1>2 DEF IsTx, Fields
<1>4. \A e \in Titles(t.task) : x[e] = ranking[e]
  OBVIOUS
<1>5. \A e \in Titles(t.task) : \E i \in DOMAIN y : y[i] = e
  BY <1>2, TaskQueued
<1> HIDE DEF x, y, new
<1>6. /\ LogOK' /\ DerivedIsExact' /\ tx'[r] = new /\ MeetOK(r)'
      /\ \A q \in Requests : q # r => SeenOK(q)'
  BY <1>1, <1>2, <1>3, InnerStep
<1>7. /\ \A e : Score(SeenElo(r, e), [u \in Users |-> SeenRating(r, u, e)])'
                = Score(SeenElo(r, e), [u \in Users |-> SeenRating(r, u, e)])
      /\ \A k : Alone(r, k)' <=> Alone(r, k)
      /\ Decided(tx[r].task)' <=> Decided(tx[r].task)
  BY <1>1, <1>3, <1>6, SightStays
<1>8. ranking' = ranking
  BY <1>1 DEF db
<1>9. ASSUME NEW e \in Entities, Alone(r, Title(e))' PROVE InputOK(r, e)'
  <2>1. Alone(r, Title(e)) /\ InputOK(r, e)
    BY <1>2, <1>7, <1>9 DEF SeenOK
  <2>2. e \in Titles(t.task)
    BY <1>2, <2>1, KeysOf DEF Alone
  <2>3. SettledOK(r, e)'
    BY <1>3, <1>5, <1>6, <2>2 DEF SettledOK
  <2> QED
    BY <1>1, <1>3, <1>4, <1>6, <1>7, <1>8, <2>1, <2>2, <2>3 DEF InputOK
<1>10. SeenOK(r)'
  BY <1>1, <1>2, <1>3, <1>6, <1>7, <1>9 DEF SeenOK
<1> QED
  BY <1>6, <1>10

LEMMA FlushHasSeen ==
  ASSUME KInv, NEW r \in Requests, FlushRanking(r)
  PROVE  LogOK' /\ DerivedIsExact' /\ \A q \in Requests : SeenOK(q)'
<1> DEFINE t == tx[r]
           f == Wants(r)
           next == IF Len(t.todo) > 1 THEN "flush"
                   ELSE IF t.task.kind = "recompute" THEN "commit" ELSE "count"
           new == [t EXCEPT !.todo = Tail(t.todo), !.pc = next]
<1>1. /\ t.pc = "flush" /\ UNCHANGED db /\ tx' = [tx EXCEPT ![r] = new]
      /\ \/ rankOwner[f] = None /\ rankOwner' = [rankOwner EXCEPT ![f] = r]
         \/ t.loaded[f] = t.input[f] /\ rankOwner' = rankOwner
  BY DEF FlushRanking, At, Wants
<1>2. IsTx(t) /\ Running(r) /\ SeenOK(r) /\ IsTask(t.task) /\ OrderOK(r)
  BY <1>1 DEF KInv, JInv, IInv, ShapeOK, Running, OrderOK
<1>3. /\ new.pc = next /\ new.task = t.task /\ new.overlaps = t.overlaps
      /\ new.after = t.after /\ new.before = t.before /\ new.input = t.input
      /\ new.loaded = t.loaded /\ new.todo = Tail(t.todo)
  BY <1>2 DEF IsTx, Fields
<1>4. t.todo \in Seq(Entities) /\ t.todo # <<>> /\ f \in Entities
  BY <1>1, <1>2, WantsATitle DEF OrderOK, Queue, KInv
<1>5. /\ next \in {"flush", "commit", "count"}
      /\ next # "flush" => Tail(t.todo) = <<>>
      /\ next = "commit" => t.task.kind = "recompute"
  <2>1. Len(t.todo) \in Nat \ {0} /\ (Len(t.todo) = 1 <=> Tail(t.todo) = <<>>)
    BY <1>4, HeadIsFirst
  <2> QED
    BY <2>1
<1>6. \A e \in Entities : rankOwner'[e] # rankOwner[e] => rankOwner[e] = None /\ rankOwner'[e] = r
  BY <1>1 DEF KInv, JInv, TablesOK
<1>7. /\ rankOwner'[f] = r \/ t.loaded[f] = t.input[f]
      /\ \A e \in Entities : rankOwner[e] = r => rankOwner'[e] = r
  BY <1>1, <1>4 DEF KInv, JInv, TablesOK
<1> HIDE DEF f, new, next
<1>8. /\ LogOK' /\ DerivedIsExact' /\ tx'[r] = new /\ MeetOK(r)'
      /\ \A q \in Requests : q # r => SeenOK(q)'
  BY <1>1, <1>2, <1>3, <1>5, <1>6, InnerStep
<1>9. /\ \A e : Score(SeenElo(r, e), [u \in Users |-> SeenRating(r, u, e)])'
                = Score(SeenElo(r, e), [u \in Users |-> SeenRating(r, u, e)])
      /\ \A k : Alone(r, k)' <=> Alone(r, k)
      /\ Decided(tx[r].task)' <=> Decided(tx[r].task)
  BY <1>1, <1>3, <1>8, SightStays
<1>10. ranking' = ranking
  BY <1>1 DEF db
<1>11. ASSUME NEW e \in Entities, Alone(r, Title(e))' PROVE InputOK(r, e)'
  <2>1. Alone(r, Title(e)) /\ InputOK(r, e)
    BY <1>2, <1>9, <1>11 DEF SeenOK
  <2>2. SettledOK(r, e) /\ t.loaded[e] = ranking[e]
        /\ t.input[e] = Score(SeenElo(r, e), [u \in Users |-> SeenRating(r, u, e)])
    BY <1>1, <2>1 DEF InputOK
  <2>3. SettledOK(r, e)'
    <3>1. CASE rankOwner[e] = r \/ t.loaded[e] = t.input[e]
      BY <1>3, <1>7, <1>8, <3>1 DEF SettledOK
    <3>2. CASE e = f
      BY <1>3, <1>7, <1>8, <3>2 DEF SettledOK
    <3>3. CASE e # f /\ \E i \in DOMAIN t.todo : t.todo[i] = e
      <4>1. \E j \in DOMAIN Tail(t.todo) : Tail(t.todo)[j] = e
        BY <1>4, <3>3, HeadOrTail DEF f, Wants
      <4>2. Tail(t.todo) # <<>>
        BY <4>1
      <4> QED
        BY <1>3, <1>5, <1>8, <4>1, <4>2 DEF SettledOK
    <3> QED
      BY <2>2, <3>1, <3>2, <3>3 DEF SettledOK
  <2> QED
    BY <1>3, <1>8, <1>9, <1>10, <2>2, <2>3 DEF InputOK
<1>12. ASSUME NEW u \in Users, Alone(r, User(u))', tx'[r].pc \in {"stats", "commit"} PROVE FALSE
  <2>1. t.task.kind = "recompute"
    BY <1>3, <1>5, <1>8, <1>12
  <2>2. User(u) \in Keys(t.task)
    BY <1>9, <1>12 DEF Alone
  <2> QED
    BY <1>2, <2>1, <2>2, KeysOf
<1>13. SeenOK(r)'
  BY <1>1, <1>2, <1>3, <1>8, <1>9, <1>11, <1>12 DEF SeenOK
<1> QED
  BY <1>8, <1>13

LEMMA CountsHaveSeen ==
  ASSUME KInv, NEW r \in Requests, CountContributions(r) \/ UpsertStats(r)
  PROVE  LogOK' /\ DerivedIsExact' /\ \A q \in Requests : SeenOK(q)'
<1> DEFINE t == tx[r]
<1>1. t.pc \in {"count", "stats"} /\ UNCHANGED <<db, rankOwner>>
  BY DEF CountContributions, UpsertStats, At, owners
<1>2. IsTx(t) /\ Running(r) /\ SeenOK(r) /\ IsTask(t.task)
  BY <1>1 DEF KInv, JInv, IInv, ShapeOK, Running, OrderOK
<1>3. PICK new :
        /\ tx' = [tx EXCEPT ![r] = new] /\ new.pc \in {"stats", "commit"} /\ new.task = t.task
        /\ new.overlaps = t.overlaps /\ new.after = t.after /\ new.before = t.before
        /\ new.input = t.input /\ new.loaded = t.loaded
        /\ \/ new.counts = CountsOf(r, t.task.user)
           \/ t.pc = "stats" /\ new.counts = t.counts
  <2>1. CASE CountContributions(r)
    <3> DEFINE x == CountsOf(r, t.task.user)
               new == [t EXCEPT !.pc = "stats", !.counts = x]
    <3>1. tx' = [tx EXCEPT ![r] = new]
      BY <2>1 DEF CountContributions, CountsOf
    <3> HIDE DEF x
    <3>2. /\ new.pc = "stats" /\ new.task = t.task /\ new.overlaps = t.overlaps
          /\ new.after = t.after /\ new.before = t.before
          /\ new.input = t.input /\ new.loaded = t.loaded /\ new.counts = x
      BY <1>2 DEF IsTx, Fields
    <3> HIDE DEF new
    <3> QED
      BY <3>1, <3>2 DEF x
  <2>2. CASE UpsertStats(r)
    <3> DEFINE new == [t EXCEPT !.pc = "commit"]
    <3>1. tx' = [tx EXCEPT ![r] = new] /\ t.pc = "stats"
      BY <2>2 DEF UpsertStats, At
    <3>2. /\ new.pc = "commit" /\ new.task = t.task /\ new.overlaps = t.overlaps
          /\ new.after = t.after /\ new.before = t.before
          /\ new.input = t.input /\ new.loaded = t.loaded /\ new.counts = t.counts
      BY <1>2 DEF IsTx, Fields
    <3> HIDE DEF new
    <3> QED
      BY <3>1, <3>2
  <2> QED
    BY <2>1, <2>2
<1>4. /\ LogOK' /\ DerivedIsExact' /\ tx'[r] = new /\ MeetOK(r)'
      /\ \A q \in Requests : q # r => SeenOK(q)'
  BY <1>1, <1>2, <1>3, InnerStep
<1>5. /\ \A e : Score(SeenElo(r, e), [u \in Users |-> SeenRating(r, u, e)])'
                = Score(SeenElo(r, e), [u \in Users |-> SeenRating(r, u, e)])
      /\ \A u : CountsOf(r, u)' = CountsOf(r, u)
      /\ \A k : Alone(r, k)' <=> Alone(r, k)
      /\ Decided(tx[r].task)' <=> Decided(tx[r].task)
  BY <1>1, <1>3, <1>4, SightStays
<1>6. ranking' = ranking
  BY <1>1 DEF db
<1>7. ASSUME NEW e \in Entities, Alone(r, Title(e))' PROVE InputOK(r, e)'
  <2>1. Alone(r, Title(e)) /\ InputOK(r, e)
    BY <1>2, <1>5, <1>7 DEF SeenOK
  <2>2. SettledOK(r, e) => SettledOK(r, e)'
    BY <1>1, <1>3, <1>4 DEF SettledOK
  <2> QED
    BY <1>1, <1>3, <1>4, <1>5, <1>6, <2>1, <2>2 DEF InputOK
<1>8. ASSUME NEW u \in Users, Alone(r, User(u))' PROVE (tx[r].counts = CountsOf(r, u))'
  <2>1. Alone(r, User(u))
    BY <1>5, <1>8
  <2>2. u = t.task.user
    BY <1>2, <2>1, KeysOf DEF Alone
  <2>3. t.pc = "stats" => t.counts = CountsOf(r, u)
    BY <1>2, <2>1 DEF SeenOK
  <2> QED
    BY <1>3, <1>4, <1>5, <2>2, <2>3
<1>9. SeenOK(r)'
  BY <1>1, <1>2, <1>3, <1>4, <1>5, <1>7, <1>8 DEF SeenOK
<1> QED
  BY <1>4, <1>9

LEMMA WrittenAnew ==
  ASSUME NEW row, NEW a, NEW b PROVE Written(row, row, Score(a, b)) = Score(a, b)
<1>1. PICK x, y : Score(a, b) = [total_votes |-> x, computed_score |-> y]
  BY DEF Score
<1> DEFINE s == [total_votes |-> x, computed_score |-> y]
<1>2. [c \in DOMAIN s |-> IF row[c] # s[c] THEN s[c] ELSE row[c]] = s
  <2>1. DOMAIN s = {"total_votes", "computed_score"}
    OBVIOUS
  <2>2. \A c \in DOMAIN s : (IF row[c] # s[c] THEN s[c] ELSE row[c]) = s[c]
    OBVIOUS
  <2>3. s = [c \in DOMAIN s |-> s[c]]
    OBVIOUS
  <2> HIDE DEF s
  <2> QED
    BY <2>2, <2>3
<1> QED
  BY <1>1, <1>2 DEF Written

LEMMA LogIsFinite ==
  ASSUME pair_votes \in Seq(Vote), NEW u
  PROVE  IsFiniteSet(DecidedBy(u)) /\ Cardinality(DecidedBy(u)) \in Nat
<1> DEFINE n == Len(pair_votes)
<1>1. 1 \in Int /\ n \in Int /\ DOMAIN pair_votes = 1 .. n
  OBVIOUS
<1>2. IsFiniteSet(1 .. n)
  BY <1>1, FS_Interval, Zenon
<1>3. DecidedBy(u) \subseteq 1 .. n
  BY <1>1 DEF DecidedBy, VotesBy
<1> QED
  BY <1>2, <1>3, FS_Subset, FS_CardinalityType

\* One more vote in the log
LEMMA OneMoreVote ==
  ASSUME pair_votes \in Seq(Vote), NEW w, pair_votes' = Append(pair_votes, w), NEW u
  PROVE  /\ IsFiniteSet(DecidedBy(u)) /\ Cardinality(DecidedBy(u)) \in Nat
         /\ ~ (w.user = u /\ w.winner # "skip") => DecidedBy(u)' = DecidedBy(u)
         /\ w.user = u /\ w.winner # "skip" =>
              Cardinality(DecidedBy(u)') = Cardinality(DecidedBy(u)) + 1
<1> DEFINE n == Len(pair_votes)
<1>1. n \in Nat /\ DOMAIN pair_votes = 1 .. n
  OBVIOUS
<1>2. /\ DOMAIN pair_votes' = 1 .. n + 1 /\ pair_votes'[n + 1] = w
      /\ \A i \in 1 .. n : pair_votes'[i] = pair_votes[i]
  OBVIOUS
<1>3. 1 .. n + 1 = (1 .. n) \cup {n + 1} /\ n + 1 \notin 1 .. n
  BY <1>1
<1>4. DecidedBy(u) = {i \in 1 .. n : pair_votes[i].user = u /\ pair_votes[i].winner # "skip"}
  BY <1>1 DEF DecidedBy, VotesBy
<1>5. DecidedBy(u)' = {i \in 1 .. n + 1 : pair_votes'[i].user = u /\ pair_votes'[i].winner # "skip"}
  BY <1>2 DEF DecidedBy, VotesBy
<1>6. DecidedBy(u)' = DecidedBy(u) \cup (IF w.user = u /\ w.winner # "skip" THEN {n + 1} ELSE {})
  <2> HIDE DEF n
  <2> QED
    BY <1>2, <1>3, <1>4, <1>5
<1>7. n + 1 \notin DecidedBy(u)
  BY <1>3, <1>4
<1>8. IsFiniteSet(DecidedBy(u)) /\ Cardinality(DecidedBy(u)) \in Nat
  BY LogIsFinite
<1>9. w.user = u /\ w.winner # "skip" => Cardinality(DecidedBy(u)') = Cardinality(DecidedBy(u)) + 1
  <2> HIDE DEF n
  <2> QED
    BY <1>6, <1>7, <1>8, FS_AddElement
<1> QED
  BY <1>6, <1>8, <1>9

\* What a task is, by its kind
LEMMA TaskFields ==
  ASSUME NEW v, IsTask(v)
  PROVE  /\ v.kind \in {"vote", "rate", "recompute"}
         /\ v.kind = "vote" => /\ v.user \in Users /\ v.winner \in Winners
                               /\ v.items \in Entities \X Entities
         /\ v.kind = "rate" => /\ v.user \in Users /\ v.stars \in Stars \cup {None}
                               /\ v.items[1] \in Entities /\ Titles(v) = {v.items[1]}
<1>1. CASE \E u \in Users, l, e \in Entities, w \in Winners :
             v = [kind |-> "vote", user |-> u, items |-> <<l, e>>, winner |-> w]
  BY <1>1
<1>2. CASE \E u \in Users, e \in Entities, s \in Stars \cup {None} :
             v = [kind |-> "rate", user |-> u, items |-> <<e>>, stars |-> s]
  BY <1>2 DEF Titles
<1>3. CASE \E e \in Entities : v = [kind |-> "recompute", items |-> <<e>>]
  BY <1>3
<1> QED
  BY <1>1, <1>2, <1>3 DEF IsTask

\* A commit changes what its keys name, and no more
LEMMA CommitKeepsOthers ==
  ASSUME KInv, NEW r \in Requests, Commit(r), NEW v, v = tx[r].task
  PROVE  /\ LogOK'
         /\ \A e \in Entities : Title(e) \notin Keys(v) =>
              /\ EloOf(e)' = EloOf(e) /\ ranking'[e] = ranking[e]
              /\ \A u \in Users : rating'[u][e] = rating[u][e]
         /\ \A u \in Users : User(u) \notin Keys(v) =>
              rating'[u] = rating[u] /\ DecidedBy(u)' = DecidedBy(u) /\ stats'[u] = stats[u]
<1> DEFINE w == [user |-> v.user, items |-> v.items, winner |-> v.winner]
<1>1. /\ tx[r].pc = "commit"
      /\ elo' = IF v.kind # "vote" THEN elo
                ELSE [e \in Entities |-> IF e \in Titles(v) THEN tx[r].after[e] ELSE elo[e]]
      /\ pair_votes' = IF v.kind # "vote" THEN pair_votes ELSE Append(pair_votes, w)
      /\ rating' = IF v.kind # "rate" THEN rating ELSE [rating EXCEPT ![v.user][v.items[1]] = v.stars]
      /\ ranking' = [e \in Entities |->
                   IF rankOwner[e] = r THEN Written(ranking[e], tx[r].loaded[e], tx[r].input[e]) ELSE ranking[e]]
      /\ stats' = IF v.kind = "recompute" THEN stats ELSE [stats EXCEPT ![v.user] = tx[r].counts]
  BY DEF Commit, At
<1>2. IsTask(v) /\ OrderOK(r) /\ LocksOK(r) /\ LogOK /\ SeenOK(r) /\ Running(r)
  BY <1>1 DEF KInv, JInv, IInv, OrderOK, Running
<1>3. /\ v.kind \in {"vote", "rate", "recompute"}
      /\ v.kind = "vote" => v.user \in Users /\ v.winner \in Winners /\ v.items \in Entities \X Entities
      /\ v.kind = "rate" => /\ v.user \in Users /\ v.stars \in Stars \cup {None}
                            /\ v.items[1] \in Entities /\ Titles(v) = {v.items[1]}
  BY <1>2, TaskFields
<1>4. LogOK'
  <2>1. rating' \in [Users -> [Entities -> Stars \cup {None}]]
    BY <1>1, <1>2, <1>3 DEF LogOK
  <2>2. pair_votes' \in Seq(Vote)
    <3>1. v.kind = "vote" => w \in Vote
      BY <1>3 DEF Vote
    <3> HIDE DEF w
    <3> QED
      BY <1>1, <1>2, <3>1 DEF LogOK
  <2>3. stats' = [u \in Users |-> stats'[u]]
    BY <1>1, <1>2 DEF LogOK
  <2>4. ranking' = [e \in Entities |-> ranking'[e]]
    BY <1>1
  <2> QED
    BY <2>1, <2>2, <2>3, <2>4 DEF LogOK
<1>5. ASSUME NEW e \in Entities, Title(e) \notin Keys(v)
      PROVE  /\ EloOf(e)' = EloOf(e) /\ ranking'[e] = ranking[e]
             /\ \A u \in Users : rating'[u][e] = rating[u][e]
  <2>1. e \notin Titles(v) \/ (v.kind = "vote" /\ ~ Decided(v))
    BY <1>2, <1>5, KeysOf
  <2>2. EloOf(e)' = EloOf(e)
    <3>1. CASE v.kind # "vote" \/ e \notin Titles(v)
      BY <1>1, <3>1 DEF EloOf
    <3>2. CASE v.kind = "vote" /\ e \in Titles(v)
      <4>1. tx[r].after = tx[r].before /\ tx[r].before[e] = EloOf(e)
        BY <1>1, <1>2, <2>1, <3>2 DEF SeenOK, LocksOK, Owns
      <4>2. elo'[e] = EloOf(e)
        BY <1>1, <3>2, <4>1
      <4>3. EloOf(e) # None
        BY EloIsRow, QuickVoteConstantsOK DEF KInv, JInv, QuickVoteConstantsOK
      <4> QED
        BY <4>2, <4>3 DEF EloOf
    <3> QED
      BY <3>1, <3>2
  <2>3. rankOwner[e] # r
    BY <1>2, <2>1 DEF OrderOK
  <2>4. \A u \in Users : rating'[u][e] = rating[u][e]
    BY <1>1, <1>2, <1>3, <2>1 DEF LogOK
  <2> QED
    BY <1>1, <2>2, <2>3, <2>4
<1>6. ASSUME NEW u \in Users, User(u) \notin Keys(v)
      PROVE  rating'[u] = rating[u] /\ DecidedBy(u)' = DecidedBy(u) /\ stats'[u] = stats[u]
  <2>1. v.kind = "recompute" \/ u # v.user
    BY <1>2, <1>6, KeysOf
  <2>2. rating'[u] = rating[u] /\ stats'[u] = stats[u]
    BY <1>1, <1>2, <1>3, <2>1 DEF LogOK
  <2>3. DecidedBy(u)' = DecidedBy(u)
    <3>1. CASE v.kind # "vote"
      BY <1>1, <3>1 DEF DecidedBy, VotesBy
    <3>2. CASE v.kind = "vote"
      <4>1. w.user # u /\ pair_votes' = Append(pair_votes, w) /\ pair_votes \in Seq(Vote)
        BY <1>1, <1>2, <2>1, <3>2 DEF LogOK
      <4> HIDE DEF w
      <4> QED
        BY <4>1, OneMoreVote
    <3> QED
      BY <3>1, <3>2
  <2> QED
    BY <2>2, <2>3
<1> QED
  BY <1>4, <1>5, <1>6

\* Where r met nobody, the rows it leaves are those of its vote or rating
LEMMA CommitIsExact ==
  ASSUME KInv, NEW r \in Requests, Commit(r) PROVE DerivedIsExact'
<1> DEFINE v == tx[r].task
           t == tx[r]
           w == [user |-> v.user, items |-> v.items, winner |-> v.winner]
<1>1. /\ t.pc = "commit" /\ raced' = (raced \ Keys(v)) \cup t.overlaps
      /\ elo' = IF v.kind # "vote" THEN elo
                ELSE [e \in Entities |-> IF e \in Titles(v) THEN t.after[e] ELSE elo[e]]
      /\ pair_votes' = IF v.kind # "vote" THEN pair_votes ELSE Append(pair_votes, w)
      /\ rating' = IF v.kind # "rate" THEN rating ELSE [rating EXCEPT ![v.user][v.items[1]] = v.stars]
      /\ ranking' = [e \in Entities |->
                   IF rankOwner[e] = r THEN Written(ranking[e], t.loaded[e], t.input[e]) ELSE ranking[e]]
      /\ stats' = IF v.kind = "recompute" THEN stats ELSE [stats EXCEPT ![v.user] = t.counts]
  BY DEF Commit, At
<1>2. IsTask(v) /\ OrderOK(r) /\ LogOK /\ SeenOK(r) /\ Running(r) /\ MeetOK(r) /\ DerivedIsExact
  BY <1>1 DEF KInv, JInv, OrderOK, Running, SeenOK
<1>3. /\ v.kind \in {"vote", "rate", "recompute"}
      /\ v.kind = "vote" => v.user \in Users /\ v.winner \in Winners /\ v.items \in Entities \X Entities
      /\ v.kind = "rate" => /\ v.user \in Users /\ v.stars \in Stars \cup {None}
                            /\ v.items[1] \in Entities /\ Titles(v) = {v.items[1]}
  BY <1>2, TaskFields
<1>4. /\ \A e \in Entities : Title(e) \notin Keys(v) =>
           /\ EloOf(e)' = EloOf(e) /\ ranking'[e] = ranking[e]
           /\ \A u \in Users : rating'[u][e] = rating[u][e]
      /\ \A u \in Users : User(u) \notin Keys(v) =>
           rating'[u] = rating[u] /\ DecidedBy(u)' = DecidedBy(u) /\ stats'[u] = stats[u]
  BY CommitKeepsOthers
<1>5. /\ \A k : k \notin raced' /\ k \in Keys(v) => k \notin t.overlaps
      /\ \A k : k \notin raced' /\ k \notin Keys(v) => k \notin raced
  BY <1>1
<1>6. \A e \in Entities : \A u \in Users : Title(e) \in Keys(v) => rating'[u][e] = SeenRating(r, u, e)
  <2> SUFFICES ASSUME NEW e \in Entities, NEW u \in Users, Title(e) \in Keys(v)
               PROVE  rating'[u][e] = SeenRating(r, u, e)
    OBVIOUS
  <2>1. e \in Titles(v)
    BY <1>2, KeysOf
  <2> QED
    BY <1>1, <1>2, <1>3, <2>1 DEF SeenRating, LogOK
<1>7. ASSUME NEW e \in Entities, Title(e) \notin raced'
      PROVE  LET exact == Score(EloOf(e)', [u \in Users |-> rating'[u][e]])
             IN  ranking'[e] = exact \/ (ranking'[e] = None /\ exact = Score(DefaultElo, [u \in Users |-> None]))
  <2>1. CASE Title(e) \in Keys(v)
    <3>1. Alone(r, Title(e)) /\ e \in Titles(v)
      BY <1>2, <1>5, <1>7, <2>1, KeysOf DEF Alone
    <3>2. /\ t.input[e] = Score(SeenElo(r, e), [u \in Users |-> SeenRating(r, u, e)])
          /\ t.loaded[e] = ranking[e] /\ (rankOwner[e] = r \/ t.loaded[e] = t.input[e])
      BY <1>1, <1>2, <3>1 DEF SeenOK, InputOK, SettledOK
    <3>3. SeenElo(r, e) = EloOf(e)'
      <4>1. CASE v.kind = "vote"
        <5>1. t.after \in [Titles(v) -> Row] /\ Titles(v) \subseteq Entities
          BY <1>1, <1>2, <4>1, TaskQueue DEF OrderOK, MovedOK
        <5>2. t.after # None /\ t.after[e] # None
          BY <3>1, <5>1, QuickVoteConstantsOK DEF QuickVoteConstantsOK
        <5>3. elo'[e] = t.after[e]
          BY <1>1, <3>1, <4>1
        <5> QED
          BY <5>2, <5>3 DEF SeenElo, EloOf
      <4>2. CASE v.kind # "vote"
        <5>1. t.after = None /\ elo' = elo
          BY <1>1, <1>2, <4>2 DEF OrderOK, MovedOK
        <5> QED
          BY <5>1 DEF SeenElo, EloOf
      <4> QED
        BY <4>1, <4>2
    <3>4. [u \in Users |-> SeenRating(r, u, e)] = [u \in Users |-> rating'[u][e]]
      BY <1>6, <2>1
    <3>5. ranking'[e] = t.input[e]
      <4>1. CASE rankOwner[e] = r
        <5>1. ranking'[e] = Written(ranking[e], ranking[e], t.input[e])
          BY <1>1, <3>2, <4>1
        <5> QED
          BY <3>2, <5>1, WrittenAnew
      <4>2. CASE rankOwner[e] # r
        BY <1>1, <3>2, <4>2
      <4> QED
        BY <4>1, <4>2
    <3> QED
      BY <3>2, <3>3, <3>4, <3>5
  <2>2. CASE Title(e) \notin Keys(v)
    <3>1. /\ EloOf(e)' = EloOf(e) /\ ranking'[e] = ranking[e]
          /\ \A u \in Users : rating'[u][e] = rating[u][e]
      BY <1>4, <2>2
    <3>2. [u \in Users |-> rating[u][e]] = [u \in Users |-> rating'[u][e]]
      BY <3>1
    <3>3. Title(e) \notin raced
      BY <1>5, <1>7, <2>2
    <3> QED
      BY <1>2, <3>1, <3>2, <3>3 DEF DerivedIsExact, RankingIsExact, Title
  <2> QED
    BY <2>1, <2>2
<1>8. ASSUME NEW u \in Users, User(u) \notin raced'
      PROVE  stats'[u] = [votes_count |-> Cardinality({e \in Entities : rating'[u][e] # None}),
                          battles_count |-> Cardinality(DecidedBy(u)')]
  <2>1. CASE User(u) \in Keys(v)
    <3>1. Alone(r, User(u)) /\ v.kind # "recompute" /\ u = v.user
      BY <1>2, <1>5, <1>8, <2>1, KeysOf DEF Alone
    <3>2. stats'[u] = CountsOf(r, u)
      BY <1>1, <1>2, <3>1 DEF SeenOK, LogOK
    <3>3. \A e \in Entities : rating'[u][e] = SeenRating(r, u, e)
      BY <1>1, <1>2, <1>3, <3>1 DEF SeenRating, LogOK
    <3>4. {e \in Entities : SeenRating(r, u, e) # None} = {e \in Entities : rating'[u][e] # None}
      BY <3>3
    <3>5. Cardinality(DecidedBy(u)') = Cardinality(DecidedBy(u)) + (IF Decided(v) THEN 1 ELSE 0)
      <4>1. CASE v.kind # "vote"
        <5>1. DecidedBy(u)' = DecidedBy(u) /\ ~ Decided(v)
          BY <1>1, <4>1 DEF DecidedBy, VotesBy, Decided
        <5>2. Cardinality(DecidedBy(u)) \in Nat
          <6>1. pair_votes \in Seq(Vote)
            BY <1>2 DEF LogOK
          <6> QED
            BY <6>1, LogIsFinite
        <5> QED
          BY <5>1, <5>2
      <4>2. CASE v.kind = "vote"
        <5>1. w.user = u /\ pair_votes' = Append(pair_votes, w) /\ pair_votes \in Seq(Vote)
          BY <1>1, <1>2, <3>1, <4>2 DEF LogOK
        <5>2. w.winner # "skip" <=> Decided(v)
          BY <4>2 DEF Decided
        <5> HIDE DEF w
        <5> QED
          BY <5>1, <5>2, OneMoreVote
      <4> QED
        BY <4>1, <4>2
    <3> QED
      BY <3>2, <3>4, <3>5 DEF CountsOf
  <2>2. CASE User(u) \notin Keys(v)
    <3>1. rating'[u] = rating[u] /\ DecidedBy(u)' = DecidedBy(u) /\ stats'[u] = stats[u]
      BY <1>4, <2>2
    <3>2. User(u) \notin raced
      BY <1>5, <1>8, <2>2
    <3> QED
      BY <1>2, <3>1, <3>2 DEF DerivedIsExact, ContributionsAreExact, User
  <2> QED
    BY <2>1, <2>2
<1>9. RankingIsExact'
  BY <1>7 DEF RankingIsExact, Title
<1>10. ContributionsAreExact'
  BY <1>8 DEF ContributionsAreExact, User
<1> QED
  BY <1>9, <1>10 DEF DerivedIsExact

\* What others have read survives the end of r
LEMMA EndKeepsSeen ==
  ASSUME KInv, NEW r \in Requests, Commit(r) \/ Abort(r) PROVE \A q \in Requests : SeenOK(q)'
<1> DEFINE v == tx[r].task
<1>1. Running(r) /\ Release(r)
  BY DEF Commit, Abort, At, Running
<1>2. tx'[r] = Idle /\ \A q \in Requests : q # r => tx'[q] = tx[q] /\ Same(q)
  BY <1>1, OneMoves DEF Release, KInv, JInv
<1>3. Idle.pc = "idle" /\ None \notin Requests
  BY QuickVoteConstantsOK DEF Idle, QuickVoteConstantsOK
<1>4. SeenOK(r)'
  BY <1>2, <1>3 DEF SeenOK, Running
<1>5. ASSUME NEW q \in Requests, q # r PROVE SeenOK(q)'
  <2>1. SeenOK(q) /\ OrderOK(q) /\ OrderOK(r) /\ LocksOK(q) /\ LocksOK(r) /\ tx'[q] = tx[q] /\ Same(q)
    BY <1>2, <1>5 DEF KInv, JInv, IInv
  <2>2. \A e \in Entities : rankOwner'[e] = q <=> rankOwner[e] = q
    BY <1>1, <1>3, <1>5 DEF Release, Without, KInv, JInv, TablesOK
  <2>3. Running(q) => MeetOK(q)'
    BY <1>2, <1>3, <2>1, MeetStays DEF SeenOK, Running
  <2>4. CASE Abort(r)
    <3>1. UNCHANGED <<elo, pair_votes, rating, ranking>>
      BY <2>4 DEF Abort, db
    <3>2. /\ \A e : EloOf(e)' = EloOf(e)
          /\ \A u : DecidedBy(u)' = DecidedBy(u)
      BY <3>1 DEF EloOf, DecidedBy, VotesBy
    <3> QED
      BY <2>1, <2>2, <2>3, <3>1, <3>2, OtherHasSeen
  <2>5. CASE Commit(r)
    <3>1. /\ \A e \in Entities : Title(e) \notin Keys(v) =>
               /\ EloOf(e)' = EloOf(e) /\ ranking'[e] = ranking[e]
               /\ \A u \in Users : rating'[u][e] = rating[u][e]
          /\ \A u \in Users : User(u) \notin Keys(v) =>
               rating'[u] = rating[u] /\ DecidedBy(u)' = DecidedBy(u)
      BY <2>5, CommitKeepsOthers
    <3>2. tx[r].pc = "commit" /\ IsTask(v)
      BY <1>1, <2>1, <2>5 DEF Commit, At, OrderOK, Running
    <3>3. Running(q) => Overlap(v, tx[q].task) \subseteq tx[q].overlaps /\ IsTask(tx[q].task)
      BY <1>1, <1>5, <2>1 DEF SeenOK, MeetOK, OrderOK, Running
    <3>4. ASSUME NEW e \in Entities, Alone(q, Title(e)),
                 tx[q].pc \in {"load", "flush", "count", "stats", "commit"}, Title(e) \in Keys(v)
          PROVE  FALSE
      <4>1. Running(q) /\ Title(e) \in Keys(tx[q].task) /\ Title(e) \notin tx[q].overlaps
        BY <3>4 DEF Running, Alone
      <4>2. Decided(v) /\ Decided(tx[q].task)
        BY <3>3, <3>4, <4>1, OverlapOf
      <4>3. e \in Titles(v) /\ e \in Titles(tx[q].task)
        BY <3>2, <3>3, <3>4, <4>1, KeysOf
      <4>4. eloOwner[e] = r
        BY <2>1, <3>2, <4>2, <4>3 DEF LocksOK, Owns, Decided
      <4>5. eloOwner[e] = q
        BY <2>1, <3>4, <4>2, <4>3 DEF LocksOK, Owns, Decided
      <4> QED
        BY <1>5, <4>4, <4>5
    <3>5. ASSUME NEW u \in Users, Running(q), Alone(q, User(u)), User(u) \in Keys(v)
          PROVE  FALSE
      <4>1. User(u) \in Overlap(v, tx[q].task)
        BY <3>5, OverlapOf DEF Alone
      <4> QED
        BY <3>3, <3>5, <4>1 DEF Alone
    <3> QED
      BY <2>1, <2>2, <2>3, <3>1, <3>4, <3>5, OtherHasSeen
  <2> QED
    BY <2>4, <2>5
<1> QED
  BY <1>4, <1>5

LEMMA NextIsExact == ASSUME KInv, [Next]_vars PROVE KInv'
<1>1. JInv'
  BY NextInOrder DEF KInv
<1>2. LogOK' /\ DerivedIsExact' /\ \A q \in Requests : SeenOK(q)'
  <2>1. ASSUME NEW r \in Requests, Commit(r) PROVE LogOK' /\ DerivedIsExact' /\ \A q \in Requests : SeenOK(q)'
    BY <2>1, CommitKeepsOthers, CommitIsExact, EndKeepsSeen
  <2>2. ASSUME NEW r \in Requests, Abort(r) PROVE LogOK' /\ DerivedIsExact' /\ \A q \in Requests : SeenOK(q)'
    BY <2>2, TablesStay, EndKeepsSeen DEF Abort, KInv
  <2>3. CASE UNCHANGED vars
    <3>1. UNCHANGED <<db, rankOwner, tx>>
      BY <2>3 DEF vars, owners
    <3>2. UNCHANGED <<elo, pair_votes, rating, ranking>>
      BY <3>1 DEF db
    <3>3. /\ \A e : EloOf(e)' = EloOf(e)
          /\ \A u : DecidedBy(u)' = DecidedBy(u)
      BY <3>2 DEF EloOf, DecidedBy, VotesBy
    <3>4. ASSUME NEW q \in Requests PROVE SeenOK(q)'
      <4>1. SeenOK(q) /\ Same(q)
        BY <3>1 DEF KInv, Same
      <4>2. Running(q) => MeetOK(q)'
        BY <3>1, <4>1, MeetStays DEF SeenOK, Running
      <4> QED
        BY <3>1, <3>2, <3>3, <4>1, <4>2, OtherHasSeen
    <3> QED
      BY <3>1, <3>4, TablesStay DEF KInv
  <2>4. CASE Next
    <3>1. PICK r \in Requests :
             \/ Start(r)
             \/ InsertElo(r) \/ LockElo(r) \/ ApplyVote(r)
             \/ ReadInputs(r) \/ LoadRankings(r) \/ FlushRanking(r)
             \/ CountContributions(r) \/ UpsertStats(r)
             \/ Commit(r) \/ Abort(r)
      BY <2>4 DEF Next
    <3> QED
      BY <2>1, <2>2, <3>1, StartHasSeen, LocksHaveSeen, ApplyHasSeen, ReadHasSeen, LoadHasSeen,
         FlushHasSeen, CountsHaveSeen
  <2> QED
    BY <2>3, <2>4
<1> QED
  BY <1>1, <1>2 DEF KInv

LEMMA InitIsExact == Init => KInv
<1> SUFFICES ASSUME Init PROVE KInv
  OBVIOUS
<1>1. LogOK
  <2>1. \A row : [e \in Entities |-> row] = [e \in Entities |-> [f \in Entities |-> row][e]]
    OBVIOUS
  <2> QED
    BY <2>1 DEF Init, LogOK
<1>2. \A r \in Requests : ~ Running(r)
  BY DEF Init, Running, Idle
<1>3. \A e \in Entities : EloOf(e) = DefaultElo
  BY DEF Init, EloOf
<1>4. RankingIsExact
  <2> SUFFICES ASSUME NEW e \in Entities
               PROVE  LET exact == Score(EloOf(e), [u \in Users |-> rating[u][e]])
                      IN  \/ ranking[e] = exact
                          \/ ranking[e] = None /\ exact = Score(DefaultElo, [u \in Users |-> None])
    BY DEF RankingIsExact
  <2>1. [u \in Users |-> rating[u][e]] = [u \in Users |-> None]
    BY DEF Init
  <2>2. ranking[e] = None \/ ranking[e] = Score(DefaultElo, [u \in Users |-> None])
    BY DEF Init
  <2> QED
    BY <1>3, <2>1, <2>2
<1>5. ContributionsAreExact
  <2> SUFFICES ASSUME NEW u \in Users
               PROVE  stats[u] = [votes_count |-> Cardinality({e \in Entities : rating[u][e] # None}),
                                  battles_count |-> Cardinality(DecidedBy(u))]
    BY DEF ContributionsAreExact
  <2>1. {e \in Entities : rating[u][e] # None} = {} /\ DecidedBy(u) = {}
    BY DEF Init, DecidedBy, VotesBy
  <2>2. stats[u] = [votes_count |-> 0, battles_count |-> 0]
    BY DEF Init
  <2> QED
    BY <2>1, <2>2, FS_EmptySet
<1> QED
  BY <1>1, <1>2, <1>4, <1>5, InitInOrder DEF KInv, SeenOK, DerivedIsExact

\* The ranking row of a title is what its votes and ratings make of it, and the
\* counts on a profile are those of the log, however many votes, ratings,
\* recomputes and rollbacks interleave: only a transaction that overlapped
\* another change of the same title, or of the same user, leaves a derived row
\* behind, and votes on a title do not count as that, as they queue up at its
\* Elo row (recompute_entities, compute_contribution_stats, lock_elo_rows).
THEOREM DerivedIsAlwaysExact == Spec => []DerivedIsExact
<1>1. Init => KInv
  BY InitIsExact
<1>2. KInv /\ [Next]_vars => KInv'
  BY NextIsExact
<1>3. KInv => DerivedIsExact
  BY DEF KInv
<1> QED
  BY <1>1, <1>2, <1>3, PTL DEF Spec
-----------------------------------------------------------------------------
(* The Elo table and the log of votes tell the same story, and the log of a *)
(* day holds no more votes than the limit and the votes in flight allow     *)

\* A vote that has moved its titles has counted itself once for each
PlayedOK(r) ==
  LET t == tx[r] IN
  t.task.kind = "vote" /\ t.pc \notin {"insert", "lock"} /\ Decided(t.task) =>
    \A e \in Titles(t.task) : t.after[e].played = t.before[e].played + 1

\* The votes of a user that are neither stored nor given up
InFlight(u) == {r \in Requests : tx[r].task.kind = "vote" /\ tx[r].task.user = u}

RoomOK == \A u \in Users : Cardinality(VotesBy(u)) + Cardinality(InFlight(u)) < Limit + Cardinality(Requests)

PInv == KInv /\ (\A r \in Requests : PlayedOK(r)) /\ PlayedIsVotesCast /\ RoomOK

\* The votes of the log that are of a kind
Among(S) == {i \in DOMAIN pair_votes : pair_votes[i] \in S}

LEMMA LogIsCounted ==
  ASSUME pair_votes \in Seq(Vote), NEW S
  PROVE  IsFiniteSet(Among(S)) /\ Cardinality(Among(S)) \in Nat
<1> DEFINE n == Len(pair_votes)
<1>1. 1 \in Int /\ n \in Int /\ DOMAIN pair_votes = 1 .. n
  OBVIOUS
<1>2. IsFiniteSet(1 .. n)
  BY <1>1, FS_Interval, Zenon
<1>3. Among(S) \subseteq 1 .. n
  BY <1>1 DEF Among
<1> QED
  BY <1>2, <1>3, FS_Subset, FS_CardinalityType

\* One more vote in the log
LEMMA LogGrows ==
  ASSUME pair_votes \in Seq(Vote), NEW w, pair_votes' = Append(pair_votes, w), NEW S
  PROVE  Cardinality(Among(S)') = Cardinality(Among(S)) + (IF w \in S THEN 1 ELSE 0)
<1> DEFINE n == Len(pair_votes)
<1>1. n \in Nat /\ DOMAIN pair_votes = 1 .. n
  OBVIOUS
<1>2. /\ DOMAIN pair_votes' = 1 .. n + 1 /\ pair_votes'[n + 1] = w
      /\ \A i \in 1 .. n : pair_votes'[i] = pair_votes[i]
  OBVIOUS
<1>3. 1 .. n + 1 = (1 .. n) \cup {n + 1} /\ n + 1 \notin 1 .. n
  BY <1>1
<1>4. Among(S) = {i \in 1 .. n : pair_votes[i] \in S}
  BY <1>1 DEF Among
<1>5. Among(S)' = {i \in 1 .. n + 1 : pair_votes'[i] \in S}
  BY <1>2 DEF Among
<1> HIDE DEF n
<1>8. Among(S)' = Among(S) \cup (IF w \in S THEN {n + 1} ELSE {}) /\ n + 1 \notin Among(S)
  BY <1>2, <1>3, <1>4, <1>5
<1>9. IsFiniteSet(Among(S)) /\ Cardinality(Among(S)) \in Nat
  BY LogIsCounted
<1>10. CASE w \in S
  <2>1. Among(S)' = Among(S) \cup {n + 1}
    BY <1>8, <1>10
  <2> QED
    BY <1>8, <1>9, <1>10, <2>1, FS_AddElement
<1>11. CASE w \notin S
  BY <1>8, <1>9, <1>11
<1> QED
  BY <1>10, <1>11

\* The votes on a title, and those of a user, by what they are
VotesOn(e) == {v \in Vote : v.winner # "skip" /\ e \in {v.items[1], v.items[2]}}
VotesOf(u) == {v \in Vote : v.user = u}

LEMMA LogByKind ==
  ASSUME pair_votes \in Seq(Vote)
  PROVE  /\ RoomOK <=> \A u \in Users :
              Cardinality(Among(VotesOf(u))) + Cardinality(InFlight(u)) < Limit + Cardinality(Requests)
         /\ PlayedIsVotesCast <=>
              \A e \in Entities : EloOf(e).played = Cardinality(Among(VotesOn(e)))
<1>1. \A i \in DOMAIN pair_votes : pair_votes[i] \in Vote
  OBVIOUS
<1>2. \A u : VotesBy(u) = Among(VotesOf(u))
  BY <1>1 DEF VotesBy, Among, VotesOf
<1>3. \A e : {i \in DOMAIN pair_votes : pair_votes[i].winner # "skip"
                /\ e \in {pair_votes[i].items[1], pair_votes[i].items[2]}} = Among(VotesOn(e))
  BY <1>1 DEF Among, VotesOn
<1> QED
  BY <1>2, <1>3, Zenon DEF RoomOK, PlayedIsVotesCast

\* ... and after a step
LEMMA LogByKindNext ==
  ASSUME pair_votes' \in Seq(Vote)
  PROVE  /\ RoomOK' <=> \A u \in Users :
              Cardinality(Among(VotesOf(u))') + Cardinality(InFlight(u)') < Limit + Cardinality(Requests)
         /\ PlayedIsVotesCast' <=>
              \A e \in Entities : EloOf(e)'.played = Cardinality(Among(VotesOn(e))')
<1>1. \A i \in DOMAIN pair_votes' : pair_votes'[i] \in Vote
  OBVIOUS
<1>2. \A u : VotesBy(u)' = Among(VotesOf(u))'
  BY <1>1 DEF VotesBy, Among, VotesOf
<1>3. \A e : {i \in DOMAIN pair_votes' : pair_votes'[i].winner # "skip"
                /\ e \in {pair_votes'[i].items[1], pair_votes'[i].items[2]}} = Among(VotesOn(e))'
  BY <1>1 DEF Among, VotesOn
<1> QED
  BY <1>2, <1>3, Zenon DEF RoomOK, PlayedIsVotesCast

\* The votes in flight are at most the requests
LEMMA FewInFlight ==
  ASSUME NEW u
  PROVE  /\ IsFiniteSet(InFlight(u)) /\ Cardinality(InFlight(u)) \in Nat /\ Cardinality(Requests) \in Nat
         /\ Cardinality(InFlight(u)) <= Cardinality(Requests)
<1>1. IsFiniteSet(Requests) /\ InFlight(u) \subseteq Requests
  BY QuickVoteConstantsOK DEF QuickVoteConstantsOK, InFlight
<1> QED
  BY <1>1, FS_Subset, FS_CardinalityType

\* Whether PlayedOK holds depends on the transaction alone
LEMMA PlayedStays ==
  ASSUME NEW r \in Requests, PlayedOK(r), tx'[r].task = tx[r].task,
         tx'[r].before = tx[r].before, tx'[r].after = tx[r].after,
         tx'[r].pc \notin {"insert", "lock"} => tx[r].pc \notin {"insert", "lock"}
  PROVE  PlayedOK(r)'
<1>1. Titles(tx[r].task)' = Titles(tx[r].task) /\ (Decided(tx[r].task)' <=> Decided(tx[r].task))
  BY DEF Titles, Decided
<1> QED
  BY <1>1 DEF PlayedOK

\* Nothing is stored, begun or given up
LEMMA RoomStays ==
  ASSUME PInv, UNCHANGED <<elo, pair_votes>>, \A q \in Requests : tx'[q].task = tx[q].task
  PROVE  PlayedIsVotesCast' /\ RoomOK'
<1>1. \A e : EloOf(e)' = EloOf(e)
  BY DEF EloOf
<1>2. \A u : VotesBy(u)' = VotesBy(u) /\ InFlight(u)' = InFlight(u)
  BY DEF VotesBy, InFlight
<1> QED
  BY <1>1, <1>2 DEF PInv, PlayedIsVotesCast, RoomOK

\* A step within a transaction, other than the one that moves the scores
LEMMA InnerMoves ==
  ASSUME IInv, NEW r \in Requests,
         \/ InsertElo(r) \/ LockElo(r) \/ ReadInputs(r) \/ LoadRankings(r) \/ FlushRanking(r)
         \/ CountContributions(r) \/ UpsertStats(r)
  PROVE  /\ UNCHANGED <<elo, pair_votes>>
         /\ \A q \in Requests :
              /\ tx'[q].task = tx[q].task /\ tx'[q].before = tx[q].before /\ tx'[q].after = tx[q].after
              /\ tx'[q].pc \notin {"insert", "lock"} => tx[q].pc \notin {"insert", "lock"}
<1>1. IsTx(tx[r])
  BY DEF IInv, ShapeOK
<1>2. UNCHANGED <<elo, pair_votes>>
  BY DEF InsertElo, LockElo, ReadInputs, LoadRankings, FlushRanking, CountContributions, UpsertStats, db
<1>3. \E new : /\ tx' = [tx EXCEPT ![r] = new]
               /\ new.task = tx[r].task /\ new.before = tx[r].before /\ new.after = tx[r].after
               /\ new.pc \notin {"insert", "lock"} => tx[r].pc \notin {"insert", "lock"}
  <2>1. \A pc, x : LET new == [tx[r] EXCEPT !.pc = pc, !.todo = x] IN
          new.task = tx[r].task /\ new.before = tx[r].before /\ new.after = tx[r].after /\ new.pc = pc
    BY <1>1 DEF IsTx, Fields
  <2>2. \A x : LET new == [tx[r] EXCEPT !.todo = x] IN
          new.task = tx[r].task /\ new.before = tx[r].before /\ new.after = tx[r].after /\ new.pc = tx[r].pc
    BY <1>1 DEF IsTx, Fields
  <2>3. \A pc, x : LET new == [tx[r] EXCEPT !.pc = pc, !.input = x] IN
          new.task = tx[r].task /\ new.before = tx[r].before /\ new.after = tx[r].after /\ new.pc = pc
    BY <1>1 DEF IsTx, Fields
  <2>4. \A pc, x, y : LET new == [tx[r] EXCEPT !.pc = pc, !.todo = x, !.loaded = y] IN
          new.task = tx[r].task /\ new.before = tx[r].before /\ new.after = tx[r].after /\ new.pc = pc
    BY <1>1 DEF IsTx, Fields
  <2>5. \A pc, x : LET new == [tx[r] EXCEPT !.todo = x, !.pc = pc] IN
          new.task = tx[r].task /\ new.before = tx[r].before /\ new.after = tx[r].after /\ new.pc = pc
    BY <1>1 DEF IsTx, Fields
  <2>6. \A pc, x : LET new == [tx[r] EXCEPT !.pc = pc, !.counts = x] IN
          new.task = tx[r].task /\ new.before = tx[r].before /\ new.after = tx[r].after /\ new.pc = pc
    BY <1>1 DEF IsTx, Fields
  <2>7. \A pc : LET new == [tx[r] EXCEPT !.pc = pc] IN
          new.task = tx[r].task /\ new.before = tx[r].before /\ new.after = tx[r].after /\ new.pc = pc
    BY <1>1 DEF IsTx, Fields
  <2>8. CASE InsertElo(r)
    <3>1. CASE Len(tx[r].todo) = 1
      <4>1. tx[r].pc = "insert"
            /\ tx' = [tx EXCEPT ![r] = [tx[r] EXCEPT !.pc = "lock", !.todo = LockOrder(tx[r].task.items)]]
        BY <2>8, <3>1 DEF InsertElo, At
      <4> DEFINE x == LockOrder(tx[r].task.items)
                 new == [tx[r] EXCEPT !.pc = "lock", !.todo = x]
      <4>2. /\ tx' = [tx EXCEPT ![r] = new] /\ new.pc = "lock"
            /\ new.task = tx[r].task /\ new.before = tx[r].before /\ new.after = tx[r].after
        <5> HIDE DEF x
        <5> QED
          BY <2>1, <4>1 DEF x
      <4> HIDE DEF new
      <4> QED
        BY <4>2
    <3>2. CASE Len(tx[r].todo) # 1
      <4>1. tx' = [tx EXCEPT ![r] = [tx[r] EXCEPT !.todo = Tail(tx[r].todo)]]
        BY <1>1, <2>8, <3>2 DEF InsertElo, IsTx, Fields
      <4> QED
        BY <2>2, <4>1
    <3> QED
      BY <3>1, <3>2
  <2>9. CASE LockElo(r)
    <3>1. tx' = [tx EXCEPT ![r] = [tx[r] EXCEPT !.todo = Tail(tx[r].todo)]]
      BY <2>9 DEF LockElo, IInv, ShapeOK
    <3> QED
      BY <2>2, <3>1
  <2>10. CASE ReadInputs(r)
    <3>1. \E x : tx' = [tx EXCEPT ![r] = [tx[r] EXCEPT !.pc = "load", !.input = x]]
      BY <2>10 DEF ReadInputs, IInv, ShapeOK
    <3>2. tx[r].pc = "read"
      BY <2>10 DEF ReadInputs, At
    <3> QED
      BY <2>3, <3>1, <3>2
  <2>11. CASE LoadRankings(r)
    <3>1. \E x, y : tx' = [tx EXCEPT ![r] = [tx[r] EXCEPT !.pc = "flush", !.todo = x, !.loaded = y]]
      BY <2>11 DEF LoadRankings, IInv, ShapeOK
    <3>2. tx[r].pc = "load"
      BY <2>11 DEF LoadRankings, At
    <3>3. PICK x, y : tx' = [tx EXCEPT ![r] = [tx[r] EXCEPT !.pc = "flush", !.todo = x, !.loaded = y]]
      BY <3>1
    <3> DEFINE new == [tx[r] EXCEPT !.pc = "flush", !.todo = x, !.loaded = y]
    <3>4. /\ tx' = [tx EXCEPT ![r] = new]
          /\ new.task = tx[r].task /\ new.before = tx[r].before /\ new.after = tx[r].after
      BY <2>4, <3>3
    <3> HIDE DEF new
    <3> QED
      BY <3>2, <3>4
  <2>12. CASE FlushRanking(r)
    <3>1. \E x, pc : tx' = [tx EXCEPT ![r] = [tx[r] EXCEPT !.todo = x, !.pc = pc]]
      BY <2>12 DEF FlushRanking, IInv, ShapeOK
    <3>2. tx[r].pc = "flush"
      BY <2>12 DEF FlushRanking, At
    <3> QED
      BY <2>5, <3>1, <3>2
  <2>13. CASE CountContributions(r)
    <3>1. \E x : tx' = [tx EXCEPT ![r] = [tx[r] EXCEPT !.pc = "stats", !.counts = x]]
      BY <2>13 DEF CountContributions, IInv, ShapeOK
    <3>2. tx[r].pc = "count"
      BY <2>13 DEF CountContributions, At
    <3> QED
      BY <2>6, <3>1, <3>2
  <2>14. CASE UpsertStats(r)
    <3>1. tx' = [tx EXCEPT ![r] = [tx[r] EXCEPT !.pc = "commit"]]
      BY <2>14 DEF UpsertStats, IInv, ShapeOK
    <3>2. tx[r].pc = "stats"
      BY <2>14 DEF UpsertStats, At
    <3> QED
      BY <2>7, <3>1, <3>2
  <2> QED
    BY <2>8, <2>9, <2>10, <2>11, <2>12, <2>13, <2>14
<1>4. PICK new : /\ tx' = [tx EXCEPT ![r] = new]
                 /\ new.task = tx[r].task /\ new.before = tx[r].before /\ new.after = tx[r].after
                 /\ new.pc \notin {"insert", "lock"} => tx[r].pc \notin {"insert", "lock"}
  BY <1>3
<1>5. tx'[r] = new /\ \A q \in Requests : q # r => tx'[q] = tx[q]
  BY <1>4, OneMoves
<1> QED
  BY <1>2, <1>4, <1>5

LEMMA StartPlays == ASSUME PInv, NEW r \in Requests, Start(r) PROVE PInv'
<1>1. PICK v, pc : /\ Begin(r, pc, v) /\ IsTask(v)
                   /\ \/ pc = "insert" /\ v.kind = "vote" /\ MayVote(v.user)
                      \/ pc = "read" /\ v.kind # "vote"
  BY StartTasks
<1>2. /\ tx[r].pc = "idle" /\ UNCHANGED <<db, owners>>
      /\ tx'[r].pc = pc /\ tx'[r].task = v
      /\ \A q \in Requests : q # r => Same(q)
  <2>1. IInv
    BY DEF PInv, KInv, JInv
  <2>2. Began(r, pc, v)
    BY <1>1, <2>1, BeginMoves
  <2> QED
    BY <2>2 DEF Began
<1>3. UNCHANGED <<elo, pair_votes>> /\ LogOK /\ tx[r].task.kind = "none"
  BY <1>2 DEF db, PInv, KInv, JInv, IInv, LocksOK
<1>4. KInv'
  BY NextIsExact DEF PInv, Next
<1>5. ASSUME NEW q \in Requests PROVE PlayedOK(q)'
  <2>1. CASE q = r
    BY <1>1, <1>2, <2>1 DEF PlayedOK
  <2>2. CASE q # r
    BY <1>2, <2>2, PlayedStays DEF PInv, Same
  <2> QED
    BY <2>1, <2>2
<1>6. PlayedIsVotesCast'
  <2>1. \A e : EloOf(e)' = EloOf(e)
    BY <1>3 DEF EloOf
  <2> QED
    BY <1>3, <2>1 DEF PInv, PlayedIsVotesCast
<1>7. RoomOK'
  <2> SUFFICES ASSUME NEW u \in Users
               PROVE  Cardinality(VotesBy(u)') + Cardinality(InFlight(u)') < Limit + Cardinality(Requests)
    BY Zenon DEF RoomOK
  <2>1. VotesBy(u)' = VotesBy(u)
    BY <1>3 DEF VotesBy
  <2>2. CASE v.kind = "vote" /\ v.user = u
    <3>1. Cardinality(VotesBy(u)) < Limit
      BY <1>1, <2>2 DEF MayVote
    <3>2. InFlight(u)' \subseteq Requests /\ IsFiniteSet(Requests)
      BY QuickVoteConstantsOK DEF InFlight, QuickVoteConstantsOK
    <3>3. Cardinality(InFlight(u)') <= Cardinality(Requests)
      BY <3>2, FS_Subset
    <3>4. VotesBy(u) = Among(VotesOf(u))
      BY <1>3 DEF LogOK, VotesBy, Among, VotesOf
    <3>5. Cardinality(VotesBy(u)) \in Nat /\ Cardinality(InFlight(u)') \in Nat
          /\ Cardinality(Requests) \in Nat /\ Limit \in Nat
      BY <1>3, <3>2, <3>4, LogIsCounted, FS_Subset, FS_CardinalityType, QuickVoteConstantsOK
         DEF LogOK, QuickVoteConstantsOK
    <3> QED
      BY <2>1, <3>1, <3>3, <3>5
  <2>3. CASE ~ (v.kind = "vote" /\ v.user = u)
    <3>1. InFlight(u)' = InFlight(u)
      BY <1>2, <1>3, <2>3 DEF InFlight, Same
    <3> QED
      BY <2>1, <3>1 DEF PInv, RoomOK
  <2> QED
    BY <2>2, <2>3
<1> QED
  BY <1>4, <1>5, <1>6, <1>7 DEF PInv

LEMMA InnerPlays ==
  ASSUME PInv, NEW r \in Requests,
         \/ InsertElo(r) \/ LockElo(r) \/ ReadInputs(r) \/ LoadRankings(r) \/ FlushRanking(r)
         \/ CountContributions(r) \/ UpsertStats(r)
  PROVE  PInv'
<1>1. KInv'
  BY NextIsExact DEF PInv, Next
<1>2. IInv
  BY DEF PInv, KInv, JInv
<1>3. /\ UNCHANGED <<elo, pair_votes>>
      /\ \A q \in Requests :
           /\ tx'[q].task = tx[q].task /\ tx'[q].before = tx[q].before /\ tx'[q].after = tx[q].after
           /\ tx'[q].pc \notin {"insert", "lock"} => tx[q].pc \notin {"insert", "lock"}
  BY <1>2, InnerMoves
<1>4. PlayedIsVotesCast' /\ RoomOK'
  BY <1>3, RoomStays
<1>5. ASSUME NEW q \in Requests PROVE PlayedOK(q)'
  BY <1>3, PlayedStays DEF PInv
<1> QED
  BY <1>1, <1>4, <1>5 DEF PInv

LEMMA ApplyPlays == ASSUME PInv, NEW r \in Requests, ApplyVote(r) PROVE PInv'
<1> DEFINE t == tx[r]
           both == Titles(t.task)
           sign(e) == IF (t.task.winner = "left") = (e = t.task.items[1]) THEN 1 ELSE -1
           before == [e \in both |-> EloOf(e)]
           after(g) == [e \in both |->
                          IF Decided(t.task) THEN Plus(before[e], sign(e) * g[e]) ELSE before[e]]
           next == IF Decided(t.task) THEN "read" ELSE "count"
           new(g) == [t EXCEPT !.pc = next, !.before = before, !.after = after(g)]
<1>1. PICK g \in [both -> Gains] : tx' = [tx EXCEPT ![r] = new(g)]
  BY DEF ApplyVote
<1>2. UNCHANGED <<elo, pair_votes>> /\ IsTx(t)
  BY DEF ApplyVote, db, PInv, KInv, JInv, IInv, ShapeOK
<1>3. new(g).task = t.task /\ new(g).before = before /\ new(g).after = after(g)
  BY <1>2 DEF IsTx, Fields
<1>4. tx'[r] = new(g) /\ \A q \in Requests : q # r => tx'[q] = tx[q]
  BY <1>1, OneMoves DEF PInv, KInv, JInv
<1>5. Decided(t.task) => \A e \in both : after(g)[e].played = before[e].played + 1
  BY DEF Plus
<1>6. tx'[r].task = t.task /\ tx'[r].before = before /\ tx'[r].after = after(g)
  BY <1>3, <1>4
<1>7. PlayedOK(r)'
  <2>1. Titles(tx[r].task)' = both /\ (Decided(tx[r].task)' <=> Decided(t.task))
    BY <1>6 DEF Titles, Decided
  <2> HIDE DEF t, both, before, after
  <2> QED
    BY <1>5, <1>6, <2>1 DEF PlayedOK
<1> HIDE DEF new, before, after, next
<1>8. \A q \in Requests : tx'[q].task = tx[q].task
  BY <1>4, <1>6
<1>9. PlayedIsVotesCast' /\ RoomOK'
  BY <1>2, <1>8, RoomStays
<1>10. ASSUME NEW q \in Requests, q # r PROVE PlayedOK(q)'
  BY <1>4, <1>10, PlayedStays DEF PInv
<1>11. KInv'
  BY NextIsExact DEF PInv, Next
<1> QED
  BY <1>7, <1>9, <1>10, <1>11 DEF PInv

\* A transaction that ends is none of those that have moved scores any more
LEMMA EndPlays ==
  ASSUME PInv, NEW r \in Requests, Release(r)
  PROVE  /\ \A q \in Requests : PlayedOK(q)'
         /\ \A u : InFlight(u)' = InFlight(u) \ {r}
<1>1. tx'[r] = Idle /\ \A q \in Requests : q # r => tx'[q] = tx[q] /\ Same(q)
  BY OneMoves DEF Release, PInv, KInv, JInv
<1>2. Idle.task.kind = "none"
  BY DEF Idle, NoTask
<1>3. ASSUME NEW q \in Requests PROVE PlayedOK(q)'
  <2>1. CASE q = r
    BY <1>1, <1>2, <2>1 DEF PlayedOK
  <2>2. CASE q # r
    BY <1>1, <2>2, PlayedStays DEF PInv
  <2> QED
    BY <2>1, <2>2
<1>4. \A u : InFlight(u)' = InFlight(u) \ {r}
  BY <1>1, <1>2 DEF InFlight
<1> QED
  BY <1>3, <1>4

LEMMA AbortPlays == ASSUME PInv, NEW r \in Requests, Abort(r) PROVE PInv'
<1>1. KInv'
  BY NextIsExact DEF PInv, Next
<1>2. Release(r) /\ UNCHANGED <<elo, pair_votes>> /\ LogOK
  BY DEF Abort, db, PInv, KInv
<1>3. (\A q \in Requests : PlayedOK(q)') /\ \A u : InFlight(u)' = InFlight(u) \ {r}
  BY <1>2, EndPlays
<1>4. PlayedIsVotesCast'
  <2>1. \A e : EloOf(e)' = EloOf(e)
    BY <1>2 DEF EloOf
  <2> QED
    BY <1>2, <2>1 DEF PInv, PlayedIsVotesCast
<1>5. RoomOK'
  <2> SUFFICES ASSUME NEW u \in Users
               PROVE  Cardinality(VotesBy(u)') + Cardinality(InFlight(u)') < Limit + Cardinality(Requests)
    BY Zenon DEF RoomOK
  <2>1. VotesBy(u)' = VotesBy(u) /\ VotesBy(u) = Among(VotesOf(u))
    BY <1>2 DEF VotesBy, LogOK, Among, VotesOf
  <2>2. IsFiniteSet(InFlight(u)) /\ Cardinality(InFlight(u)) \in Nat /\ Cardinality(Requests) \in Nat
    BY FewInFlight
  <2>3. InFlight(u)' \subseteq InFlight(u)
    BY <1>3
  <2>4. Cardinality(InFlight(u)') <= Cardinality(InFlight(u)) /\ Cardinality(InFlight(u)') \in Nat
    BY <2>2, <2>3, FS_Subset, FS_CardinalityType
  <2>5. Cardinality(VotesBy(u)) \in Nat /\ Limit \in Nat
    BY <1>2, <2>1, LogIsCounted, QuickVoteConstantsOK DEF LogOK, QuickVoteConstantsOK
  <2>6. Cardinality(VotesBy(u)) + Cardinality(InFlight(u)) < Limit + Cardinality(Requests)
    BY DEF PInv, RoomOK
  <2> QED
    BY <2>1, <2>2, <2>4, <2>5, <2>6
<1> QED
  BY <1>1, <1>3, <1>4, <1>5 DEF PInv

\* A vote that commits stores one row, and each of its two titles has played
\* once more
LEMMA CommitPlays == ASSUME PInv, NEW r \in Requests, Commit(r) PROVE PInv'
<1> DEFINE v == tx[r].task
           w == [user |-> v.user, items |-> v.items, winner |-> v.winner]
<1>1. KInv'
  BY NextIsExact DEF PInv, Next
<1>2. /\ tx[r].pc = "commit" /\ Release(r)
      /\ elo' = IF v.kind # "vote" THEN elo
                ELSE [e \in Entities |-> IF e \in Titles(v) THEN tx[r].after[e] ELSE elo[e]]
      /\ pair_votes' = IF v.kind # "vote" THEN pair_votes ELSE Append(pair_votes, w)
  BY DEF Commit, At
<1>3. /\ IsTask(v) /\ OrderOK(r) /\ LocksOK(r) /\ SeenOK(r) /\ PlayedOK(r) /\ TablesOK
      /\ pair_votes \in Seq(Vote)
  BY <1>2 DEF PInv, KInv, JInv, IInv, OrderOK, LogOK
<1>4. pair_votes' \in Seq(Vote)
  BY <1>1 DEF KInv, LogOK
<1>5. (\A q \in Requests : PlayedOK(q)') /\ \A u : InFlight(u)' = InFlight(u) \ {r}
  BY <1>2, EndPlays
<1>6. v.kind = "vote" =>
        /\ w \in Vote /\ v.items \in Entities \X Entities
        /\ Titles(v) = {v.items[1], v.items[2]} /\ Titles(v) \subseteq Entities
  BY <1>3, TaskFields, TwoTitles DEF Vote
<1>7. ASSUME NEW e \in Entities
      PROVE  EloOf(e)'.played = Cardinality(Among(VotesOn(e))')
  <2>1. EloOf(e).played = Cardinality(Among(VotesOn(e))) /\ EloOf(e).played \in Nat
    BY <1>3, LogByKind, EloIsRow DEF PInv, Row
  <2>2. CASE v.kind # "vote"
    <3>1. EloOf(e)' = EloOf(e) /\ Among(VotesOn(e))' = Among(VotesOn(e))
      BY <1>2, <2>2 DEF EloOf, Among
    <3> QED
      BY <2>1, <3>1
  <2>3. CASE v.kind = "vote" /\ e \notin Titles(v)
    <3>1. EloOf(e)' = EloOf(e)
      BY <1>2, <2>3 DEF EloOf
    <3>2. w \notin VotesOn(e)
      BY <1>6, <2>3 DEF VotesOn
    <3>3. pair_votes' = Append(pair_votes, w)
      BY <1>2, <2>3
    <3> HIDE DEF w
    <3>4. Cardinality(Among(VotesOn(e))') = Cardinality(Among(VotesOn(e))) + 0
      BY <1>3, <3>2, <3>3, LogGrows
    <3> QED
      BY <2>1, <3>1, <3>4
  <2>4. CASE v.kind = "vote" /\ e \in Titles(v)
    <3>1. tx[r].before[e] = EloOf(e) /\ tx[r].after \in [Titles(v) -> Row]
      BY <1>2, <1>3, <2>4 DEF LocksOK, Owns, OrderOK, MovedOK
    <3>2. EloOf(e)' = tx[r].after[e]
      <4>1. elo'[e] = tx[r].after[e] /\ tx[r].after[e] \in Row
        BY <1>2, <2>4, <3>1
      <4> QED
        BY <4>1, QuickVoteConstantsOK DEF EloOf, QuickVoteConstantsOK
    <3>3. tx[r].after[e].played = EloOf(e).played + (IF Decided(v) THEN 1 ELSE 0)
      <4>1. CASE Decided(v)
        BY <1>2, <1>3, <2>4, <3>1, <4>1 DEF PlayedOK
      <4>2. CASE ~ Decided(v)
        <5>1. tx[r].after = tx[r].before
          BY <1>2, <1>3, <2>4, <4>2 DEF SeenOK, Running
        <5> QED
          BY <2>1, <3>1, <4>2, <5>1
      <4> QED
        BY <4>1, <4>2
    <3>4. w \in VotesOn(e) <=> Decided(v)
      BY <1>6, <2>4 DEF VotesOn, Decided
    <3>5. pair_votes' = Append(pair_votes, w)
      BY <1>2, <2>4
    <3> HIDE DEF w
    <3>6. Cardinality(Among(VotesOn(e))') = Cardinality(Among(VotesOn(e))) + (IF w \in VotesOn(e) THEN 1 ELSE 0)
      BY <1>3, <3>5, LogGrows
    <3> HIDE DEF v
    <3> QED
      BY <2>1, <3>2, <3>3, <3>4, <3>6
  <2> QED
    BY <2>2, <2>3, <2>4
<1>8. ASSUME NEW u \in Users
      PROVE  Cardinality(Among(VotesOf(u))') + Cardinality(InFlight(u)') < Limit + Cardinality(Requests)
  <2>1. Cardinality(Among(VotesOf(u))) + Cardinality(InFlight(u)) < Limit + Cardinality(Requests)
    BY <1>3, LogByKind DEF PInv
  <2>2. /\ IsFiniteSet(InFlight(u)) /\ Cardinality(InFlight(u)) \in Nat /\ Cardinality(Requests) \in Nat
        /\ Cardinality(Among(VotesOf(u))) \in Nat /\ Limit \in Nat
    BY <1>3, FewInFlight, LogIsCounted, QuickVoteConstantsOK DEF QuickVoteConstantsOK
  <2>3. InFlight(u)' = InFlight(u) \ {r}
    BY <1>5
  <2>4. CASE v.kind = "vote" /\ v.user = u
    <3>1. r \in InFlight(u)
      BY <2>4 DEF InFlight
    <3>2. Cardinality(InFlight(u)') = Cardinality(InFlight(u)) - 1
      BY <2>2, <2>3, <3>1, FS_RemoveElement
    <3>3. w \in VotesOf(u) /\ pair_votes' = Append(pair_votes, w)
      BY <1>2, <1>6, <2>4 DEF VotesOf
    <3> HIDE DEF w
    <3>4. Cardinality(Among(VotesOf(u))') = Cardinality(Among(VotesOf(u))) + 1
      BY <1>3, <3>3, LogGrows
    <3> QED
      BY <2>1, <2>2, <3>2, <3>4
  <2>5. CASE ~ (v.kind = "vote" /\ v.user = u)
    <3>1. InFlight(u)' = InFlight(u)
      BY <2>3, <2>5 DEF InFlight
    <3>2. Cardinality(Among(VotesOf(u))') = Cardinality(Among(VotesOf(u)))
      <4>1. CASE v.kind # "vote"
        BY <1>2, <4>1 DEF Among
      <4>2. CASE v.kind = "vote"
        <5>1. w \notin VotesOf(u) /\ pair_votes' = Append(pair_votes, w)
          BY <1>2, <2>5, <4>2 DEF VotesOf
        <5> HIDE DEF w
        <5>2. Cardinality(Among(VotesOf(u))') = Cardinality(Among(VotesOf(u))) + 0
          BY <1>3, <5>1, LogGrows
        <5> QED
          BY <2>2, <5>2
      <4> QED
        BY <4>1, <4>2
    <3> QED
      BY <2>1, <3>1, <3>2
  <2> QED
    BY <2>4, <2>5
<1> HIDE DEF v, w
<1>9. PlayedIsVotesCast' /\ RoomOK'
  BY <1>4, <1>7, <1>8, LogByKindNext
<1> QED
  BY <1>1, <1>5, <1>9 DEF PInv

LEMMA NextPlays == ASSUME PInv, [Next]_vars PROVE PInv'
<1>1. CASE UNCHANGED vars
  <2>1. UNCHANGED <<elo, pair_votes, tx>>
    BY <1>1 DEF vars, db
  <2>2. PlayedIsVotesCast' /\ RoomOK'
    BY <2>1, RoomStays
  <2>3. ASSUME NEW q \in Requests PROVE PlayedOK(q)'
    BY <2>1, PlayedStays DEF PInv
  <2>4. KInv'
    BY NextIsExact DEF PInv
  <2> QED
    BY <2>2, <2>3, <2>4 DEF PInv
<1>2. CASE Next
  <2>1. PICK r \in Requests :
           \/ Start(r)
           \/ InsertElo(r) \/ LockElo(r) \/ ApplyVote(r)
           \/ ReadInputs(r) \/ LoadRankings(r) \/ FlushRanking(r)
           \/ CountContributions(r) \/ UpsertStats(r)
           \/ Commit(r) \/ Abort(r)
    BY <1>2 DEF Next
  <2> QED
    BY <2>1, StartPlays, InnerPlays, ApplyPlays, CommitPlays, AbortPlays
<1> QED
  BY <1>1, <1>2

LEMMA InitPlays == Init => PInv
<1> SUFFICES ASSUME Init PROVE PInv
  OBVIOUS
<1>1. \A r \in Requests : tx[r].task.kind = "none"
  BY DEF Init, Idle, NoTask
<1>2. \A u : VotesBy(u) = {} /\ InFlight(u) = {}
  BY <1>1 DEF Init, VotesBy, InFlight
<1>3. \A e \in Entities :
        /\ EloOf(e).played = 0
        /\ {i \in DOMAIN pair_votes : pair_votes[i].winner # "skip"
              /\ e \in {pair_votes[i].items[1], pair_votes[i].items[2]}} = {}
  BY DEF Init, EloOf, DefaultElo
<1>4. PlayedIsVotesCast
  BY <1>3, FS_EmptySet DEF PlayedIsVotesCast
<1>5. RoomOK
  <2>1. Cardinality(Requests) \in Nat /\ Limit \in Nat \ {0}
    BY QuickVoteConstantsOK, FS_CardinalityType DEF QuickVoteConstantsOK
  <2> QED
    BY <1>2, <2>1, FS_EmptySet DEF RoomOK
<1> QED
  BY <1>1, <1>4, <1>5, InitIsExact DEF PInv, PlayedOK

LEMMA PlayIsInvariant == Spec => []PInv
<1>1. Init => PInv
  BY InitPlays
<1>2. PInv /\ [Next]_vars => PInv'
  BY NextPlays
<1> QED
  BY <1>1, <1>2, PTL DEF Spec

\* The Elo row of a title and the log of votes tell the same story: it has
\* played as many battles as there are decided votes it stands in, however
\* votes overlap, deadlock, time out and are rolled back (update_ratings and
\* create_vote share a transaction, and FOR UPDATE lasts until its end).
THEOREM PlayedAlwaysIsVotesCast == Spec => []PlayedIsVotesCast
<1>1. PInv => PlayedIsVotesCast
  BY DEF PInv
<1> QED
  BY <1>1, PlayIsInvariant, PTL

\* _enforce_rate_limit counts before it writes and takes no lock, so votes in
\* flight at once may all pass: a day exceeds the limit by fewer votes than
\* can be in flight at once, and by no more.
THEOREM FewVotesPassTheLimit == Spec => []VotesPerDay
<1>1. PInv => VotesPerDay
  <2> SUFFICES ASSUME PInv, NEW u \in Users
               PROVE  Cardinality(VotesBy(u)) < Limit + Cardinality(Requests)
    BY DEF VotesPerDay
  <2>1. pair_votes \in Seq(Vote)
    BY DEF PInv, KInv, LogOK
  <2>2. VotesBy(u) = Among(VotesOf(u))
    BY <2>1 DEF VotesBy, Among, VotesOf
  <2>3. Cardinality(VotesBy(u)) \in Nat /\ Cardinality(InFlight(u)) \in Nat
        /\ Cardinality(Requests) \in Nat /\ Limit \in Nat
    BY <2>1, <2>2, LogIsCounted, FewInFlight, QuickVoteConstantsOK DEF QuickVoteConstantsOK
  <2> QED
    BY <2>3 DEF PInv, RoomOK
<1> QED
  BY <1>1, PlayIsInvariant, PTL
-----------------------------------------------------------------------------
(* Types *)

Derived == ({"entity"} \X Entities) \cup ({"user"} \X Users)

RowsOK ==
  /\ ranking \in [Entities -> Ranking \cup {None}] /\ stats \in [Users -> Contributions]
  /\ raced \subseteq Derived /\ begun \in Nat

\* What a transaction is about to write of a ranking row; a row that was there
\* when it looked is there still
RankedOK(t, e) ==
  /\ t.input[e] \in Ranking /\ t.loaded[e] \in Ranking \cup {None}
  /\ t.loaded[e] # None => ranking[e] \in Ranking

RecordOK(r) ==
  LET t == tx[r] IN
  /\ t.pc = "idle" => t = Idle
  /\ t.todo \in Seq(Entities) /\ t.overlaps \subseteq Derived
  /\ t.pc = "load" => \A e \in Titles(t.task) : t.input[e] \in Ranking
  /\ t.pc = "flush" => \A e \in Titles(t.task) : RankedOK(t, e)
  /\ \A e \in Entities : rankOwner[e] = r => RankedOK(t, e)
  /\ t.pc \in {"stats", "commit"} /\ t.task.kind # "recompute" => t.counts \in Contributions

TInv == KInv /\ RowsOK /\ \A r \in Requests : RecordOK(r)

\* Rows of the others
LEMMA RecordStays ==
  ASSUME NEW q \in Requests, RecordOK(q),
         tx'[q].pc = tx[q].pc, tx'[q].pc = "idle" => tx'[q] = tx[q],
         tx'[q].task = tx[q].task, tx'[q].todo = tx[q].todo, tx'[q].counts = tx[q].counts,
         tx'[q].input = tx[q].input, tx'[q].loaded = tx[q].loaded, tx'[q].overlaps \subseteq Derived,
         \A e \in Entities : ranking[e] \in Ranking => ranking'[e] \in Ranking,
         \A e \in Entities : rankOwner'[e] = q => rankOwner[e] = q,
         tx[q].pc = "flush" => Titles(tx[q].task) \subseteq Entities
  PROVE  RecordOK(q)'
<1>1. \A e \in Entities : RankedOK(tx[q], e) => RankedOK(tx[q], e)'
  BY DEF RankedOK
<1>2. Titles(tx[q].task)' = Titles(tx[q].task)
  BY DEF Titles
<1> QED
  BY <1>1, <1>2 DEF RecordOK

\* A step within a transaction changes its own record
LEMMA OneRecord ==
  ASSUME TInv, NEW r \in Requests, NEW new, tx' = [tx EXCEPT ![r] = new], UNCHANGED <<db, begun>>,
         new.pc # "idle", new.todo \in Seq(Entities), new.overlaps = tx[r].overlaps,
         new.pc = "load" => \A e \in Titles(new.task) : new.input[e] \in Ranking,
         new.pc = "flush" => \A e \in Titles(new.task) : RankedOK(new, e),
         \A e \in Entities : rankOwner'[e] # rankOwner[e] => rankOwner'[e] = r,
         \A e \in Entities : rankOwner'[e] = r => RankedOK(new, e),
         new.pc \in {"stats", "commit"} /\ new.task.kind # "recompute" => new.counts \in Contributions
  PROVE  RowsOK' /\ \A q \in Requests : RecordOK(q)'
<1>1. tx'[r] = new /\ \A q \in Requests : q # r => tx'[q] = tx[q]
  BY OneMoves DEF TInv, KInv, JInv
<1>2. UNCHANGED <<ranking, stats, raced, begun>>
  BY DEF db
<1>3. RowsOK'
  BY <1>2 DEF TInv, RowsOK
<1>4. ASSUME NEW q \in Requests, q # r PROVE RecordOK(q)'
  <2>1. RecordOK(q) /\ OrderOK(q) /\ tx'[q] = tx[q]
    BY <1>1, <1>4 DEF TInv, KInv, JInv
  <2>2. tx[q].pc = "flush" => Titles(tx[q].task) \subseteq Entities
    BY <2>1, TaskQueue DEF OrderOK
  <2>3. tx'[q].overlaps \subseteq Derived
    BY <2>1 DEF RecordOK
  <2>4. \A e \in Entities : rankOwner'[e] = q => rankOwner[e] = q
    BY <1>4
  <2> QED
    BY <1>2, <2>1, <2>2, <2>3, <2>4, RecordStays
<1>5. RecordOK(r)'
  <2>1. \A e : RankedOK(new, e) => RankedOK(tx[r], e)'
    BY <1>1, <1>2 DEF RankedOK
  <2>2. Titles(tx[r].task)' = Titles(new.task) /\ tx[r].overlaps \subseteq Derived
    BY <1>1 DEF Titles, TInv, RecordOK
  <2> QED
    BY <1>1, <2>1, <2>2 DEF RecordOK
<1> QED
  BY <1>3, <1>4, <1>5

\* What a running transaction is known to be
LEMMA Knows ==
  ASSUME TInv, NEW r \in Requests, tx[r].pc # "idle"
  PROVE  /\ IsTx(tx[r]) /\ IsTask(tx[r].task) /\ Titles(tx[r].task) \subseteq Entities
         /\ tx[r].todo \in Seq(Entities) /\ tx[r] # Idle
         /\ InOrder(tx[r].task.items) \in Seq(Entities)
         /\ RecordOK(r) /\ OrderOK(r) /\ rankOwner \in [Entities -> Requests \cup {None}]
         /\ tx[r].pc \in {"insert", "lock", "read", "load"} => \A e \in Entities : rankOwner[e] # r
<1>1. OrderOK(r) /\ RecordOK(r) /\ IsTx(tx[r]) /\ rankOwner \in [Entities -> Requests \cup {None}]
  BY DEF TInv, KInv, JInv, IInv, ShapeOK, TablesOK
<1>2. IsTask(tx[r].task)
  BY <1>1 DEF OrderOK
<1>3. Titles(tx[r].task) \subseteq Entities /\ InOrder(tx[r].task.items) \in Seq(Entities)
  BY <1>2, TaskQueue DEF Queue
<1>4. tx[r] # Idle
  BY DEF Idle
<1>5. tx[r].pc \in {"insert", "lock", "read", "load"} => \A e \in Entities : rankOwner[e] # r
  BY <1>1 DEF OrderOK
<1>6. tx[r].todo \in Seq(Entities)
  BY <1>1 DEF RecordOK
<1> QED
  BY <1>1, <1>2, <1>3, <1>4, <1>5, <1>6

LEMMA InsertTyped ==
  ASSUME TInv, NEW r \in Requests, InsertElo(r) PROVE RowsOK' /\ \A q \in Requests : RecordOK(q)'
<1> DEFINE t == tx[r]
           new == IF Len(t.todo) = 1 THEN [t EXCEPT !.pc = "lock", !.todo = LockOrder(t.task.items)]
                  ELSE [t EXCEPT !.todo = Tail(t.todo)]
<1>1. t.pc = "insert" /\ tx' = [tx EXCEPT ![r] = new] /\ UNCHANGED <<db, rankOwner, begun>>
  BY DEF InsertElo, At
<1>2. /\ IsTx(t) /\ t.todo \in Seq(Entities) /\ InOrder(t.task.items) \in Seq(Entities)
      /\ OrderOK(r) /\ IsTask(t.task) /\ \A e \in Entities : rankOwner[e] # r
  BY <1>1, Knows
<1>3. t.todo # <<>>
  <2>1. t.task.kind = "vote"
    BY <1>1 DEF TInv, KInv, JInv, IInv, LocksOK
  <2>2. PICK a \in Entities, b \in Entities : t.task.items = <<a, b>>
    BY <1>2, <2>1, FirstTitle
  <2>3. t.todo = <<a, b>> \/ t.todo = <<b>>
    BY <1>1, <1>2, <2>2 DEF OrderOK
  <2> QED
    BY <2>3
<1>4. LockOrder(t.task.items) \in Seq(Entities) /\ Tail(t.todo) \in Seq(Entities)
  BY <1>2, <1>3 DEF LockOrder
<1>5. /\ new.pc \in {"insert", "lock"} /\ new.overlaps = t.overlaps
      /\ new.todo = IF Len(t.todo) = 1 THEN LockOrder(t.task.items) ELSE Tail(t.todo)
  BY <1>1, <1>2 DEF IsTx, Fields
<1> HIDE DEF new
<1> QED
  BY <1>1, <1>2, <1>4, <1>5, OneRecord

LEMMA LockTyped ==
  ASSUME TInv, NEW r \in Requests, LockElo(r) PROVE RowsOK' /\ \A q \in Requests : RecordOK(q)'
<1> DEFINE t == tx[r]
           new == [t EXCEPT !.todo = Tail(t.todo)]
<1>1. t.pc = "lock" /\ t.todo # <<>> /\ tx' = [tx EXCEPT ![r] = new] /\ UNCHANGED <<db, rankOwner, begun>>
  BY DEF LockElo, At
<1>2. IsTx(t) /\ t.todo \in Seq(Entities) /\ \A e \in Entities : rankOwner[e] # r
  BY <1>1, Knows
<1>3. Tail(t.todo) \in Seq(Entities)
  BY <1>1, <1>2
<1>4. new.pc = "lock" /\ new.overlaps = t.overlaps /\ new.todo = Tail(t.todo)
  BY <1>1, <1>2 DEF IsTx, Fields
<1> HIDE DEF new
<1> QED
  BY <1>1, <1>2, <1>3, <1>4, OneRecord

LEMMA ApplyTyped ==
  ASSUME TInv, NEW r \in Requests, ApplyVote(r) PROVE RowsOK' /\ \A q \in Requests : RecordOK(q)'
<1> DEFINE t == tx[r]
           both == Titles(t.task)
           sign(e) == IF (t.task.winner = "left") = (e = t.task.items[1]) THEN 1 ELSE -1
           before == [e \in both |-> EloOf(e)]
           after(g) == [e \in both |->
                          IF Decided(t.task) THEN Plus(before[e], sign(e) * g[e]) ELSE before[e]]
           next == IF Decided(t.task) THEN "read" ELSE "count"
           new(g) == [t EXCEPT !.pc = next, !.before = before, !.after = after(g)]
<1>1. PICK g \in [both -> Gains] : tx' = [tx EXCEPT ![r] = new(g)]
  BY DEF ApplyVote
<1>2. t.pc = "lock" /\ UNCHANGED <<db, rankOwner, begun>>
  BY DEF ApplyVote, At, owners
<1>3. IsTx(t) /\ t.todo \in Seq(Entities) /\ \A e \in Entities : rankOwner[e] # r
  BY <1>2, Knows
<1>4. next \in {"read", "count"}
  OBVIOUS
<1> HIDE DEF before, after, next
<1>5. new(g).pc = next /\ new(g).overlaps = t.overlaps /\ new(g).todo = t.todo
  BY <1>3 DEF IsTx, Fields
<1> HIDE DEF new
<1> QED
  BY <1>1, <1>2, <1>3, <1>4, <1>5, OneRecord

\* What the ranking service makes of an Elo row and of ratings
LEMMA ScoreIsRanking ==
  ASSUME NEW row \in Row, NEW ratings \in Ratings PROVE Score(row, ratings) \in Ranking
<1> DEFINE basis == IF row.played = 0 THEN None ELSE row
<1>1. Score(row, ratings) = [total_votes |-> ratings, computed_score |-> <<basis, ratings>>]
  BY DEF Score
<1>2. basis \in Row \cup {None}
  OBVIOUS
<1> HIDE DEF basis
<1> QED
  BY <1>1, <1>2 DEF Ranking

LEMMA SeenTyped ==
  ASSUME TInv, NEW r \in Requests, tx[r].pc # "idle", NEW e \in Titles(tx[r].task)
  PROVE  Score(SeenElo(r, e), [u \in Users |-> SeenRating(r, u, e)]) \in Ranking
<1>1. IsTask(tx[r].task) /\ e \in Entities /\ MovedOK(r)
  BY Knows DEF OrderOK
<1>2. SeenElo(r, e) \in Row
  BY <1>1, EloIsRow DEF SeenElo, MovedOK, TInv, KInv, JInv
<1>3. \A u \in Users : SeenRating(r, u, e) \in Stars \cup {None}
  BY <1>1, TaskFields DEF SeenRating, TInv, KInv, LogOK
<1>4. [u \in Users |-> SeenRating(r, u, e)] \in Ratings
  BY <1>3 DEF Ratings
<1> QED
  BY <1>2, <1>4, ScoreIsRanking

LEMMA ReadTyped ==
  ASSUME TInv, NEW r \in Requests, ReadInputs(r) PROVE RowsOK' /\ \A q \in Requests : RecordOK(q)'
<1> DEFINE t == tx[r]
           x == [e \in Titles(t.task) |-> Score(SeenElo(r, e), [u \in Users |-> SeenRating(r, u, e)])]
           new == [t EXCEPT !.pc = "load", !.input = x]
<1>1. t.pc = "read" /\ tx' = [tx EXCEPT ![r] = new] /\ UNCHANGED <<db, rankOwner, begun>>
  BY DEF ReadInputs, At, owners
<1>2. IsTx(t) /\ t.todo \in Seq(Entities) /\ \A e \in Entities : rankOwner[e] # r
  BY <1>1, Knows
<1>3. \A e \in Titles(t.task) : x[e] \in Ranking
  BY <1>1, SeenTyped
<1> HIDE DEF x
<1>4. /\ new.pc = "load" /\ new.overlaps = t.overlaps /\ new.todo = t.todo
      /\ new.task = t.task /\ new.input = x
  BY <1>2 DEF IsTx, Fields
<1> HIDE DEF new
<1> QED
  BY <1>1, <1>2, <1>3, <1>4, OneRecord

LEMMA LoadTyped ==
  ASSUME TInv, NEW r \in Requests, LoadRankings(r) PROVE RowsOK' /\ \A q \in Requests : RecordOK(q)'
<1> DEFINE t == tx[r]
           x == InOrder(t.task.items)
           y == [e \in Titles(t.task) |-> ranking[e]]
           new == [t EXCEPT !.pc = "flush", !.todo = x, !.loaded = y]
<1>1. t.pc = "load" /\ tx' = [tx EXCEPT ![r] = new] /\ UNCHANGED <<db, rankOwner, begun>>
  BY DEF LoadRankings, At, owners
<1>2. /\ IsTx(t) /\ x \in Seq(Entities) /\ RecordOK(r) /\ Titles(t.task) \subseteq Entities
      /\ \A e \in Entities : rankOwner[e] # r
  BY <1>1, Knows
<1>3. \A e \in Titles(t.task) : y[e] \in Ranking \cup {None} /\ (y[e] # None => ranking[e] \in Ranking)
  BY <1>2 DEF TInv, RowsOK
<1>4. \A e \in Titles(t.task) : t.input[e] \in Ranking
  BY <1>1, <1>2 DEF RecordOK
<1> HIDE DEF x, y
<1>5. /\ new.pc = "flush" /\ new.overlaps = t.overlaps /\ new.todo = x
      /\ new.task = t.task /\ new.input = t.input /\ new.loaded = y
  BY <1>2 DEF IsTx, Fields
<1> HIDE DEF new
<1>6. \A e \in Titles(new.task) : RankedOK(new, e)
  BY <1>3, <1>4, <1>5 DEF RankedOK
<1> QED
  BY <1>1, <1>2, <1>5, <1>6, OneRecord

LEMMA FlushTyped ==
  ASSUME TInv, NEW r \in Requests, FlushRanking(r) PROVE RowsOK' /\ \A q \in Requests : RecordOK(q)'
<1> DEFINE t == tx[r]
           e == Head(t.todo)
           pc == IF Len(t.todo) > 1 THEN "flush" ELSE IF t.task.kind = "recompute" THEN "commit" ELSE "count"
           new == [t EXCEPT !.todo = Tail(t.todo), !.pc = pc]
<1>1. /\ t.pc = "flush" /\ UNCHANGED <<db, begun>> /\ tx' = [tx EXCEPT ![r] = new]
      /\ rankOwner' = [rankOwner EXCEPT ![e] = r] \/ rankOwner' = rankOwner
  BY DEF FlushRanking, At, TInv, KInv, JInv, IInv, ShapeOK
<1>2. /\ IsTx(t) /\ t.todo \in Seq(Entities) /\ RecordOK(r) /\ OrderOK(r)
      /\ Titles(t.task) \subseteq Entities /\ rankOwner \in [Entities -> Requests \cup {None}]
  BY <1>1, Knows
<1>3. t.todo # <<>> /\ e \in Titles(t.task) /\ Tail(t.todo) \in Seq(Entities)
  BY <1>1, <1>2 DEF OrderOK
<1>4. pc \in {"flush", "commit", "count"} /\ (pc = "commit" => t.task.kind = "recompute")
  OBVIOUS
<1>5. \A f \in Entities : /\ rankOwner'[f] # rankOwner[f] => rankOwner'[f] = r
                          /\ rankOwner'[f] = r => rankOwner[f] = r \/ f = e
  BY <1>1, <1>2
<1> HIDE DEF pc, e
<1>6. /\ new.pc = pc /\ new.overlaps = t.overlaps /\ new.todo = Tail(t.todo)
      /\ new.task = t.task /\ new.input = t.input /\ new.loaded = t.loaded
  BY <1>2 DEF IsTx, Fields
<1> HIDE DEF new
<1>7. \A f : RankedOK(t, f) => RankedOK(new, f)
  BY <1>6 DEF RankedOK
<1>8. \A f \in Titles(t.task) : RankedOK(new, f)
  BY <1>1, <1>2, <1>7 DEF RecordOK
<1>9. \A f \in Entities : rankOwner'[f] = r => RankedOK(new, f)
  BY <1>2, <1>3, <1>5, <1>7, <1>8 DEF RecordOK
<1> QED
  <2>1. \A f \in Titles(new.task) : RankedOK(new, f)
    BY <1>6, <1>8
  <2>2. /\ new.pc # "idle" /\ new.pc # "load" /\ new.todo \in Seq(Entities)
        /\ ~(new.pc \in {"stats", "commit"} /\ new.task.kind # "recompute")
    BY <1>3, <1>4, <1>6
  <2>3. /\ tx' = [tx EXCEPT ![r] = new] /\ UNCHANGED <<db, begun>> /\ new.overlaps = tx[r].overlaps
        /\ \A f \in Entities : rankOwner'[f] # rankOwner[f] => rankOwner'[f] = r
    BY <1>1, <1>5, <1>6
  <2> QED
    BY <1>9, <2>1, <2>2, <2>3, OneRecord

LEMMA CountTyped ==
  ASSUME TInv, NEW r \in Requests, CountContributions(r) PROVE RowsOK' /\ \A q \in Requests : RecordOK(q)'
<1> DEFINE t == tx[r]
           rated == {e \in Entities : SeenRating(r, t.task.user, e) # None}
           more == IF Decided(t.task) THEN 1 ELSE 0
           x == [votes_count |-> Cardinality(rated),
                 battles_count |-> Cardinality(DecidedBy(t.task.user)) + more]
           new == [t EXCEPT !.pc = "stats", !.counts = x]
<1>1. t.pc = "count" /\ tx' = [tx EXCEPT ![r] = new] /\ UNCHANGED <<db, rankOwner, begun>>
  BY DEF CountContributions, At, owners
<1>2. IsTx(t) /\ t.todo \in Seq(Entities) /\ RecordOK(r)
  BY <1>1, Knows
<1>3. Cardinality(rated) \in Nat
  <2>1. IsFiniteSet(Entities) /\ rated \subseteq Entities
    BY QuickVoteConstantsOK DEF QuickVoteConstantsOK
  <2> QED
    BY <2>1, FS_Subset, FS_CardinalityType
<1>4. Cardinality(DecidedBy(t.task.user)) \in Nat /\ more \in Nat
  BY LogIsFinite DEF TInv, KInv, LogOK
<1> HIDE DEF rated, more
<1>5. x \in Contributions
  BY <1>3, <1>4 DEF Contributions
<1> HIDE DEF x
<1>6. /\ new.pc = "stats" /\ new.overlaps = t.overlaps /\ new.todo = t.todo
      /\ new.task = t.task /\ new.counts = x /\ new.input = t.input /\ new.loaded = t.loaded
  BY <1>2 DEF IsTx, Fields
<1> HIDE DEF new
<1>7. \A e \in Entities : rankOwner'[e] = r => RankedOK(new, e)
  BY <1>1, <1>2, <1>6 DEF RecordOK, RankedOK
<1> QED
  BY <1>1, <1>2, <1>5, <1>6, <1>7, OneRecord

LEMMA UpsertTyped ==
  ASSUME TInv, NEW r \in Requests, UpsertStats(r) PROVE RowsOK' /\ \A q \in Requests : RecordOK(q)'
<1> DEFINE t == tx[r]
           new == [t EXCEPT !.pc = "commit"]
<1>1. t.pc = "stats" /\ tx' = [tx EXCEPT ![r] = new] /\ UNCHANGED <<db, rankOwner, begun>>
  BY DEF UpsertStats, At
<1>2. IsTx(t) /\ t.todo \in Seq(Entities) /\ RecordOK(r)
  BY <1>1, Knows
<1>3. /\ new.pc = "commit" /\ new.overlaps = t.overlaps /\ new.todo = t.todo
      /\ new.task = t.task /\ new.counts = t.counts /\ new.input = t.input /\ new.loaded = t.loaded
  BY <1>2 DEF IsTx, Fields
<1> HIDE DEF new
<1>4. \A e \in Entities : rankOwner'[e] = r => RankedOK(new, e)
  BY <1>1, <1>2, <1>3 DEF RecordOK, RankedOK
<1>5. new.task.kind # "recompute" => new.counts \in Contributions
  BY <1>1, <1>2, <1>3 DEF RecordOK
<1> QED
  BY <1>1, <1>2, <1>3, <1>4, <1>5, OneRecord

\* A task's keys are of titles and users
LEMMA KeysTyped == ASSUME NEW v, IsTask(v) PROVE Keys(v) \subseteq Derived
<1>1. Titles(v) \subseteq Entities
  BY TaskQueue
<1>2. v.kind # "recompute" => v.user \in Users
  BY TaskOwner
<1> QED
  BY <1>1, <1>2 DEF Keys, Derived

LEMMA TaskTyped == ASSUME NEW v, IsTask(v) PROVE v \in Task /\ v.items \in Seq(Entities)
<1>1. \A l, e \in Entities : <<l, e>> \in Seq(Entities) /\ <<e>> \in Seq(Entities)
  OBVIOUS
<1>2. CASE \E u \in Users, l, e \in Entities, w \in Winners :
             v = [kind |-> "vote", user |-> u, items |-> <<l, e>>, winner |-> w]
  <2>1. PICK u \in Users, l \in Entities, e \in Entities, w \in Winners :
               v = [kind |-> "vote", user |-> u, items |-> <<l, e>>, winner |-> w]
    BY <1>2
  <2>2. v \in [kind : {"vote"}, user : Users, items : Entities \X Entities, winner : Winners]
    BY <2>1
  <2> QED
    BY <1>1, <2>1, <2>2 DEF Task
<1>3. CASE \E u \in Users, e \in Entities, s \in Stars \cup {None} :
             v = [kind |-> "rate", user |-> u, items |-> <<e>>, stars |-> s]
  <2>1. PICK u \in Users, e \in Entities, s \in Stars \cup {None} :
               v = [kind |-> "rate", user |-> u, items |-> <<e>>, stars |-> s]
    BY <1>3
  <2>2. v \in [kind : {"rate"}, user : Users, items : Seq(Entities), stars : Stars \cup {None}]
    BY <1>1, <2>1
  <2> QED
    BY <1>1, <2>1, <2>2 DEF Task
<1>4. CASE \E e \in Entities : v = [kind |-> "recompute", items |-> <<e>>]
  <2>1. PICK e \in Entities : v = [kind |-> "recompute", items |-> <<e>>]
    BY <1>4
  <2>2. v \in [kind : {"recompute"}, items : Seq(Entities)]
    BY <1>1, <2>1
  <2> QED
    BY <1>1, <2>1, <2>2 DEF Task
<1> QED
  BY <1>2, <1>3, <1>4 DEF IsTask

LEMMA StartTyped ==
  ASSUME TInv, NEW r \in Requests, Start(r) PROVE RowsOK' /\ \A q \in Requests : RecordOK(q)'
<1>1. PICK v, pc : /\ Begin(r, pc, v) /\ IsTask(v)
                   /\ pc \in {"insert", "read"}
  BY StartTasks
<1>2. Began(r, pc, v)
  BY <1>1, BeginMoves DEF TInv, KInv, JInv
<1>3. begun' = begun + 1 /\ UNCHANGED <<ranking, stats, raced, rankOwner>>
  BY <1>1 DEF Begin, db, owners
<1>4. RowsOK'
  BY <1>3 DEF TInv, RowsOK
<1>5. \A w : Overlap(v, w) \subseteq Derived
  BY <1>1, KeysTyped DEF Overlap
<1>6. tx[r].pc = "idle" /\ tx'[r].pc = pc /\ tx'[r].task = v /\ tx'[r].todo = v.items
      /\ tx'[r].overlaps = UNION {Overlap(v, tx[o].task) : o \in {q \in Requests : Running(q)}}
  BY <1>2 DEF Began
<1>7. RecordOK(r)'
  <2>1. tx'[r].overlaps \subseteq Derived
    BY <1>5, <1>6
  <2>2. v.items \in Seq(Entities)
    BY <1>1, TaskTyped
  <2>3. \A e \in Entities : rankOwner'[e] # r
    BY <1>3, <1>6 DEF TInv, KInv, JInv, OrderOK
  <2> QED
    BY <1>1, <1>6, <2>1, <2>2, <2>3 DEF RecordOK
<1>8. ASSUME NEW q \in Requests, q # r PROVE RecordOK(q)'
  <2>1. /\ Same(q)
        /\ tx'[q].overlaps = IF Running(q) THEN tx[q].overlaps \cup Overlap(v, tx[q].task) ELSE tx[q].overlaps
    BY <1>2, <1>8 DEF Began
  <2>2. RecordOK(q) /\ OrderOK(q)
    BY DEF TInv, KInv, JInv
  <2>3. tx'[q].overlaps \subseteq Derived
    BY <1>5, <2>1, <2>2 DEF RecordOK
  <2>4. tx[q].pc = "idle" => tx'[q] = tx[q]
    BY <1>1, <1>8 DEF Begin, Running
  <2>5. tx[q].pc = "flush" => Titles(tx[q].task) \subseteq Entities
    BY <2>2, TaskQueue DEF OrderOK
  <2> QED
    BY <1>3, <2>1, <2>2, <2>3, <2>4, <2>5, RecordStays DEF Same
<1> QED
  BY <1>4, <1>7, <1>8

\* A transaction that ends, having written `ranking'`
LEMMA EndTyped ==
  ASSUME TInv, NEW r \in Requests, Release(r),
         \A e \in Entities : ranking[e] \in Ranking => ranking'[e] \in Ranking
  PROVE  \A q \in Requests : RecordOK(q)'
<1>1. tx'[r] = Idle /\ \A q \in Requests : q # r => tx'[q] = tx[q] /\ Same(q)
  BY OneMoves DEF Release, TInv, KInv, JInv
<1>2. rankOwner \in [Entities -> Requests \cup {None}] /\ None \notin Requests
  BY QuickVoteConstantsOK DEF TInv, KInv, JInv, TablesOK, QuickVoteConstantsOK
<1>3. \A e \in Entities : rankOwner'[e] = IF rankOwner[e] = r THEN None ELSE rankOwner[e]
  BY <1>2 DEF Release, Without
<1>4. RecordOK(r)'
  <2>1. /\ Idle.pc = "idle" /\ Idle.todo = <<>> /\ Idle.overlaps = {}
    BY DEF Idle
  <2>2. \A e \in Entities : rankOwner'[e] # r
    BY <1>2, <1>3
  <2> QED
    BY <1>1, <2>1, <2>2 DEF RecordOK
<1>5. ASSUME NEW q \in Requests, q # r PROVE RecordOK(q)'
  <2>1. tx'[q] = tx[q] /\ Same(q) /\ RecordOK(q) /\ OrderOK(q)
    BY <1>1, <1>5 DEF TInv, KInv, JInv
  <2>2. tx'[q].overlaps \subseteq Derived
    BY <2>1 DEF RecordOK
  <2>3. tx[q].pc = "flush" => Titles(tx[q].task) \subseteq Entities
    BY <2>1, TaskQueue DEF OrderOK
  <2>4. \A e \in Entities : rankOwner'[e] = q => rankOwner[e] = q
    BY <1>2, <1>3, <1>5
  <2> QED
    BY <2>1, <2>2, <2>3, <2>4, RecordStays
<1> QED
  BY <1>4, <1>5

\* What the flush writes of a row is a row
LEMMA WrittenTyped ==
  ASSUME NEW row, NEW loaded, NEW input \in Ranking, loaded # None => row \in Ranking
  PROVE  Written(row, loaded, input) \in Ranking
<1> DEFINE new(c) == IF loaded[c] # input[c] THEN input[c] ELSE row[c]
<1>1. CASE loaded = None
  BY <1>1 DEF Written
<1>2. CASE loaded # None
  <2>1. Written(row, loaded, input) = [c \in {"total_votes", "computed_score"} |-> new(c)]
    BY <1>2 DEF Written, Ranking
  <2>2. new("total_votes") \in Ratings /\ new("computed_score") \in (Row \cup {None}) \X Ratings
    BY <1>2 DEF Ranking
  <2> HIDE DEF new
  <2>3. Written(row, loaded, input) = [total_votes |-> new("total_votes"), computed_score |-> new("computed_score")]
    BY <2>1
  <2> QED
    BY <2>2, <2>3 DEF Ranking
<1> QED
  BY <1>1, <1>2

LEMMA CommitTyped ==
  ASSUME TInv, NEW r \in Requests, Commit(r) PROVE RowsOK' /\ \A q \in Requests : RecordOK(q)'
<1> DEFINE t == tx[r]
<1>1. /\ t.pc = "commit" /\ Release(r) /\ begun' = begun
      /\ ranking' = [e \in Entities |->
                       IF rankOwner[e] = r THEN Written(ranking[e], t.loaded[e], t.input[e]) ELSE ranking[e]]
      /\ stats' = IF t.task.kind = "recompute" THEN stats ELSE [stats EXCEPT ![t.task.user] = t.counts]
      /\ raced' = (raced \ Keys(t.task)) \cup t.overlaps
  BY DEF Commit, At
<1>2. IsTask(t.task) /\ RecordOK(r)
  BY <1>1, Knows
<1>3. \A e \in Entities : rankOwner[e] = r => Written(ranking[e], t.loaded[e], t.input[e]) \in Ranking
  BY <1>2, WrittenTyped DEF RecordOK, RankedOK
<1>4. /\ ranking' \in [Entities -> Ranking \cup {None}]
      /\ \A e \in Entities : ranking[e] \in Ranking => ranking'[e] \in Ranking
  BY <1>1, <1>3 DEF TInv, RowsOK
<1>5. stats' \in [Users -> Contributions]
  <2>1. CASE t.task.kind = "recompute"
    BY <1>1, <2>1 DEF TInv, RowsOK
  <2>2. CASE t.task.kind # "recompute"
    <3>1. t.counts \in Contributions /\ t.task.user \in Users
      BY <1>1, <1>2, <2>2, TaskOwner DEF RecordOK
    <3> QED
      BY <1>1, <2>2, <3>1 DEF TInv, RowsOK
  <2> QED
    BY <2>1, <2>2
<1>6. raced' \subseteq Derived /\ begun' \in Nat
  BY <1>1, <1>2 DEF TInv, RowsOK, RecordOK
<1>7. \A q \in Requests : RecordOK(q)'
  BY <1>1, <1>4, EndTyped
<1> QED
  BY <1>4, <1>5, <1>6, <1>7 DEF RowsOK

LEMMA NextTyped == ASSUME TInv, [Next]_vars PROVE TInv'
<1>1. KInv'
  BY NextIsExact DEF TInv
<1>2. CASE UNCHANGED vars
  <2>1. UNCHANGED <<ranking, stats, raced, begun, tx, rankOwner>>
    BY <1>2 DEF vars, db, owners
  <2>2. \A t, e : RankedOK(t, e)' <=> RankedOK(t, e)
    BY <2>1 DEF RankedOK
  <2>3. ASSUME NEW q \in Requests PROVE RecordOK(q)'
    <3>1. RecordOK(q) /\ OrderOK(q)
      BY DEF TInv, KInv, JInv
    <3>2. tx[q].pc = "flush" => Titles(tx[q].task) \subseteq Entities
      BY <3>1, TaskQueue DEF OrderOK
    <3>3. tx'[q].overlaps \subseteq Derived
      BY <2>1, <3>1 DEF RecordOK
    <3> QED
      BY <2>1, <3>1, <3>2, <3>3, RecordStays
  <2>4. RowsOK'
    BY <2>1 DEF TInv, RowsOK
  <2> QED
    BY <1>1, <2>3, <2>4 DEF TInv
<1>3. CASE Next
  <2>1. PICK r \in Requests :
           \/ Start(r)
           \/ InsertElo(r) \/ LockElo(r) \/ ApplyVote(r)
           \/ ReadInputs(r) \/ LoadRankings(r) \/ FlushRanking(r)
           \/ CountContributions(r) \/ UpsertStats(r)
           \/ Commit(r) \/ Abort(r)
    BY <1>3 DEF Next
  <2>2. CASE Abort(r)
    <3>1. Release(r) /\ UNCHANGED <<ranking, stats, raced, begun>>
      BY <2>2 DEF Abort, db
    <3>2. RowsOK'
      BY <3>1 DEF TInv, RowsOK
    <3>3. \A q \in Requests : RecordOK(q)'
      BY <3>1, EndTyped
    <3> QED
      BY <1>1, <3>2, <3>3 DEF TInv
  <2>3. CASE ~Abort(r)
    <3>1. RowsOK' /\ \A q \in Requests : RecordOK(q)'
      BY <2>1, <2>3, StartTyped, InsertTyped, LockTyped, ApplyTyped, ReadTyped, LoadTyped, FlushTyped,
         CountTyped, UpsertTyped, CommitTyped
    <3> QED
      BY <1>1, <3>1 DEF TInv
  <2> QED
    BY <2>2, <2>3
<1> QED
  BY <1>2, <1>3

LEMMA InitTyped == Init => TInv
<1> SUFFICES ASSUME Init PROVE TInv
  OBVIOUS
<1>1. DefaultElo \in Row
  BY DEF DefaultElo, Row
<1>2. [u \in Users |-> None] \in Ratings
  BY DEF Ratings
<1>3. Score(DefaultElo, [u \in Users |-> None]) \in Ranking
  BY <1>1, <1>2, ScoreIsRanking
<1>4. ranking \in [Entities -> Ranking \cup {None}]
  BY <1>3 DEF Init
<1>5. stats \in [Users -> Contributions] /\ raced \subseteq Derived /\ begun \in Nat
  BY DEF Init, Contributions
<1>6. ASSUME NEW r \in Requests PROVE RecordOK(r)
  <2>1. tx[r] = Idle /\ \A e \in Entities : rankOwner[e] # r
    BY QuickVoteConstantsOK DEF Init, QuickVoteConstantsOK
  <2>2. Idle.pc = "idle" /\ Idle.todo = <<>> /\ Idle.overlaps = {}
    BY DEF Idle
  <2> QED
    BY <2>1, <2>2 DEF RecordOK
<1> QED
  BY <1>4, <1>5, <1>6, InitIsExact DEF TInv, RowsOK

\* The tables keep the shape their columns give them: a ranking row that a
\* flush changes column by column is still there (recompute_entities), and
\* what is stored was computed from rows and ratings of that shape.  A
\* transaction is at one of its statements, with titles still to take.
THEOREM TypeCorrect == Spec => []TypeOK
<1>1. TInv => TypeOK
  <2> SUFFICES ASSUME TInv PROVE TypeOK
    OBVIOUS
  <2>1. \A v : IsTask(v) => v \in Task
    BY TaskTyped
  <2>2. ASSUME NEW r \in Requests
        PROVE  tx[r] = Idle \/ (tx[r].pc \in Steps /\ tx[r].task \in Task /\ tx[r].todo \in Seq(Entities))
    BY <2>1 DEF TInv, KInv, JInv, OrderOK, RecordOK
  <2>3. eloOwner \in [Entities -> Requests \cup {None}]
    BY DEF TInv, KInv, JInv, IInv, ShapeOK
  <2> QED
    BY <2>2, <2>3 DEF TypeOK, TInv, RowsOK, KInv, LogOK, JInv, TablesOK, Derived
<1> QED
  BY <1>1, InitTyped, NextTyped, PTL DEF Spec
=============================================================================
