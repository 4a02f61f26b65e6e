----------------------------- MODULE PeriodicLoop -----------------------------
(***************************************************************************)
(* The periodic job that moves overdue tournaments on (core/periodic.py,   *)
(* tournament_manage.advance_all_due), run by every app instance, next to  *)
(* the reads and the owners that close rounds too.  Of a battle only its   *)
(* round and deadline are kept; Tournament models what closing one does.   *)
(*                                                                         *)
(* The job reads the ids of the overdue battles once and then closes them  *)
(* one by one, each in a transaction of its own that re-checks under the   *)
(* row lock.  A battle that lost a match to the hard delete of a title     *)
(* (TournamentCascade) raises, which ends the job; it is retried later.    *)
(***************************************************************************)
EXTENDS Integers

CONSTANTS
  Battles,
  Instances,   \* app processes that run the loop
  Fragile,     \* battles an admin may delete a title of
  Rounds,      \* how many rounds a battle has
  Duration,    \* how long a round is open
  None

ASSUME LoopConstantsOK ==
  /\ Fragile \subseteq Battles
  /\ Rounds \in Nat \ {0} /\ Duration \in Nat \ {0} /\ None \notin Nat

VARIABLES
  round,    \* the current round of each battle; Rounds + 1 once it is over
  left,     \* time left of that round; None without a deadline
  broken,   \* battles whose current round can no longer be closed
  up,       \* instances whose loop is running
  queue     \* per instance: the overdue ids its running job has yet to do

vars == <<round, left, broken, up, queue>>

Active(b) == round[b] <= Rounds
Overdue(b) == Active(b) /\ left[b] = 0

Init ==
  /\ round = [b \in Battles |-> 1]
  /\ left \in [Battles -> {Duration, None}]
  /\ broken = {}
  /\ up = {}
  /\ queue = [i \in Instances |-> {}]

CloseRound(b) ==
  /\ round' = [round EXCEPT ![b] = @ + 1]
  /\ left' = [left EXCEPT ![b] = IF round[b] = Rounds \/ @ = None THEN None ELSE Duration]

\* Mutant of Scan: the query takes battles in their first round only
ScanFirst(i) ==
  /\ i \in up /\ queue[i] = {} /\ \E b \in Battles : Overdue(b) /\ round[b] = 1
  /\ queue' = [queue EXCEPT ![i] = {b \in Battles : Overdue(b) /\ round[b] = 1}]
  /\ UNCHANGED <<round, left, broken, up>>

\* The one query at the start of the job
Scan(i) ==
  /\ i \in up /\ queue[i] = {} /\ \E b \in Battles : Overdue(b)
  /\ queue' = [queue EXCEPT ![i] = {b \in Battles : Overdue(b)}]
  /\ UNCHANGED <<round, left, broken, up>>

\* Mutant of AdvanceNext: the deadline is not looked at again under the lock
AdvanceUnchecked(i, b) ==
  /\ b \in queue[i] /\ Active(b) /\ b \notin broken
  /\ CloseRound(b)
  /\ queue' = [queue EXCEPT ![i] = @ \ {b}]
  /\ UNCHANGED <<broken, up>>

\* One turn of the loop: advance_if_due, and the commit.  The query has no
\* order, so the next id may be any of them.
AdvanceNext(i, b) ==
  /\ b \in queue[i] /\ (Overdue(b) => b \notin broken)
  /\ IF Overdue(b) THEN CloseRound(b) ELSE UNCHANGED <<round, left>>
  /\ queue' = [queue EXCEPT ![i] = @ \ {b}]
  /\ UNCHANGED <<broken, up>>

\* The exception leaves the loop: the other ids are dropped with it
JobFails(i, b) ==
  /\ b \in queue[i] /\ Overdue(b) /\ b \in broken
  /\ queue' = [queue EXCEPT ![i] = {}]
  /\ UNCHANGED <<round, left, broken, up>>

\* The process starts, and may die in the middle of the job
Start(i) ==
  /\ i \notin up /\ up' = up \cup {i}
  /\ UNCHANGED <<round, left, broken, queue>>

Crash(i) ==
  /\ i \in up /\ up' = up \ {i}
  /\ queue' = [queue EXCEPT ![i] = {}]
  /\ UNCHANGED <<round, left, broken>>

\* advance_if_needed, when someone opens the battle
Read(b) ==
  /\ Overdue(b) /\ b \notin broken
  /\ CloseRound(b)
  /\ UNCHANGED <<broken, up, queue>>

CloseRoundNow(b) ==
  /\ Active(b) /\ b \notin broken
  /\ CloseRound(b)
  /\ UNCHANGED <<broken, up, queue>>

LoseTitle(b) ==
  /\ b \in Fragile \ broken /\ Active(b)
  /\ broken' = broken \cup {b}
  /\ UNCHANGED <<round, left, up, queue>>

Tick ==
  /\ \E b \in Battles : left[b] \notin {0, None}
  /\ left' = [b \in Battles |-> IF left[b] \in {0, None} THEN left[b] ELSE left[b] - 1]
  /\ UNCHANGED <<round, broken, up, queue>>

Job(i) == Scan(i) \/ \E b \in Battles : AdvanceNext(i, b) \/ JobFails(i, b)

Next ==
  \/ \E i \in Instances : Job(i) \/ Start(i) \/ Crash(i)
  \/ \E b \in Battles : Read(b) \/ CloseRoundNow(b) \/ LoseTitle(b)
  \/ Tick

Spec == Init /\ [][Next]_vars

\* Time passes and every instance that is up keeps running its job
\* (periodic_loop)
FairSpec == Spec /\ WF_vars(Tick) /\ \A i \in Instances : WF_vars(Job(i))
-----------------------------------------------------------------------------
\* A job's queue is of battles, and only battles that may lose a title break.
TypeOK ==
  /\ round \in [Battles -> 1 .. Rounds + 1]
  /\ left \in [Battles -> (0 .. Duration) \cup {None}]
  /\ broken \subseteq Fragile /\ up \subseteq Instances
  /\ queue \in [Instances -> SUBSET Battles]

\* core/periodic.py: "safe to run concurrently from several instances:
\* tournament rounds lock the battle and re-check".  However many instances
\* found the same battle overdue, and whoever closed its round meanwhile, no
\* round but the one that is overdue is closed by anyone except the owner.
NoRoundIsCutShort ==
  [][\A b \in Battles :
       round'[b] # round[b] => round'[b] = round[b] + 1 /\ (left[b] = 0 \/ CloseRoundNow(b))]_vars

\* "Close every tournament round whose deadline passed" holds while no battle
\* is broken: once one instance stays up, every round is closed when its time
\* is over, even when nobody opens the battle, and whatever the crashes of the
\* instances and the rounds closed by readers and owners in between.
OverdueRoundsAreClosed ==
  (\E i \in Instances : <>[](i \in up)) /\ [](broken = {}) =>
    \A b \in Battles : Overdue(b) ~> ~ Overdue(b)

\* The same without that condition, of the sound battles only: "a failing job
\* is logged and retried next time", so one battle that cannot be closed
\* should not keep the others waiting.
SoundBattlesMoveOn ==
  (\E i \in Instances : <>[](i \in up)) =>
    \A b \in Battles \ Fragile : Overdue(b) ~> ~ Overdue(b)
=============================================================================
