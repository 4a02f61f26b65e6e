---------------------------- MODULE ScreensProofs ----------------------------
(***************************************************************************)
(* Screens: the rows answer the last question asked, hold every answered   *)
(* write, and the ticks belong to the filters on show, for any number of   *)
(* queries, rows and requests under way, in whatever order answers come;   *)
(* and the bounds of the model leave room for all that is under way.       *)
(***************************************************************************)
EXTENDS Screens, FiniteSetTheorems, TLAPS

\* A read and a write are records of these fields, whatever their values
ReadFields == {"id", "query", "at", "data", "counts", "ends"}
IsRead(r) == r = [f \in ReadFields |-> r[f]]
WriteFields == {"at", "row", "query", "data"}
IsWrite(w) == w = [f \in WriteFields |-> w[f]]

ReadOK(r) == /\ IsRead(r) /\ r.ends \in Slots \cup {None}
             /\ r.at = "served" => r.data \in Nat
ReadsOK == \A r \in requests : ReadOK(r)
NoneCounts == \A r \in requests : ~r.counts

WritesOK ==
  /\ version \in Nat /\ acked \in Nat /\ acked <= version
  /\ writes = [s \in Slots |-> writes[s]]
  /\ \A s \in Slots : /\ IsWrite(writes[s])
                      /\ writes[s].data \in Nat /\ writes[s].data <= version
                      /\ writes[s].at # "idle" => screen.write # "none"
  /\ toast # None => screen.write # "none"

ControlsOK ==
  /\ screen \in Screens
  /\ query \in Queries \cup {Blank}
  /\ timer \in Queries \cup {Blank, None}

\* Only an answer to the last question is still awaited, or was shown
LatestOnly ==
  screen.guard # "all" =>
    /\ \A r \in requests : r.counts => r.query = asked
    /\ timer = None /\ NoneCounts /\ ~failed /\ shown # None => shown.query = asked

\* The last question is the controls', or a timer will ask that
ControlsAsked ==
  screen.write \in {"none", "bump"} /\ screen.ask # "both" =>
    /\ screen.ask = "now" => timer = None
    /\ timer # None => timer = query
    /\ timer = None => asked = query

\* No read served before an answered write is awaited, or was shown
NoOldRows ==
  screen.guard = "newest" /\ timer = None =>
    /\ \A r \in requests : r.counts /\ r.at = "served" => r.data >= acked
    /\ NoneCounts /\ ~failed /\ shown # None => shown.data >= acked

RowsOK == ReadsOK /\ WritesOK /\ ControlsOK /\ LatestOnly /\ ControlsAsked /\ NoOldRows

(***************************************************************************)
(* Asking.                                                                 *)
(***************************************************************************)
LEMMA UncountedReads ==
  ASSUME ReadsOK
  PROVE  \A r \in Uncounted(requests) :
           ReadOK(r) /\ ~r.counts
<1>1. ASSUME NEW q \in requests
      PROVE  LET r == [q EXCEPT !.counts = FALSE] IN
             ReadOK(r) /\ ~r.counts
  <2>1. ReadOK(q)
    BY DEF ReadsOK
  <2> QED
    BY <2>1 DEF ReadOK, IsRead, ReadFields
<1> QED
  BY <1>1 DEF Uncounted

\* A question makes its own answer the only one that counts
LEMMA AskReads ==
  ASSUME ReadsOK, NEW q, NEW s \in Slots \cup {None}, Ask(q, s)
  PROVE  /\ ReadsOK'
         /\ asked' = q
         /\ screen.guard # "all" =>
              /\ \A r \in requests' : r.counts => r.query = q /\ r.at = "sent"
              /\ ~NoneCounts'
<1> DEFINE new == [id |-> FreeId(requests), query |-> q, at |-> "sent", data |-> 0,
                   counts |-> TRUE, ends |-> s]
           old == IF screen.guard = "all" THEN requests ELSE Uncounted(requests)
<1>1. requests' = old \cup {new} /\ asked' = q
  BY DEF Ask
<1>2. ReadOK(new) /\ new.query = q /\ new.at = "sent" /\ new.counts
  BY DEF ReadOK, IsRead, ReadFields
<1> HIDE DEF new
<1>3. \A r \in old : ReadOK(r)
  BY UncountedReads DEF ReadsOK
<1>4. screen.guard # "all" => \A r \in old : ~r.counts
  BY UncountedReads
<1> HIDE DEF old
<1>5. ReadsOK'
  BY <1>1, <1>2, <1>3 DEF ReadsOK
<1> QED
  BY <1>1, <1>2, <1>4, <1>5 DEF NoneCounts

\* ... so nothing older can be on the screen for good
LEMMA AskRows ==
  ASSUME ReadsOK, NEW q, NEW s \in Slots \cup {None}, Ask(q, s), screen' = screen
  PROVE  ReadsOK' /\ LatestOnly' /\ NoOldRows' /\ asked' = q
  BY AskReads DEF LatestOnly, NoOldRows

\* A new query waits for the timer, clears, or is asked
LEMMA FollowRows ==
  ASSUME RowsOK, NEW q \in Queries \cup {Blank}, Follow(q), screen' = screen, query' = q,
         failed' = failed,
         shown' = None \/ (shown' = shown /\ ~(screen.blank /\ q = Blank))
  PROVE  /\ ReadsOK' /\ LatestOnly' /\ ControlsAsked' /\ NoOldRows'
         /\ timer' \in Queries \cup {Blank, None}
<1>1. ReadsOK /\ timer \in Queries \cup {Blank, None}
  BY DEF RowsOK, ControlsOK
<1>2. CASE screen.blank /\ q = Blank /\ timer' = None /\ asked' = Blank
           /\ requests' = (IF screen.guard = "all" THEN requests ELSE Uncounted(requests))
  <2>1. ReadsOK' /\ (screen.guard # "all" => \A r \in requests' : ~r.counts)
    BY <1>1, <1>2, UncountedReads DEF ReadsOK
  <2>2. shown' = None
    BY <1>2
  <2> QED
    BY <1>2, <2>1, <2>2 DEF LatestOnly, ControlsAsked, NoOldRows
<1>3. CASE screen.ask # "now" /\ timer' = q /\ Cancel /\ asked' = asked
  <2>1. /\ ReadsOK'
        /\ \A r \in requests' : r.counts => r \in requests
    <3>1. CASE screen.guard = "cancel"
      BY <1>1, <1>3, <3>1, UncountedReads DEF Cancel, ReadsOK
    <3>2. CASE screen.guard # "cancel"
      BY <1>1, <1>3, <3>2 DEF Cancel, ReadsOK
    <3> QED
      BY <3>1, <3>2
  <2>2. q # None
    BY ScreensBounds
  <2> QED
    BY <1>3, <2>1, <2>2 DEF RowsOK, LatestOnly, ControlsAsked, NoOldRows
<1>4. CASE screen.ask = "now" /\ Ask(q, None) /\ timer' = timer
  <2>1. ReadsOK' /\ LatestOnly' /\ NoOldRows' /\ asked' = q
    BY <1>1, <1>4, AskRows
  <2>2. ControlsAsked'
    BY <1>4, <2>1 DEF RowsOK, ControlsAsked
  <2> QED
    BY <1>1, <1>4, <2>1, <2>2
<1> QED
  BY <1>2, <1>3, <1>4 DEF Follow

(***************************************************************************)
(* One step.                                                               *)
(***************************************************************************)
LEMMA WritesKept ==
  ASSUME WritesOK, UNCHANGED <<screen, version, acked, writes, toast>>
  PROVE  WritesOK'
  BY DEF WritesOK

LEMMA QuestionStep ==
  ASSUME RowsOK,
         \/ \E q \in Queries \cup {Blank} : ChangeQuery(q) \/ Pick(q)
         \/ TimerFires \/ AskAgain
  PROVE  RowsOK'
<1>1. ReadsOK /\ WritesOK /\ ControlsOK
  BY DEF RowsOK
<1>2. screen' = screen /\ UNCHANGED writing
  BY DEF ChangeQuery, Pick, TimerFires, AskAgain
<1>3. WritesOK'
  BY <1>1, <1>2, WritesKept DEF writing
<1>4. ASSUME NEW q \in Queries \cup {Blank}, ChangeQuery(q)
      PROVE  RowsOK'
  <2>1. /\ Follow(q) /\ query' = q /\ failed' = failed
        /\ shown' = None \/ (shown' = shown /\ ~(screen.blank /\ q = Blank))
    BY <1>4 DEF ChangeQuery
  <2>2. /\ ReadsOK' /\ LatestOnly' /\ ControlsAsked' /\ NoOldRows'
        /\ timer' \in Queries \cup {Blank, None}
    BY <1>2, <2>1, FollowRows
  <2> QED
    BY <1>1, <1>2, <1>3, <2>1, <2>2 DEF RowsOK, ControlsOK
<1>5. ASSUME NEW q \in Queries \cup {Blank}, Pick(q)
      PROVE  RowsOK'
  <2>1. Ask(q, None) /\ query' = q /\ timer' = timer /\ screen.ask = "both"
    BY <1>5 DEF Pick
  <2>2. ReadsOK' /\ LatestOnly' /\ NoOldRows'
    BY <1>1, <1>2, <2>1, AskRows
  <2> QED
    BY <1>1, <1>2, <1>3, <2>1, <2>2 DEF RowsOK, ControlsOK, ControlsAsked
<1>6. CASE TimerFires
  <2>1. Ask(timer, None) /\ query' = query /\ timer' = None /\ timer # None
    BY <1>6 DEF TimerFires
  <2>2. ReadsOK' /\ LatestOnly' /\ NoOldRows' /\ asked' = timer
    BY <1>1, <1>2, <2>1, AskRows
  <2> QED
    BY <1>1, <1>2, <1>3, <2>1, <2>2 DEF RowsOK, ControlsOK, ControlsAsked
<1>7. CASE AskAgain
  <2>1. PICK q : /\ Ask(q, None) /\ query' = query /\ timer' = timer
                 /\ q = IF screen.ask = "both" THEN asked ELSE query
    BY <1>7 DEF AskAgain
  <2>2. ReadsOK' /\ LatestOnly' /\ NoOldRows' /\ asked' = q
    BY <1>1, <1>2, <2>1, AskRows
  <2> QED
    BY <1>1, <1>2, <1>3, <2>1, <2>2 DEF RowsOK, ControlsOK, ControlsAsked
<1> QED
  BY <1>4, <1>5, <1>6, <1>7

LEMMA ServeStep ==
  ASSUME RowsOK, NEW r \in requests, Serve(r)
  PROVE  RowsOK'
<1> DEFINE new == [r EXCEPT !.at = "served", !.data = version]
<1>1. ReadOK(r) /\ version \in Nat /\ acked \in Nat /\ acked <= version
  BY DEF RowsOK, ReadsOK, WritesOK
<1>2. /\ ReadOK(new) /\ new.query = r.query /\ new.counts = r.counts
      /\ new.at = "served" /\ new.data = version
  BY <1>1 DEF ReadOK, IsRead, ReadFields
<1>3. /\ requests' = (requests \ {r}) \cup {new}
      /\ UNCHANGED <<screen, query, timer, asked, shown, failed, writing>>
  BY DEF Serve
<1> HIDE DEF new
<1>4. ReadsOK' /\ (NoneCounts' => NoneCounts)
  BY <1>1, <1>2, <1>3 DEF RowsOK, ReadsOK, NoneCounts
<1>5. LatestOnly'
  BY <1>2, <1>3, <1>4 DEF RowsOK, LatestOnly
<1>6. NoOldRows'
  BY <1>1, <1>2, <1>3, <1>4 DEF RowsOK, NoOldRows, writing
<1> QED
  BY <1>3, <1>4, <1>5, <1>6, WritesKept DEF RowsOK, writing, ControlsOK, ControlsAsked

\* A write that is over leaves its slot as it was at first
LEMMA OverWrites ==
  ASSUME WritesOK, NEW s \in Slots \cup {None}, Release(s) \/ (s \in Slots /\ Over(s)),
         UNCHANGED <<screen, version>>, acked' \in Nat, acked' <= version,
         toast' = toast \/ screen.write # "none"
  PROVE  WritesOK'
<1>1. writes' = writes \/ (s \in Slots /\ writes' = [writes EXCEPT ![s] = Idle])
  BY DEF Release, Over
<1>2. IsWrite(Idle) /\ Idle.data = 0 /\ Idle.at = "idle"
  BY DEF Idle, IsWrite, WriteFields
<1> QED
  BY <1>1, <1>2 DEF WritesOK

LEMMA AnswerStep ==
  ASSUME RowsOK, NEW r \in requests, Arrive(r) \/ ArriveFailed(r)
  PROVE  RowsOK'
<1>1. /\ requests' = requests \ {r}
      /\ Release(r.ends)
      /\ UNCHANGED <<screen, query, timer, asked, version, acked, toast>>
  BY DEF Arrive, ArriveFailed
<1>2. ReadsOK' /\ r.ends \in Slots \cup {None} /\ acked \in Nat /\ acked <= version
  BY <1>1 DEF RowsOK, WritesOK, ReadsOK, ReadOK
<1>6. WritesOK'
  BY <1>1, <1>2, OverWrites DEF RowsOK
<1>3. CASE ~r.counts
  <2>1. shown' = shown
    BY <1>3 DEF Arrive, ArriveFailed
  <2>2. ~failed' => ~failed
    <3>1. CASE Arrive(r)
      BY <1>3, <3>1 DEF Arrive
    <3>2. CASE ArriveFailed(r)
      <4>1. failed' = (failed \/ (r.counts /\ screen.fail # "empty"))
        BY <3>2 DEF ArriveFailed
      <4> QED
        BY <4>1, Zenon
    <3> QED
      BY <3>1, <3>2
  <2>3. NoneCounts' => NoneCounts
    BY <1>1, <1>3 DEF NoneCounts
  <2>4. LatestOnly' /\ NoOldRows'
    BY <1>1, <2>1, <2>2, <2>3 DEF RowsOK, LatestOnly, NoOldRows
  <2> QED
    BY <1>1, <1>2, <1>6, <2>4 DEF RowsOK, ControlsOK, ControlsAsked
<1>4. CASE r.counts /\ Arrive(r)
  <2>1. shown' = [query |-> r.query, data |-> r.data] /\ r.at = "served"
    BY <1>4 DEF Arrive
  <2>2. shown'.query = r.query /\ shown'.data = r.data
    BY <2>1
  <2>3. LatestOnly'
    BY <1>1, <1>4, <2>2 DEF RowsOK, LatestOnly
  <2>4. NoOldRows'
    BY <1>1, <1>4, <2>1, <2>2 DEF RowsOK, NoOldRows
  <2> QED
    BY <1>1, <1>2, <1>6, <2>3, <2>4 DEF RowsOK, ControlsOK, ControlsAsked
<1>5. CASE r.counts /\ ArriveFailed(r)
  <2>1. shown' = None \/ failed'
    <3>1. CASE screen.fail = "empty"
      BY <1>5, <3>1 DEF ArriveFailed
    <3>2. CASE screen.fail # "empty"
      <4>1. failed' = (failed \/ (r.counts /\ screen.fail # "empty"))
        BY <1>5 DEF ArriveFailed
      <4> QED
        BY <1>5, <3>2, <4>1, Zenon
    <3> QED
      BY <3>1, <3>2
  <2>2. LatestOnly' /\ NoOldRows'
    BY <1>1, <2>1 DEF RowsOK, LatestOnly, NoOldRows
  <2> QED
    BY <1>1, <1>2, <1>6, <2>2 DEF RowsOK, ControlsOK, ControlsAsked
<1> QED
  BY <1>3, <1>4, <1>5

\* What a write does to the rows is only what its reload does
LEMMA RowsKept ==
  ASSUME RowsOK, UNCHANGED <<screen, query, timer, reading, shown, failed, acked>>, WritesOK'
  PROVE  RowsOK'
<1>1. NoneCounts' <=> NoneCounts
  BY DEF NoneCounts, reading
<1> QED
  BY <1>1 DEF RowsOK, ReadsOK, ControlsOK, LatestOnly, ControlsAsked, NoOldRows, reading

LEMMA BeginStep ==
  ASSUME RowsOK, NEW s \in Slots,
         Undo(s) \/ RunBulk(s) \/ \E row \in Rows : Click(s, row)
  PROVE  RowsOK'
<1>1. PICK row, q : Begin(s, row, q)
  BY DEF Undo, RunBulk, Click
<1>2. toast' = None \/ toast' = toast
  BY DEF Undo, RunBulk, Click
<1>3. screen.write # "none"
  <2>1. ASSUME RunBulk(s) PROVE screen.write # "none"
    BY <2>1, ScreenKinds DEF RunBulk, RowsOK, ControlsOK
  <2> QED
    BY <2>1 DEF Undo, Click, RowsOK, WritesOK
<1> DEFINE new == [at |-> "sent", row |-> row, query |-> q, data |-> 0]
<1>4. IsWrite(new) /\ new.data = 0
  BY DEF IsWrite, WriteFields
<1>5. /\ writes' = [writes EXCEPT ![s] = new]
      /\ UNCHANGED <<screen, query, timer, reading, shown, failed, version, acked>>
  BY <1>1 DEF Begin
<1> HIDE DEF new
<1>6. WritesOK'
  BY <1>2, <1>3, <1>4, <1>5 DEF RowsOK, WritesOK
<1> QED
  BY <1>5, <1>6, RowsKept

LEMMA ServeWriteStep ==
  ASSUME RowsOK, NEW s \in Slots, ServeWrite(s)
  PROVE  RowsOK'
<1> DEFINE new == [writes[s] EXCEPT !.at = "served", !.data = version + 1]
<1>1. WritesOK /\ IsWrite(writes[s]) /\ version \in Nat
  BY DEF RowsOK, WritesOK
<1>2. IsWrite(new) /\ new.data = version + 1
  BY <1>1 DEF IsWrite, WriteFields
<1>3. /\ writes' = [writes EXCEPT ![s] = new] /\ version' = version + 1
      /\ writes[s].at = "sent"
      /\ UNCHANGED <<screen, query, timer, reading, shown, failed, acked, toast>>
  BY <1>1 DEF ServeWrite, WritesOK
<1> HIDE DEF new
<1>4. WritesOK'
  BY <1>1, <1>2, <1>3 DEF WritesOK
<1> QED
  BY <1>3, <1>4, RowsKept

LEMMA WriteSucceedsStep ==
  ASSUME RowsOK, NEW s \in Slots, WriteSucceeds(s)
  PROVE  RowsOK'
<1>1. /\ ReadsOK /\ WritesOK /\ screen \in Screen /\ (screen.write = "bump" => ~screen.blank)
      /\ (screen.bulk => screen.write = "held") /\ query \in Queries \cup {Blank}
      /\ IsWrite(writes[s]) /\ writes[s].data \in Nat /\ writes[s].data <= version
      /\ screen.write # "none"
  BY ScreenKinds DEF RowsOK, WritesOK, ControlsOK, WriteSucceeds
<1>2. /\ UNCHANGED <<screen, query, shown, failed, version>>
      /\ acked' \in Nat /\ acked' <= version
      /\ toast' = toast \/ screen.write # "none"
  BY <1>1 DEF WriteSucceeds, WritesOK
<1>3. CASE screen.write = "held"
  <2> DEFINE new == [writes[s] EXCEPT !.at = "reading"]
  <2>1. Ask(writes[s].query, s) /\ timer' = timer /\ writes' = [writes EXCEPT ![s].at = "reading"]
    BY <1>3 DEF WriteSucceeds, ReadAgain
  <2>2. IsWrite(new) /\ new.data = writes[s].data /\ writes' = [writes EXCEPT ![s] = new]
    BY <1>1, <2>1 DEF WritesOK, IsWrite, WriteFields
  <2> HIDE DEF new
  <2>3. WritesOK'
    BY <1>1, <1>2, <1>3, <2>2 DEF WritesOK
  <2>4. ReadsOK' /\ LatestOnly' /\ NoOldRows'
    BY <1>1, <1>2, <2>1, AskRows
  <2> QED
    BY <1>2, <1>3, <2>1, <2>3, <2>4 DEF RowsOK, ControlsOK, ControlsAsked
<1>4. CASE screen.write = "asked"
  <2>1. Ask(writes[s].query, None) /\ timer' = timer /\ Over(s)
    BY <1>4 DEF WriteSucceeds, ReadAgain
  <2>2. WritesOK'
    BY <1>1, <1>2, <2>1, OverWrites
  <2>3. ReadsOK' /\ LatestOnly' /\ NoOldRows'
    BY <1>1, <1>2, <2>1, AskRows
  <2> QED
    BY <1>2, <1>4, <2>1, <2>2, <2>3 DEF RowsOK, ControlsOK, ControlsAsked
<1>5. CASE screen.write = "bump"
  <2>1. Follow(query) /\ Over(s) /\ ~screen.blank
    BY <1>1, <1>5 DEF WriteSucceeds, ReadAgain
  <2>2. WritesOK'
    BY <1>1, <1>2, <2>1, OverWrites
  <2>3. /\ ReadsOK' /\ LatestOnly' /\ ControlsAsked' /\ NoOldRows'
        /\ timer' \in Queries \cup {Blank, None}
    BY <1>1, <1>2, <2>1, FollowRows
  <2> QED
    BY <1>2, <2>2, <2>3 DEF RowsOK, ControlsOK
<1> QED
  BY <1>1, <1>3, <1>4, <1>5 DEF Screen

LEMMA RowsStep ==
  ASSUME RowsOK, [Next]_vars
  PROVE  RowsOK'
<1>1. ASSUME NEW s \in Slots, WriteFails(s)
      PROVE  RowsOK'
  <2>1. Over(s) /\ UNCHANGED <<screen, query, timer, reading, shown, failed, version, acked, toast>>
    BY <1>1 DEF WriteFails
  <2>2. WritesOK'
    BY <2>1, OverWrites DEF RowsOK, WritesOK
  <2> QED
    BY <2>1, <2>2, RowsKept
<1>2. CASE \/ ToastExpires \/ \E row \in Rows : ToggleRow(row)
           \/ TogglePage \/ SelectAllMatching \/ ClearSelection \/ UNCHANGED vars
  <2>1. UNCHANGED <<screen, query, timer, reading, shown, failed, version, acked, writes>>
    BY <1>2 DEF ToastExpires, ToggleRow, TogglePage, SelectAllMatching, ClearSelection, Tick,
                writing, vars, reading
  <2>2. toast' = None \/ toast' = toast
    BY <1>2 DEF ToastExpires, ToggleRow, TogglePage, SelectAllMatching, ClearSelection, Tick,
                writing, vars
  <2>3. WritesOK'
    BY <2>1, <2>2 DEF RowsOK, WritesOK
  <2> QED
    BY <2>1, <2>3, RowsKept
<1> QED
  BY <1>1, <1>2, QuestionStep, ServeStep, AnswerStep, BeginStep, ServeWriteStep,
     WriteSucceedsStep DEF Next, Answers, WriteAnswers

LEMMA RowsInit ==
  ASSUME Init
  PROVE  RowsOK
<1> DEFINE first == [id |-> 1, query |-> query, at |-> "sent", data |-> 0,
                     counts |-> TRUE, ends |-> None]
<1>1. ReadOK(first) /\ first.query = query /\ first.at = "sent" /\ first.counts
  BY DEF ReadOK, IsRead, ReadFields
<1>2. IsWrite(Idle) /\ Idle.data = 0 /\ Idle.at = "idle"
  BY DEF Idle, IsWrite, WriteFields
<1>3. /\ requests = IF query = Blank THEN {} ELSE {first}
      /\ screen \in Screens /\ query \in Queries \cup {Blank} /\ timer = None /\ asked = query
      /\ shown = None /\ version = 0 /\ acked = 0 /\ toast = None
      /\ writes = [s \in Slots |-> Idle]
  BY ScreensBounds DEF Init
<1> HIDE DEF first
<1>4. ReadsOK /\ LatestOnly /\ NoOldRows
  BY <1>1, <1>3 DEF ReadsOK, LatestOnly, NoOldRows
<1>5. WritesOK
  BY <1>2, <1>3 DEF WritesOK
<1> QED
  BY <1>3, <1>4, <1>5 DEF RowsOK, ControlsOK, ControlsAsked

\* Where old answers are dropped, the rows left when nothing is under way are
\* the answer to the last question (the request counters and cancelled effects
\* of the tables, boxes and sections)
THEOREM RowsAlwaysAnswerTheQuestion == Spec => []RowsAnswerTheQuestion
<1>1. RowsOK => RowsAnswerTheQuestion
  <2> SUFFICES ASSUME RowsOK, Settled, ~failed, Displayed # None
               PROVE  RowsAnswerTheQuestion
    BY DEF RowsAnswerTheQuestion
  <2>1. requests = {} /\ timer = None /\ NoneCounts
    BY DEF Settled, NoneCounts
  <2>2. Displayed = shown /\ shown # None /\ (screen.match => shown.query = query)
    BY DEF Displayed
  <2> QED
    BY <2>1, <2>2 DEF RowsOK, LatestOnly, ControlsAsked, RowsAnswerTheQuestion
<1> QED
  BY <1>1, RowsInit, RowsStep, PTL DEF Spec

\* Where only the last answer counts, a read served before an answered write
\* never stays on the screen (reqId of the users table and the audit log)
THEOREM WritesAreAlwaysSeen == Spec => []WritesAreSeen
<1>1. RowsOK => WritesAreSeen
  <2> SUFFICES ASSUME RowsOK, Settled, ~failed, screen.guard = "newest", Displayed # None
               PROVE  shown.data >= acked
    BY DEF WritesAreSeen
  <2>1. timer = None /\ NoneCounts
    BY DEF Settled, NoneCounts
  <2>2. shown # None
    BY DEF Displayed
  <2> QED
    BY <2>1, <2>2 DEF RowsOK, NoOldRows
<1> QED
  BY <1>1, RowsInit, RowsStep, PTL DEF Spec

(***************************************************************************)
(* The ticks of the users table.                                           *)
(***************************************************************************)
TicksOK ==
  /\ screen \in Screens
  /\ selection.all \/ selection.rows # {} => screen.bulk /\ selection.under = Filters(query)

LEMMA TicksStep ==
  ASSUME TicksOK, [Next]_vars
  PROVE  TicksOK'
<1>1. ~NothingTicked.all /\ NothingTicked.rows = {}
  BY DEF NothingTicked
<1>2. ASSUME UNCHANGED <<screen, query, selection>>
      PROVE  TicksOK'
  BY <1>2 DEF TicksOK
<1>3. ASSUME NEW q, ChangeQuery(q)
      PROVE  TicksOK'
  BY <1>1, <1>3 DEF ChangeQuery, SelectionAfter, TicksOK
<1>4. ASSUME NEW q, Pick(q)
      PROVE  TicksOK'
  BY <1>4, ScreenKinds DEF Pick, TicksOK
<1>5. ASSUME NEW rows, NEW all, Tick(rows, all)
      PROVE  TicksOK'
  BY <1>1, <1>5 DEF Tick, TicksOK
<1>6. CASE \/ \E row \in Rows : ToggleRow(row)
           \/ TogglePage \/ SelectAllMatching \/ ClearSelection
  BY <1>5, <1>6 DEF ToggleRow, TogglePage, SelectAllMatching, ClearSelection
<1>7. CASE TimerFires \/ AskAgain \/ ToastExpires \/ UNCHANGED vars
           \/ \E r \in requests : Serve(r) \/ Arrive(r) \/ ArriveFailed(r)
  BY <1>2, <1>7 DEF TimerFires, AskAgain, ToastExpires, vars, Serve, Arrive, ArriveFailed
<1>8. CASE \E s \in Slots : ServeWrite(s) \/ WriteFails(s) \/ Undo(s) \/ RunBulk(s)
                             \/ \E row \in Rows : Click(s, row)
  BY <1>2, <1>8 DEF ServeWrite, WriteFails, Undo, RunBulk, Click, Begin
<1>9. ASSUME NEW s \in Slots, WriteSucceeds(s)
      PROVE  TicksOK'
  BY <1>1, <1>9 DEF WriteSucceeds, TicksOK
<1> QED
  BY <1>3, <1>4, <1>6, <1>7, <1>8, <1>9 DEF Next, Answers, WriteAnswers

\* What a bulk operation acts on was ticked under the filters on show
\* (app/admin/(protected)/users/AdminUsersManager.tsx)
THEOREM TicksAreAlwaysOfTheseFilters == Spec => []TicksAreOfTheseFilters
<1>1. Init => TicksOK
  BY DEF Init, TicksOK, NothingTicked
<1>2. TicksOK => TicksAreOfTheseFilters
  BY DEF TicksOK, TicksAreOfTheseFilters
<1> QED
  BY <1>1, <1>2, TicksStep, PTL DEF Spec

(***************************************************************************)
(* Types, and the room for what is under way.                              *)
(***************************************************************************)
ReadType == [id : Ids, query : Queries, at : {"sent", "served"}, data : 0 .. MaxAsks,
             counts : BOOLEAN, ends : Slots \cup {None}]
WriteType == [at : {"idle", "sent", "served", "reading"}, row : Rows \cup {None, "ticked", "undo"},
              query : Queries \cup {Blank, None}, data : 0 .. MaxAsks]
SelectionType == [rows : SUBSET Rows, all : BOOLEAN,
                  under : {Filters(q) : q \in Queries} \cup {None}]

Apart == \A a, b \in requests : a.id = b.id => a = b

\* Writes that may yet ask for a read, and those the server may yet do
Waiting == {s \in Slots : writes[s].at \in {"sent", "served"}}
Sent == {s \in Slots : writes[s].at = "sent"}
Armed == IF timer = None THEN 0 ELSE 1

\* Every read was asked for by the opening or by something the user did, a
\* write that was answered or a timer that fired; so an identity is free
RoomOK ==
  /\ IsFiniteSet(requests) /\ IsFiniteSet(Waiting) /\ IsFiniteSet(Sent)
  /\ Cardinality(requests) + Cardinality(Waiting) + Armed <= asks + 1
  /\ version + Cardinality(Sent) <= asks

\* Only a box that clears on an empty text ever holds one
BlankOK ==
  /\ query = Blank \/ asked = Blank => screen.blank
  /\ timer # Blank /\ toast # Blank
  /\ \A s \in Slots : writes[s].at # "idle" => writes[s].query \in Queries

TypesOK == TypeOK /\ BlankOK /\ RoomOK /\ Apart

LEMMA UncountedTyped ==
  ASSUME requests \subseteq ReadType, Apart, IsFiniteSet(requests)
  PROVE  /\ Uncounted(requests) \subseteq ReadType
         /\ \A a, b \in Uncounted(requests) : a.id = b.id => a = b
         /\ \A a \in Uncounted(requests) : \E r \in requests : r.id = a.id
         /\ IsFiniteSet(Uncounted(requests))
         /\ Cardinality(Uncounted(requests)) <= Cardinality(requests)
<1> DEFINE un == [r \in requests |-> [r EXCEPT !.counts = FALSE]]
<1>1. \A r \in requests : un[r] \in ReadType /\ un[r].id = r.id
  BY DEF ReadType
<1>2. Uncounted(requests) = {un[r] : r \in requests}
  BY DEF Uncounted
<1>3. un \in Surjection(requests, Uncounted(requests))
  BY <1>2 DEF Surjection
<1> HIDE DEF un
<1>4. \A a \in Uncounted(requests) : \E r \in requests : a = un[r]
  BY <1>2
<1>5. \A a, b \in Uncounted(requests) : a.id = b.id => a = b
  BY <1>1, <1>4 DEF Apart
<1> QED
  BY <1>1, <1>3, <1>4, <1>5, FS_Surjection

\* A new read has an identity of its own
LEMMA AskTyped ==
  ASSUME requests \subseteq ReadType, Apart, IsFiniteSet(requests),
         Cardinality(requests) <= MaxAsks,
         NEW q \in Queries, NEW s \in Slots \cup {None}, Ask(q, s)
  PROVE  /\ requests' \subseteq ReadType /\ Apart' /\ IsFiniteSet(requests')
         /\ Cardinality(requests') <= Cardinality(requests) + 1
         /\ asked' = q /\ loading' = TRUE
<1> DEFINE new == [id |-> FreeId(requests), query |-> q, at |-> "sent", data |-> 0,
                   counts |-> TRUE, ends |-> s]
           old == IF screen.guard = "all" THEN requests ELSE Uncounted(requests)
           ids == {r.id : r \in requests}
           f == [r \in requests |-> r.id]
<1>1. f \in Surjection(requests, ids)
  BY DEF Surjection
<1>2. IsFiniteSet(ids) /\ Cardinality(ids) <= Cardinality(requests)
  BY <1>1, FS_Surjection
<1>3. \E i \in Ids : i \notin ids
  <2> SUFFICES ASSUME Ids \subseteq ids PROVE FALSE
    OBVIOUS
  <2>1. IsFiniteSet(Ids) /\ Cardinality(Ids) = MaxAsks + 1
    BY ScreensBounds, FS_Interval DEF Ids
  <2>2. Cardinality(Ids) <= Cardinality(ids) /\ Cardinality(ids) \in Nat
    BY <1>2, FS_Subset, FS_CardinalityType
  <2>3. Cardinality(requests) \in Nat
    BY FS_CardinalityType
  <2> HIDE DEF ids
  <2> QED
    BY <1>2, <2>1, <2>2, <2>3, ScreensBounds
<1>4. \E i \in Ids : \A r \in requests : r.id # i
  BY <1>3
<1>5. FreeId(requests) \in Ids /\ \A r \in requests : r.id # FreeId(requests)
  BY <1>4 DEF FreeId
<1>6. new \in ReadType /\ new.id = FreeId(requests)
  BY <1>5, ScreensBounds DEF ReadType
<1>7. /\ old \subseteq ReadType /\ IsFiniteSet(old) /\ Cardinality(old) <= Cardinality(requests)
      /\ \A a, b \in old : a.id = b.id => a = b
      /\ \A a \in old : a.id # FreeId(requests)
  <2>1. Cardinality(requests) \in Nat
    BY FS_CardinalityType
  <2>2. CASE screen.guard = "all"
    BY <1>5, <2>1, <2>2 DEF Apart
  <2>3. CASE screen.guard # "all"
    BY <1>5, <2>3, UncountedTyped
  <2> QED
    BY <2>2, <2>3
<1>8. requests' = old \cup {new} /\ asked' = q /\ loading' = TRUE
  BY DEF Ask
<1> HIDE DEF new, old
<1>9. /\ IsFiniteSet(old \cup {new}) /\ Cardinality(old \cup {new}) <= Cardinality(old) + 1
      /\ Cardinality(old) \in Nat /\ Cardinality(requests) \in Nat
  <2>1. Cardinality(old) \in Nat /\ Cardinality(requests) \in Nat /\ IsFiniteSet(old)
    BY <1>7, FS_CardinalityType
  <2>2. IsFiniteSet(old \cup {new})
    BY <2>1, FS_AddElement
  <2>3. Cardinality(old \cup {new}) = IF new \in old THEN Cardinality(old) ELSE Cardinality(old) + 1
    BY <2>1, FS_AddElement
  <2> QED
    BY <2>1, <2>2, <2>3
<1>10. Apart'
  BY <1>6, <1>7, <1>8 DEF Apart
<1>11. Cardinality(requests') \in Nat
  BY <1>8, <1>9, FS_CardinalityType
<1> QED
  BY <1>6, <1>7, <1>8, <1>9, <1>10, <1>11

\* What a step leaves alone keeps its count
LEMMA Counts ==
  ASSUME RoomOK
  PROVE  Cardinality(requests) \in Nat /\ Cardinality(Waiting) \in Nat /\ Cardinality(Sent) \in Nat
BY FS_CardinalityType DEF RoomOK

\* One slot changes
LEMMA SlotCounts ==
  ASSUME writes \in [Slots -> WriteType], IsFiniteSet(Waiting), IsFiniteSet(Sent),
         NEW s \in Slots, NEW w, writes' = [writes EXCEPT ![s] = w]
  PROVE  /\ IsFiniteSet(Waiting') /\ IsFiniteSet(Sent')
         /\ Cardinality(Waiting') \in Nat /\ Cardinality(Sent') \in Nat
         /\ Cardinality(Waiting') <= Cardinality(Waiting) + 1
         /\ s \in Waiting \/ w.at \notin {"sent", "served"}
              => Cardinality(Waiting') <= Cardinality(Waiting)
         /\ s \in Waiting /\ w.at \notin {"sent", "served"}
              => Cardinality(Waiting') <= Cardinality(Waiting) - 1
         /\ Cardinality(Sent') <= Cardinality(Sent) + 1
         /\ w.at # "sent" => Cardinality(Sent') <= Cardinality(Sent)
         /\ s \in Sent /\ w.at # "sent" => Cardinality(Sent') <= Cardinality(Sent) - 1
<1>1. Waiting' = (IF w.at \in {"sent", "served"} THEN Waiting \cup {s} ELSE Waiting \ {s})
  BY DEF Waiting
<1>2. Sent' = (IF w.at = "sent" THEN Sent \cup {s} ELSE Sent \ {s})
  BY DEF Sent
<1>3. Cardinality(Waiting) \in Nat /\ Cardinality(Sent) \in Nat
  BY FS_CardinalityType
<1>4. /\ IsFiniteSet(Waiting \cup {s}) /\ IsFiniteSet(Waiting \ {s})
      /\ Cardinality(Waiting \cup {s}) = IF s \in Waiting THEN Cardinality(Waiting) ELSE Cardinality(Waiting) + 1
      /\ Cardinality(Waiting \ {s}) = IF s \in Waiting THEN Cardinality(Waiting) - 1 ELSE Cardinality(Waiting)
  BY FS_AddElement, FS_RemoveElement
<1>5. /\ IsFiniteSet(Sent \cup {s}) /\ IsFiniteSet(Sent \ {s})
      /\ Cardinality(Sent \cup {s}) = IF s \in Sent THEN Cardinality(Sent) ELSE Cardinality(Sent) + 1
      /\ Cardinality(Sent \ {s}) = IF s \in Sent THEN Cardinality(Sent) - 1 ELSE Cardinality(Sent)
  BY FS_AddElement, FS_RemoveElement
<1>6. IsFiniteSet(Waiting') /\ IsFiniteSet(Sent')
  BY <1>1, <1>2, <1>4, <1>5
<1>7. Cardinality(Waiting') \in Nat /\ Cardinality(Sent') \in Nat
  BY <1>6, FS_CardinalityType
<1>8. /\ Cardinality(Waiting') <= Cardinality(Waiting) + 1
      /\ s \in Waiting \/ w.at \notin {"sent", "served"}
           => Cardinality(Waiting') <= Cardinality(Waiting)
      /\ s \in Waiting /\ w.at \notin {"sent", "served"}
           => Cardinality(Waiting') <= Cardinality(Waiting) - 1
  <2>1. CASE w.at \in {"sent", "served"}
    BY <1>1, <1>3, <1>4, <2>1
  <2>2. CASE w.at \notin {"sent", "served"}
    BY <1>1, <1>3, <1>4, <2>2
  <2> QED
    BY <2>1, <2>2
<1>9. /\ Cardinality(Sent') <= Cardinality(Sent) + 1
      /\ w.at # "sent" => Cardinality(Sent') <= Cardinality(Sent)
      /\ s \in Sent /\ w.at # "sent" => Cardinality(Sent') <= Cardinality(Sent) - 1
  <2>1. CASE w.at = "sent"
    BY <1>2, <1>3, <1>5, <2>1
  <2>2. CASE w.at # "sent"
    BY <1>2, <1>3, <1>5, <2>2
  <2> QED
    BY <2>1, <2>2
<1> QED
  BY <1>6, <1>7, <1>8, <1>9

\* The end of a write frees its slot
LEMMA OverTyped ==
  ASSUME TypesOK, NEW s \in Slots \cup {None}, Release(s) \/ (s \in Slots /\ Over(s))
  PROVE  /\ writes' \in [Slots -> WriteType] /\ busy' \in Rows \cup {None, "all"}
         /\ \A t \in Slots : writes'[t].at # "idle" => writes'[t].query \in Queries
         /\ IsFiniteSet(Waiting') /\ IsFiniteSet(Sent')
         /\ Cardinality(Waiting') \in Nat /\ Cardinality(Sent') \in Nat
         /\ Cardinality(Waiting') <= Cardinality(Waiting) /\ Cardinality(Sent') <= Cardinality(Sent)
         /\ s \in Slots /\ Over(s) /\ s \in Waiting => Cardinality(Waiting') <= Cardinality(Waiting) - 1
<1>1. /\ writes \in [Slots -> WriteType] /\ busy \in Rows \cup {None, "all"}
      /\ \A t \in Slots : writes[t].at # "idle" => writes[t].query \in Queries
  BY DEF TypesOK, TypeOK, WriteType, BlankOK
<1>2. /\ IsFiniteSet(Waiting) /\ IsFiniteSet(Sent)
      /\ Cardinality(Waiting) \in Nat /\ Cardinality(Sent) \in Nat
  BY Counts DEF TypesOK, RoomOK
<1>3. CASE UNCHANGED <<writes, busy>> /\ ~(s \in Slots /\ Over(s))
  <2>1. Waiting' = Waiting /\ Sent' = Sent
    BY <1>3 DEF Waiting, Sent
  <2> QED
    BY <1>1, <1>2, <1>3, <2>1
<1>4. CASE s \in Slots /\ Over(s)
  <2>1. Idle \in WriteType /\ Idle.at = "idle"
    BY ScreensBounds DEF Idle, WriteType
  <2>2. writes' = [writes EXCEPT ![s] = Idle] /\ busy' \in Rows \cup {None, "all"}
    BY <1>1, <1>4 DEF Over
  <2>3. /\ IsFiniteSet(Waiting') /\ IsFiniteSet(Sent')
        /\ Cardinality(Waiting') \in Nat /\ Cardinality(Sent') \in Nat
        /\ Cardinality(Waiting') <= Cardinality(Waiting) /\ Cardinality(Sent') <= Cardinality(Sent)
        /\ s \in Waiting => Cardinality(Waiting') <= Cardinality(Waiting) - 1
    BY <1>1, <1>2, <1>4, <2>1, <2>2, SlotCounts
  <2> QED
    BY <1>1, <1>4, <2>1, <2>2, <2>3
<1> QED
  BY <1>3, <1>4 DEF Release

\* A new query waits, clears or asks: one read or timer more, at most
LEMMA FollowTyped ==
  ASSUME TypesOK, NEW q \in Queries \cup {Blank}, q = Blank => screen.blank, Follow(q),
         Cardinality(requests) <= MaxAsks
  PROVE  /\ requests' \subseteq ReadType /\ Apart' /\ IsFiniteSet(requests')
         /\ timer' \in Queries \cup {None} /\ asked' \in Queries \cup {Blank}
         /\ asked' = Blank => screen.blank
         /\ loading' \in BOOLEAN
         /\ Cardinality(requests') + Armed' <= Cardinality(requests) + Armed + 1
<1>1. /\ requests \subseteq ReadType /\ Apart /\ IsFiniteSet(requests) /\ Cardinality(requests) \in Nat
      /\ timer \in Queries \cup {None} /\ asked \in Queries \cup {Blank}
      /\ asked = Blank => screen.blank
      /\ loading \in BOOLEAN /\ screen.blank \in BOOLEAN
  BY Counts, ScreenKinds DEF TypesOK, TypeOK, ReadType, RoomOK, BlankOK, Screen
<1>2. Uncounted(requests) \subseteq ReadType /\ IsFiniteSet(Uncounted(requests))
      /\ (\A a, b \in Uncounted(requests) : a.id = b.id => a = b)
      /\ Cardinality(Uncounted(requests)) <= Cardinality(requests)
      /\ Cardinality(Uncounted(requests)) \in Nat
  BY <1>1, UncountedTyped, FS_CardinalityType
<1>3. Armed \in {0, 1} /\ Armed' \in {0, 1} /\ (timer' = None => Armed' = 0) /\ (timer' = timer => Armed' = Armed)
  BY DEF Armed
<1>4. CASE screen.blank /\ q = Blank /\ timer' = None /\ asked' = Blank /\ loading' \in {loading, FALSE}
           /\ requests' = (IF screen.guard = "all" THEN requests ELSE Uncounted(requests))
  <2>1. requests' = requests \/ requests' = Uncounted(requests)
    BY <1>4
  <2>2. /\ requests' \subseteq ReadType /\ Apart' /\ IsFiniteSet(requests')
        /\ Cardinality(requests') \in Nat /\ Cardinality(requests') <= Cardinality(requests)
    BY <1>1, <1>2, <2>1 DEF Apart
  <2>3. loading' \in BOOLEAN
    BY <1>1, <1>4
  <2> QED
    BY <1>1, <1>3, <1>4, <2>2, <2>3
<1>5. CASE ~(screen.blank /\ q = Blank) /\ timer' = q /\ Cancel /\ asked' = asked
           /\ loading' \in {loading, screen.blank}
  <2>1. q \in Queries
    BY <1>5
  <2>2. requests' = requests \/ requests' = Uncounted(requests)
    BY <1>5 DEF Cancel
  <2>3. /\ requests' \subseteq ReadType /\ Apart' /\ IsFiniteSet(requests')
        /\ Cardinality(requests') \in Nat /\ Cardinality(requests') <= Cardinality(requests)
    BY <1>1, <1>2, <2>2 DEF Apart
  <2> QED
    BY <1>1, <1>3, <1>5, <2>1, <2>3
<1>6. CASE ~(screen.blank /\ q = Blank) /\ Ask(q, None) /\ timer' = timer
  <2>1. q \in Queries
    BY <1>6
  <2>2. /\ requests' \subseteq ReadType /\ Apart' /\ IsFiniteSet(requests')
        /\ Cardinality(requests') <= Cardinality(requests) + 1
        /\ asked' = q /\ loading' = TRUE
    BY <1>1, <1>6, <2>1, AskTyped
  <2>3. Cardinality(requests') \in Nat
    BY <2>2, FS_CardinalityType
  <2>4. q # Blank
    BY <2>1, ScreensBounds
  <2> QED
    BY <1>1, <1>3, <1>6, <2>1, <2>2, <2>3, <2>4
<1> QED
  BY <1>4, <1>5, <1>6 DEF Follow

LEMMA NothingTyped == NothingTicked \in SelectionType
BY DEF NothingTicked, SelectionType

LEMMA FiltersTyped ==
  ASSUME query \in Queries \cup {Blank}
  PROVE  Filters(query) \in {Filters(q) : q \in Queries} \cup {None}
BY DEF Filters

\* A step of the reader alone leaves the writes as they are
LEMMA WritesSame ==
  ASSUME TypesOK, UNCHANGED writes
  PROVE  /\ Waiting' = Waiting /\ Sent' = Sent
         /\ Cardinality(Waiting) \in Nat /\ Cardinality(Sent) \in Nat /\ Cardinality(requests) \in Nat
BY Counts DEF TypesOK, Waiting, Sent

\* One read more, one timer less or one thing the user did
LEMMA OneMore ==
  /\ \A c, d, a, b, k, l \in Nat : d <= c + 1 /\ 1 + b + k <= a + l => d + b + k <= c + a + l
  /\ \A n \in 0 .. MaxAsks : n \in Nat
OBVIOUS

\* The question of a step, whatever asked it
LEMMA QuestionTyped ==
  ASSUME TypesOK, UNCHANGED <<screen, failed, writing>>,
         query' \in Queries \cup {Blank}, query' = Blank => screen.blank,
         requests' \subseteq ReadType, Apart', IsFiniteSet(requests'),
         timer' \in Queries \cup {None}, asked' \in Queries \cup {Blank}, asked' = Blank => screen.blank,
         loading' \in BOOLEAN, shown' = None \/ shown' = shown, selection' \in SelectionType,
         asks' \in 0 .. MaxAsks, asks' >= asks,
         Cardinality(requests') + Armed' + asks <= Cardinality(requests) + Armed + asks'
  PROVE  TypesOK'
<1>1. /\ Waiting' = Waiting /\ Sent' = Sent
      /\ Cardinality(Waiting) \in Nat /\ Cardinality(Sent) \in Nat /\ Cardinality(requests) \in Nat
  BY WritesSame DEF writing
<1>2. Cardinality(requests') \in Nat /\ Armed' \in Nat /\ Armed \in Nat
  BY FS_CardinalityType DEF Armed
<1>3. version \in Nat /\ asks \in Nat
  BY DEF TypesOK, TypeOK
<1>4. RoomOK'
  BY <1>1, <1>2, <1>3 DEF TypesOK, RoomOK, writing
<1>5. BlankOK'
  BY ScreensBounds DEF TypesOK, BlankOK, writing
<1>6. TypeOK'
  BY DEF TypesOK, TypeOK, writing, ReadType, SelectionType
<1> QED
  BY <1>4, <1>5, <1>6 DEF TypesOK

LEMMA AsksTyped ==
  ASSUME TypesOK,
         (\E q \in Queries \cup {Blank} : ChangeQuery(q) \/ Pick(q)) \/ TimerFires \/ AskAgain
  PROVE  TypesOK'
<1>1. /\ requests \subseteq ReadType /\ Apart /\ IsFiniteSet(requests) /\ Cardinality(requests) \in Nat
      /\ Cardinality(Waiting) \in Nat /\ asks \in 0 .. MaxAsks /\ Armed \in {0, 1}
      /\ Cardinality(requests) + Cardinality(Waiting) + Armed <= asks + 1
      /\ query \in Queries \cup {Blank} /\ (query = Blank => screen.blank)
      /\ timer \in Queries \cup {None} /\ asked \in Queries \cup {Blank} /\ (asked = Blank => screen.blank)
      /\ selection \in SelectionType /\ (screen.ask = "both" => ~screen.blank) /\ MaxAsks \in Nat
  BY Counts, ScreenKinds, ScreensBounds DEF TypesOK, TypeOK, ReadType, RoomOK, BlankOK, SelectionType, Armed
<1>2. User => Cardinality(requests) <= MaxAsks /\ asks' = asks + 1 /\ asks' \in 0 .. MaxAsks
  BY <1>1 DEF User
<1>3. ASSUME NEW q \in Queries \cup {Blank}, ChangeQuery(q)
      PROVE  TypesOK'
  <2>1. /\ User /\ query' = q /\ (q = Blank => screen.blank) /\ Follow(q)
        /\ shown' = None \/ shown' = shown
        /\ selection' = selection \/ selection' = NothingTicked
        /\ UNCHANGED <<screen, failed, writing>>
    BY <1>3 DEF ChangeQuery, SelectionAfter
  <2>2. /\ requests' \subseteq ReadType /\ Apart' /\ IsFiniteSet(requests')
        /\ timer' \in Queries \cup {None} /\ asked' \in Queries \cup {Blank}
        /\ asked' = Blank => screen.blank
        /\ loading' \in BOOLEAN
        /\ Cardinality(requests') + Armed' <= Cardinality(requests) + Armed + 1
    BY <1>2, <2>1, FollowTyped
  <2>3. selection' \in SelectionType
    BY <1>1, <2>1, NothingTyped
  <2>4. Cardinality(requests') \in Nat /\ Armed' \in {0, 1}
    BY <2>2, FS_CardinalityType DEF Armed
  <2>5. Cardinality(requests') + Armed' + asks <= Cardinality(requests) + Armed + asks' /\ asks' >= asks
    BY <1>1, <1>2, <2>1, <2>2, <2>4
  <2> QED
    BY <1>2, <2>1, <2>2, <2>3, <2>5, QuestionTyped
\* A read asked for q, with the room for it
<1>4. ASSUME NEW q \in Queries, Ask(q, None), UNCHANGED <<screen, failed, writing, selection>>,
             query' \in Queries \cup {Blank}, query' = Blank => screen.blank,
             Cardinality(requests) <= MaxAsks,
             shown' = None \/ shown' = shown, timer' \in {timer, None},
             asks' \in 0 .. MaxAsks, asks' >= asks, 1 + Armed' + asks <= Armed + asks'
      PROVE  TypesOK'
  <2>1. /\ requests' \subseteq ReadType /\ Apart' /\ IsFiniteSet(requests')
        /\ Cardinality(requests') <= Cardinality(requests) + 1
        /\ asked' = q /\ loading' = TRUE
    BY <1>1, <1>4, AskTyped
  <2>2. asked' \in Queries /\ asked' # Blank /\ timer' \in Queries \cup {None} /\ selection' \in SelectionType
    BY <1>1, <1>4, <2>1, ScreensBounds
  <2>3. Cardinality(requests') \in Nat /\ Armed' \in {0, 1}
    BY <2>1, FS_CardinalityType DEF Armed
  <2>4. Cardinality(requests') + Armed' + asks <= Cardinality(requests) + Armed + asks'
    <3>1. asks \in Nat /\ asks' \in Nat
      BY <1>1, <1>4, OneMore
    <3>2. Armed \in Nat /\ Armed' \in Nat
      BY <1>1, <2>3
    <3>3. 1 + Armed' + asks <= Armed + asks'
      BY <1>4
    <3>4. /\ Cardinality(requests) \in Nat /\ Cardinality(requests') \in Nat
          /\ Cardinality(requests') <= Cardinality(requests) + 1
      BY <1>1, <2>1, <2>3
    <3> QED
      BY <3>1, <3>2, <3>3, <3>4, OneMore
  <2> QED
    BY <1>4, <2>1, <2>2, <2>4, QuestionTyped
<1>5. ASSUME NEW q \in Queries \cup {Blank}, Pick(q)
      PROVE  TypesOK'
  <2>1. /\ User /\ q \in Queries /\ query' = q /\ Ask(q, None) /\ timer' = timer /\ shown' = shown
        /\ UNCHANGED <<screen, failed, writing, selection>>
    BY <1>5 DEF Pick
  <2>2. Armed' = Armed /\ q # Blank
    BY <2>1, ScreensBounds DEF Armed
  <2>3. 1 + Armed' + asks <= Armed + asks' /\ asks' >= asks
    BY <1>1, <1>2, <2>1, <2>2
  <2> QED
    BY <1>2, <1>4, <2>1, <2>2, <2>3
<1>6. CASE TimerFires
  <2>1. /\ timer # None /\ timer' = None /\ Ask(timer, None) /\ (shown' = None \/ shown' = shown)
        /\ UNCHANGED <<screen, query, failed, writing, selection, asks>>
    BY <1>6 DEF TimerFires
  <2>2. Armed' = 0 /\ Armed = 1 /\ timer \in Queries
    BY <1>1, <2>1 DEF Armed
  <2>3. Cardinality(requests) <= MaxAsks /\ 1 + Armed' + asks <= Armed + asks' /\ asks' >= asks
    BY <1>1, <2>1, <2>2
  <2> QED
    BY <1>1, <1>4, <2>1, <2>2, <2>3
<1>7. CASE AskAgain
  <2>1. PICK q : /\ User /\ query # Blank /\ Ask(q, None) /\ timer' = timer /\ shown' = shown
                 /\ UNCHANGED <<screen, query, failed, writing, selection>>
                 /\ q = IF screen.ask = "both" THEN asked ELSE query
    BY <1>7 DEF AskAgain
  <2>2. q \in Queries
    BY <1>1, <2>1
  <2>3. Armed' = Armed
    BY <2>1 DEF Armed
  <2>4. 1 + Armed' + asks <= Armed + asks' /\ asks' >= asks
    BY <1>1, <1>2, <2>1, <2>3
  <2> QED
    BY <1>1, <1>2, <1>4, <2>1, <2>2, <2>4
<1> QED
  BY <1>3, <1>5, <1>6, <1>7

LEMMA ServeTyped ==
  ASSUME TypesOK, NEW r \in requests, Serve(r)
  PROVE  TypesOK'
<1> DEFINE new == [r EXCEPT !.at = "served", !.data = version]
<1>1. /\ requests \subseteq ReadType /\ r \in ReadType /\ version \in 0 .. MaxAsks
      /\ IsFiniteSet(requests) /\ Cardinality(requests) \in Nat
  BY Counts DEF TypesOK, TypeOK, ReadType, RoomOK
<1>2. new \in ReadType /\ new.id = r.id
  BY <1>1 DEF ReadType
<1>3. /\ requests' = (requests \ {r}) \cup {new}
      /\ UNCHANGED <<screen, query, timer, asked, shown, loading, failed, writing, selection, asks>>
  BY DEF Serve
<1> HIDE DEF new
<1>4. IsFiniteSet(requests') /\ Cardinality(requests') <= Cardinality(requests)
  <2>1. IsFiniteSet(requests \ {r}) /\ Cardinality(requests \ {r}) = Cardinality(requests) - 1
    BY <1>1, FS_RemoveElement
  <2>2. /\ IsFiniteSet((requests \ {r}) \cup {new})
        /\ Cardinality((requests \ {r}) \cup {new}) =
             IF new \in requests \ {r} THEN Cardinality(requests \ {r}) ELSE Cardinality(requests \ {r}) + 1
    BY <2>1, FS_AddElement
  <2> QED
    BY <1>1, <1>3, <2>1, <2>2
<1>5. Apart' /\ requests' \subseteq ReadType
  BY <1>1, <1>2, <1>3 DEF TypesOK, Apart
<1>6. RoomOK'
  <2>1. Waiting' = Waiting /\ Sent' = Sent /\ Armed' = Armed
    BY <1>3 DEF Waiting, Sent, Armed, writing
  <2>2. Cardinality(Waiting) \in Nat /\ Armed \in Nat /\ asks \in Nat /\ Cardinality(requests') \in Nat
    BY <1>4, Counts, FS_CardinalityType DEF TypesOK, TypeOK, Armed
  <2> QED
    BY <1>1, <1>3, <1>4, <2>1, <2>2 DEF TypesOK, RoomOK, writing
<1>7. BlankOK'
  BY <1>3 DEF TypesOK, BlankOK, writing
<1>8. TypeOK'
  BY <1>3, <1>5 DEF TypesOK, TypeOK, ReadType, writing
<1> QED
  BY <1>5, <1>6, <1>7, <1>8 DEF TypesOK

LEMMA AnswerTyped ==
  ASSUME TypesOK, NEW r \in requests, Arrive(r) \/ ArriveFailed(r)
  PROVE  TypesOK'
<1>1. /\ requests' = requests \ {r} /\ Release(r.ends)
      /\ UNCHANGED <<screen, query, timer, asked, version, acked, toast, selection, asks>>
  BY DEF Arrive, ArriveFailed
<1>2. /\ requests \subseteq ReadType /\ r \in ReadType /\ r.ends \in Slots \cup {None}
      /\ shown \in [query : Queries, data : 0 .. MaxAsks] \cup {None}
      /\ loading \in BOOLEAN /\ failed \in BOOLEAN
      /\ r.counts \in BOOLEAN /\ r.query \in Queries /\ r.data \in 0 .. MaxAsks
  BY DEF TypesOK, TypeOK, ReadType
<1>3. /\ writes' \in [Slots -> WriteType] /\ busy' \in Rows \cup {None, "all"}
      /\ \A t \in Slots : writes'[t].at # "idle" => writes'[t].query \in Queries
      /\ IsFiniteSet(Waiting') /\ IsFiniteSet(Sent')
      /\ Cardinality(Waiting') \in Nat /\ Cardinality(Sent') \in Nat
      /\ Cardinality(Waiting') <= Cardinality(Waiting) /\ Cardinality(Sent') <= Cardinality(Sent)
  BY <1>1, <1>2, OverTyped
<1>4. shown' \in [query : Queries, data : 0 .. MaxAsks] \cup {None}
  BY <1>2 DEF Arrive, ArriveFailed
<1>5. loading' \in BOOLEAN /\ failed' \in BOOLEAN
  <2>1. CASE Arrive(r)
    BY <1>2, <2>1 DEF Arrive
  <2>2. CASE ArriveFailed(r)
    BY <1>2, <2>2 DEF ArriveFailed
  <2> QED
    BY <2>1, <2>2
<1>6. RoomOK'
  <2>1. IsFiniteSet(requests') /\ Cardinality(requests') = Cardinality(requests) - 1
    BY <1>1, FS_RemoveElement DEF TypesOK, RoomOK
  <2>2. Armed' = Armed /\ Armed \in Nat
    BY <1>1 DEF Armed
  <2>3. Cardinality(Waiting) \in Nat /\ Cardinality(Sent) \in Nat /\ Cardinality(requests) \in Nat
    BY Counts DEF TypesOK
  <2>4. asks \in Nat /\ version \in Nat
    BY DEF TypesOK, TypeOK
  <2>5. /\ Cardinality(requests) + Cardinality(Waiting) + Armed <= asks + 1
        /\ version + Cardinality(Sent) <= asks
    BY DEF TypesOK, RoomOK
  <2>6. Cardinality(requests') + Cardinality(Waiting') + Armed' <= asks + 1
    BY <1>3, <2>1, <2>2, <2>3, <2>4, <2>5
  <2>7. version + Cardinality(Sent') <= asks
    BY <1>3, <2>3, <2>4, <2>5
  <2> QED
    BY <1>1, <1>3, <2>1, <2>6, <2>7 DEF RoomOK
<1>7. Apart' /\ requests' \subseteq ReadType
  BY <1>1, <1>2 DEF TypesOK, Apart
<1>8. BlankOK'
  BY <1>1, <1>3 DEF TypesOK, BlankOK
<1>9. TypeOK'
  BY <1>1, <1>3, <1>4, <1>5, <1>7 DEF TypesOK, TypeOK, ReadType, WriteType
<1> QED
  BY <1>6, <1>7, <1>8, <1>9 DEF TypesOK

\* A step that leaves the reads and changes the writes
LEMMA WritingTyped ==
  ASSUME TypesOK, UNCHANGED <<screen, query, timer, reading, shown, failed, selection>>,
         acked' = acked, acked <= version', version' \in 0 .. MaxAsks, asks' \in 0 .. MaxAsks,
         toast' \in Queries \cup {None}, busy' \in Rows \cup {None, "all"},
         writes' \in [Slots -> WriteType],
         \A t \in Slots : writes'[t].at # "idle" => writes'[t].query \in Queries,
         IsFiniteSet(Waiting'), IsFiniteSet(Sent'),
         Cardinality(requests) + Cardinality(Waiting') + Armed <= asks' + 1,
         version' + Cardinality(Sent') <= asks'
  PROVE  TypesOK'
<1>1. RoomOK'
  <2>1. Armed' = Armed /\ requests' = requests
    BY DEF Armed, reading
  <2> QED
    BY <2>1 DEF TypesOK, RoomOK
<1>2. Apart'
  BY DEF TypesOK, Apart, reading
<1>3. BlankOK'
  BY ScreensBounds DEF TypesOK, BlankOK, reading
<1>4. acked' \in 0 .. version'
  BY DEF TypesOK, TypeOK
<1>5. TypeOK'
  BY <1>4 DEF TypesOK, TypeOK, WriteType, reading
<1> QED
  BY <1>1, <1>2, <1>3, <1>5 DEF TypesOK

LEMMA BeginTyped ==
  ASSUME TypesOK, NEW s \in Slots,
         Undo(s) \/ RunBulk(s) \/ \E row \in Rows : Click(s, row)
  PROVE  TypesOK'
<1>1. /\ query \in Queries \cup {Blank} /\ (query = Blank => screen.blank)
      /\ toast \in Queries \cup {None} /\ screen \in Screen /\ (screen.bulk => ~screen.blank)
      /\ busy \in Rows \cup {None, "all"}
      /\ writes \in [Slots -> WriteType] /\ version \in 0 .. MaxAsks /\ acked \in 0 .. version
      /\ \A t \in Slots : writes[t].at # "idle" => writes[t].query \in Queries
      /\ asks \in 0 .. MaxAsks /\ MaxAsks \in Nat
  BY ScreenKinds, ScreensBounds DEF TypesOK, TypeOK, BlankOK, WriteType
<1>2. PICK row \in Rows \cup {"ticked", "undo"}, q \in Queries :
        /\ Begin(s, row, q)
        /\ busy' \in Rows \cup {None, "all"} /\ toast' \in {toast, None}
  <2>1. CASE Undo(s)
    <3>1. toast \in Queries
      BY <1>1, <2>1 DEF Undo
    <3> QED
      BY <1>1, <2>1, <3>1 DEF Undo
  <2>2. CASE RunBulk(s)
    <3>1. query \in Queries
      BY <1>1, <2>2 DEF RunBulk
    <3> QED
      BY <1>1, <2>2, <3>1 DEF RunBulk
  <2>3. ASSUME NEW r \in Rows, Click(s, r)
        PROVE  \E row \in Rows \cup {"ticked", "undo"}, q \in Queries :
                 /\ Begin(s, row, q)
                 /\ busy' \in Rows \cup {None, "all"} /\ toast' \in {toast, None}
    <3>1. query \in Queries /\ Begin(s, r, query) /\ busy' = LockedBy(r) /\ toast' = toast
      BY <1>1, <2>3 DEF Click
    <3>2. LockedBy(r) \in Rows \cup {None, "all"}
      BY <1>1 DEF LockedBy, Screen
    <3> QED
      BY <3>1, <3>2
  <2> QED
    BY <2>1, <2>2, <2>3
<1> DEFINE new == [at |-> "sent", row |-> row, query |-> q, data |-> 0]
<1>3. new \in WriteType /\ new.at = "sent" /\ new.query \in Queries
  BY <1>1 DEF WriteType
<1>4. /\ asks < MaxAsks /\ asks' = asks + 1 /\ writes' = [writes EXCEPT ![s] = new]
      /\ UNCHANGED <<screen, query, timer, reading, shown, failed, version, acked, selection>>
  BY <1>2 DEF Begin, User
<1> HIDE DEF new
<1>5. /\ IsFiniteSet(Waiting) /\ IsFiniteSet(Sent) /\ Cardinality(requests) \in Nat
      /\ Cardinality(Waiting) \in Nat /\ Cardinality(Sent) \in Nat /\ Armed \in Nat
      /\ Cardinality(requests) + Cardinality(Waiting) + Armed <= asks + 1
      /\ version + Cardinality(Sent) <= asks
  BY Counts DEF TypesOK, RoomOK, Armed
<1>6. /\ IsFiniteSet(Waiting') /\ IsFiniteSet(Sent')
      /\ Cardinality(Waiting') \in Nat /\ Cardinality(Sent') \in Nat
      /\ Cardinality(Waiting') <= Cardinality(Waiting) + 1 /\ Cardinality(Sent') <= Cardinality(Sent) + 1
  BY <1>1, <1>4, <1>5, SlotCounts
<1>7. /\ writes' \in [Slots -> WriteType]
      /\ \A t \in Slots : writes'[t].at # "idle" => writes'[t].query \in Queries
  BY <1>1, <1>3, <1>4
<1>8. asks + 1 \in 0 .. MaxAsks
  BY <1>1, <1>4
<1>9. /\ Cardinality(requests) + Cardinality(Waiting') + Armed <= asks + 1 + 1
      /\ version + Cardinality(Sent') <= asks + 1
  BY <1>1, <1>5, <1>6
<1> QED
  BY <1>1, <1>2, <1>4, <1>6, <1>7, <1>8, <1>9, WritingTyped

LEMMA ServeWriteTyped ==
  ASSUME TypesOK, NEW s \in Slots, ServeWrite(s)
  PROVE  TypesOK'
<1>1. /\ toast \in Queries \cup {None} /\ busy \in Rows \cup {None, "all"}
      /\ writes \in [Slots -> WriteType] /\ version \in 0 .. MaxAsks /\ acked \in 0 .. version
      /\ \A t \in Slots : writes[t].at # "idle" => writes[t].query \in Queries
      /\ asks \in 0 .. MaxAsks /\ MaxAsks \in Nat
  BY ScreensBounds DEF TypesOK, TypeOK, BlankOK, WriteType
<1>2. /\ IsFiniteSet(Waiting) /\ IsFiniteSet(Sent) /\ Cardinality(requests) \in Nat
      /\ Cardinality(Waiting) \in Nat /\ Cardinality(Sent) \in Nat /\ Armed \in Nat
      /\ Cardinality(requests) + Cardinality(Waiting) + Armed <= asks + 1
      /\ version + Cardinality(Sent) <= asks
  BY Counts DEF TypesOK, RoomOK, Armed
<1> DEFINE new == [writes[s] EXCEPT !.at = "served", !.data = version + 1]
<1>3. /\ writes[s].at = "sent" /\ version' = version + 1 /\ writes' = [writes EXCEPT ![s] = new]
      /\ UNCHANGED <<screen, query, timer, reading, shown, failed, acked, busy, toast, selection, asks>>
  BY <1>1 DEF ServeWrite
<1>4. s \in Sent /\ s \in Waiting
  BY <1>3 DEF Sent, Waiting
<1>5. new.at = "served" /\ new.query = writes[s].query /\ writes[s] \in WriteType
  BY <1>1 DEF WriteType
<1>6. /\ IsFiniteSet(Waiting') /\ IsFiniteSet(Sent')
      /\ Cardinality(Waiting') \in Nat /\ Cardinality(Sent') \in Nat
      /\ Cardinality(Waiting') <= Cardinality(Waiting) /\ Cardinality(Sent') <= Cardinality(Sent) - 1
  <2> HIDE DEF new
  <2> QED
    BY <1>1, <1>2, <1>3, <1>4, <1>5, SlotCounts
<1>7. version + 1 \in 0 .. MaxAsks /\ acked <= version + 1 /\ version + 1 + Cardinality(Sent') <= asks
  BY <1>1, <1>2, <1>6
<1>8. new \in WriteType
  BY <1>5, <1>7 DEF WriteType
<1> HIDE DEF new
<1>9. /\ writes' \in [Slots -> WriteType]
      /\ \A t \in Slots : writes'[t].at # "idle" => writes'[t].query \in Queries
  BY <1>1, <1>3, <1>5, <1>8
<1>10. Cardinality(requests) + Cardinality(Waiting') + Armed <= asks + 1
  BY <1>1, <1>2, <1>6
<1> QED
  BY <1>1, <1>3, <1>6, <1>7, <1>9, <1>10, WritingTyped

LEMMA WriteFailsTyped ==
  ASSUME TypesOK, NEW s \in Slots, WriteFails(s)
  PROVE  TypesOK'
<1>1. /\ Over(s)
      /\ UNCHANGED <<screen, query, timer, reading, shown, failed, version, acked, toast, selection, asks>>
  BY DEF WriteFails
<1>2. /\ toast \in Queries \cup {None} /\ version \in 0 .. MaxAsks /\ acked \in 0 .. version
      /\ asks \in 0 .. MaxAsks /\ MaxAsks \in Nat
  BY ScreensBounds DEF TypesOK, TypeOK, BlankOK
<1>3. /\ Cardinality(requests) \in Nat /\ Cardinality(Waiting) \in Nat /\ Cardinality(Sent) \in Nat
      /\ Armed \in Nat
      /\ Cardinality(requests) + Cardinality(Waiting) + Armed <= asks + 1
      /\ version + Cardinality(Sent) <= asks
  BY Counts DEF TypesOK, RoomOK, Armed
<1>4. /\ writes' \in [Slots -> WriteType] /\ busy' \in Rows \cup {None, "all"}
      /\ \A t \in Slots : writes'[t].at # "idle" => writes'[t].query \in Queries
      /\ IsFiniteSet(Waiting') /\ IsFiniteSet(Sent')
      /\ Cardinality(Waiting') \in Nat /\ Cardinality(Sent') \in Nat
      /\ Cardinality(Waiting') <= Cardinality(Waiting) /\ Cardinality(Sent') <= Cardinality(Sent)
  BY <1>1, OverTyped
<1>5. /\ Cardinality(requests) + Cardinality(Waiting') + Armed <= asks + 1
      /\ version + Cardinality(Sent') <= asks
  BY <1>2, <1>3, <1>4
<1> QED
  BY <1>1, <1>2, <1>4, <1>5, WritingTyped

\* The read a write asks for takes the room of the write
LEMMA WriteSucceedsTyped ==
  ASSUME TypesOK, WritesOK, NEW s \in Slots, WriteSucceeds(s)
  PROVE  TypesOK'
<1>1. /\ query \in Queries \cup {Blank} /\ (query = Blank => screen.blank)
      /\ toast \in Queries \cup {None} /\ screen \in Screen /\ (screen.write = "bump" => ~screen.blank)
      /\ busy \in Rows \cup {None, "all"} /\ selection \in SelectionType
      /\ writes \in [Slots -> WriteType] /\ version \in 0 .. MaxAsks /\ acked \in 0 .. version
      /\ \A t \in Slots : writes[t].at # "idle" => writes[t].query \in Queries
      /\ asks \in 0 .. MaxAsks /\ MaxAsks \in Nat
      /\ requests \subseteq ReadType /\ Apart
      /\ timer \in Queries \cup {None}
  BY ScreenKinds, ScreensBounds DEF TypesOK, TypeOK, BlankOK, WriteType, ReadType, SelectionType
<1>2. /\ IsFiniteSet(requests) /\ IsFiniteSet(Waiting) /\ IsFiniteSet(Sent) /\ Cardinality(requests) \in Nat
      /\ Cardinality(Waiting) \in Nat /\ Cardinality(Sent) \in Nat /\ Armed \in Nat
      /\ Cardinality(requests) + Cardinality(Waiting) + Armed <= asks + 1
      /\ version + Cardinality(Sent) <= asks
  BY Counts DEF TypesOK, RoomOK, Armed
<1>3. /\ writes[s].at = "served" /\ ReadAgain(s)
      /\ acked' = (IF writes[s].data > acked THEN writes[s].data ELSE acked)
      /\ toast' \in {toast, writes[s].query} /\ selection' \in {selection, NothingTicked}
      /\ UNCHANGED <<screen, query, shown, failed, version, asks>>
  BY DEF WriteSucceeds
<1>4. /\ s \in Waiting /\ writes[s] \in WriteType /\ writes[s].query \in Queries
      /\ writes[s].data \in Nat /\ writes[s].data <= version /\ screen.write # "none"
  BY <1>1, <1>3 DEF Waiting, WritesOK
<1>5. acked' \in 0 .. version /\ toast' \in Queries \cup {None} /\ selection' \in SelectionType
  BY <1>1, <1>3, <1>4, NothingTyped
<1>6. Cardinality(requests) <= MaxAsks
  <2>1. Cardinality(Waiting) # 0
    BY <1>2, <1>4, FS_EmptySet
  <2> QED
    BY <1>1, <1>2, <2>1
\* What the write leaves behind
<1> DEFINE WriteGone ==
      /\ writes' \in [Slots -> WriteType] /\ busy' \in Rows \cup {None, "all"}
      /\ \A t \in Slots : writes'[t].at # "idle" => writes'[t].query \in Queries
      /\ IsFiniteSet(Waiting') /\ IsFiniteSet(Sent')
      /\ Cardinality(Waiting') \in Nat /\ Cardinality(Sent') \in Nat
      /\ Cardinality(Waiting') <= Cardinality(Waiting) - 1 /\ Cardinality(Sent') <= Cardinality(Sent)
\* ... and asks
    ReadAsked ==
      /\ requests' \subseteq ReadType /\ Apart' /\ IsFiniteSet(requests')
      /\ timer' \in Queries \cup {None} /\ asked' \in Queries \cup {Blank}
      /\ asked' = Blank => screen.blank
      /\ loading' \in BOOLEAN
      /\ Cardinality(requests') + Armed' <= Cardinality(requests) + Armed + 1
<1>7. Over(s) => WriteGone
  BY <1>4, OverTyped
<1>8. ASSUME NEW e \in Slots \cup {None}, Ask(writes[s].query, e), timer' = timer
      PROVE  ReadAsked
  <2>1. /\ requests' \subseteq ReadType /\ Apart' /\ IsFiniteSet(requests')
        /\ Cardinality(requests') <= Cardinality(requests) + 1
        /\ asked' = writes[s].query /\ loading' = TRUE
    BY <1>1, <1>2, <1>4, <1>6, <1>8, AskTyped
  <2>2. Armed' = Armed /\ Cardinality(requests') \in Nat
    BY <1>8, <2>1, FS_CardinalityType DEF Armed
  <2>3. Cardinality(requests') + Armed' <= Cardinality(requests) + Armed + 1
    BY <1>2, <2>1, <2>2
  <2>4. asked' \in Queries /\ asked' # Blank
    BY <1>4, <2>1, ScreensBounds
  <2> QED
    BY <1>1, <1>8, <2>1, <2>3, <2>4
<1>9. WriteGone /\ ReadAsked
  <2>1. CASE screen.write = "held"
    <3> DEFINE new == [writes[s] EXCEPT !.at = "reading"]
    <3>1. /\ Ask(writes[s].query, s) /\ timer' = timer /\ busy' = busy
          /\ writes' = [writes EXCEPT ![s] = new]
      BY <1>1, <1>3, <2>1 DEF ReadAgain
    <3>2. new \in WriteType /\ new.at = "reading" /\ new.query = writes[s].query
      BY <1>4 DEF WriteType
    <3> HIDE DEF new
    <3>3. /\ IsFiniteSet(Waiting') /\ IsFiniteSet(Sent')
          /\ Cardinality(Waiting') \in Nat /\ Cardinality(Sent') \in Nat
          /\ Cardinality(Waiting') <= Cardinality(Waiting) - 1 /\ Cardinality(Sent') <= Cardinality(Sent)
      BY <1>1, <1>2, <1>4, <3>1, <3>2, SlotCounts
    <3>4. /\ writes' \in [Slots -> WriteType]
          /\ \A t \in Slots : writes'[t].at # "idle" => writes'[t].query \in Queries
      BY <1>1, <1>4, <3>1, <3>2
    <3> QED
      BY <1>1, <1>8, <3>1, <3>3, <3>4
  <2>2. CASE screen.write = "asked"
    <3>1. Ask(writes[s].query, None) /\ timer' = timer /\ Over(s)
      BY <1>3, <2>2 DEF ReadAgain
    <3> QED
      BY <1>7, <1>8, <3>1
  <2>3. CASE screen.write = "bump"
    <3>1. Follow(query) /\ Over(s)
      BY <1>3, <2>3 DEF ReadAgain
    <3> QED
      BY <1>1, <1>6, <1>7, <3>1, FollowTyped
  <2> QED
    BY <1>1, <1>4, <2>1, <2>2, <2>3 DEF Screen
<1> HIDE DEF WriteGone, ReadAsked
<1>10. RoomOK'
  <2>1. Cardinality(requests') \in Nat /\ Armed' \in Nat
    BY <1>9, FS_CardinalityType DEF ReadAsked, Armed
  <2>2. Cardinality(requests') + Cardinality(Waiting') + Armed' <= asks + 1
    BY <1>1, <1>2, <1>9, <2>1 DEF ReadAsked, WriteGone
  <2>3. version + Cardinality(Sent') <= asks
    BY <1>1, <1>2, <1>9 DEF WriteGone
  <2> QED
    BY <1>3, <1>9, <2>2, <2>3 DEF RoomOK, ReadAsked, WriteGone
<1>11. BlankOK'
  BY <1>1, <1>3, <1>5, <1>9, ScreensBounds DEF BlankOK, ReadAsked, WriteGone
<1>12. TypeOK'
  BY <1>3, <1>5, <1>9 DEF TypesOK, TypeOK, ReadType, WriteType, SelectionType, ReadAsked, WriteGone
<1> QED
  BY <1>9, <1>10, <1>11, <1>12 DEF TypesOK, ReadAsked

LEMMA TicksTyped ==
  ASSUME TypesOK,
         \/ ToastExpires \/ \E row \in Rows : ToggleRow(row)
         \/ TogglePage \/ SelectAllMatching \/ ClearSelection \/ UNCHANGED vars
  PROVE  TypesOK'
<1>1. /\ UNCHANGED <<screen, query, timer, reading, shown, failed, version, acked, writes, busy, asks>>
      /\ toast' \in {toast, None}
  BY DEF ToastExpires, ToggleRow, TogglePage, SelectAllMatching, ClearSelection, Tick, writing, vars, reading
<1>2. selection' \in SelectionType
  <2>1. selection \in SelectionType /\ query \in Queries \cup {Blank}
    BY DEF TypesOK, TypeOK, SelectionType
  <2>2. ASSUME NEW rows \in SUBSET Rows, NEW all \in BOOLEAN, Tick(rows, all)
        PROVE  selection' \in SelectionType
    BY <2>1, <2>2, NothingTyped, FiltersTyped DEF Tick, SelectionType
  <2>3. CASE ToastExpires \/ UNCHANGED vars
    BY <2>1, <2>3 DEF ToastExpires, vars
  <2>4. ASSUME NEW row \in Rows, ToggleRow(row)
        PROVE  selection' \in SelectionType
    <3>1. PICK rows \in SUBSET Rows : Tick(rows, FALSE)
      BY <2>1, <2>4 DEF ToggleRow, SelectionType
    <3> QED
      BY <2>2, <3>1
  <2>5. CASE TogglePage \/ SelectAllMatching \/ ClearSelection
    <3>1. PICK rows \in SUBSET Rows, all \in BOOLEAN : Tick(rows, all)
      BY <2>5 DEF TogglePage, SelectAllMatching, ClearSelection
    <3> QED
      BY <2>2, <3>1
  <2> QED
    BY <2>3, <2>4, <2>5
<1>3. Waiting' = Waiting /\ Sent' = Sent /\ Armed' = Armed
  BY <1>1 DEF Waiting, Sent, Armed
<1>4. RoomOK' /\ Apart'
  BY <1>1, <1>3 DEF TypesOK, RoomOK, Apart, reading
<1>5. BlankOK'
  BY <1>1, ScreensBounds DEF TypesOK, BlankOK, reading
<1>6. TypeOK'
  BY <1>1, <1>2 DEF TypesOK, TypeOK, SelectionType, reading
<1> QED
  BY <1>4, <1>5, <1>6 DEF TypesOK

LEMMA TypesInit == ASSUME Init PROVE TypesOK
<1> DEFINE first == [id |-> 1, query |-> query, at |-> "sent", data |-> 0,
                     counts |-> TRUE, ends |-> None]
<1>1. MaxAsks \in Nat /\ 1 \in Ids
  BY ScreensBounds DEF Ids
<1>2. query \in Queries => first \in ReadType
  BY <1>1 DEF ReadType
<1>3. requests = (IF query = Blank THEN {} ELSE {first})
  BY DEF Init
<1>4. query \in Queries \cup {Blank} /\ (query = Blank => screen.blank)
  BY ScreensBounds DEF Init
<1> HIDE DEF first
<1>5. /\ requests \subseteq ReadType /\ Apart /\ IsFiniteSet(requests)
      /\ Cardinality(requests) <= 1 /\ Cardinality(requests) \in Nat
  <2>1. CASE query = Blank
    <3>1. requests = {}
      BY <1>3, <2>1
    <3>2. IsFiniteSet(requests) /\ Cardinality(requests) = 0
      BY <3>1, FS_EmptySet
    <3> QED
      BY <3>1, <3>2 DEF Apart
  <2>2. CASE query # Blank
    <3>1. requests = {first} /\ first \in ReadType
      BY <1>2, <1>3, <1>4, <2>2
    <3>2. IsFiniteSet(requests) /\ Cardinality(requests) = 1
      BY <3>1, FS_Singleton
    <3> QED
      BY <3>1, <3>2 DEF Apart
  <2> QED
    BY <2>1, <2>2
<1>6. /\ Waiting = {} /\ Sent = {} /\ Armed = 0
  BY DEF Init, Waiting, Sent, Armed, Idle
<1>7. RoomOK
  BY <1>5, <1>6, FS_EmptySet DEF RoomOK, Init
<1>8. Idle \in WriteType /\ Idle.at = "idle"
  BY <1>1 DEF Idle, WriteType
<1>9. writes = [t \in Slots |-> Idle] /\ selection \in SelectionType
  BY NothingTyped DEF Init
<1>10. BlankOK
  BY <1>4, <1>8, <1>9, ScreensBounds DEF BlankOK, Init
<1>11. writes \in [Slots -> WriteType]
  BY <1>8, <1>9
<1>12. /\ screen \in Screens /\ timer = None /\ asked = query /\ loading = (query # Blank)
       /\ shown = None /\ failed = FALSE /\ version = 0 /\ acked = 0 /\ busy = None /\ toast = None /\ asks = 0
  BY DEF Init
<1>13. TypeOK
  <2>1. 0 \in 0 .. MaxAsks /\ 0 \in 0 .. 0
    BY <1>1
  <2>2. /\ requests \subseteq ReadType /\ writes \in [Slots -> WriteType] /\ selection \in SelectionType
    BY <1>5, <1>9, <1>11
  <2>3. /\ timer \in Queries \cup {Blank, None} /\ asked \in Queries \cup {Blank}
        /\ loading \in BOOLEAN /\ failed \in BOOLEAN
        /\ toast \in Queries \cup {Blank, None} /\ busy \in Rows \cup {None, "all"}
    BY <1>4, <1>12
  <2>4. /\ version \in 0 .. MaxAsks /\ acked \in 0 .. version /\ asks \in 0 .. MaxAsks
        /\ shown \in [query : Queries, data : 0 .. MaxAsks] \cup {None}
    BY <1>12, <2>1
  <2> QED
    BY <1>4, <1>12, <2>2, <2>3, <2>4 DEF TypeOK, ReadType, WriteType, SelectionType
<1> QED
  BY <1>5, <1>7, <1>10, <1>13 DEF TypesOK

\* Whatever is under way has room: an identity of its own for every read, and
\* no more of the server's data than the user's writes; and no row, filter or
\* text gets where the components have no place for it: an empty text, say, is
\* never asked.
THEOREM TypeCorrect == Spec => [](TypeOK /\ Apart)
<1>1. RowsOK /\ TypesOK /\ [Next]_vars => (RowsOK /\ TypesOK)'
  <2> SUFFICES ASSUME RowsOK, TypesOK, [Next]_vars PROVE (RowsOK /\ TypesOK)'
    OBVIOUS
  <2>1. RowsOK'
    BY RowsStep
  <2>2. TypesOK'
    BY AsksTyped, ServeTyped, AnswerTyped, BeginTyped, ServeWriteTyped, WriteFailsTyped,
       WriteSucceedsTyped, TicksTyped DEF Next, Answers, WriteAnswers, RowsOK
  <2> QED
    BY <2>1, <2>2
<1>2. Init => RowsOK /\ TypesOK
  BY RowsInit, TypesInit
<1>3. TypesOK => TypeOK /\ Apart
  BY DEF TypesOK
<1> QED
  BY <1>1, <1>2, <1>3, PTL DEF Spec
=============================================================================
