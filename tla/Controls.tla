------------------------------ MODULE Controls ------------------------------
(***************************************************************************)
(* Buttons that change something of the viewer's own on the server and     *)
(* show it before or after the server agrees: hearts, bookmarks, "watched",*)
(* stars, likes, follows, votes, comments, notifications.  A handler keeps *)
(* the values of the render it was clicked in; requests end in any order.  *)
(* Some of the pages also poll, and the server changes under all of them.  *)
(*                                                                         *)
(* A thing is marked or not (liked, followed, voted, read, commented).     *)
(* `doubt` is no state of the code: it names what the page may show wrong  *)
(* because an answer was lost or requests overlapped that nothing orders,  *)
(* until an answer asked for after that has come.                          *)
(***************************************************************************)
EXTENDS Integers, FiniteSets

CONSTANTS
    Explored,    \* the controls explored, a set of the records below
    Items,       \* the things that can be marked
    MaxWrites,   \* bound: clicks
    MaxReads,    \* bound: reads under way at once
    MaxDay       \* bound: changes of the server by others

ASSUME ControlBounds ==
    /\ IsFiniteSet(Items) /\ MaxWrites \in Nat /\ MaxReads \in Nat \ {0} /\ MaxDay \in Nat

(***************************************************************************)
(* The controls.  first: what is read when it appears.  blind: usable      *)
(* before that.  lock: no click while a request is under way, on the same  *)
(* thing or on any.  early: shown before the answer.  sends: "flip" lets   *)
(* the server turn the mark, "set" says what is wanted.  once: a mark      *)
(* stays.  bulk: all at once.  undo: what a failure puts back.  reload: it *)
(* also reads.  takes: what of the answer is shown.  poll: when it reads.  *)
(* unread: the number shown is that of the unmarked.                       *)
(***************************************************************************)
Heart == [first |-> "all", blind |-> TRUE, lock |-> "none", early |-> TRUE, sends |-> "flip",
          once |-> FALSE, bulk |-> FALSE, undo |-> "item", reload |-> FALSE, takes |-> "no",
          poll |-> "no", unread |-> FALSE]
Bookmark == Heart
Watched == [Heart EXCEPT !.lock = "all", !.takes = "mark"]
Stars == [Heart EXCEPT !.first = "add", !.lock = "all", !.sends = "set"]
ListHero == Watched
ItemVotes == [Watched EXCEPT !.sends = "set"]
ManagerVotes == [ItemVotes EXCEPT !.early = FALSE, !.undo = "keep"]
ListCardLike == [Watched EXCEPT !.first = "none", !.early = FALSE, !.undo = "keep",
                                !.takes = "turn"]
Tasters == [Heart EXCEPT !.blind = FALSE, !.undo = "want", !.takes = "mark"]
Comments == [ManagerVotes EXCEPT !.first = "all", !.blind = FALSE, !.lock = "item"]
PairVote == [ManagerVotes EXCEPT !.first = "none", !.once = TRUE]
MatchVote == [Heart EXCEPT !.blind = FALSE, !.lock = "item", !.sends = "set", !.once = TRUE,
                           !.undo = "all", !.reload = TRUE, !.takes = "page", !.poll = "page"]
BattleFollow == [MatchVote EXCEPT !.lock = "none", !.once = FALSE, !.undo = "keep", !.takes = "no"]
Daily == [MatchVote EXCEPT !.lock = "all", !.early = FALSE, !.undo = "keep", !.poll = "day"]
BellRead == [Heart EXCEPT !.first = "count", !.blind = FALSE, !.sends = "set", !.once = TRUE,
                          !.undo = "count", !.poll = "count", !.unread = TRUE]
BellAll == [BellRead EXCEPT !.bulk = TRUE, !.undo = "all"]
NoticeRead == [BellRead EXCEPT !.first = "all", !.undo = "item", !.poll = "no"]
NoticeAll == [NoticeRead EXCEPT !.bulk = TRUE, !.undo = "all"]
Preference == [Heart EXCEPT !.blind = FALSE, !.sends = "set", !.undo = "want", !.takes = "page"]

Control ==
    [first : {"all", "add", "count", "none"}, blind : BOOLEAN, lock : {"none", "item", "all"},
     early : BOOLEAN, sends : {"flip", "set"}, once : BOOLEAN, bulk : BOOLEAN,
     undo : {"item", "all", "want", "count", "keep"}, reload : BOOLEAN,
     takes : {"no", "mark", "turn", "page"}, poll : {"no", "page", "day", "count"},
     unread : BOOLEAN]

\* What the combinations that are in the code have in common
ASSUME ControlKinds ==
    /\ Explored \subseteq Control /\ "count" \notin Items
    /\ \A c \in Explored :
         \* what the answer does not show was shown when it was clicked, and a
         \* number that the answer turns by one was not
         /\ c.takes = "no" => c.early
         /\ c.takes = "turn" => ~c.early /\ ~c.unread
         \* what was shown early is put back, or read again
         /\ c.undo = "keep" => ~c.early \/ c.reload
         \* a page that adds what it reads to what it shows reads once
         /\ c.first = "add" => c.poll = "no" /\ ~c.reload
         \* all at once is for notices, which are read and stay so
         /\ c.bulk => c.once /\ c.unread /\ c.sends = "set" /\ c.takes = "no"
         \* the number of the bell is read by itself
         /\ c.first = "count" <=> c.poll = "count"
         /\ c.poll = "count" =>
              /\ c.once /\ c.unread /\ c.sends = "set" /\ c.takes = "no" /\ ~c.reload
              /\ c.undo \in {"count", "all"}

AllControls == {Heart, Bookmark, Watched, Stars, ListHero, ItemVotes, ManagerVotes, ListCardLike,
    Tasters, Comments, PairVote, MatchVote, BattleFollow, Daily, BellRead, BellAll, NoticeRead,
    NoticeAll, Preference}

VARIABLES
    control,     \* the control explored
    stored,      \* what the server has marked
    day,         \* how often others changed it
    shown,       \* what the page shows as marked
    count,       \* the number the page shows
    seen,        \* the day of what the page shows
    loaded,      \* it was read
    stopped,     \* the page shows an error instead, and no longer polls
    writes,      \* clicks under way
    reads,       \* reads under way
    clicks,      \* so many clicks so far
    doubt        \* things, or "count", the page may show wrong
vars == <<control, stored, day, shown, count, seen, loaded, stopped, writes, reads, clicks, doubt>>
server == <<stored, day>>
view == <<shown, count, seen, loaded>>

All == Items \cup {"count"}
Marked(s, on, yes) == IF yes THEN s \cup on ELSE s \ on
CountOf(s) == Cardinality(IF control.unread THEN Items \ s ELSE s)
\* A number is moved by as much as the marks are, and never below zero.
Shift(c, s, t) == LET n == c + CountOf(t) - CountOf(s) IN IF n < 0 THEN 0 ELSE n

\* A vote is for the day, or the round, it was shown with.
Dated == control.poll \in {"page", "day"} /\ control.takes = "page"
Page(d, s) == [day |-> IF Dated THEN d ELSE 0, marks |-> s]
NoPage == Page(0, {})
TypeOK ==
    /\ control \in Explored
    /\ stored \in SUBSET Items /\ shown \in SUBSET Items
    /\ day \in 0 .. MaxDay /\ seen \in 0 .. MaxDay
    /\ count \in Nat /\ loaded \in BOOLEAN /\ stopped \in BOOLEAN
    /\ clicks \in 0 .. MaxWrites /\ doubt \in SUBSET All
    /\ \A w \in writes : w.on \in SUBSET Items /\ w.at \in {"sent", "served"}
    /\ \A r \in reads : r.what \in {"all", "add", "marks", "count"} /\ r.at \in {"sent", "served"}

(***************************************************************************)
(* Reading.                                                                *)
(***************************************************************************)
NewRead(what) ==
    [id |-> CHOOSE i \in 1 .. MaxReads : \A r \in reads : r.id # i,
     what |-> what, at |-> "sent", page |-> NoPage, clean |-> writes = {}]
MayRead == Cardinality(reads) < MaxReads
Spoiled(s) == {[x EXCEPT !.clean = FALSE] : x \in s}
\* A read that starts while a click is under way may show the time before it.
Read(what) ==
    /\ MayRead
    /\ reads' = reads \cup {NewRead(what)}
    /\ writes' = Spoiled(writes)
    /\ doubt' = IF writes = {} THEN doubt ELSE All

\* Mutant: the page reads again only until it has something.
PollUntilLoaded ==
    /\ ~stopped /\ ~loaded
    /\ \/ control.poll = "page" /\ Read("all")
       \/ control.poll = "count" /\ (\A r \in reads : r.what # "count") /\ Read("count")
    /\ UNCHANGED <<control, server, view, stopped, clicks>>

\* The page polls: always, with the count, or when its day is over.
Poll ==
    /\ ~stopped
    /\ \/ control.poll = "page" /\ Read("all")
       \/ control.poll = "count" /\ (\A r \in reads : r.what # "count") /\ Read("count")
       \/ control.poll = "day" /\ loaded /\ seen # day /\ Read("all")
    /\ UNCHANGED <<control, server, view, stopped, clicks>>

\* The bell's menu is opened and reads its rows (one such read at a time here).
OpenMenu ==
    /\ control.poll = "count" /\ \A r \in reads : r.what # "marks"
    /\ Read("marks")
    /\ UNCHANGED <<control, server, view, stopped, clicks>>

\* "Try again"; a page that could not be read at first is opened again.
Retry ==
    /\ stopped \/ (~loaded /\ reads = {} /\ control.first = "all") 
    /\ Read("all")
    /\ UNCHANGED <<control, server, view, stopped, clicks>>

ReadServed(r) ==
    /\ r.at = "sent"
    /\ reads' = (reads \ {r}) \cup {[r EXCEPT !.at = "served", !.page = Page(day, stored)]}
    /\ UNCHANGED <<control, server, view, stopped, writes, clicks, doubt>>

\* What a read makes sure of, or, when something overlapped it, puts in doubt.
Covers(r) == CASE r.what = "all" -> All [] r.what = "count" -> {"count"} [] OTHER -> Items
ReadArrives(r) ==
    /\ r.at = "served"
    /\ reads' = reads \ {r}
    /\ shown' = CASE r.what = "count" -> shown
                  [] r.what = "add" -> shown \cup r.page.marks
                  [] OTHER -> r.page.marks
    /\ count' = IF r.what \in {"all", "count"} THEN CountOf(r.page.marks) ELSE count
    /\ seen' = r.page.day
    /\ loaded' = (loaded \/ r.what # "count")
    /\ stopped' = FALSE
    /\ doubt' = IF r.clean THEN doubt \ Covers(r) ELSE doubt \cup Covers(r)
    /\ UNCHANGED <<control, server, writes, clicks>>

\* Only the battle of the day gives way to an error.
ReadFails(r) ==
    /\ r.at = "served"
    /\ reads' = reads \ {r}
    /\ stopped' = (stopped \/ control.poll = "day")
    /\ UNCHANGED <<control, server, view, writes, clicks, doubt>>

(***************************************************************************)
(* Clicking.                                                               *)
(***************************************************************************)
\* Mutant: no click is refused.
FreeAlways(on) == TRUE

\* Clicks under way whose end may touch what this one touches.
Tangled(on) ==
    {w \in writes : control.undo = "all" \/ control.takes = "page" \/ w.on \cap on # {}}
Free(on) ==
    CASE control.lock = "all" -> writes = {}
      [] control.lock = "item" -> \A w \in writes : w.on \cap on = {}
      [] OTHER -> TRUE

\* The things a click is about: one, or all that are not marked yet.
Targets == IF control.bulk THEN {Items \ shown} \ {{}} ELSE {{i} : i \in Items}
\* What the click's handler keeps for a failure.
Before == IF control.undo \in {"item", "all"} THEN [marks |-> shown, count |-> count]
          ELSE [marks |-> {}, count |-> 0]
Press(on) ==
    /\ clicks < MaxWrites /\ clicks' = clicks + 1
    /\ ~stopped /\ (control.blind \/ control.first = "none" \/ loaded)
    /\ Free(on)
    /\ control.once => on \cap shown = {}
    /\ LET want == ~(on \subseteq shown)
           after == Marked(shown, on, want)
           blurred == reads # {} \/ (control.lock # "all" /\ Tangled(on) # {})
           w == [id |-> clicks, on |-> on, want |-> want, day |-> seen, before |-> Before,
                 at |-> "sent", page |-> NoPage, clean |-> ~blurred]
       IN /\ shown' = IF control.early THEN after ELSE shown
          /\ count' = IF ~control.early THEN count
                      ELSE IF control.bulk THEN 0 ELSE Shift(count, shown, after)
          /\ writes' = {w} \cup (writes \ Tangled(on))
                           \cup IF blurred THEN Spoiled(Tangled(on)) ELSE Tangled(on)
          /\ reads' = Spoiled(reads)
          /\ doubt' = IF blurred THEN All
                      ELSE IF control.early /\ on \cap doubt # {} THEN doubt \cup {"count"}
                      ELSE doubt
    /\ UNCHANGED <<control, server, seen, loaded, stopped>>

\* The server does as asked: it turns the mark over, or sets it.
Turned(w) ==
    IF control.sends = "flip"
    THEN (stored \ w.on) \cup (w.on \ stored)
    ELSE Marked(stored, w.on, w.want)
WriteServed(w) ==
    /\ w.at = "sent" /\ (Dated => w.day = day)
    /\ stored' = Turned(w)
    /\ writes' = (writes \ {w}) \cup
                 {[w EXCEPT !.at = "served",
                            !.page = IF control.takes = "no" THEN @ ELSE Page(day, Turned(w))]}
    /\ UNCHANGED <<control, day, view, stopped, reads, clicks, doubt>>

\* The answer.  After it the page is right about a thing it was wrong about
\* when the answer, or the request, said what the thing is.
Settles(w) == w.clean /\ (control.takes # "no" \/ control.sends = "set")
Taken(w) ==
    LET yes == w.on \subseteq w.page.marks IN
    CASE control.takes = "no" -> UNCHANGED <<shown, count, seen>>
      [] control.takes = "mark" ->
           /\ shown' = Marked(shown, w.on, yes)
           /\ count' = Shift(count, shown, shown')
           /\ UNCHANGED seen
      [] control.takes = "turn" ->
           /\ shown' = Marked(shown, w.on, yes)
           /\ count' = IF yes THEN count + 1 ELSE IF count = 0 THEN 0 ELSE count - 1
           /\ UNCHANGED seen
      [] OTHER ->
           /\ shown' = w.page.marks /\ count' = CountOf(w.page.marks) /\ seen' = w.page.day
Answered(w) ==
    /\ w.at = "served"
    /\ writes' = writes \ {w}
    /\ Taken(w)
    /\ doubt' = IF Settles(w) THEN doubt \ w.on
                ELSE IF w.clean THEN doubt ELSE All
    /\ UNCHANGED <<control, server, loaded, stopped, reads, clicks>>

\* Mutant: a failure puts the mark back and forgets the number.
UndoneMark(w) == shown' = (shown \ w.on) \cup (w.on \cap w.before.marks) /\ UNCHANGED count

\* What a failure puts back: the thing as it was, everything as it was, the
\* opposite of what was wanted, the number only, or nothing.
Undone(w) ==
    CASE control.undo = "item" ->
           /\ shown' = (shown \ w.on) \cup (w.on \cap w.before.marks)
           /\ count' = Shift(count, shown, shown')
      [] control.undo = "want" ->
           /\ shown' = Marked(shown, w.on, ~w.want)
           /\ count' = Shift(count, shown, shown')
      [] control.undo = "all" -> shown' = w.before.marks /\ count' = w.before.count
      [] control.undo = "count" -> count' = count + 1 /\ UNCHANGED shown
      [] OTHER -> UNCHANGED <<shown, count>>
\* Mutant: a failure leaves the control busy.
FailedKeepsBusy(w) ==
    /\ Undone(w)
    /\ reads' = reads /\ writes' = writes /\ doubt' = doubt
    /\ UNCHANGED <<control, server, seen, loaded, stopped, clicks>>

\* The request failed: it was refused, or its answer was lost.
Failed(w) ==
    /\ Undone(w)
    /\ writes' = IF control.reload THEN Spoiled(writes \ {w}) ELSE writes \ {w}
    /\ control.reload => MayRead
    /\ reads' = IF control.reload
                THEN reads \cup {[NewRead("all") EXCEPT !.clean = writes = {w}]}
                ELSE reads
    /\ doubt' = IF w.at = "sent" /\ w.clean /\ control.undo # "count" /\ ~control.reload
                THEN doubt ELSE All
    /\ UNCHANGED <<control, server, seen, loaded, stopped, clicks>>

\* Others: another tab, a new notification, the end of a round or a day.
Elsewhere ==
    /\ control.poll # "no" /\ day < MaxDay
    /\ day' = day + 1
    /\ \E s \in SUBSET Items : stored' = s
    /\ writes' = Spoiled(writes) /\ reads' = Spoiled(reads)
    /\ doubt' = All
    /\ UNCHANGED <<control, view, stopped, clicks>>
-----------------------------------------------------------------------------
Init ==
    /\ control \in Explored
    /\ stored \in SUBSET Items /\ day = 0
    /\ shown = {} /\ seen = 0 /\ loaded = FALSE /\ stopped = FALSE
    /\ count = IF control.poll = "count" THEN 0 ELSE CountOf(stored)
    /\ writes = {} /\ clicks = 0
    /\ reads = IF control.first = "none" THEN {}
               ELSE {[id |-> 1, what |-> control.first, at |-> "sent", page |-> NoPage,
                      clean |-> TRUE]}
    /\ doubt = All

WriteEnds == \E w \in writes : Answered(w) \/ Failed(w)
ReadEnds == \E r \in reads : ReadArrives(r) \/ ReadFails(r)
Next ==
    \/ Poll \/ OpenMenu \/ Retry
    \/ \E r \in reads : ReadServed(r)
    \/ ReadEnds
    \/ \E on \in Targets : Press(on)
    \/ \E w \in writes : WriteServed(w)
    \/ WriteEnds
    \/ Elsewhere

\* Requests end and timers fire; no kind of read fails forever.
Fairness ==
    /\ SF_vars(WriteEnds) /\ WF_vars(Poll)
    /\ \A i \in 1 .. MaxReads :
         /\ WF_vars(\E r \in reads : r.id = i /\ ReadServed(r))
         /\ WF_vars(\E r \in reads : r.id = i /\ (ReadArrives(r) \/ ReadFails(r)))
    /\ \A k \in {"all", "count"} : SF_vars(\E r \in reads : r.what = k /\ ReadArrives(r))
Spec == Init /\ [][Next]_vars /\ Fairness

(***************************************************************************)
(* Properties.                                                             *)
(***************************************************************************)
Calm == writes = {} /\ reads = {}

\* When nothing is under way the page shows what the server has, whatever was
\* clicked, refused and put back, and in whatever order the answers came; where
\* a lock keeps clicks apart two quick ones are no excuse.
SettledIsStored == Calm => \A i \in Items \ doubt : i \in shown <=> i \in stored

\* The number beside a control agrees with the server as well.
CountsAddUp == (Calm /\ doubt = {}) => count = CountOf(stored)

\* Both: marks and numbers agree with the server once all is answered.
PageAgrees == SettledIsStored /\ CountsAddUp

\* A page that polls comes to show what the server has; the battle of the day
\* is that of the day, or an error is shown in its place.
PollsCatchUp ==
    control.poll # "no" =>
        <>[](\/ stopped \/ ~loaded
             \/ control.poll = "count" /\ count = CountOf(stored)
             \/ control.poll = "day" /\ seen = day
             \/ control.poll = "page" /\ shown = stored /\ count = CountOf(stored))

\* A locked control can be clicked again some time after every click.
LocksEnd == (control.lock # "none" /\ writes # {}) ~> writes = {}
=============================================================================
