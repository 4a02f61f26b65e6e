---------------------------- MODULE ControlsProofs ----------------------------
(***************************************************************************)
(* Controls: once everything is answered the page shows what the server    *)
(* has, for every control that is like those of the code, any things, any  *)
(* number of clicks, of reads under way and of changes by others.          *)
(***************************************************************************)
EXTENDS Controls, FiniteSetTheorems, TLAPS

-----------------------------------------------------------------------------
(* The inductive invariant *)

Answer == [day : 0 .. MaxDay, marks : SUBSET Items]

IsRead(r) ==
  /\ r = [f \in {"id", "what", "at", "page", "clean"} |-> r[f]]
  /\ r.at \in {"sent", "served"} /\ r.page \in Answer /\ r.clean \in BOOLEAN
  /\ r.what \in IF control.poll = "count" THEN {"count", "marks"}
                ELSE IF control.first = "add" THEN {"add"} ELSE {"all"}

Write == [id : Nat, on : SUBSET Items, want : BOOLEAN, day : 0 .. MaxDay,
          before : [marks : SUBSET Items, count : Nat], at : {"sent", "served"},
          page : Answer, clean : BOOLEAN]

IsWrite(w) ==
  /\ w \in Write /\ w.on # {}
  /\ control.once => w.want
  /\ ~control.bulk => \E i \in Items : w.on = {i}

TypesOK ==
  /\ TypeOK
  /\ \A w \in writes : IsWrite(w)
  /\ \A r \in reads : IsRead(r)
  /\ stopped => control.poll = "day"

Agree(s, t, on) == \A j \in on : j \in s <=> j \in t
Are(s, on, yes) == \A j \in on : j \in s <=> yes

\* A page that adds what it reads has nothing of its own before that
AddOK ==
  control.first = "add" =>
    /\ "count" \in doubt
    /\ \A r, q \in reads : r = q
    /\ \A r \in reads : r.clean => shown = {}

\* A read that nothing overlapped brings what the server has
ReadOK(r) == r.clean => writes = {} /\ (r.at = "served" => r.page.marks = stored)

\* The number n belongs to the marks s
NumberOK(n, s) ==
  "count" \notin doubt =>
    IF control.poll = "count" THEN n = CountOf(stored) ELSE doubt = {} /\ n = CountOf(s)

\* Of a menu either all rows are in doubt, or those that are not are marked
MenuOK(s) ==
  control.bulk /\ control.poll = "count" =>
    \A j \in Items \ doubt : j \notin s => doubt \cap Items = {}

\* No other click touches what this one does
Apart(w) ==
  \A v \in writes \ {w} : v.on \cap w.on = {} /\ control.undo # "all" /\ control.takes # "page"

\* What a click knows that nothing overlapped: what it shows, what it would
\* put back, and, when it is served, what the server has and its answer says
CleanOK(w) ==
  /\ reads = {} /\ Apart(w)
  /\ Are(shown, w.on, IF control.early THEN w.want ELSE ~w.want)
  /\ control.undo = "item" => Are(w.before.marks, w.on, ~w.want)
  /\ control.undo = "all" /\ w.at = "sent" =>
       /\ Agree(w.before.marks, stored, Items \ doubt)
       /\ NumberOK(w.before.count, w.before.marks)
       /\ MenuOK(w.before.marks)
  /\ w.at = "served" =>
       /\ control.sends = "set" => Are(stored, w.on, w.want)
       /\ control.takes # "no" => Agree(w.page.marks, stored, w.on)
       /\ control.takes = "page" => w.page.marks = stored

WriteOK(w) == w.clean => CleanOK(w)

\* While nothing under way was overlapped: what no click is about is shown as
\* it is, and a click changes from the opposite of what it wants to that
Touched == UNION {w.on : w \in writes}
MarksOK ==
  /\ Agree(shown, stored, Items \ (doubt \cup Touched))
  /\ \A w \in writes : Are(stored, w.on \ doubt, IF w.at = "sent" THEN ~w.want ELSE w.want)
CountOK ==
  "count" \notin doubt =>
    IF control.poll = "count" THEN count = CountOf(stored \cup Touched)
    ELSE doubt = {} /\ count = CountOf(shown)
SureOK == (\A w \in writes : w.clean) => MarksOK /\ CountOK /\ MenuOK(shown)

IInv ==
  /\ TypesOK /\ AddOK
  /\ \A r \in reads : ReadOK(r)
  /\ \A w \in writes : WriteOK(w)
  /\ SureOK

-----------------------------------------------------------------------------
(* Counting *)

LEMMA CountType ==
  ASSUME NEW s \in SUBSET Items
  PROVE  CountOf(s) \in Nat
<1>1. IsFiniteSet(s) /\ IsFiniteSet(Items \ s)
  BY ControlBounds, FS_Subset
<1> QED
  BY <1>1, FS_CardinalityType DEF CountOf

\* A number that agrees with the marks does so after both were moved
LEMMA ShiftFits ==
  ASSUME NEW s \in SUBSET Items, NEW t \in SUBSET Items
  PROVE  /\ Shift(CountOf(s), s, t) = CountOf(t)
         /\ \A c \in Nat : Shift(c, s, t) \in Nat
<1>1. CountOf(s) \in Nat /\ CountOf(t) \in Nat
  BY CountType
<1> QED
  BY <1>1 DEF Shift

LEMMA CountMarked ==
  ASSUME NEW s \in SUBSET Items, NEW i \in Items \ s
  PROVE  IF control.unread THEN CountOf(s \cup {i}) = CountOf(s) - 1
         ELSE CountOf(s \cup {i}) = CountOf(s) + 1
<1>1. IsFiniteSet(s) /\ IsFiniteSet(Items \ s)
  BY ControlBounds, FS_Subset
<1>2. Cardinality(s \cup {i}) = Cardinality(s) + 1
  BY <1>1, FS_AddElement
<1>3. Cardinality((Items \ s) \ {i}) = Cardinality(Items \ s) - 1
  BY <1>1, FS_RemoveElement
<1>4. Items \ (s \cup {i}) = (Items \ s) \ {i}
  OBVIOUS
<1> QED
  BY <1>2, <1>3, <1>4 DEF CountOf

\* When all is read there is nothing to count
LEMMA CountNothing == control.unread => CountOf(Items) = 0
BY FS_EmptySet DEF CountOf
-----------------------------------------------------------------------------
(* What holds of a step whatever it does *)

LEMMA AllInDoubt ==
  ASSUME doubt' = All, \A w \in writes' : w.on \subseteq Items
  PROVE  SureOK'
<1>1. MarksOK'
  BY DEF All, MarksOK, Agree, Are
<1>2. CountOK' /\ MenuOK(shown)'
  BY DEF All, CountOK, MenuOK
<1> QED
  BY <1>1, <1>2 DEF SureOK

LEMMA SpoiledWrites ==
  ASSUME NEW S, \A w \in S : IsWrite(w)
  PROVE  \A w \in Spoiled(S) : IsWrite(w) /\ ~w.clean
<1> SUFFICES ASSUME NEW v \in S
             PROVE  IsWrite([v EXCEPT !.clean = FALSE]) /\ ~[v EXCEPT !.clean = FALSE].clean
  BY DEF Spoiled
<1> DEFINE w == [v EXCEPT !.clean = FALSE]
<1>1. v \in Write
  BY DEF IsWrite
<1>2. w \in Write /\ w.on = v.on /\ w.want = v.want /\ w.clean = FALSE
  BY <1>1 DEF Write
<1> QED
  BY <1>2 DEF IsWrite

LEMMA SpoiledReads ==
  ASSUME NEW S, \A r \in S : IsRead(r)
  PROVE  \A r \in Spoiled(S) : IsRead(r) /\ ~r.clean
<1> SUFFICES ASSUME NEW q \in S
             PROVE  IsRead([q EXCEPT !.clean = FALSE]) /\ ~[q EXCEPT !.clean = FALSE].clean
  BY DEF Spoiled
<1> DEFINE r == [q EXCEPT !.clean = FALSE]
<1>1. q = [f \in {"id", "what", "at", "page", "clean"} |-> q[f]]
  BY DEF IsRead
<1>2. /\ r = [f \in {"id", "what", "at", "page", "clean"} |-> r[f]] /\ r.clean = FALSE
      /\ r.at = q.at /\ r.page = q.page /\ r.what = q.what
  BY <1>1
<1> HIDE DEF r
<1> QED
  BY <1>2 DEF IsRead, r
-----------------------------------------------------------------------------
(* Reading *)

LEMMA NewReadOK ==
  ASSUME NEW what, what \in IF control.poll = "count" THEN {"count", "marks"} ELSE {"all"},
         control.first # "add"
  PROVE  IsRead(NewRead(what)) /\ NewRead(what).at = "sent" /\ NewRead(what).clean = (writes = {})
<1> DEFINE i == CHOOSE i \in 1 .. MaxReads : \A r \in reads : r.id # i
           n == [id |-> i, what |-> what, at |-> "sent", page |-> NoPage, clean |-> writes = {}]
<1>1. n = NewRead(what)
  BY DEF NewRead
<1>2. NoPage \in Answer
  BY ControlBounds DEF NoPage, Page, Answer
<1>3. (writes = {}) \in BOOLEAN
  OBVIOUS
<1> HIDE DEF i
<1>4. IsRead(n) /\ n.at = "sent" /\ n.clean = (writes = {})
  BY <1>2, <1>3 DEF IsRead
<1> QED
  BY <1>1, <1>4

LEMMA ReadStarts ==
  ASSUME IInv, control.first # "add",
         NEW what, what \in IF control.poll = "count" THEN {"count", "marks"} ELSE {"all"},
         Read(what), UNCHANGED <<control, server, view, stopped, clicks>>
  PROVE  IInv'
<1> DEFINE n == NewRead(what)
<1>0. /\ UNCHANGED <<control, stored, day, shown, count, seen, loaded, stopped, clicks>>
      /\ reads' = reads \cup {n} /\ writes' = Spoiled(writes)
      /\ doubt' = IF writes = {} THEN doubt ELSE All
  BY DEF Read, server, view
<1>1. IsRead(n) /\ n.at = "sent" /\ n.clean = (writes = {})
  BY NewReadOK
<1> HIDE DEF n
<1>2. \A w \in writes' : IsWrite(w) /\ ~w.clean /\ w.on \subseteq Items
                           /\ w.at \in {"sent", "served"}
  BY <1>0, SpoiledWrites DEF IInv, TypesOK, IsWrite, Write
<1>3. TypesOK'
  <2>1. TypeOK'
    BY <1>0, <1>1, <1>2 DEF IInv, TypesOK, TypeOK, IsRead, All
  <2>2. (\A w \in writes' : IsWrite(w)') /\ (\A r \in reads' : IsRead(r)')
    BY <1>0, <1>1, <1>2 DEF IInv, TypesOK, IsWrite, IsRead
  <2> QED
    BY <1>0, <2>1, <2>2 DEF IInv, TypesOK
<1>4. AddOK'
  BY <1>0 DEF AddOK
<1>5. writes = {} => writes' = {}
  BY <1>0 DEF Spoiled
<1>6. \A r \in reads' : ReadOK(r)'
  BY <1>0, <1>1, <1>5 DEF IInv, ReadOK
<1>7. \A w \in writes' : WriteOK(w)'
  BY <1>2 DEF WriteOK
<1>8. SureOK'
  <2>1. CASE writes = {}
    BY <1>0, <1>5, <2>1 DEF IInv, SureOK, MarksOK, CountOK, MenuOK, Agree, Are, Touched, CountOf
  <2>2. CASE writes # {}
    BY <1>0, <1>2, <2>2, AllInDoubt
  <2> QED
    BY <2>1, <2>2
<1> QED
  BY <1>3, <1>4, <1>6, <1>7, <1>8 DEF IInv

\* What is known of the control
LEMMA Kind ==
  ASSUME IInv
  PROVE  /\ control \in Explored /\ control \in Control
         /\ control.takes = "no" => control.early
         /\ control.takes = "turn" => ~control.early /\ ~control.unread
         /\ control.undo = "keep" => ~control.early \/ control.reload
         /\ control.first = "add" => control.poll = "no" /\ ~control.reload
         /\ control.bulk =>
              control.once /\ control.unread /\ control.sends = "set" /\ control.takes = "no"
         /\ control.first = "count" <=> control.poll = "count"
         /\ control.poll = "count" =>
              /\ control.once /\ control.unread /\ control.sends = "set"
              /\ control.takes = "no" /\ ~control.reload /\ control.undo \in {"count", "all"}
BY ControlKinds DEF IInv, TypesOK, TypeOK

LEMMA AskingOK == ASSUME IInv, Poll \/ OpenMenu \/ Retry PROVE IInv'
<1>1. CASE Poll
  <2>1. control.first # "add"
    BY <1>1, Kind DEF Poll
  <2>2. (control.poll = "count" /\ Read("count")) \/ (control.poll # "count" /\ Read("all"))
    BY <1>1 DEF Poll
  <2> QED
    BY <1>1, <2>1, <2>2, ReadStarts DEF Poll
<1>2. CASE OpenMenu
  <2>1. control.first # "add" /\ control.poll = "count" /\ Read("marks")
    BY <1>2, Kind DEF OpenMenu
  <2> QED
    BY <1>2, <2>1, ReadStarts DEF OpenMenu
<1>3. CASE Retry
  <2>1. control.first # "add" /\ control.poll # "count"
    BY <1>3, Kind DEF Retry, IInv, TypesOK
  <2> QED
    BY <1>3, <2>1, ReadStarts DEF Retry
<1> QED
  BY <1>1, <1>2, <1>3

LEMMA ReadServedOK == ASSUME IInv, NEW r \in reads, ReadServed(r) PROVE IInv'
<1> DEFINE n == [r EXCEPT !.at = "served", !.page = Page(day, stored)]
<1>0. /\ UNCHANGED <<control, stored, day, shown, count, seen, loaded, stopped, writes, clicks, doubt>>
      /\ reads' = (reads \ {r}) \cup {n}
  BY DEF ReadServed, server, view
<1>1. IsRead(n) /\ n.clean = r.clean /\ n.page.marks = stored
  <2>1. r = [f \in {"id", "what", "at", "page", "clean"} |-> r[f]]
    BY DEF IInv, TypesOK, IsRead
  <2>2. /\ n = [f \in {"id", "what", "at", "page", "clean"} |-> n[f]] /\ n.clean = r.clean
        /\ n.at = "served" /\ n.page = Page(day, stored) /\ n.what = r.what
    BY <2>1
  <2> HIDE DEF n
  <2>3. n.page \in Answer /\ n.page.marks = stored
    BY <2>2, ControlBounds DEF Page, Answer, IInv, TypesOK, TypeOK
  <2> QED
    BY <2>2, <2>3 DEF IInv, TypesOK, IsRead
<1> HIDE DEF n
<1>2. TypesOK'
  <2>1. TypeOK'
    BY <1>0, <1>1 DEF IInv, TypesOK, TypeOK, IsRead
  <2>2. (\A w \in writes' : IsWrite(w)') /\ (\A q \in reads' : IsRead(q)')
    BY <1>0, <1>1 DEF IInv, TypesOK, IsWrite, IsRead
  <2> QED
    BY <1>0, <2>1, <2>2 DEF IInv, TypesOK
<1>3. AddOK'
  BY <1>0, <1>1 DEF IInv, AddOK
<1>4. \A q \in reads' : ReadOK(q)'
  BY <1>0, <1>1 DEF IInv, ReadOK
<1>5. \A w \in writes' : WriteOK(w)'
  BY <1>0 DEF IInv, WriteOK, CleanOK
<1>6. SureOK'
  BY <1>0 DEF IInv, SureOK, MarksOK, CountOK, MenuOK, Agree, Are, Touched, CountOf
<1> QED
  BY <1>2, <1>3, <1>4, <1>5, <1>6 DEF IInv

LEMMA ReadFailsOK == ASSUME IInv, NEW r \in reads, ReadFails(r) PROVE IInv'
<1>0. /\ UNCHANGED <<control, stored, day, shown, count, seen, loaded, writes, clicks, doubt>>
      /\ reads' = reads \ {r} /\ stopped' = (stopped \/ control.poll = "day")
  BY DEF ReadFails, server, view
<1>1. TypesOK'
  <2>1. TypeOK'
    BY <1>0 DEF IInv, TypesOK, TypeOK
  <2>2. (\A w \in writes' : IsWrite(w)') /\ (\A q \in reads' : IsRead(q)')
    BY <1>0 DEF IInv, TypesOK, IsWrite, IsRead
  <2> QED
    BY <1>0, <2>1, <2>2 DEF IInv, TypesOK
<1>2. AddOK'
  BY <1>0 DEF IInv, AddOK
<1>3. \A q \in reads' : ReadOK(q)'
  BY <1>0 DEF IInv, ReadOK
<1>4. \A w \in writes' : WriteOK(w)'
  BY <1>0 DEF IInv, WriteOK, CleanOK
<1>5. SureOK'
  BY <1>0 DEF IInv, SureOK, MarksOK, CountOK, MenuOK, Agree, Are, Touched, CountOf
<1> QED
  BY <1>1, <1>2, <1>3, <1>4, <1>5 DEF IInv

LEMMA ReadArrivesOK == ASSUME IInv, NEW r \in reads, ReadArrives(r) PROVE IInv'
<1>0. /\ UNCHANGED <<control, stored, day, writes, clicks>>
      /\ reads' = reads \ {r} /\ r.at = "served" /\ stopped' = FALSE
      /\ shown' = IF r.what = "count" THEN shown
                  ELSE IF r.what = "add" THEN shown \cup r.page.marks ELSE r.page.marks
      /\ count' = IF r.what \in {"all", "count"} THEN CountOf(r.page.marks) ELSE count
      /\ seen' = r.page.day /\ loaded' = (loaded \/ r.what # "count")
      /\ doubt' = IF r.clean THEN doubt \ Covers(r) ELSE doubt \cup Covers(r)
  BY DEF ReadArrives, server
<1>1. IsRead(r) /\ r.page.marks \in SUBSET Items /\ r.page.day \in 0 .. MaxDay
  BY DEF IInv, TypesOK, IsRead, Answer
<1>2. Covers(r) = IF r.what = "all" THEN All ELSE IF r.what = "count" THEN {"count"} ELSE Items
  BY DEF Covers
<1>3. TypesOK'
  <2>1. CountOf(r.page.marks) \in Nat
    BY <1>1, CountType
  <2>2. shown' \in SUBSET Items /\ count' \in Nat /\ doubt' \in SUBSET All /\ loaded' \in BOOLEAN
    BY <1>0, <1>1, <1>2, <2>1 DEF IInv, TypesOK, TypeOK, All
  <2>3. TypeOK'
    BY <1>0, <1>1, <2>2 DEF IInv, TypesOK, TypeOK
  <2>4. (\A w \in writes' : IsWrite(w)') /\ (\A q \in reads' : IsRead(q)')
    BY <1>0 DEF IInv, TypesOK, IsWrite, IsRead
  <2> QED
    BY <1>0, <2>3, <2>4 DEF IInv, TypesOK
<1>4. AddOK'
  <2> SUFFICES ASSUME control.first = "add" PROVE "count" \in doubt' /\ reads' = {}
    BY <1>0 DEF AddOK
  <2>1. r.what = "add"
    BY <1>1, Kind DEF IsRead
  <2> QED
    BY <1>0, <1>2, <2>1, ControlKinds DEF IInv, AddOK
<1>5. \A q \in reads' : ReadOK(q)'
  BY <1>0 DEF IInv, ReadOK
<1>6. \A w \in writes' : WriteOK(w)'
  BY <1>0 DEF IInv, WriteOK, CleanOK
<1>7. SureOK'
  <2>1. SUFFICES ASSUME \A w \in writes : w.clean
                 PROVE  MarksOK' /\ CountOK' /\ MenuOK(shown)'
    BY <1>0 DEF SureOK
  <2>2. MarksOK /\ CountOK /\ MenuOK(shown)
    BY <2>1 DEF IInv, SureOK
  <2>3. writes = {} /\ Touched = {} /\ Touched' = {}
    BY <1>0, <2>1 DEF IInv, WriteOK, CleanOK, Touched
  <2>4. "count" \notin Items /\ All = Items \cup {"count"}
    BY ControlKinds DEF All
  <2>5. CASE r.clean
    <3>1. r.page.marks = stored
      BY <1>0, <2>5 DEF IInv, ReadOK
    <3>2. r.what = "add" => shown = {}
      BY <1>1, <2>5 DEF IInv, AddOK, IsRead
    <3>3. Agree(shown, stored, Items \ doubt)
      BY <2>2, <2>3 DEF MarksOK
    <3>4. MarksOK'
      BY <1>0, <1>1, <1>2, <2>3, <2>4, <2>5, <3>1, <3>2, <3>3 DEF MarksOK, Agree, IsRead
    <3>5. CountOK'
      <4>1. CASE r.what = "all" \/ r.what = "count"
        <5>1. count' = CountOf(stored) /\ stored \cup {} = stored
          BY <1>0, <3>1, <4>1
        <5>2. r.what = "all" <=> control.poll # "count"
          BY <1>1, <4>1 DEF IsRead
        <5>3. r.what = "all" => doubt' = {} /\ shown' = stored
          BY <1>0, <1>1, <1>2, <2>5, <3>1, <4>1 DEF IInv, TypesOK, TypeOK
        <5> QED
          BY <1>0, <2>3, <5>1, <5>2, <5>3 DEF CountOK, CountOf
      <4>2. CASE r.what = "marks"
        BY <1>0, <1>1, <1>2, <2>2, <2>3, <2>4, <4>2 DEF CountOK, CountOf, IsRead
      <4>3. CASE r.what = "add"
        BY <1>0, <1>1, <1>4, <4>3 DEF AddOK, CountOK, IsRead
      <4> QED
        BY <1>1, <4>1, <4>2, <4>3 DEF IsRead
    <3>6. MenuOK(shown)'
      BY <1>0, <1>1, <1>2, <2>2, <2>4, <2>5 DEF MenuOK, IsRead
    <3> QED
      BY <3>4, <3>5, <3>6
  <2>6. CASE ~r.clean
    <3>1. doubt' = doubt \cup Covers(r)
      BY <1>0, <2>6
    <3>2. Agree(shown, stored, Items \ doubt)
      BY <2>2, <2>3 DEF MarksOK
    <3>3. MarksOK'
      BY <1>0, <1>1, <1>2, <2>3, <2>4, <3>1, <3>2 DEF MarksOK, Agree, IsRead
    <3>4. CountOK'
      BY <1>0, <1>1, <1>2, <1>4, <2>2, <2>3, <2>4, <3>1 DEF CountOK, CountOf, IsRead, AddOK
    <3>5. MenuOK(shown)'
      BY <1>0, <1>1, <1>2, <2>2, <2>4, <3>1 DEF MenuOK, IsRead
    <3> QED
      BY <3>3, <3>4, <3>5
  <2> QED
    BY <2>5, <2>6
<1> QED
  BY <1>3, <1>4, <1>5, <1>6, <1>7 DEF IInv
-----------------------------------------------------------------------------
(* The server *)

\* An update of a click leaves the same things touched
LEMMA TouchedStays ==
  ASSUME NEW w \in writes, NEW n, n.on = w.on, writes' = (writes \ {w}) \cup {n}
  PROVE  Touched' = Touched /\ w.on \subseteq Touched
<1>1. ASSUME NEW j PROVE j \in Touched' <=> j \in Touched
  <2>1. j \in Touched' <=> \E v \in writes' : j \in v.on
    BY DEF Touched
  <2>2. j \in Touched <=> \E v \in writes : j \in v.on
    BY DEF Touched
  <2> QED
    BY <2>1, <2>2
<1> QED
  BY <1>1 DEF Touched

LEMMA WriteServedOK == ASSUME IInv, NEW w \in writes, WriteServed(w) PROVE IInv'
<1> PICK page : page = IF control.takes = "no" THEN w.page ELSE Page(day, Turned(w))
  OBVIOUS
<1> PICK n : n = [w EXCEPT !.at = "served", !.page = page]
  OBVIOUS
<1>0. /\ UNCHANGED <<control, day, shown, count, seen, loaded, stopped, reads, clicks, doubt>>
      /\ w.at = "sent" /\ stored' = Turned(w) /\ writes' = (writes \ {w}) \cup {n}
  BY DEF WriteServed, view
<1>1. /\ stored \in SUBSET Items /\ day \in 0 .. MaxDay /\ 0 \in 0 .. MaxDay
      /\ IsWrite(w) /\ w \in Write /\ w.on \in SUBSET Items /\ w.want \in BOOLEAN
  BY ControlBounds DEF IInv, TypesOK, TypeOK, IsWrite, Write
<1>2. Turned(w) \in SUBSET Items
  BY <1>1 DEF Turned, Marked
<1>3. page \in Answer /\ (control.takes # "no" => page.marks = stored')
  BY <1>0, <1>1, <1>2 DEF Page, Answer, Write
<1>4. /\ n \in Write /\ n.on = w.on /\ n.want = w.want /\ n.before = w.before
      /\ n.at = "served" /\ n.page = page /\ n.clean = w.clean
  BY <1>1, <1>3 DEF Write
<1>5. TypesOK'
  <2>1. TypeOK'
    BY <1>0, <1>1, <1>2, <1>4 DEF IInv, TypesOK, TypeOK
  <2>2. \A q \in reads' : IsRead(q)'
    BY <1>0 DEF IInv, TypesOK, IsRead
  <2>3. \A v \in writes' : IsWrite(v)'
    <3>1. IsWrite(n)'
      BY <1>0, <1>1, <1>4 DEF IsWrite
    <3>2. \A v \in writes : IsWrite(v)'
      BY <1>0 DEF IInv, TypesOK, IsWrite
    <3> QED
      BY <1>0, <3>1, <3>2
  <2> QED
    BY <1>0, <2>1, <2>2, <2>3 DEF IInv, TypesOK
<1>6. AddOK'
  BY <1>0 DEF IInv, AddOK
<1>7. \A q \in reads' : ReadOK(q)'
  BY <1>0 DEF IInv, ReadOK
\* what the server has changes for the things of this click only
<1>8. \A j \in Items \ w.on : j \in stored' <=> j \in stored
  BY <1>0, <1>1 DEF Turned, Marked
<1>9. control.sends = "set" => Are(stored', w.on, w.want)
  BY <1>0, <1>1 DEF Turned, Marked, Are
<1>10. Are(stored, w.on \ doubt, ~w.want) => Are(stored', w.on \ doubt, w.want)
  BY <1>0, <1>1 DEF Turned, Marked, Are
<1>11. \A v \in writes' : WriteOK(v)'
  <2>1. ASSUME NEW v \in writes \ {w}, v.clean
        PROVE  CleanOK(v)'
    <3>1. CleanOK(v) /\ v.on \in SUBSET Items
      BY <2>1 DEF IInv, WriteOK, TypesOK, IsWrite, Write
    <3>2. w.on \cap v.on = {} /\ control.undo # "all" /\ control.takes # "page"
      BY <2>1, <3>1 DEF CleanOK, Apart
    <3>3. Apart(v)'
      BY <1>0, <1>4, <2>1, <3>1, <3>2 DEF CleanOK, Apart
    <3> QED
      BY <1>0, <1>8, <3>1, <3>2, <3>3 DEF CleanOK, Agree, Are
  <2>2. ASSUME w.clean
        PROVE  CleanOK(n)'
    <3>1. CleanOK(w)
      BY <2>2 DEF IInv, WriteOK
    <3>2. Apart(n)'
      BY <1>0, <1>4, <3>1 DEF CleanOK, Apart
    <3>3. control.takes # "no" => Agree(n.page.marks, stored', w.on)
      BY <1>3, <1>4 DEF Agree
    <3> QED
      BY <1>0, <1>3, <1>4, <1>9, <3>1, <3>2, <3>3 DEF CleanOK, Are
  <2> QED
    BY <1>0, <1>4, <2>1, <2>2 DEF WriteOK
<1>12. SureOK'
  <2> SUFFICES ASSUME \A v \in writes : v.clean
               PROVE  MarksOK' /\ CountOK' /\ MenuOK(shown)'
    BY <1>0, <1>4 DEF SureOK
  <2>1. MarksOK /\ CountOK /\ MenuOK(shown)
    BY DEF IInv, SureOK
  <2>2. Touched' = Touched /\ w.on \subseteq Touched
    BY <1>0, <1>4, TouchedStays
  <2>3. ASSUME NEW v \in writes \ {w} PROVE v.on \cap w.on = {} /\ v.on \in SUBSET Items
    BY <2>3 DEF IInv, TypesOK, IsWrite, Write, WriteOK, CleanOK, Apart
  <2>4. MarksOK'
    <3>1. Agree(shown', stored', Items \ (doubt' \cup Touched'))
      BY <1>0, <1>8, <2>1, <2>2 DEF MarksOK, Agree
    <3>2. \A v \in writes \ {w} :
            Are(stored', v.on \ doubt', IF v.at = "sent" THEN ~v.want ELSE v.want)
      BY <1>0, <1>8, <2>1, <2>3 DEF MarksOK, Are
    <3>3. Are(stored', n.on \ doubt', IF n.at = "sent" THEN ~n.want ELSE n.want)
      BY <1>0, <1>4, <1>10, <2>1 DEF MarksOK, Are
    <3> QED
      BY <1>0, <3>1, <3>2, <3>3 DEF MarksOK
  <2>5. CountOK'
    <3>1. control.poll = "count" => stored' \cup Touched = stored \cup Touched
      BY <1>0, <1>1, <2>2, Kind DEF Turned, Marked, IsWrite
    <3> QED
      BY <1>0, <2>1, <2>2, <3>1 DEF CountOK, CountOf
  <2>6. MenuOK(shown)'
    BY <1>0, <2>1 DEF MenuOK
  <2> QED
    BY <2>4, <2>5, <2>6
<1> QED
  BY <1>5, <1>6, <1>7, <1>11, <1>12 DEF IInv
-----------------------------------------------------------------------------
(* Answers and failures *)

\* While a click is under way no read is clean
LEMMA NoCleanRead ==
  ASSUME IInv, NEW w \in writes
  PROVE  \A r \in reads : ~r.clean
BY DEF IInv, TypesOK, IsRead, ReadOK

\* What an answer makes of the page when nothing overlapped the click
LEMMA TakenMarks ==
  ASSUME IInv, NEW w \in writes, w.clean, w.at = "served", Taken(w)
  PROVE  /\ control.takes # "no" => Agree(shown', stored, w.on)
         /\ control.takes = "page" => shown' = stored
         /\ control.takes # "page" => Agree(shown', shown, Items \ w.on)
         /\ control.takes = "no" => shown' = shown /\ count' = count
         /\ shown' \in SUBSET Items
<1>1. IsWrite(w) /\ w \in Write /\ w.on \in SUBSET Items /\ w.page.marks \in SUBSET Items
  BY DEF IInv, TypesOK, IsWrite, Write, Answer
<1>2. CleanOK(w)
  BY DEF IInv, WriteOK
<1>3. shown \in SUBSET Items
  BY DEF IInv, TypesOK, TypeOK
<1>4. CASE control.takes = "no"
  BY <1>3, <1>4 DEF Taken, Agree
<1>5. CASE control.takes \in {"mark", "turn"}
  <2>1. PICK i \in Items : w.on = {i}
    BY <1>1, <1>5, Kind DEF IsWrite
  <2>2. shown' = Marked(shown, w.on, w.on \subseteq w.page.marks)
    BY <1>5 DEF Taken
  <2>3. i \in w.page.marks <=> i \in stored
    BY <1>2, <1>5, <2>1 DEF CleanOK, Agree
  <2> QED
    BY <1>3, <1>5, <2>1, <2>2, <2>3 DEF Marked, Agree
<1>6. CASE control.takes = "page"
  <2>1. shown' = w.page.marks
    BY <1>6 DEF Taken
  <2> QED
    BY <1>1, <1>2, <1>6, <2>1 DEF CleanOK, Agree
<1> QED
  BY <1>4, <1>5, <1>6, Kind DEF Control

\* ... and of its number
LEMMA TakenNumber ==
  ASSUME IInv, NEW w \in writes, w.clean, w.at = "served", Taken(w),
         control.poll # "count", count = CountOf(shown), Are(stored, w.on, w.want)
  PROVE  count' = CountOf(shown')
<1>1. IsWrite(w) /\ w \in Write /\ w.on \in SUBSET Items /\ w.page.marks \in SUBSET Items
  BY DEF IInv, TypesOK, IsWrite, Write, Answer
<1>2. CleanOK(w)
  BY DEF IInv, WriteOK
<1>3. shown \in SUBSET Items /\ shown' \in SUBSET Items
  BY TakenMarks DEF IInv, TypesOK, TypeOK
<1>4. CASE control.takes = "no"
  BY <1>4 DEF Taken
<1>5. CASE control.takes = "mark"
  <2>1. count' = Shift(count, shown, shown')
    BY <1>5 DEF Taken
  <2> QED
    BY <1>3, <2>1, ShiftFits
<1>6. CASE control.takes = "turn"
  <2>1. PICK i \in Items : w.on = {i}
    BY <1>1, <1>6, Kind DEF IsWrite
  <2>2. w.on \subseteq w.page.marks <=> w.want
    BY <1>2, <1>6, <2>1 DEF CleanOK, Agree, Are
  <2>3. /\ shown' = Marked(shown, w.on, w.want)
        /\ count' = IF w.want THEN count + 1 ELSE IF count = 0 THEN 0 ELSE count - 1
    BY <1>6, <2>2 DEF Taken, Marked
  <2>4. i \in shown <=> ~w.want
    BY <1>2, <1>6, <2>1, Kind DEF CleanOK, Are
  <2>5. CASE w.want
    <3>1. shown' = shown \cup {i} /\ i \notin shown
      BY <2>1, <2>3, <2>4, <2>5 DEF Marked
    <3> QED
      BY <1>3, <1>6, <2>3, <2>5, <3>1, CountMarked, Kind
  <2>6. CASE ~w.want
    <3>1. shown = shown' \cup {i} /\ i \notin shown'
      BY <1>1, <2>1, <2>3, <2>4, <2>6 DEF Marked
    <3>2. CountOf(shown) = CountOf(shown') + 1
      BY <1>3, <1>6, <3>1, CountMarked, Kind
    <3>3. CountOf(shown') \in Nat
      BY <1>3, CountType
    <3> QED
      BY <2>3, <2>6, <3>2, <3>3
  <2> QED
    BY <2>5, <2>6
<1>7. CASE control.takes = "page"
  BY <1>7 DEF Taken
<1> QED
  BY <1>4, <1>5, <1>6, <1>7, Kind DEF Control

LEMMA TakenType ==
  ASSUME IInv, NEW w \in writes, Taken(w)
  PROVE  shown' \in SUBSET Items /\ count' \in Nat /\ seen' \in 0 .. MaxDay
<1>1. /\ w.on \in SUBSET Items /\ w.page.marks \in SUBSET Items /\ w.page.day \in 0 .. MaxDay
      /\ shown \in SUBSET Items /\ count \in Nat /\ seen \in 0 .. MaxDay
  BY DEF IInv, TypesOK, TypeOK, IsWrite, Write, Answer
<1>2. \A yes \in BOOLEAN : Marked(shown, w.on, yes) \in SUBSET Items
  BY <1>1 DEF Marked
<1>3. CASE control.takes = "no"
  BY <1>1, <1>3 DEF Taken
<1>4. CASE control.takes = "mark"
  <2>1. shown' \in SUBSET Items
    BY <1>2, <1>4 DEF Taken
  <2>2. count' = Shift(count, shown, shown') /\ seen' = seen
    BY <1>4 DEF Taken
  <2> QED
    BY <1>1, <2>1, <2>2, ShiftFits
<1>5. CASE control.takes = "turn"
  <2>1. PICK yes \in BOOLEAN :
          /\ shown' = Marked(shown, w.on, yes) /\ seen' = seen
          /\ count' = IF yes THEN count + 1 ELSE IF count = 0 THEN 0 ELSE count - 1
    BY <1>5 DEF Taken
  <2> QED
    BY <1>1, <1>2, <2>1
<1>6. CASE control.takes = "page"
  BY <1>1, <1>6, CountType DEF Taken
<1> QED
  BY <1>3, <1>4, <1>5, <1>6, Kind DEF Control

\* What is left of the invariant of the clicks under way when one ends that
\* changed what is shown for its own things only, or was the only one
LEMMA OthersStay ==
  ASSUME IInv, NEW w \in writes, writes' = writes \ {w},
         UNCHANGED <<control, stored, reads>>,
         (\A v \in writes \ {w} : ~v.clean)
           \/ (Agree(shown', shown, Items \ w.on) /\ control.undo # "all")
  PROVE  \A v \in writes' : WriteOK(v)'
<1> SUFFICES ASSUME NEW v \in writes \ {w}, v.clean
             PROVE  CleanOK(v)'
  BY DEF WriteOK
<1>1. CleanOK(v) /\ v.on \in SUBSET Items
  BY DEF IInv, WriteOK, TypesOK, IsWrite, Write
<1>2. v.on \cap w.on = {} /\ Agree(shown', shown, Items \ w.on) /\ control.undo # "all"
  BY <1>1 DEF CleanOK, Apart
<1>3. Are(shown', v.on, IF control.early THEN v.want ELSE ~v.want)
  BY <1>1, <1>2 DEF CleanOK, Are, Agree
<1>4. Apart(v)'
  BY <1>1 DEF CleanOK, Apart
<1> QED
  BY <1>1, <1>2, <1>3, <1>4 DEF CleanOK, Are

LEMMA AnsweredOK == ASSUME IInv, NEW w \in writes, Answered(w) PROVE IInv'
<1>0. /\ UNCHANGED <<control, stored, day, loaded, stopped, reads, clicks>>
      /\ w.at = "served" /\ Taken(w) /\ writes' = writes \ {w}
      /\ doubt' = IF Settles(w) THEN doubt \ w.on ELSE IF w.clean THEN doubt ELSE All
  BY DEF Answered, server
<1>1. IsWrite(w) /\ w.on \in SUBSET Items /\ w.want \in BOOLEAN
  BY DEF IInv, TypesOK, IsWrite, Write
<1>2. shown' \in SUBSET Items /\ count' \in Nat /\ seen' \in 0 .. MaxDay
  BY <1>0, TakenType
<1>3. TypesOK'
  <2>1. doubt' \in SUBSET All
    BY <1>0 DEF IInv, TypesOK, TypeOK
  <2>2. TypeOK'
    BY <1>0, <1>2, <2>1 DEF IInv, TypesOK, TypeOK
  <2>3. (\A v \in writes' : IsWrite(v)') /\ (\A q \in reads' : IsRead(q)')
    BY <1>0 DEF IInv, TypesOK, IsWrite, IsRead
  <2> QED
    BY <1>0, <2>2, <2>3 DEF IInv, TypesOK
<1>4. AddOK'
  BY <1>0, <1>1, NoCleanRead, ControlKinds DEF IInv, AddOK, All
<1>5. \A q \in reads' : ReadOK(q)'
  BY <1>0, NoCleanRead DEF ReadOK
<1>6. \A v \in writes' : WriteOK(v)'
  <2>1. ASSUME NEW v \in writes \ {w}, v.clean
        PROVE  Agree(shown', shown, Items \ w.on) /\ control.undo # "all"
    <3>1. control.takes # "page" /\ control.undo # "all"
      BY <2>1 DEF IInv, WriteOK, CleanOK, Apart
    <3>2. CASE control.takes = "no"
      BY <1>0, <3>1, <3>2 DEF Taken, Agree
    <3>3. CASE control.takes # "no"
      <4>1. shown' = Marked(shown, w.on, w.on \subseteq w.page.marks)
        BY <1>0, <3>1, <3>3, Kind DEF Taken, Control
      <4> QED
        BY <3>1, <4>1 DEF Marked, Agree
    <3> QED
      BY <3>2, <3>3
  <2> QED
    BY <1>0, <2>1, OthersStay
<1>7. SureOK'
  <2>1. CASE ~w.clean
    <3>1. doubt' = All
      BY <1>0, <2>1 DEF Settles
    <3> QED
      BY <1>3, <3>1, AllInDoubt DEF TypesOK, IsWrite, Write
  <2>2. CASE w.clean
    <3> SUFFICES ASSUME \A v \in writes : v.clean
                 PROVE  MarksOK' /\ CountOK' /\ MenuOK(shown)'
      BY <1>0, <2>2 DEF SureOK
    <3>1. MarksOK /\ CountOK /\ MenuOK(shown) /\ CleanOK(w)
      BY DEF IInv, SureOK, WriteOK
    <3>2. /\ control.takes # "no" => Agree(shown', stored, w.on)
          /\ control.takes = "page" => shown' = stored
          /\ control.takes # "page" => Agree(shown', shown, Items \ w.on)
          /\ control.takes = "no" => shown' = shown /\ count' = count
      BY <1>0, <2>2, TakenMarks
    <3>3. doubt' = IF control.takes # "no" \/ control.sends = "set" THEN doubt \ w.on ELSE doubt
      BY <1>0, <2>2 DEF Settles
    <3>4. \A v \in writes \ {w} : v.on \cap w.on = {} /\ v.on \in SUBSET Items
      BY <3>1 DEF CleanOK, Apart, IInv, TypesOK, IsWrite, Write
    <3>5. Touched = Touched' \cup w.on
      BY <1>0 DEF Touched
    <3>6. Are(stored, w.on \ doubt, w.want) /\ (control.sends = "set" => Are(stored, w.on, w.want))
      BY <1>0, <3>1 DEF MarksOK, CleanOK
    <3>7. MarksOK'
      <4>1. ASSUME NEW j \in w.on \ doubt' PROVE j \in shown' <=> j \in stored
        <5>1. CASE control.takes # "no"
          BY <3>2, <4>1, <5>1 DEF Agree
        <5>2. CASE control.takes = "no"
          <6>1. shown' = shown /\ Are(shown, w.on, w.want)
            BY <3>1, <3>2, <5>2, Kind DEF CleanOK
          <6>2. j \in stored <=> w.want
            BY <3>3, <3>6, <4>1, <5>2 DEF Are
          <6> QED
            BY <4>1, <6>1, <6>2 DEF Are
        <5> QED
          BY <5>1, <5>2
      <4>2. ASSUME NEW j \in Items \ (doubt' \cup Touched'), j \notin w.on
            PROVE  j \in shown' <=> j \in stored
        <5>1. j \in Items \ (doubt \cup Touched)
          BY <3>3, <3>5, <4>2
        <5>2. j \in shown <=> j \in stored
          BY <3>1, <5>1 DEF MarksOK, Agree
        <5> QED
          BY <3>2, <4>2, <5>2 DEF Agree
      <4>3. \A v \in writes' : v.on \ doubt' = v.on \ doubt
        BY <1>0, <3>3, <3>4
      <4>4. Agree(shown', stored', Items \ (doubt' \cup Touched'))
        BY <1>0, <4>1, <4>2 DEF Agree
      <4>5. \A v \in writes' :
              Are(stored', v.on \ doubt', IF v.at = "sent" THEN ~v.want ELSE v.want)
        BY <1>0, <3>1, <4>3 DEF MarksOK
      <4> QED
        BY <4>4, <4>5 DEF MarksOK
    <3>8. CountOK'
      <4> SUFFICES ASSUME "count" \notin doubt'
                   PROVE  IF control.poll = "count" THEN count' = CountOf(stored \cup Touched')
                          ELSE doubt' = {} /\ count' = CountOf(shown')
        BY <1>0 DEF CountOK, CountOf
      <4>1. "count" \notin doubt
        BY <1>1, <3>3, ControlKinds
      <4>2. CASE control.poll = "count"
        <5>1. control.takes = "no" /\ control.sends = "set" /\ w.want
          BY <1>1, <4>2, Kind DEF IsWrite
        <5>2. w.on \subseteq stored
          BY <3>6, <5>1 DEF Are
        <5>3. stored \cup Touched' = stored \cup Touched
          BY <3>5, <5>2
        <5> QED
          BY <3>1, <3>2, <4>1, <4>2, <5>1, <5>3 DEF CountOK
      <4>3. CASE control.poll # "count"
        <5>1. doubt = {} /\ count = CountOf(shown)
          BY <3>1, <4>1, <4>3 DEF CountOK
        <5>2. Are(stored, w.on, w.want)
          BY <3>6, <5>1 DEF Are
        <5>3. count' = CountOf(shown')
          BY <1>0, <2>2, <4>3, <5>1, <5>2, TakenNumber
        <5> QED
          BY <3>3, <4>3, <5>1, <5>3
      <4> QED
        BY <4>2, <4>3
    <3>9. MenuOK(shown)'
      <4> SUFFICES ASSUME control.bulk, control.poll = "count",
                          NEW j \in Items \ doubt', j \notin shown'
                   PROVE  doubt' \cap Items = {}
        BY <1>0 DEF MenuOK
      <4>1. control.takes = "no" /\ control.early /\ w.want
        BY <1>1, Kind DEF IsWrite
      <4>2. shown' = shown /\ j \notin w.on
        BY <3>1, <3>2, <4>1 DEF CleanOK, Are
      <4> QED
        BY <3>1, <3>3, <4>2 DEF MenuOK
    <3> QED
      BY <3>7, <3>8, <3>9
  <2> QED
    BY <2>1, <2>2
<1> QED
  BY <1>3, <1>4, <1>5, <1>6, <1>7 DEF IInv

\* What a failure puts back
LEMMA UndoneType ==
  ASSUME IInv, NEW w \in writes, Undone(w)
  PROVE  shown' \in SUBSET Items /\ count' \in Nat
<1>1. /\ w.on \in SUBSET Items /\ w.before.marks \in SUBSET Items /\ w.before.count \in Nat
      /\ shown \in SUBSET Items /\ count \in Nat /\ w.want \in BOOLEAN
  BY DEF IInv, TypesOK, TypeOK, IsWrite, Write
<1>2. \A yes \in BOOLEAN : Marked(shown, w.on, yes) \in SUBSET Items
  BY <1>1 DEF Marked
<1>3. CASE control.undo \in {"item", "want"}
  <2>1. shown' \in SUBSET Items
    BY <1>1, <1>2, <1>3 DEF Undone
  <2>2. count' = Shift(count, shown, shown')
    BY <1>3 DEF Undone
  <2> QED
    BY <1>1, <2>1, <2>2, ShiftFits
<1>4. CASE control.undo \in {"all", "count", "keep"}
  BY <1>1, <1>4 DEF Undone
<1> QED
  BY <1>3, <1>4, Kind DEF Control

LEMMA UndoneElsewhere ==
  ASSUME IInv, NEW w \in writes, Undone(w), control.undo # "all"
  PROVE  Agree(shown', shown, Items \ w.on)
<1>1. CASE control.undo \in {"item", "want"}
  BY <1>1 DEF Undone, Marked, Agree
<1>2. CASE control.undo \in {"count", "keep"}
  BY <1>2 DEF Undone, Agree
<1> QED
  BY <1>1, <1>2, Kind DEF Control

LEMMA UndoneMarks ==
  ASSUME IInv, NEW w \in writes, w.clean, Undone(w), ~control.reload,
         control.undo \in {"item", "want", "keep"}
  PROVE  /\ Are(shown', w.on, ~w.want)
         /\ count = CountOf(shown) => count' = CountOf(shown')
<1>1. /\ w.on \in SUBSET Items /\ w.want \in BOOLEAN
      /\ shown \in SUBSET Items /\ shown' \in SUBSET Items
  BY UndoneType DEF IInv, TypesOK, TypeOK, IsWrite, Write
<1>2. CleanOK(w)
  BY DEF IInv, WriteOK
<1>3. CASE control.undo = "item"
  <2>1. shown' = (shown \ w.on) \cup (w.on \cap w.before.marks) /\ count' = Shift(count, shown, shown')
    BY <1>3 DEF Undone
  <2> QED
    BY <1>1, <1>2, <1>3, <2>1, ShiftFits DEF CleanOK, Are
<1>4. CASE control.undo = "want"
  <2>1. shown' = Marked(shown, w.on, ~w.want) /\ count' = Shift(count, shown, shown')
    BY <1>4 DEF Undone
  <2>2. Are(shown', w.on, ~w.want)
    BY <1>1, <2>1 DEF Marked, Are
  <2> QED
    BY <1>1, <2>1, <2>2, ShiftFits
<1>5. CASE control.undo = "keep"
  BY <1>2, <1>5, Kind DEF Undone, CleanOK
<1> QED
  BY <1>3, <1>4, <1>5

LEMMA FailedKeepsSure ==
  ASSUME IInv, NEW w \in writes, Undone(w), writes' = writes \ {w},
         UNCHANGED <<control, stored, doubt>>,
         w.at = "sent", w.clean, control.undo # "count", ~control.reload
  PROVE  SureOK'
<1> SUFFICES ASSUME \A v \in writes : v.clean
             PROVE  MarksOK' /\ CountOK' /\ MenuOK(shown)'
  BY DEF SureOK
<1>1. MarksOK /\ CountOK /\ MenuOK(shown) /\ CleanOK(w)
  BY DEF IInv, SureOK, WriteOK
<1>2. Touched = Touched' \cup w.on
  BY DEF Touched
<1>3. \A v \in writes' : Are(stored', v.on \ doubt', IF v.at = "sent" THEN ~v.want ELSE v.want)
  BY <1>1 DEF MarksOK
<1>4. CASE control.undo = "all"
  <2>1. writes' = {} /\ Touched' = {}
    BY <1>1, <1>4 DEF CleanOK, Apart, Touched
  <2>2. shown' = w.before.marks /\ count' = w.before.count
    BY <1>4 DEF Undone
  <2>3. MarksOK'
    BY <1>1, <1>3, <1>4, <2>1, <2>2 DEF MarksOK, CleanOK, Agree
  <2>4. CountOK'
    <3>1. NumberOK(count', shown')
      BY <1>1, <1>4, <2>2 DEF CleanOK
    <3>2. stored \cup {} = stored
      OBVIOUS
    <3> QED
      BY <2>1, <3>1, <3>2 DEF NumberOK, CountOK, CountOf
  <2>5. MenuOK(shown)'
    BY <1>1, <1>4, <2>2 DEF CleanOK, MenuOK
  <2> QED
    BY <2>3, <2>4, <2>5
<1>5. CASE control.undo \in {"item", "want", "keep"}
  <2>1. /\ Are(shown', w.on, ~w.want) /\ (count = CountOf(shown) => count' = CountOf(shown'))
        /\ Agree(shown', shown, Items \ w.on)
    BY <1>5, UndoneMarks, UndoneElsewhere
  <2>2. Are(stored, w.on \ doubt, ~w.want) /\ w.on \in SUBSET Items
    BY <1>1 DEF MarksOK, IInv, TypesOK, IsWrite, Write
  <2>3. ASSUME NEW j \in Items \ (doubt \cup Touched') PROVE j \in shown' <=> j \in stored
    <3>1. CASE j \in w.on
      BY <2>1, <2>2, <2>3, <3>1 DEF Are
    <3>2. CASE j \notin w.on
      BY <1>1, <1>2, <2>1, <2>3, <3>2 DEF Agree, MarksOK
    <3> QED
      BY <3>1, <3>2
  <2>4. MarksOK'
    BY <1>3, <2>3 DEF MarksOK, Agree
  <2>5. control.poll # "count"
    BY <1>5, Kind
  <2>6. CountOK'
    BY <1>1, <2>1, <2>5 DEF CountOK, CountOf
  <2>7. MenuOK(shown)'
    BY <2>5 DEF MenuOK
  <2> QED
    BY <2>4, <2>6, <2>7
<1> QED
  BY <1>4, <1>5, Kind DEF Control

LEMMA FailedOK == ASSUME IInv, NEW w \in writes, Failed(w) PROVE IInv'
<1> DEFINE calm == w.at = "sent" /\ w.clean /\ control.undo # "count" /\ ~control.reload
<1>0. /\ UNCHANGED <<control, stored, day, seen, loaded, stopped, clicks>> /\ Undone(w)
      /\ writes' = IF control.reload THEN Spoiled(writes \ {w}) ELSE writes \ {w}
      /\ doubt' = IF calm THEN doubt ELSE All
  BY DEF Failed, server
<1>1. shown' \in SUBSET Items /\ count' \in Nat
  BY <1>0, UndoneType
<1>2. PICK n : /\ reads' = IF control.reload THEN reads \cup {n} ELSE reads
               /\ control.reload => IsRead(n) /\ n.at = "sent" /\ n.clean = (writes = {w})
  <2>1. CASE control.reload
    <3> DEFINE m == NewRead("all")
               n == [m EXCEPT !.clean = writes = {w}]
    <3>1. IsRead(m) /\ m.at = "sent" /\ control.first # "add" /\ control.poll # "count"
      BY <2>1, Kind, NewReadOK
    <3>2. reads' = reads \cup {n}
      BY <2>1 DEF Failed
    <3> HIDE DEF m
    <3>3. m = [f \in {"id", "what", "at", "page", "clean"} |-> m[f]] /\ (writes = {w}) \in BOOLEAN
      BY <3>1 DEF IsRead
    <3>4. /\ n = [f \in {"id", "what", "at", "page", "clean"} |-> n[f]]
          /\ n.clean = (writes = {w}) /\ n.at = m.at /\ n.page = m.page /\ n.what = m.what
      BY <3>3
    <3> HIDE DEF n
    <3>5. IsRead(n)
      BY <3>1, <3>3, <3>4 DEF IsRead
    <3> QED
      BY <2>1, <3>1, <3>2, <3>4, <3>5
  <2>2. CASE ~control.reload
    BY <2>2 DEF Failed
  <2> QED
    BY <2>1, <2>2
<1>3. \A v \in writes' : IsWrite(v) /\ v.on \subseteq Items /\ v.at \in {"sent", "served"}
                           /\ (control.reload => ~v.clean)
  <2>1. \A v \in writes \ {w} : IsWrite(v)
    BY DEF IInv, TypesOK
  <2>2. \A v \in Spoiled(writes \ {w}) : IsWrite(v) /\ ~v.clean
    BY <2>1, SpoiledWrites
  <2>3. \A v \in writes' : IsWrite(v) /\ (control.reload => ~v.clean)
    BY <1>0, <2>1, <2>2
  <2> QED
    BY <2>3 DEF IsWrite, Write
<1>4. TypesOK'
  <2>1. doubt' \in SUBSET All
    BY <1>0 DEF IInv, TypesOK, TypeOK
  <2>2. \A r \in reads' : IsRead(r)
    BY <1>2 DEF IInv, TypesOK
  <2>3. TypeOK'
    BY <1>0, <1>1, <1>3, <2>1, <2>2 DEF IInv, TypesOK, TypeOK, IsRead
  <2>4. (\A v \in writes' : IsWrite(v)') /\ (\A q \in reads' : IsRead(q)')
    BY <1>0, <1>3, <2>2 DEF IsWrite, IsRead
  <2> QED
    BY <1>0, <2>3, <2>4 DEF IInv, TypesOK
<1>5. AddOK'
  BY <1>0, <1>2, NoCleanRead, Kind DEF IInv, AddOK, All
<1>6. \A q \in reads' : ReadOK(q)'
  <2>1. control.reload /\ writes = {w} => writes' = {}
    BY <1>0 DEF Spoiled
  <2> QED
    BY <1>2, <2>1, NoCleanRead DEF ReadOK
<1>7. \A v \in writes' : WriteOK(v)'
  <2>1. CASE control.reload
    BY <1>3, <2>1 DEF WriteOK
  <2>2. CASE ~control.reload
    <3>1. ASSUME NEW v \in writes \ {w}, v.clean
          PROVE  Agree(shown', shown, Items \ w.on) /\ control.undo # "all"
      BY <1>0, <3>1, UndoneElsewhere DEF IInv, WriteOK, CleanOK, Apart
    <3> QED
      BY <1>0, <1>2, <2>2, <3>1, OthersStay
  <2> QED
    BY <2>1, <2>2
<1>8. SureOK'
  <2>1. CASE calm
    BY <1>0, <2>1, FailedKeepsSure
  <2>2. CASE ~calm
    BY <1>0, <1>3, <2>2, AllInDoubt
  <2> QED
    BY <2>1, <2>2
<1> QED
  BY <1>4, <1>5, <1>6, <1>7, <1>8 DEF IInv

LEMMA ElsewhereOK == ASSUME IInv, Elsewhere PROVE IInv'
<1>0. /\ UNCHANGED <<control, shown, count, seen, loaded, stopped, clicks>>
      /\ stored' \in SUBSET Items /\ day' = day + 1 /\ day < MaxDay /\ control.poll # "no"
      /\ writes' = Spoiled(writes) /\ reads' = Spoiled(reads) /\ doubt' = All
  BY DEF Elsewhere, view
<1>1. \A w \in writes' : IsWrite(w) /\ ~w.clean /\ w.on \in SUBSET Items /\ w.at \in {"sent", "served"}
  BY <1>0, SpoiledWrites DEF IInv, TypesOK, IsWrite, Write
<1>2. \A r \in reads' : IsRead(r) /\ ~r.clean
  BY <1>0, SpoiledReads DEF IInv, TypesOK
<1>3. TypesOK'
  <2>1. TypeOK'
    BY <1>0, <1>1, <1>2, ControlBounds DEF IInv, TypesOK, TypeOK, IsRead
  <2>2. (\A v \in writes' : IsWrite(v)') /\ (\A q \in reads' : IsRead(q)')
    BY <1>0, <1>1, <1>2 DEF IsWrite, IsRead
  <2> QED
    BY <1>0, <2>1, <2>2 DEF IInv, TypesOK
<1>4. AddOK'
  BY <1>0, Kind DEF AddOK
<1>5. (\A q \in reads' : ReadOK(q)') /\ \A v \in writes' : WriteOK(v)'
  BY <1>1, <1>2 DEF ReadOK, WriteOK
<1>6. SureOK'
  BY <1>0, <1>1, AllInDoubt
<1> QED
  BY <1>3, <1>4, <1>5, <1>6 DEF IInv

LEMMA InitOK == Init => IInv
<1> SUFFICES ASSUME Init PROVE IInv
  OBVIOUS
<1>1. control \in Control /\ (control.first = "count" <=> control.poll = "count")
  BY ControlKinds DEF Init
<1>2. NoPage \in Answer
  BY ControlBounds DEF NoPage, Page, Answer
<1>3. \A r \in reads : IsRead(r) /\ r.at = "sent"
  <2> SUFFICES ASSUME NEW r \in reads PROVE IsRead(r) /\ r.at = "sent"
    OBVIOUS
  <2>1. /\ r = [id |-> 1, what |-> control.first, at |-> "sent", page |-> NoPage, clean |-> TRUE]
        /\ control.first # "none"
    BY DEF Init
  <2>2. control.first \in {"all", "add", "count"}
    BY <1>1, <2>1 DEF Control
  <2> QED
    BY <1>1, <1>2, <2>1, <2>2 DEF IsRead
<1>4. count \in Nat
  BY CountType DEF Init
<1>5. TypesOK
  <2>1. \A r \in reads : r.what \in {"all", "add", "marks", "count"}
    BY <1>3 DEF IsRead
  <2>2. /\ control \in Explored /\ stored \in SUBSET Items /\ shown \in SUBSET Items
        /\ day = 0 /\ seen = 0 /\ loaded \in BOOLEAN /\ stopped = FALSE
        /\ clicks = 0 /\ doubt = All /\ writes = {}
    BY DEF Init
  <2>3. 0 \in 0 .. MaxDay /\ 0 \in 0 .. MaxWrites
    BY ControlBounds
  <2>4. \A r \in reads : r.at \in {"sent", "served"}
    BY <1>3
  <2>5. TypeOK
    BY <1>4, <2>1, <2>2, <2>3, <2>4 DEF TypeOK
  <2> QED
    BY <1>3, <2>2, <2>5 DEF TypesOK
<1>6. AddOK
  BY DEF Init, AddOK, All
<1>7. \A r \in reads : ReadOK(r)
  BY <1>3 DEF Init, ReadOK
<1>8. SureOK
  BY DEF Init, SureOK, MarksOK, CountOK, MenuOK, Agree, Are, All
<1> QED
  BY <1>5, <1>6, <1>7, <1>8 DEF Init, IInv
-----------------------------------------------------------------------------
(* Clicks *)

\* What a click that nothing overlapped is about, and what it finds there
LEMMA FoundMarks ==
  ASSUME IInv, NEW on \in Targets, control.once => on \cap shown = {}
  PROVE  /\ on \in SUBSET Items /\ on # {}
         /\ Are(shown, on, on \subseteq shown)
         /\ control.once => ~(on \subseteq shown)
         /\ control.bulk => on = Items \ shown
         /\ ~control.bulk => \E i \in Items : on = {i}
<1>1. shown \in SUBSET Items
  BY DEF IInv, TypesOK, TypeOK
<1>2. CASE control.bulk
  <2>1. on = Items \ shown /\ on # {}
    BY <1>2 DEF Targets
  <2> QED
    BY <1>2, <2>1 DEF Are
<1>3. CASE ~control.bulk
  <2>1. PICK i \in Items : on = {i}
    BY <1>3 DEF Targets
  <2> QED
    BY <1>3, <2>1 DEF Are
<1> QED
  BY <1>2, <1>3

\* The number a click leaves, when nothing is in doubt about it
LEMMA PressedNumber ==
  ASSUME IInv, \A w \in writes : w.clean, NEW on \in Targets,
         control.once => on \cap shown = {}, Tangled(on) = {}, control.early,
         "count" \notin doubt, on \cap doubt = {},
         NEW after, after = Marked(shown, on, ~(on \subseteq shown)),
         NEW n, n = IF control.bulk THEN 0 ELSE Shift(count, shown, after)
  PROVE  IF control.poll = "count" THEN n = CountOf(stored \cup (Touched \cup on))
         ELSE n = CountOf(after)
<1>1. /\ on \in SUBSET Items /\ on # {} /\ (control.once => ~(on \subseteq shown))
      /\ control.bulk => on = Items \ shown
      /\ ~control.bulk => \E i \in Items : on = {i}
  BY FoundMarks
<1>2. MarksOK /\ CountOK /\ MenuOK(shown)
  BY DEF IInv, SureOK
<1>3. shown \in SUBSET Items /\ stored \in SUBSET Items /\ after \in SUBSET Items
  BY <1>1 DEF IInv, TypesOK, TypeOK, Marked
<1>4. Touched \in SUBSET Items /\ on \cap Touched = {}
  BY <1>1 DEF Touched, Tangled, IInv, TypesOK, IsWrite, Write
<1>5. \A j \in on : j \in shown <=> j \in stored
  BY <1>1, <1>2, <1>4 DEF MarksOK, Agree
<1>6. CASE control.bulk
  <2>1. after = Items /\ n = 0 /\ CountOf(Items) = 0
    BY <1>1, <1>3, <1>6, CountNothing, Kind DEF Marked
  <2>2. CASE control.poll = "count"
    <3>1. doubt \cap Items = {}
      BY <1>1, <1>2, <1>6, <2>2 DEF MenuOK
    <3>2. stored \cup (Touched \cup on) = Items
      BY <1>1, <1>2, <1>3, <1>4, <1>6, <3>1 DEF MarksOK, Agree
    <3> QED
      BY <2>1, <2>2, <3>2
  <2> QED
    BY <2>1, <2>2
<1>7. CASE ~control.bulk
  <2>1. PICK i \in Items : on = {i}
    BY <1>1, <1>7
  <2>2. n = Shift(count, shown, after)
    BY <1>7
  <2>3. CASE control.poll = "count"
    <3> DEFINE X == stored \cup Touched
    <3>1. after = shown \cup {i} /\ i \notin shown /\ i \notin X /\ X \in SUBSET Items
      BY <1>1, <1>3, <1>4, <1>5, <2>1, <2>3, Kind DEF Marked
    <3>2. stored \cup (Touched \cup on) = X \cup {i}
      BY <2>1
    <3>3. count = CountOf(X)
      BY <1>2, <2>3 DEF CountOK
    <3> HIDE DEF X
    <3>4. CountOf(X \cup {i}) = CountOf(X) - 1 /\ CountOf(after) = CountOf(shown) - 1
      BY <1>3, <2>3, <3>1, CountMarked, Kind
    <3>5. CountOf(X \cup {i}) \in Nat /\ CountOf(X) \in Nat /\ CountOf(shown) \in Nat
      BY <1>3, <3>1, CountType
    <3>6. n = count - 1
      BY <2>2, <3>3, <3>4, <3>5 DEF Shift
    <3> QED
      BY <2>3, <3>2, <3>3, <3>4, <3>6
  <2>4. CASE control.poll # "count"
    BY <1>2, <1>3, <2>2, <2>4, ShiftFits DEF CountOK
  <2> QED
    BY <2>3, <2>4
<1> QED
  BY <1>6, <1>7

LEMMA PressOK == ASSUME IInv, NEW on \in Targets, Press(on) PROVE IInv'
<1> PICK want : want = ~(on \subseteq shown)
  OBVIOUS
<1> PICK blurred : blurred = (reads # {} \/ (control.lock # "all" /\ Tangled(on) # {}))
  OBVIOUS
<1> PICK w : w = [id |-> clicks, on |-> on, want |-> want, day |-> seen, before |-> Before,
                  at |-> "sent", page |-> NoPage, clean |-> ~blurred]
  OBVIOUS
<1>0. /\ UNCHANGED <<control, stored, day, seen, loaded, stopped>>
      /\ clicks < MaxWrites /\ clicks' = clicks + 1 /\ Free(on)
      /\ control.once => on \cap shown = {}
      /\ shown' = IF control.early THEN Marked(shown, on, want) ELSE shown
      /\ count' = IF ~control.early THEN count
                  ELSE IF control.bulk THEN 0 ELSE Shift(count, shown, Marked(shown, on, want))
      /\ writes' = {w} \cup (writes \ Tangled(on))
                       \cup IF blurred THEN Spoiled(Tangled(on)) ELSE Tangled(on)
      /\ reads' = Spoiled(reads)
      /\ doubt' = IF blurred THEN All
                  ELSE IF control.early /\ on \cap doubt # {} THEN doubt \cup {"count"} ELSE doubt
  BY DEF Press, server
<1>1. /\ on \in SUBSET Items /\ on # {} /\ Are(shown, on, ~want)
      /\ control.once => want
      /\ ~control.bulk => \E i \in Items : on = {i}
  BY <1>0, FoundMarks
<1>2. shown \in SUBSET Items /\ count \in Nat /\ clicks \in Nat /\ seen \in 0 .. MaxDay
  BY ControlBounds DEF IInv, TypesOK, TypeOK
<1>3. w \in Write
  <2>1. Before \in [marks : SUBSET Items, count : Nat]
    BY <1>2 DEF Before
  <2>2. NoPage \in Answer
    BY ControlBounds DEF NoPage, Page, Answer
  <2>3. want \in BOOLEAN
    <3>1. (~(on \subseteq shown)) \in BOOLEAN
      OBVIOUS
    <3> QED
      BY <3>1
  <2>4. (~blurred) \in BOOLEAN
    OBVIOUS
  <2> QED
    BY <1>1, <1>2, <2>1, <2>2, <2>3, <2>4 DEF Write
<1>4. /\ IsWrite(w) /\ w.on = on /\ w.want = want /\ w.at = "sent" /\ w.before = Before
      /\ w.clean = ~blurred
  BY <1>1, <1>3 DEF IsWrite
<1>5. Tangled(on) \subseteq writes
  BY DEF Tangled
<1>6. \A v \in writes' : IsWrite(v) /\ v.on \in SUBSET Items /\ v.at \in {"sent", "served"}
  <2>1. \A v \in writes : IsWrite(v)
    BY DEF IInv, TypesOK
  <2>2. \A v \in Spoiled(Tangled(on)) : IsWrite(v)
    BY <1>5, <2>1, SpoiledWrites
  <2>3. \A v \in writes' : IsWrite(v)
    BY <1>0, <1>4, <1>5, <2>1, <2>2
  <2> QED
    BY <2>3 DEF IsWrite, Write
<1>7. \A r \in reads' : IsRead(r) /\ ~r.clean
  BY <1>0, SpoiledReads DEF IInv, TypesOK
<1>8. Marked(shown, on, want) \in SUBSET Items
  BY <1>1, <1>2 DEF Marked
<1>9. TypesOK'
  <2>1. shown' \in SUBSET Items /\ count' \in Nat
    BY <1>0, <1>2, <1>8, ShiftFits
  <2>2. doubt' \in SUBSET All /\ clicks' \in 0 .. MaxWrites
    BY <1>0, <1>2, ControlBounds DEF IInv, TypesOK, TypeOK, All
  <2>3. TypeOK'
    BY <1>0, <1>6, <1>7, <2>1, <2>2 DEF IInv, TypesOK, TypeOK, IsRead
  <2>4. (\A v \in writes' : IsWrite(v)') /\ (\A q \in reads' : IsRead(q)')
    BY <1>0, <1>6, <1>7 DEF IsWrite, IsRead
  <2> QED
    BY <1>0, <2>3, <2>4 DEF IInv, TypesOK
<1>10. AddOK'
  <2> SUFFICES ASSUME control.first = "add"
               PROVE  "count" \in doubt' /\ \A r, q \in reads' : r = q
    BY <1>0, <1>7 DEF AddOK
  <2>1. "count" \in doubt /\ \A r, q \in reads : r = q
    BY DEF IInv, AddOK
  <2> QED
    BY <1>0, <2>1 DEF Spoiled, All
<1>11. (\A q \in reads' : ReadOK(q)')
  BY <1>7 DEF ReadOK
\* a click that nothing overlapped is alone with its things
<1>12. ASSUME ~blurred
       PROVE  Tangled(on) = {} /\ reads' = {} /\ writes' = writes \cup {w}
  <2>1. reads = {}
    BY <1>12
  <2>2. control.lock = "all" => writes = {}
    BY <1>0 DEF Free
  <2>3. Tangled(on) = {}
    BY <1>5, <1>12, <2>2
  <2> QED
    BY <1>0, <1>12, <2>1, <2>3 DEF Spoiled
<1>13. ASSUME NEW v \in writes \ Tangled(on)
       PROVE  v.on \cap on = {} /\ control.undo # "all" /\ control.takes # "page"
  BY <1>13 DEF Tangled
<1>14. \A v \in writes' : WriteOK(v)'
  <2>1. ASSUME NEW v \in writes \ Tangled(on), v.clean
        PROVE  CleanOK(v)'
    <3>1. CleanOK(v) /\ v.on \in SUBSET Items
      BY <2>1 DEF IInv, WriteOK, TypesOK, IsWrite, Write
    <3>2. v.on \cap on = {} /\ control.undo # "all" /\ control.takes # "page"
      BY <1>13, <2>1
    <3>3. \A u \in Spoiled(Tangled(on)) : \E x \in Tangled(on) : u.on = x.on
      <4>1. \A x \in Tangled(on) : [x EXCEPT !.clean = FALSE].on = x.on
        BY <1>5 DEF IInv, TypesOK, IsWrite, Write
      <4> QED
        BY <4>1 DEF Spoiled
    <3>4. Apart(v)'
      BY <1>0, <1>4, <1>5, <2>1, <3>1, <3>2, <3>3 DEF CleanOK, Apart
    <3>5. Are(shown', v.on, IF control.early THEN v.want ELSE ~v.want)
      BY <1>0, <3>1, <3>2 DEF CleanOK, Are, Marked
    <3>6. reads' = {}
      BY <1>0, <3>1 DEF CleanOK, Spoiled
    <3> QED
      BY <1>0, <3>1, <3>2, <3>4, <3>5, <3>6 DEF CleanOK, Are
  <2>2. ASSUME ~blurred
        PROVE  CleanOK(w)'
    <3>1. reads' = {} /\ writes' = writes \cup {w} /\ Tangled(on) = {}
      BY <1>12, <2>2
    <3>2. Apart(w)'
      BY <1>0, <1>4, <1>13, <3>1 DEF Apart
    <3>3. Are(shown', on, IF control.early THEN want ELSE ~want)
      BY <1>0, <1>1 DEF Are, Marked
    <3>4. control.undo = "item" => Are(w.before.marks, on, ~want)
      BY <1>1, <1>4 DEF Before
    <3>5. ASSUME control.undo = "all"
          PROVE  /\ Agree(w.before.marks, stored', Items \ doubt')
                 /\ NumberOK(w.before.count, w.before.marks)'
                 /\ MenuOK(w.before.marks)'
      <4>1. writes = {} /\ Touched = {} /\ stored \cup {} = stored
        BY <3>1, <3>5 DEF Tangled, Touched
      <4>2. MarksOK /\ CountOK /\ MenuOK(shown)
        BY <4>1 DEF IInv, SureOK
      <4>3. w.before.marks = shown /\ w.before.count = count
        BY <1>4, <3>5 DEF Before
      <4>4. doubt \subseteq doubt' /\ doubt' \cap Items = doubt \cap Items
            /\ ("count" \notin doubt' => doubt' = doubt)
        BY <1>0, <2>2, ControlKinds
      <4>5. Agree(w.before.marks, stored', Items \ doubt')
        BY <1>0, <4>1, <4>2, <4>3, <4>4 DEF MarksOK, Agree
      <4>6. NumberOK(w.before.count, w.before.marks)'
        BY <1>0, <4>1, <4>2, <4>3, <4>4 DEF CountOK, NumberOK, CountOf
      <4>7. MenuOK(w.before.marks)'
        BY <1>0, <4>2, <4>3, <4>4 DEF MenuOK
      <4> QED
        BY <4>5, <4>6, <4>7
    <3> QED
      BY <1>0, <1>4, <3>1, <3>2, <3>3, <3>4, <3>5 DEF CleanOK
  <2>3. \A v \in Spoiled(Tangled(on)) : ~v.clean
    BY <1>5, SpoiledWrites DEF IInv, TypesOK
  <2> QED
    BY <1>0, <1>4, <1>5, <1>12, <2>1, <2>2, <2>3 DEF WriteOK
<1>15. SureOK'
  <2>1. CASE blurred
    BY <1>0, <1>6, <2>1, AllInDoubt
  <2>2. CASE ~blurred
    <3>1. writes' = writes \cup {w} /\ Tangled(on) = {}
      BY <1>12, <2>2
    <3> SUFFICES ASSUME \A v \in writes : v.clean
                 PROVE  MarksOK' /\ CountOK' /\ MenuOK(shown)'
      BY <3>1 DEF SureOK
    <3>2. MarksOK /\ CountOK /\ MenuOK(shown)
      BY DEF IInv, SureOK
    <3>3. Touched' = Touched \cup on
      BY <1>4, <3>1 DEF Touched
    <3>4. doubt' = IF control.early /\ on \cap doubt # {} THEN doubt \cup {"count"} ELSE doubt
      BY <1>0, <2>2
    <3>5. on \cap Touched = {}
      BY <1>1, <3>1 DEF Touched, Tangled
    <3>6. MarksOK'
      <4>1. Agree(shown', stored', Items \ (doubt' \cup Touched'))
        BY <1>0, <3>2, <3>3, <3>4 DEF MarksOK, Agree, Marked
      <4>2. Are(stored, on \ doubt, ~want)
        BY <1>1, <3>2, <3>5 DEF MarksOK, Agree, Are
      <4>3. \A v \in writes : v.on \ doubt' \subseteq v.on \ doubt
        BY <3>4
      <4>4. \A v \in writes : Are(stored', v.on \ doubt', IF v.at = "sent" THEN ~v.want ELSE v.want)
        BY <1>0, <3>2, <4>3 DEF MarksOK, Are
      <4>5. Are(stored', w.on \ doubt', IF w.at = "sent" THEN ~w.want ELSE w.want)
        BY <1>0, <1>4, <3>4, <4>2 DEF Are
      <4> QED
        BY <3>1, <4>1, <4>4, <4>5 DEF MarksOK
    <3>7. CountOK'
      <4> SUFFICES ASSUME "count" \notin doubt'
                   PROVE  IF control.poll = "count" THEN count' = CountOf(stored \cup (Touched \cup on))
                          ELSE doubt' = {} /\ count' = CountOf(shown')
        BY <1>0, <3>3 DEF CountOK, CountOf
      <4>1. doubt' = doubt /\ "count" \notin doubt
        BY <3>4
      <4>2. CASE control.early
        <5>1. on \cap doubt = {}
          BY <3>4, <4>2
        <5>2. /\ count' = IF control.bulk THEN 0 ELSE Shift(count, shown, shown')
              /\ shown' = Marked(shown, on, ~(on \subseteq shown))
          BY <1>0, <4>2
        <5>3. IF control.poll = "count" THEN count' = CountOf(stored \cup (Touched \cup on))
              ELSE count' = CountOf(shown')
          BY <1>0, <3>1, <4>1, <4>2, <5>1, <5>2, PressedNumber
        <5> QED
          BY <3>2, <4>1, <5>3 DEF CountOK
      <4>3. CASE ~control.early
        <5>1. control.poll # "count"
          BY <4>3, Kind
        <5> QED
          BY <1>0, <3>2, <4>1, <4>3, <5>1 DEF CountOK
      <4> QED
        BY <4>2, <4>3
    <3>8. MenuOK(shown)'
      <4> SUFFICES ASSUME control.bulk PROVE Items \subseteq shown'
        BY <1>0 DEF MenuOK
      <4>1. control.early /\ want /\ on = Items \ shown
        BY <1>0, <1>1, FoundMarks, Kind
      <4> QED
        BY <1>0, <4>1 DEF Marked
    <3> QED
      BY <3>6, <3>7, <3>8
  <2> QED
    BY <2>1, <2>2
<1> QED
  BY <1>9, <1>10, <1>11, <1>14, <1>15 DEF IInv
-----------------------------------------------------------------------------
(* Theorems *)

LEMMA StutterOK == ASSUME IInv, UNCHANGED vars PROVE IInv'
<1>0. /\ UNCHANGED <<control, stored, day, shown, count, seen, loaded, stopped>>
      /\ UNCHANGED <<writes, reads, clicks, doubt>>
  BY DEF vars
<1>1. TypesOK' /\ AddOK' /\ \A r \in reads' : ReadOK(r)'
  BY <1>0 DEF IInv, TypesOK, TypeOK, IsWrite, IsRead, AddOK, ReadOK
<1>2. \A w \in writes' : WriteOK(w)'
  <2> SUFFICES ASSUME NEW w \in writes PROVE WriteOK(w)'
    BY <1>0
  <2>1. Apart(w) => Apart(w)'
    BY <1>0 DEF Apart
  <2>2. NumberOK(w.before.count, w.before.marks) => NumberOK(w.before.count, w.before.marks)'
    BY <1>0 DEF NumberOK, CountOf
  <2>3. MenuOK(w.before.marks) => MenuOK(w.before.marks)'
    BY <1>0 DEF MenuOK
  <2> QED
    BY <1>0, <2>1, <2>2, <2>3 DEF IInv, WriteOK, CleanOK, Agree, Are
<1>3. SureOK'
  BY <1>0 DEF IInv, SureOK, MarksOK, CountOK, MenuOK, Agree, Are, Touched, CountOf
<1> QED
  BY <1>1, <1>2, <1>3 DEF IInv

LEMMA Invariance == Spec => []IInv
<1>1. IInv /\ [Next]_vars => IInv'
  <2> SUFFICES ASSUME IInv, [Next]_vars PROVE IInv'
    OBVIOUS
  <2> QED
    BY AskingOK, ReadServedOK, ReadArrivesOK, ReadFailsOK, PressOK, WriteServedOK,
       AnsweredOK, FailedOK, ElsewhereOK, StutterOK DEF Next, ReadEnds, WriteEnds
<1> QED
  BY InitOK, <1>1, PTL DEF Spec

\* The number shown is a number, also where an answer takes one off
\* (Math.max(0, ...) of the handlers), and what is under way is about things
\* of the page.
THEOREM TypeCorrect == Spec => []TypeOK
BY Invariance, PTL DEF IInv, TypesOK

\* Whatever was clicked, refused, lost and put back, in whatever order requests
\* and polls end, the page agrees with the server once all is answered, but for
\* what an answer that was lost or an overlap without an order left in doubt
\* (toggleLike, toggleWatched, castVote, markRead and their like).
THEOREM PageAlwaysAgrees == Spec => []PageAgrees
<1>1. IInv => PageAgrees
  <2> SUFFICES ASSUME IInv, writes = {}, reads = {}
               PROVE  /\ \A i \in Items \ doubt : i \in shown <=> i \in stored
                      /\ doubt = {} => count = CountOf(stored)
    BY DEF PageAgrees, SettledIsStored, CountsAddUp, Calm
  <2>1. MarksOK /\ CountOK
    BY DEF IInv, SureOK
  <2>2. Touched = {} /\ stored \cup {} = stored
    BY DEF Touched
  <2>3. \A i \in Items \ doubt : i \in shown <=> i \in stored
    BY <2>1, <2>2 DEF MarksOK, Agree
  <2>4. doubt = {} => shown = stored
    BY <2>3 DEF IInv, TypesOK, TypeOK
  <2> QED
    BY <2>1, <2>2, <2>3, <2>4 DEF CountOK
<1> QED
  BY <1>1, Invariance, PTL
=============================================================================
