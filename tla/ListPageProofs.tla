---------------------------- MODULE ListPageProofs ----------------------------
(***************************************************************************)
(* ListPage: the wizard makes one battle, the page shows the list, and the *)
(* draft waits for its items, for any titles, any number of clicks and any *)
(* number of requests and reads under way.                                 *)
(***************************************************************************)
EXTENDS ListPage, SequenceTheorems, WellFoundedInduction, TLAPS

Row == [title : Titles, temp : BOOLEAN]
Batch == [id : Nat, todo : Seq(Titles), at : {"sent", "served"}, here : BOOLEAN]
Removal == [id : Nat, title : Titles, at : {"sent", "served"}, here : BOOLEAN,
            from : {"page", "manager"}]
Read == [kind : {"viewer", "refresh", "render"}, at : {"sent", "served"}, page : Seq(Titles),
         clean : BOOLEAN, late : BOOLEAN]
Once(s) == \A i, j \in DOMAIN s : s[i] = s[j] => i = j

Types ==
    /\ stored \in Seq(Titles) /\ shown \in Seq(Row) /\ ticks \in Seq(Titles)
    /\ batches \subseteq Batch /\ \A b \in batches : b.todo # <<>>
    /\ removes \subseteq Removal /\ reads \in Seq(Read) /\ asks \in Nat
    /\ doubt \in BOOLEAN /\ missed \in BOOLEAN /\ torn \in BOOLEAN /\ managing \in BOOLEAN
    /\ Once(stored) /\ Once(ticks)
    /\ at = "form" => Quiet /\ reads = <<>>

(***************************************************************************)
(* The wizard.                                                             *)
(***************************************************************************)
\* It holds what it has made, or waits to be told of it
MakeOK ==
    /\ make = [step |-> make.step, served |-> make.served, kept |-> make.kept,
               made |-> make.made, lost |-> make.lost]
    /\ make.made \in Nat
    /\ form.keeps /\ ~make.lost =>
         /\ make.made <= 1
         /\ make.kept \/ (make.served /\ make.step = 1) \/ make.made = 0

(***************************************************************************)
(* The gate.                                                               *)
(***************************************************************************)
\* What is being saved is on the page, each title for one batch
GateOK ==
    at = "draft" /\ ~torn =>
      /\ \A b \in batches : Once(b.todo)
      /\ \A b \in batches : \A k \in DOMAIN b.todo : Unsaved(b.todo[k]) # {}
      /\ \A b, c \in batches : \A k \in DOMAIN b.todo, l \in DOMAIN c.todo :
           b.todo[k] = c.todo[l] => b = c
      /\ \A b \in batches : \A k \in DOMAIN b.todo, l \in DOMAIN ticks : b.todo[k] # ticks[l]

(***************************************************************************)
(* The page and the list.                                                  *)
(***************************************************************************)
\* What is under way belongs to this page, or the page knows it does not know
HereOK ==
    /\ \A r \in removes : r.from = "manager" /\ r.here => managing
    /\ \A r, q \in removes : r.from = "page" /\ q.from = "page" /\ r.title = q.title => r = q
    /\ OnPage => \A b \in batches : ~b.here => doubt /\ missed
    /\ OnPage => \A r \in removes : r.from = "page" /\ ~r.here => doubt /\ missed

\* Nothing has happened to the list since a clean reading was sent
ReadsOK ==
    /\ \A i \in DOMAIN reads : reads[i].clean =>
         Quiet /\ (reads[i].at = "served" => reads[i].page = stored)
    /\ (\E i \in DOMAIN reads : reads[i].clean) => Last(reads).late \/ Last(reads).clean
    /\ reads # <<>> /\ Last(reads).late => \A i \in DOMAIN reads : reads[i].late

\* When nothing that is under way has changed the list, the last reading
\* brings what is stored, or has brought it
Fresh ==
    IF reads # <<>> /\ ~Last(reads).late
    THEN Last(reads).at = "served" => Last(reads).page = stored
    ELSE TitlesOf(shown) = stored
FreshOK ==
    OnPage /\ ~missed /\ ~managing /\ batches = {} /\ (\A r \in removes : r.at = "sent") => Fresh

\* The rows: first those that are saved, then those of todo, in its order
Split(rows, todo, p) ==
    /\ p \in Nat /\ Len(rows) = p + Len(todo)
    /\ \A i \in 1 .. p : ~rows[i].temp
    /\ \A k \in 1 .. Len(todo) : rows[p + k] = [title |-> todo[k], temp |-> TRUE]

\* A row the list on the server has: saved, but for the first row of a title
\* that was removed there; or the one that was just saved there
Kept(rows, p, added, gone, i) ==
    IF i <= p THEN rows[i].title \in gone => \E j \in 1 .. i - 1 : rows[j].title = rows[i].title
    ELSE added /\ i = p + 1

\* The list on the server is those rows, in their order
Matched(rows, s, p, added, gone, f) ==
    /\ f \in [1 .. Len(s) -> 1 .. Len(rows)]
    /\ \A k, l \in 1 .. Len(s) : k < l => f[k] < f[l]
    /\ \A k \in 1 .. Len(s) : rows[f[k]].title = s[k] /\ Kept(rows, p, added, gone, f[k])
    /\ \A i \in 1 .. Len(rows) : Kept(rows, p, added, gone, i) => \E k \in 1 .. Len(s) : f[k] = i
Matches(rows, s, p, added, gone) == \E f : Matched(rows, s, p, added, gone, f)

Todo == IF batches = {} THEN <<>> ELSE (CHOOSE b \in batches : TRUE).todo
Added == \E b \in batches : b.at = "served"
GoneTitles == {t \in Titles : \E r \in removes : r.from = "page" /\ r.at = "served" /\ r.title = t}
Saved == Len(shown) - Len(Todo)

\* Without a doubt, the rows and the answers to come are the list
SteadyOK ==
    OnPage /\ ~doubt =>
      /\ \A b \in batches : batches = {b} /\ Once(b.todo)
      /\ Split(shown, Todo, Saved)
      /\ \A r \in removes : r.from = "page" => \E i \in 1 .. Saved : shown[i].title = r.title
      /\ (\A r \in removes : r.from = "manager" => r.at = "sent") =>
           Matches(shown, stored, Saved, Added, GoneTitles)

IInv == Types /\ HereOK /\ ReadsOK /\ FreshOK /\ SteadyOK
-----------------------------------------------------------------------------
(* Sequences.                                                              *)

\* Two sequences, one after the other
LEMMA ConcatIs ==
    ASSUME NEW S, NEW a \in Seq(S), NEW b \in Seq(S)
    PROVE  /\ a \o b \in Seq(S) /\ Len(a \o b) = Len(a) + Len(b)
           /\ DOMAIN (a \o b) = 1 .. Len(a) + Len(b)
           /\ \A j \in 1 .. Len(a) : (a \o b)[j] = a[j]
           /\ \A j \in 1 .. Len(b) : (a \o b)[Len(a) + j] = b[j]
<1>1. Len(a) \in Nat /\ Len(b) \in Nat
  OBVIOUS
<1>2. a \o b \in Seq(S) /\ Len(a \o b) = Len(a) + Len(b)
      /\ \A j \in 1 .. Len(a) + Len(b) :
           (a \o b)[j] = IF j <= Len(a) THEN a[j] ELSE b[j - Len(a)]
  BY ConcatProperties
<1>3. DOMAIN (a \o b) = 1 .. Len(a) + Len(b)
  BY <1>2, LenProperties
<1>4. \A j \in 1 .. Len(a) : j \in 1 .. Len(a) + Len(b) /\ j <= Len(a)
  BY <1>1
<1>5. \A j \in 1 .. Len(b) : /\ Len(a) + j \in 1 .. Len(a) + Len(b)
                           /\ ~(Len(a) + j <= Len(a)) /\ (Len(a) + j) - Len(a) = j
  BY <1>1
<1> QED
  BY <1>2, <1>3, <1>4, <1>5

\* A sequence without one of its elements
LEMMA RemoveAtIs ==
    ASSUME NEW S, NEW s \in Seq(S), NEW i \in 1 .. Len(s)
    PROVE  /\ RemoveAt(s, i) \in Seq(S) /\ Len(RemoveAt(s, i)) = Len(s) - 1
           /\ DOMAIN RemoveAt(s, i) = 1 .. Len(s) - 1
           /\ \A j \in 1 .. Len(s) - 1 : RemoveAt(s, i)[j] = IF j < i THEN s[j] ELSE s[j + 1]
<1> DEFINE a == SubSeq(s, 1, i - 1)  b == SubSeq(s, i + 1, Len(s))
<1>1. a \in Seq(S) /\ Len(a) = i - 1 /\ \A j \in 1 .. i - 1 : a[j] = s[j]
  OBVIOUS
<1>2. b \in Seq(S) /\ Len(b) = Len(s) - i /\ \A j \in 1 .. Len(s) - i : b[j] = s[j + i]
  OBVIOUS
<1>3. RemoveAt(s, i) = a \o b
  BY DEF RemoveAt
<1>4. Len(s) \in Nat /\ (i - 1) + (Len(s) - i) = Len(s) - 1
  OBVIOUS
<1> HIDE DEF a, b
<1>5. a \o b \in Seq(S) /\ Len(a \o b) = Len(s) - 1 /\ DOMAIN (a \o b) = 1 .. Len(s) - 1
  <2> a \in Seq(S) /\ b \in Seq(S)
    BY <1>1, <1>2
  <2>1. /\ a \o b \in Seq(S) /\ Len(a \o b) = Len(a) + Len(b)
        /\ DOMAIN (a \o b) = 1 .. Len(a) + Len(b)
    BY ConcatIs, Zenon
  <2>2. Len(a) + Len(b) = Len(s) - 1
    BY <1>1, <1>2, <1>4
  <2> QED
    BY <2>1, <2>2, Zenon
<1>6. ASSUME NEW j \in 1 .. Len(s) - 1
      PROVE  (a \o b)[j] = IF j < i THEN s[j] ELSE s[j + 1]
  <2>1. CASE j < i
    <3>1. j \in 1 .. i - 1
      BY <2>1
    <3> QED
      BY <1>1, <1>2, <2>1, <3>1, ConcatIs
  <2>2. CASE ~(j < i)
    <3> DEFINE k == j - (i - 1)
    <3>1. k \in 1 .. Len(s) - i /\ (i - 1) + k = j /\ k + i = j + 1
      BY <1>4, <2>2
    <3> HIDE DEF k
    <3>2. (a \o b)[(i - 1) + k] = b[k]
      BY <1>1, <1>2, <3>1, ConcatIs
    <3> QED
      BY <1>2, <2>2, <3>1, <3>2
  <2> QED
    BY <2>1, <2>2
<1> QED
  BY <1>3, <1>5, <1>6

\* Every element of it is an element of the sequence
LEMMA RemoveAtKeeps ==
    ASSUME NEW S, NEW s \in Seq(S), NEW i \in 1 .. Len(s)
    PROVE  /\ \A j \in DOMAIN RemoveAt(s, i) : \E k \in DOMAIN s : RemoveAt(s, i)[j] = s[k]
           /\ \A k \in DOMAIN s : k # i => \E j \in DOMAIN RemoveAt(s, i) : RemoveAt(s, i)[j] = s[k]
           /\ Once(s) => Once(RemoveAt(s, i)) /\ \A j \in DOMAIN RemoveAt(s, i) : RemoveAt(s, i)[j] # s[i]
<1> DEFINE r == RemoveAt(s, i)
           pos(j) == IF j < i THEN j ELSE j + 1
<1>1. r \in Seq(S) /\ DOMAIN r = 1 .. Len(s) - 1 /\ \A j \in 1 .. Len(s) - 1 : r[j] = s[pos(j)]
  BY RemoveAtIs
<1>2. DOMAIN s = 1 .. Len(s) /\ Len(s) \in Nat
  OBVIOUS
<1> HIDE DEF r
<1>3. \A j \in DOMAIN r : pos(j) \in DOMAIN s /\ pos(j) # i
  BY <1>1, <1>2
<1>4. \A k \in DOMAIN s : k # i => \E j \in DOMAIN r : pos(j) = k
  <2>1. ASSUME NEW k \in 1 .. Len(s), k < i PROVE k \in 1 .. Len(s) - 1 /\ pos(k) = k
    BY <1>2, <2>1
  <2>2. ASSUME NEW k \in 1 .. Len(s), k > i PROVE k - 1 \in 1 .. Len(s) - 1 /\ pos(k - 1) = k
    BY <1>2, <2>2
  <2>3. \A k \in 1 .. Len(s) : k # i => k < i \/ k > i
    BY <1>2
  <2> HIDE DEF pos
  <2> QED
    BY <1>1, <1>2, <2>1, <2>2, <2>3
<1>5. \A j, k \in DOMAIN r : pos(j) = pos(k) => j = k
  BY <1>1
<1>6. Once(s) => Once(r) /\ \A j \in DOMAIN r : r[j] # s[i]
  <2> HIDE DEF pos
  <2> QED
    BY <1>1, <1>2, <1>3, <1>5 DEF Once
<1> HIDE DEF pos
<1> QED
  BY <1>1, <1>3, <1>4, <1>6 DEF r

\* The first of some rows
LEMMA FirstOf ==
    ASSUME NEW S, S \subseteq Nat, S # {}, NEW m, m = CHOOSE i \in S : \A j \in S : i <= j
    PROVE  m \in S /\ \A j \in S : m <= j
<1>1. PICK i \in S : \A j \in S : <<j, i>> \notin OpToRel(<, Nat)
  BY NatLessThanWellFounded, WFMin
<1>2. ASSUME NEW j \in S PROVE i <= j
  <2>1. ~(j < i)
    BY <1>1 DEF OpToRel
  <2> QED
    BY <2>1
<1> QED
  BY <1>2

-----------------------------------------------------------------------------
(* The wizard.                                                             *)

\* Only the steps of a form change it and what it has made
LEMMA FormsOnly ==
    ASSUME Next, ~Make
    PROVE  UNCHANGED <<form, make>>
BY DEF Next, ReadServed, ReadEnds, ReadArrives, ReadFails, Rendered, SafetyTimer, Tick, RemoveItem,
       AddSelected, Add, AddServed, AddAnswered, AddFails, RemoveServed, RemoveEnds, RemoveAnswered,
       ManagerRemoved, RemoveFails, Manage, Leave, Edited, Publish, PublishServed, PublishEnds,
       PublishAnswered, PublishFails, Discard, Others

\* MakeOK is inductive
LEMMA MakeOKNext ==
    ASSUME MakeOK, [Next]_vars
    PROVE  MakeOK'
<1>1. CASE Submit
  <2>1. PICK step : make' = [make EXCEPT !.step = step] /\ form' = form /\ make.step = 0
    BY <1>1 DEF Submit, MakeOnly
  <2> QED
    BY <2>1 DEF MakeOK
<1>2. CASE MakeServed
  <2> DEFINE more == IF make.step = 1 /\ ~make.kept THEN make.made + 1 ELSE make.made
  <2>1. make' = [make EXCEPT !.served = TRUE, !.made = more] /\ form' = form /\ ~make.served
    BY <1>2 DEF MakeServed, MakeOnly
  <2>2. more \in Nat
    BY DEF MakeOK
  <2>3. form.keeps /\ ~make.lost => more <= 1 /\ (make.kept \/ make.step = 1 \/ more = 0)
    BY <2>1 DEF MakeOK
  <2> HIDE DEF more
  <2>4. make' = [step |-> make.step, served |-> TRUE, kept |-> make.kept, made |-> more,
                 lost |-> make.lost]
    BY <2>1 DEF MakeOK
  <2> QED
    BY <2>1, <2>2, <2>3, <2>4 DEF MakeOK
<1>3. CASE MakeAnswered
  BY <1>3 DEF MakeAnswered, MakeOnly, MakeOK
<1>4. CASE MakeFails
  BY <1>4 DEF MakeFails, MakeOnly, MakeOK
<1>5. CASE MakeDone
  BY <1>5 DEF MakeDone, Idle, MakeOK
<1>6. CASE Next /\ ~Make
  BY <1>6, FormsOnly DEF MakeOK
<1>7. CASE UNCHANGED vars
  BY <1>7 DEF vars, MakeOK
<1> QED
  BY <1>1, <1>2, <1>3, <1>4, <1>5, <1>6, <1>7 DEF Make

\* The wizard makes one battle, unless it was never told of the one it made:
\* however often its requests fail, for every set of forms (BattleWizard).
THEOREM OneIsEverMade == Spec => []OneIsMade
<1>1. Init => MakeOK
  BY DEF Init, Idle, MakeOK
<1>2. MakeOK => OneIsMade
  BY DEF MakeOK, OneIsMade
<1> QED
  BY <1>1, <1>2, MakeOKNext, PTL DEF Spec

-----------------------------------------------------------------------------
(* The rows and the readings.                                              *)

LEMMA RealIs ==
    ASSUME NEW s \in Seq(Titles)
    PROVE  /\ Real(s) \in Seq(Row) /\ Len(Real(s)) = Len(s) /\ DOMAIN Real(s) = 1 .. Len(s)
           /\ \A i \in 1 .. Len(s) : Real(s)[i] = [title |-> s[i], temp |-> FALSE]
           /\ TitlesOf(Real(s)) = s
<1>1. Real(s) = [i \in 1 .. Len(s) |-> [title |-> s[i], temp |-> FALSE]] /\ Len(s) \in Nat
  BY DEF Real
<1>2. \A i \in 1 .. Len(s) : [title |-> s[i], temp |-> FALSE] \in Row
  BY DEF Row
<1>3. Real(s) \in Seq(Row) /\ Len(Real(s)) = Len(s)
  BY <1>1, <1>2, IsASeq
<1>4. TitlesOf(Real(s)) = [i \in 1 .. Len(s) |-> s[i]]
  BY <1>1 DEF TitlesOf
<1> QED
  BY <1>1, <1>3, <1>4

LEMMA NewReadIs ==
    ASSUME NEW kind \in {"viewer", "refresh", "render"}, NEW clean \in BOOLEAN
    PROVE  /\ NewRead(kind, clean) \in Read
           /\ NewRead(kind, clean).at = "sent" /\ ~NewRead(kind, clean).late
           /\ NewRead(kind, clean).clean = clean
BY EmptySeq DEF NewRead, Read

\* What a mark changes of a reading
LEMMA MarkedIs ==
    ASSUME NEW r \in Read
    PROVE  /\ [r EXCEPT !.clean = FALSE] \in Read /\ ~[r EXCEPT !.clean = FALSE].clean
           /\ \A l : l = [r EXCEPT !.late = TRUE] =>
                l \in Read /\ l.late /\ l.at = r.at /\ l.page = r.page /\ l.clean = r.clean
BY DEF Read

LEMMA SpoiledIs ==
    ASSUME NEW rs \in Seq(Read)
    PROVE  /\ Spoiled(rs) \in Seq(Read) /\ Len(Spoiled(rs)) = Len(rs)
           /\ DOMAIN Spoiled(rs) = DOMAIN rs
           /\ \A i \in DOMAIN rs : Spoiled(rs)[i] = [rs[i] EXCEPT !.clean = FALSE]
<1>1. Spoiled(rs) = [i \in 1 .. Len(rs) |-> [rs[i] EXCEPT !.clean = FALSE]] /\ Len(rs) \in Nat
      /\ DOMAIN rs = 1 .. Len(rs)
  BY DEF Spoiled
<1>2. \A i \in 1 .. Len(rs) : [rs[i] EXCEPT !.clean = FALSE] \in Read
  <2>1. \A i \in 1 .. Len(rs) : rs[i] \in Read
    OBVIOUS
  <2> QED
    BY <2>1, MarkedIs, Zenon
<1> QED
  BY <1>1, <1>2, IsASeq

\* A reading is sent after the others
AskedIn(rs, new, clean) ==
    /\ new \in Seq(Read) /\ new # <<>>
    /\ Last(new).at = "sent" /\ ~Last(new).late /\ Last(new).clean = clean
    /\ \A i \in DOMAIN new : (\E j \in DOMAIN rs : new[i] = rs[j])
                               \/ (new[i].at = "sent" /\ new[i].clean = clean)

LEMMA AppendAsks ==
    ASSUME NEW rs \in Seq(Read), NEW more \in Seq(Read),
           \A i \in DOMAIN more : \E j \in DOMAIN rs : more[i] = rs[j],
           NEW kind \in {"viewer", "refresh", "render"}, NEW clean \in BOOLEAN
    PROVE  AskedIn(rs, Append(more, NewRead(kind, clean)), clean)
<1> DEFINE r == NewRead(kind, clean)  new == Append(more, r)
<1>1. r \in Read /\ r.at = "sent" /\ ~r.late /\ r.clean = clean
  BY NewReadIs
<1> HIDE DEF r
<1>2. /\ new \in Seq(Read) /\ Len(new) = Len(more) + 1 /\ Len(more) \in Nat
      /\ DOMAIN new = 1 .. Len(more) + 1 /\ DOMAIN more = 1 .. Len(more)
      /\ new[Len(more) + 1] = r /\ \A i \in 1 .. Len(more) : new[i] = more[i]
  BY <1>1, AppendProperties
<1> HIDE DEF new
<1>3. new # <<>> /\ Last(new) = r
  BY <1>2 DEF Last
<1>4. \A i \in DOMAIN new : i \in DOMAIN more \/ i = Len(more) + 1
  BY <1>2
<1> QED
  BY <1>1, <1>2, <1>3, <1>4 DEF AskedIn, new, r

LEMMA UncancelledIs ==
    ASSUME NEW rs \in Seq(Read)
    PROVE  /\ Uncancelled(rs) \in Seq(Read)
           /\ \A i \in DOMAIN Uncancelled(rs) : \E j \in DOMAIN rs : Uncancelled(rs)[i] = rs[j]
<1>1. CASE Own(rs) = {}
  BY <1>1 DEF Uncancelled
<1>2. CASE Own(rs) # {}
  <2> DEFINE k == CHOOSE i \in Own(rs) : TRUE
  <2>1. k \in 1 .. Len(rs) /\ Uncancelled(rs) = RemoveAt(rs, k)
    BY <1>2 DEF Uncancelled, Own
  <2> HIDE DEF k
  <2>2. RemoveAt(rs, k) \in Seq(Read)
    BY <2>1, RemoveAtIs
  <2>3. \A i \in DOMAIN RemoveAt(rs, k) : \E j \in DOMAIN rs : RemoveAt(rs, k)[i] = rs[j]
    BY <2>1, RemoveAtKeeps
  <2> QED
    BY <2>1, <2>2, <2>3
<1> QED
  BY <1>1, <1>2

LEMMA RefreshedAsks ==
    ASSUME NEW rs \in Seq(Read), NEW clean \in BOOLEAN
    PROVE  AskedIn(rs, Refreshed(rs, clean), clean)
<1> DEFINE one == Append(rs, NewRead("refresh", clean))
           two == Append(one, NewRead("render", clean))
<1>1. AskedIn(rs, one, clean)
  BY AppendAsks
<1>2. one \in Seq(Read) /\ AskedIn(one, two, clean)
  <2>1. one \in Seq(Read)
    BY <1>1 DEF AskedIn
  <2> HIDE DEF one
  <2> QED
    BY <2>1, AppendAsks
<1>3. AskedIn(rs, two, clean)
  BY <1>1, <1>2 DEF AskedIn
<1>4. \A r, q \in Read : /\ rs \o <<r>> \o <<>> = Append(rs, r)
                         /\ rs \o <<r>> \o <<q>> = Append(Append(rs, r), q)
  <2>1. ASSUME NEW r \in Read, NEW s \in Seq(Read) PROVE s \o <<r>> = Append(s, r)
    BY AppendIsConcat
  <2>2. ASSUME NEW r \in Read PROVE Append(rs, r) \in Seq(Read)
    BY AppendProperties
  <2>3. ASSUME NEW s \in Seq(Read) PROVE s \o <<>> = s
    BY ConcatEmptySeq
  <2> QED
    BY <2>1, <2>2, <2>3
<1>5. CASE at = "list"
  <2>1. Refreshed(rs, clean) = two
    BY <1>4, <1>5, NewReadIs DEF Refreshed
  <2> QED
    BY <1>3, <2>1
<1>6. CASE at # "list"
  <2>1. Refreshed(rs, clean) = one
    BY <1>4, <1>6, NewReadIs DEF Refreshed
  <2> QED
    BY <1>1, <2>1
<1> QED
  BY <1>5, <1>6

\* The i-th reading ends: the others stay, those sent before it as late ones
LEMMA EndedIs ==
    ASSUME reads \in Seq(Read), NEW i \in DOMAIN reads
    PROVE  /\ Ended(i) \in Seq(Read) /\ Len(Ended(i)) = Len(reads) - 1
           /\ \A j \in DOMAIN Ended(i) : \E k \in DOMAIN reads :
                Ended(i)[j].at = reads[k].at /\ Ended(i)[j].page = reads[k].page
                  /\ Ended(i)[j].clean = reads[k].clean
                  /\ (reads[k].late => Ended(i)[j].late)
           /\ i = Len(reads) => \A j \in DOMAIN Ended(i) : Ended(i)[j].late
           /\ i # Len(reads) => Ended(i) # <<>> /\ Last(Ended(i)) = Last(reads)
<1> DEFINE n == Len(reads)
           e(j) == IF j < i THEN [reads[j] EXCEPT !.late = TRUE] ELSE reads[j + 1]
<1>1. n \in Nat /\ i \in 1 .. n /\ n - 1 \in Nat /\ DOMAIN reads = 1 .. n
  OBVIOUS
<1>2. Ended(i) = [j \in 1 .. n - 1 |-> e(j)]
  BY DEF Ended
<1>3. \A j \in 1 .. n - 1 : j \in 1 .. n /\ j + 1 \in 1 .. n
  BY <1>1
<1>4. \A j \in 1 .. n - 1 :
        /\ e(j) \in Read /\ (i = n => e(j).late)
        /\ \E k \in 1 .. n :
             /\ e(j).at = reads[k].at /\ e(j).page = reads[k].page
             /\ e(j).clean = reads[k].clean /\ (reads[k].late => e(j).late)
  <2>1. \A j \in 1 .. n : reads[j] \in Read
    OBVIOUS
  <2>2. ASSUME NEW j \in 1 .. n - 1
        PROVE  /\ e(j) \in Read /\ (i = n => e(j).late)
               /\ \E k \in 1 .. n :
                    /\ e(j).at = reads[k].at /\ e(j).page = reads[k].page
                    /\ e(j).clean = reads[k].clean /\ (reads[k].late => e(j).late)
    <3>1. CASE j < i
      <4>1. e(j) = [reads[j] EXCEPT !.late = TRUE]
        BY <3>1
      <4>2. /\ e(j) \in Read /\ e(j).late /\ e(j).at = reads[j].at
            /\ e(j).page = reads[j].page /\ e(j).clean = reads[j].clean
        <5>1. reads[j] \in Read
          BY <1>3, <2>1
        <5> HIDE DEF e
        <5> QED
          BY <4>1, <5>1, MarkedIs
      <4> HIDE DEF e
      <4> QED
        BY <1>3, <4>2
    <3>2. CASE ~(j < i)
      <4>1. e(j) = reads[j + 1] /\ i # n
        BY <1>1, <3>2
      <4> HIDE DEF e
      <4> QED
        BY <1>3, <2>1, <4>1
    <3> QED
      BY <3>1, <3>2
  <2> HIDE DEF e
  <2> QED
    BY <2>2
<1>5. Ended(i) \in Seq(Read) /\ Len(Ended(i)) = n - 1 /\ DOMAIN Ended(i) = 1 .. n - 1
  <2> HIDE DEF e
  <2> QED
    BY <1>1, <1>2, <1>4, IsASeq
<1>6. i # n => n - 1 \in 1 .. n - 1 /\ e(n - 1) = reads[n]
  BY <1>1
<1> HIDE DEF e
<1>7. i # n => Ended(i) # <<>> /\ Last(Ended(i)) = Last(reads)
  BY <1>1, <1>2, <1>5, <1>6 DEF Last
<1>8. \A j \in DOMAIN Ended(i) : j \in 1 .. n - 1 /\ Ended(i)[j] = e(j)
  BY <1>2, <1>5
<1> HIDE DEF n
<1>9. /\ \A j \in DOMAIN Ended(i) : \E k \in DOMAIN reads :
           Ended(i)[j].at = reads[k].at /\ Ended(i)[j].page = reads[k].page
             /\ Ended(i)[j].clean = reads[k].clean /\ (reads[k].late => Ended(i)[j].late)
      /\ i = n => \A j \in DOMAIN Ended(i) : Ended(i)[j].late
  BY <1>1, <1>4, <1>8
<1> QED
  BY <1>5, <1>7, <1>9 DEF n

-----------------------------------------------------------------------------
(* Types: what the rest of the proof needs to know of the shapes.          *)

LEMMA TitlesAndOnce ==
    ASSUME NEW s \in Seq(Titles), NEW t \in Titles, Once(s), ~Contains(s, t)
    PROVE  Append(s, t) \in Seq(Titles) /\ Once(Append(s, t))
<1>1. /\ Append(s, t) \in Seq(Titles) /\ DOMAIN Append(s, t) = 1 .. Len(s) + 1
      /\ Append(s, t)[Len(s) + 1] = t /\ \A i \in 1 .. Len(s) : Append(s, t)[i] = s[i]
  BY AppendProperties
<1>2. /\ DOMAIN s = 1 .. Len(s) /\ Len(s) \in Nat
      /\ \A i \in 1 .. Len(s) + 1 : i \in 1 .. Len(s) \/ i = Len(s) + 1
  OBVIOUS
<1>3. \A i \in 1 .. Len(s) : s[i] # t
  BY DEF Contains
<1> QED
  BY <1>1, <1>2, <1>3 DEF Once

\* One title, or none
LEMMA ShortIs ==
    ASSUME NEW s \in {<<>>} \cup {<<t>> : t \in Titles}
    PROVE  s \in Seq(Titles) /\ Once(s)
<1>1. CASE s = <<>>
  BY <1>1, EmptySeq DEF Once
<1>2. ASSUME NEW t \in Titles, s = <<t>> PROVE s \in Seq(Titles) /\ Once(s)
  <2>1. <<t>> \in Seq(Titles) /\ DOMAIN <<t>> = {1}
    OBVIOUS
  <2> QED
    BY <1>2, <2>1 DEF Once
<1> QED
  BY <1>1, <1>2

LEMMA InitTypes == Init => Types
<1> SUFFICES ASSUME Init PROVE Types
  OBVIOUS
<1>1. stored \in Seq(Titles) /\ Once(stored)
  BY ShortIs DEF Init
<1>2. shown \in Seq(Row)
  BY <1>1, RealIs DEF Init
<1>3. ticks \in Seq(Titles) /\ Once(ticks)
  BY ShortIs DEF Init
<1>4. reads \in Seq(Read)
  <2>1. NewRead("viewer", TRUE) \in Read
    BY NewReadIs
  <2>2. \A r \in Read : <<r>> \in Seq(Read)
    OBVIOUS
  <2> QED
    BY <2>1, <2>2, EmptySeq DEF Init
<1> QED
  BY <1>1, <1>2, <1>3, <1>4 DEF Init, Types, Quiet, OnPage

LEMMA AddedRowsAre ==
    ASSUME NEW rows \in Seq(Row), NEW s \in Seq(Titles), NEW more,
           more = [i \in DOMAIN s |-> [title |-> s[i], temp |-> TRUE]]
    PROVE  /\ more \in Seq(Row) /\ Len(more) = Len(s)
           /\ \A i \in 1 .. Len(s) : more[i] = [title |-> s[i], temp |-> TRUE]
           /\ rows \o more \in Seq(Row)
<1>1. \A i \in 1 .. Len(s) : [title |-> s[i], temp |-> TRUE] \in Row
  BY DEF Row
<1>2. DOMAIN s = 1 .. Len(s) /\ Len(s) \in Nat
  OBVIOUS
<1>3. more \in Seq(Row) /\ Len(more) = Len(s)
  BY <1>1, <1>2, IsASeq
<1>4. \A i \in 1 .. Len(s) : more[i] = [title |-> s[i], temp |-> TRUE]
  BY <1>2
<1> QED
  BY <1>3, <1>4, ConcatIs

\* What is left of a batch, and the reading that follows it
LEMMA ContinuedIs ==
    ASSUME Types, NEW b \in batches, Continued(b)
    PROVE  /\ \A c \in batches' : c \in batches \/
                (/\ c \in Batch /\ c.todo # <<>> /\ c.todo = Tail(b.todo)
                 /\ c.at = "sent" /\ c.here = b.here)
           /\ \/ Tail(b.todo) = <<>> /\ batches' = batches \ {b}
              \/ \E c \in batches' : batches' = (batches \ {b}) \cup {c} /\ c.todo = Tail(b.todo)
                   /\ c.todo # <<>> /\ c.at = "sent" /\ c.here = b.here
           /\ reads' = reads \/ \E clean \in BOOLEAN :
                AskedIn(reads, reads', clean) /\ (clean => batches' = {} /\ removes = {})
           /\ b.here /\ Tail(b.todo) = <<>> => \E clean \in BOOLEAN : AskedIn(reads, reads', clean)
           /\ torn' \in BOOLEAN /\ (torn' <=> torn /\ batches' # {})
<1> DEFINE rest == [b EXCEPT !.todo = Tail(@), !.at = "sent"]
           over == rest.todo = <<>>
           clean == batches' = {} /\ removes = {}
<1>1. b \in Batch /\ b.todo \in Seq(Titles) /\ b.todo # <<>> /\ reads \in Seq(Read)
      /\ torn \in BOOLEAN
  BY DEF Types, Batch
<1>2. rest \in Batch /\ rest.todo = Tail(b.todo) /\ rest.at = "sent" /\ rest.here = b.here
  BY <1>1, HeadTailProperties DEF Batch
<1>3. batches' = (batches \ {b}) \cup IF over THEN {} ELSE {rest}
  BY DEF Continued
<1>4. reads' = IF ~over THEN reads
               ELSE IF b.here THEN Refreshed(reads, clean)
               ELSE IF at = "list" THEN Append(reads, NewRead("render", FALSE)) ELSE reads
  BY DEF Continued
<1>5. torn' = (torn /\ batches' # {})
  BY DEF Continued
<1>6. AskedIn(reads, Refreshed(reads, clean), clean)
  BY <1>1, RefreshedAsks
<1>7. AskedIn(reads, Append(reads, NewRead("render", FALSE)), FALSE)
  BY <1>1, AppendAsks
<1> HIDE DEF rest, clean
<1>8. reads' = reads \/ (AskedIn(reads, reads', clean) /\ over) \/ AskedIn(reads, reads', FALSE)
  BY <1>4, <1>6, <1>7
<1>9. b.here /\ over => AskedIn(reads, reads', clean)
  BY <1>4, <1>6
<1>10. clean \in BOOLEAN /\ (clean => batches' = {} /\ removes = {})
  BY DEF clean
<1>11. \/ over /\ batches' = batches \ {b}
       \/ ~over /\ rest \in batches' /\ batches' = (batches \ {b}) \cup {rest}
  BY <1>3
<1> QED
  BY <1>1, <1>2, <1>5, <1>8, <1>9, <1>10, <1>11

\* A rendered page, an answered removal, a manager that is left and new words
\* for the list each send a reading
LEMMA RenderedAsks ==
    ASSUME Types, NEW i \in DOMAIN reads, Rendered(i)
    PROVE  AskedIn(reads, reads', Quiet)
<1>1. reads \in Seq(Read) /\ i \in 1 .. Len(reads)
  BY DEF Types
<1>2. /\ RemoveAt(reads, i) \in Seq(Read)
      /\ \A j \in DOMAIN RemoveAt(reads, i) : \E k \in DOMAIN reads : RemoveAt(reads, i)[j] = reads[k]
  BY <1>1, RemoveAtIs, RemoveAtKeeps
<1> DEFINE rs == RemoveAt(reads, i)  more == Uncancelled(rs)
<1>3. /\ more \in Seq(Read)
      /\ \A j \in DOMAIN more : \E k \in DOMAIN rs : more[j] = rs[k]
  BY <1>2, UncancelledIs
<1>4. \A j \in DOMAIN more : \E k \in DOMAIN reads : more[j] = reads[k]
  <2> HIDE DEF more
  <2> QED
    BY <1>2, <1>3
<1>5. reads' = Append(more, NewRead("viewer", Quiet)) /\ Quiet \in BOOLEAN
  BY DEF Rendered, Quiet
<1> HIDE DEF more
<1> QED
  BY <1>1, <1>3, <1>4, <1>5, AppendAsks

LEMMA RemoveAsks ==
    ASSUME Types, NEW r \in removes, RemoveAnswered(r)
    PROVE  /\ reads' = reads \/ \E clean \in BOOLEAN :
                AskedIn(reads, reads', clean) /\ (clean => batches = {} /\ removes' = {})
           /\ r.here => \E clean \in BOOLEAN : AskedIn(reads, reads', clean)
<1> DEFINE clean == batches = {} /\ removes' = {}
<1>1. reads \in Seq(Read)
  BY DEF Types
<1>2. reads' = IF r.here THEN Refreshed(reads, clean)
               ELSE IF at = "list" THEN Append(reads, NewRead("render", FALSE)) ELSE reads
  BY DEF RemoveAnswered
<1>3. AskedIn(reads, Refreshed(reads, clean), clean)
  BY <1>1, RefreshedAsks
<1>4. AskedIn(reads, Append(reads, NewRead("render", FALSE)), FALSE)
  BY <1>1, AppendAsks
<1>5. clean \in BOOLEAN /\ (clean => batches = {} /\ removes' = {})
  OBVIOUS
<1> HIDE DEF clean
<1> QED
  BY <1>2, <1>3, <1>4, <1>5

LEMMA PageAsks ==
    ASSUME Types, Leave \/ Edited
    PROVE  AskedIn(reads, reads', Quiet)
<1>1. reads \in Seq(Read) /\ Quiet \in BOOLEAN
  BY DEF Types, Quiet
<1>2. AskedIn(reads, Refreshed(reads, Quiet), Quiet)
  BY <1>1, RefreshedAsks
<1>3. AskedIn(reads, Append(Uncancelled(reads), NewRead("viewer", Quiet)), Quiet)
  BY <1>1, UncancelledIs, AppendAsks
<1> QED
  BY <1>2, <1>3 DEF Leave, Edited

\* The shapes of the list, the operations and the readings, one by one
ListTypes ==
    /\ stored \in Seq(Titles) /\ shown \in Seq(Row) /\ ticks \in Seq(Titles)
    /\ Once(stored) /\ Once(ticks)
OpTypes ==
    /\ batches \subseteq Batch /\ (\A b \in batches : b.todo # <<>>) /\ removes \subseteq Removal
    /\ asks \in Nat /\ doubt \in BOOLEAN /\ missed \in BOOLEAN /\ torn \in BOOLEAN
    /\ managing \in BOOLEAN
ReadTypes == reads \in Seq(Read)
FormPage == at = "form" => Quiet /\ reads = <<>>

LEMMA TypesAre == Types <=> ListTypes /\ OpTypes /\ ReadTypes /\ FormPage
BY DEF Types, ListTypes, OpTypes, ReadTypes, FormPage

\* Where a page opens
LEMMA OpensIs ==
    ASSUME NEW page, NEW s \in Seq(Titles), Opens(page, s)
    PROVE  /\ at' = page /\ shown' = Real(s) /\ shown' \in Seq(Row) /\ ticks' = <<>>
           /\ ticks' \in Seq(Titles) /\ Once(ticks') /\ managing' = FALSE
           /\ reads' = <<NewRead("viewer", Quiet)>> /\ AskedIn(<<>>, reads', Quiet)
<1>1. Append(<<>>, NewRead("viewer", Quiet)) = <<NewRead("viewer", Quiet)>>
  OBVIOUS
<1>2. AskedIn(<<>>, Append(<<>>, NewRead("viewer", Quiet)), Quiet)
  <2>1. <<>> \in Seq(Read) /\ \A i \in DOMAIN <<>> : \E j \in DOMAIN <<>> : <<>>[i] = <<>>[j]
    BY EmptySeq
  <2>2. Quiet \in BOOLEAN
    BY DEF Quiet
  <2> QED
    BY <2>1, <2>2, AppendAsks
<1> QED
  BY <1>1, <1>2, RealIs, ShortIs DEF Opens

LEMMA ListTypesNext ==
    ASSUME Types, Next
    PROVE  ListTypes'
<1> USE DEF ListTypes
<1>1. ListTypes
  BY TypesAre
<1>2. CASE MakeDone
  <2>1. CASE UNCHANGED <<stored, shown, ticks>>
    BY <1>1, <2>1
  <2>2. CASE \E s \in {<<>>} \cup {<<t>> : t \in Titles} : stored' = s /\ Opens("draft", s)
    BY <2>2, ShortIs, OpensIs
  <2> QED
    BY <1>2, <2>1, <2>2 DEF MakeDone
<1>3. ASSUME NEW i \in DOMAIN reads, ReadArrives(i) PROVE ListTypes'
  <2>1. reads[i] \in Read /\ shown' = Real(reads[i].page)
    BY <1>3 DEF ReadArrives, Types
  <2>2. Real(reads[i].page) \in Seq(Row)
    BY <2>1, RealIs DEF Read
  <2> QED
    BY <1>1, <1>3, <2>1, <2>2 DEF ReadArrives, server
<1>4. ASSUME NEW t \in Titles, Tick(t) PROVE ListTypes'
  BY <1>1, <1>4, TitlesAndOnce DEF Tick, server
<1>5. CASE AddSelected
  <2>1. shown' \in Seq(Row)
    BY <1>1, <1>5, AddedRowsAre DEF AddSelected
  <2> QED
    BY <1>1, <1>5, <2>1, ShortIs DEF AddSelected, server
<1>6. ASSUME NEW b \in batches, AddServed(b) PROVE ListTypes'
  <2>1. b.todo \in Seq(Titles) /\ b.todo # <<>>
    BY DEF Types, Batch
  <2>2. Head(b.todo) \in Titles
    BY <2>1, HeadTailProperties
  <2> QED
    BY <1>1, <1>6, <2>2, TitlesAndOnce DEF AddServed
<1>7. ASSUME NEW b \in batches, AddAnswered(b) PROVE ListTypes'
  <2> DEFINE row(i) == IF i \in Unsaved(Head(b.todo)) THEN [shown[i] EXCEPT !.temp = FALSE] ELSE shown[i]
  <2>1. DOMAIN shown = 1 .. Len(shown) /\ Len(shown) \in Nat /\ \A i \in 1 .. Len(shown) : shown[i] \in Row
    BY <1>1
  <2>2. \A i \in 1 .. Len(shown) : row(i) \in Row
    BY <2>1 DEF Row
  <2>3. shown' = shown \/ shown' = [i \in 1 .. Len(shown) |-> row(i)]
    BY <1>7, <2>1 DEF AddAnswered
  <2> HIDE DEF row
  <2>4. shown' \in Seq(Row)
    BY <1>1, <2>1, <2>2, <2>3, IsASeq
  <2> QED
    BY <1>1, <1>7, <2>4 DEF AddAnswered, server
<1>8. ASSUME NEW b \in batches, AddFails(b) PROVE ListTypes'
  <2>1. shown' \in Seq(Row)
    <3>1. CASE Unsaved(Head(b.todo)) = {}
      BY <1>1, <1>8, <3>1 DEF AddFails
    <3>2. CASE Unsaved(Head(b.todo)) # {}
      <4> DEFINE m == CHOOSE i \in Unsaved(Head(b.todo)) : \A j \in Unsaved(Head(b.todo)) : i <= j
      <4>1. Unsaved(Head(b.todo)) \subseteq 1 .. Len(shown)
        BY <1>1 DEF Unsaved
      <4>2. m \in Unsaved(Head(b.todo))
        BY <3>2, <4>1, FirstOf
      <4>3. shown' = shown \/ shown' = RemoveAt(shown, m)
        BY <1>8 DEF AddFails
      <4> HIDE DEF m
      <4> QED
        BY <1>1, <4>1, <4>2, <4>3, RemoveAtIs
    <3> QED
      BY <3>1, <3>2
  <2> QED
    BY <1>1, <1>8, <2>1 DEF AddFails, server
<1>9. ASSUME NEW r \in removes, RemoveServed(r) PROVE ListTypes'
  <2>1. PICK i \in DOMAIN stored : stored' = RemoveAt(stored, i)
    BY <1>9 DEF RemoveServed
  <2>2. i \in 1 .. Len(stored)
    BY <1>1
  <2>3. RemoveAt(stored, i) \in Seq(Titles) /\ Once(RemoveAt(stored, i))
    BY <1>1, <2>2, RemoveAtIs, RemoveAtKeeps
  <2> QED
    BY <1>1, <1>9, <2>1, <2>3 DEF RemoveServed
<1>10. ASSUME NEW r \in removes, RemoveAnswered(r) PROVE ListTypes'
  <2>1. shown' \in Seq(Row)
    <3>1. CASE Rows(r.title) = {}
      BY <1>1, <1>10, <3>1 DEF RemoveAnswered
    <3>2. CASE Rows(r.title) # {}
      <4> DEFINE m == CHOOSE i \in Rows(r.title) : \A j \in Rows(r.title) : i <= j
      <4>1. Rows(r.title) \subseteq 1 .. Len(shown)
        BY <1>1 DEF Rows
      <4>2. m \in Rows(r.title)
        BY <3>2, <4>1, FirstOf
      <4>3. shown' = shown \/ shown' = RemoveAt(shown, m)
        BY <1>10 DEF RemoveAnswered
      <4> HIDE DEF m
      <4> QED
        BY <1>1, <4>1, <4>2, <4>3, RemoveAtIs
    <3> QED
      BY <3>1, <3>2
  <2> QED
    BY <1>1, <1>10, <2>1 DEF RemoveAnswered, server
<1>11. CASE PublishAnswered
  BY <1>1, <1>11, OpensIs DEF PublishAnswered, server
<1>12. CASE Discard
  BY <1>1, <1>12, ShortIs DEF Discard
<1>13. CASE Others
  <2>1. CASE \E i \in DOMAIN stored : stored' = RemoveAt(stored, i)
    BY <1>1, <1>13, <2>1, RemoveAtIs, RemoveAtKeeps DEF Others
  <2>2. CASE \E t \in Titles : ~Contains(stored, t) /\ stored' = Append(stored, t)
    BY <1>1, <1>13, <2>2, TitlesAndOnce DEF Others
  <2> QED
    BY <1>13, <2>1, <2>2 DEF Others
<1>14. CASE Manage
  BY <1>1, <1>14, ShortIs DEF Manage, server
<1>15. UNCHANGED <<stored, shown, ticks>> => ListTypes'
  BY <1>1
<1>16. CASE Submit \/ MakeServed \/ MakeAnswered \/ MakeFails \/ SafetyTimer \/ Leave \/ Edited \/ Publish
             \/ PublishServed \/ PublishFails
  BY <1>15, <1>16 DEF Submit, MakeServed, MakeAnswered, MakeFails, MakeOnly, SafetyTimer, Leave,
     Edited, Publish, PublishServed, PublishFails, server
<1>17. ASSUME NEW i \in DOMAIN reads, ReadServed(i) \/ ReadFails(i) \/ Rendered(i) PROVE ListTypes'
  BY <1>15, <1>17 DEF ReadServed, ReadFails, Rendered, server
<1>18. ASSUME NEW t \in Titles, RemoveItem(t) PROVE ListTypes'
  BY <1>15, <1>18 DEF RemoveItem, server
<1>19. ASSUME NEW r \in removes, ManagerRemoved(r) \/ RemoveFails(r) PROVE ListTypes'
  BY <1>15, <1>19 DEF ManagerRemoved, RemoveFails, server
<1> HIDE DEF ListTypes
<1> QED
  BY <1>2, <1>3, <1>4, <1>5, <1>6, <1>7, <1>8, <1>9, <1>10, <1>11, <1>12, <1>13, <1>14, <1>16, <1>17,
     <1>18, <1>19 DEF Next, Make, ReadEnds, Add, RemoveEnds, PublishEnds

\* What an answer, or its loss, leaves of the readings
LEMMA ReadTypesNext ==
    ASSUME Types, Next
    PROVE  ReadTypes'
<1> USE DEF ReadTypes
<1>1. reads \in Seq(Read) /\ stored \in Seq(Titles)
  BY DEF Types
<1>2. \A rs, new, clean : AskedIn(rs, new, clean) => new \in Seq(Read)
  BY DEF AskedIn
<1>3. CASE MakeDone
  <2>1. CASE UNCHANGED reads
    BY <1>1, <2>1
  <2>2. CASE \E s \in {<<>>} \cup {<<t>> : t \in Titles} : stored' = s /\ Opens("draft", s)
    BY <1>2, <2>2, ShortIs, OpensIs
  <2> QED
    BY <1>3, <2>1, <2>2 DEF MakeDone
<1>4. ASSUME NEW i \in DOMAIN reads, ReadServed(i) PROVE ReadTypes'
  <2>1. reads[i] \in Read
    BY <1>1
  <2>2. [reads[i] EXCEPT !.at = "served", !.page = stored] \in Read
    BY <1>1, <2>1 DEF Read
  <2>3. reads' = [reads EXCEPT ![i] = [reads[i] EXCEPT !.at = "served", !.page = stored]]
    BY <1>4 DEF ReadServed
  <2> QED
    BY <1>1, <2>2, <2>3, ExceptSeq
<1>5. ASSUME NEW i \in DOMAIN reads, ReadArrives(i) \/ ReadFails(i) PROVE ReadTypes'
  BY <1>1, <1>5, EndedIs DEF ReadArrives, ReadFails
<1>6. ASSUME NEW i \in DOMAIN reads, Rendered(i) PROVE ReadTypes'
  BY <1>1, <1>2, <1>6, RenderedAsks
<1>7. CASE AddSelected
  BY <1>1, <1>7, SpoiledIs DEF AddSelected
<1>8. ASSUME NEW t \in Titles, RemoveItem(t) PROVE ReadTypes'
  BY <1>1, <1>8, SpoiledIs DEF RemoveItem
<1>9. CASE Others
  BY <1>1, <1>9, SpoiledIs DEF Others
<1>10. ASSUME NEW b \in batches, AddAnswered(b) \/ AddFails(b) PROVE ReadTypes'
  BY <1>1, <1>2, <1>10, ContinuedIs DEF AddAnswered, AddFails
<1>11. ASSUME NEW r \in removes, RemoveAnswered(r) PROVE ReadTypes'
  BY <1>1, <1>2, <1>11, RemoveAsks
<1>12. CASE Leave \/ Edited
  BY <1>1, <1>2, <1>12, PageAsks
<1>13. CASE PublishAnswered
  BY <1>1, <1>2, <1>13, OpensIs DEF PublishAnswered
<1>14. CASE Discard
  BY <1>14, EmptySeq DEF Discard
<1>15. UNCHANGED reads => ReadTypes'
  BY <1>1
<1>16. CASE Submit \/ MakeServed \/ MakeAnswered \/ MakeFails \/ SafetyTimer \/ Publish
             \/ PublishServed \/ PublishFails \/ Manage
  BY <1>15, <1>16 DEF Submit, MakeServed, MakeAnswered, MakeFails, MakeOnly, SafetyTimer, Publish,
     PublishServed, PublishFails, Manage
<1>17. ASSUME NEW t \in Titles, Tick(t) PROVE ReadTypes'
  BY <1>15, <1>17 DEF Tick
<1>18. ASSUME NEW b \in batches, AddServed(b) PROVE ReadTypes'
  BY <1>15, <1>18 DEF AddServed
<1>19. ASSUME NEW r \in removes, RemoveServed(r) \/ ManagerRemoved(r) \/ RemoveFails(r)
       PROVE  ReadTypes'
  BY <1>15, <1>19 DEF RemoveServed, ManagerRemoved, RemoveFails
<1> HIDE DEF ReadTypes
<1> QED
  BY <1>3, <1>4, <1>5, <1>6, <1>7, <1>8, <1>9, <1>10, <1>11, <1>12, <1>13, <1>14, <1>16, <1>17, <1>18,
     <1>19 DEF Next, Make, ReadEnds, Add, RemoveEnds, PublishEnds

LEMMA OpTypesNext ==
    ASSUME Types, Next
    PROVE  OpTypes'
<1> USE DEF OpTypes
<1>1. OpTypes /\ ticks \in Seq(Titles) /\ reads \in Seq(Read)
  BY DEF Types
<1>2. \A r \in Removal : \A h \in BOOLEAN : [r EXCEPT !.here = h] \in Removal
  BY DEF Removal
<1>3. \A b \in Batch : [b EXCEPT !.here = FALSE] \in Batch /\ [b EXCEPT !.here = FALSE].todo = b.todo
  BY DEF Batch
<1>4. CASE AddSelected
  <2> DEFINE new == [id |-> asks, todo |-> ticks, at |-> "sent", here |-> TRUE]
  <2>1. new \in Batch /\ new.todo # <<>>
    BY <1>1, <1>4 DEF Batch, AddSelected
  <2>2. batches' = batches \cup {new}
    BY <1>4 DEF AddSelected
  <2>3. asks' \in Nat /\ doubt' \in BOOLEAN /\ UNCHANGED <<removes, missed, torn, managing>>
    BY <1>1, <1>4 DEF AddSelected, Asks, manager
  <2> HIDE DEF new
  <2> QED
    BY <1>1, <2>1, <2>2, <2>3
<1>5. ASSUME NEW b \in batches, AddServed(b) PROVE OpTypes'
  <2> DEFINE new == [b EXCEPT !.at = "served"]
  <2>1. new \in Batch /\ new.todo # <<>>
    BY <1>1 DEF Batch
  <2>2. batches' = (batches \ {b}) \cup {new}
    BY <1>5 DEF AddServed
  <2>3. UNCHANGED <<removes, asks, doubt, missed, torn, managing>>
    BY <1>5 DEF AddServed, manager
  <2> HIDE DEF new
  <2> QED
    BY <1>1, <2>1, <2>2, <2>3
<1>6. ASSUME NEW b \in batches, AddAnswered(b) \/ AddFails(b) PROVE OpTypes'
  <2>1. Continued(b) /\ UNCHANGED <<removes, managing, asks, missed>> /\ doubt' \in BOOLEAN
    BY <1>1, <1>6 DEF AddAnswered, AddFails, manager
  <2>2. (\A c \in batches' : c \in batches \/ (c \in Batch /\ c.todo # <<>>)) /\ torn' \in BOOLEAN
    BY <2>1, ContinuedIs
  <2> QED
    BY <1>1, <2>1, <2>2
<1>7. ASSUME NEW t \in Titles, RemoveItem(t) PROVE OpTypes'
  <2> DEFINE new == [id |-> asks, title |-> t, at |-> "sent", here |-> TRUE,
                     from |-> IF managing THEN "manager" ELSE "page"]
  <2>1. new \in Removal
    BY <1>1 DEF Removal
  <2>2. removes' = removes \cup {new}
    BY <1>7 DEF RemoveItem
  <2> HIDE DEF new
  <2> QED
    BY <1>1, <1>7, <2>1, <2>2 DEF RemoveItem, Asks
<1>8. ASSUME NEW r \in removes, RemoveServed(r) PROVE OpTypes'
  <2> DEFINE new == [r EXCEPT !.at = "served"]
  <2>1. new \in Removal
    BY <1>1 DEF Removal
  <2>2. removes' = (removes \ {r}) \cup {new}
    BY <1>8 DEF RemoveServed
  <2> HIDE DEF new
  <2> QED
    BY <1>1, <1>8, <2>1, <2>2 DEF RemoveServed, manager
<1>9. ASSUME NEW r \in removes, RemoveEnds(r) PROVE OpTypes'
  BY <1>1, <1>9 DEF RemoveEnds, RemoveAnswered, ManagerRemoved, RemoveFails, manager
<1>10. ASSUME NEW i \in DOMAIN reads, ReadArrives(i) PROVE OpTypes'
  <2>1. \A q \in removes' : q \in removes \/ \E r \in removes, h \in BOOLEAN : q = [r EXCEPT !.here = h]
    BY <1>10 DEF ReadArrives
  <2>2. removes' \subseteq Removal
    BY <1>1, <1>2, <2>1
  <2>3. reads[i].clean \in BOOLEAN /\ reads[i].late \in BOOLEAN
    <3>1. reads[i] \in Read
      BY <1>1
    <3> QED
      BY <3>1 DEF Read
  <2> QED
    BY <1>1, <1>10, <2>2, <2>3 DEF ReadArrives
<1>11. CASE Leave
  <2>1. \A q \in removes' : \E r \in removes, h \in BOOLEAN : q = [r EXCEPT !.here = h]
    BY <1>11 DEF Leave
  <2>2. removes' \subseteq Removal
    BY <1>1, <1>2, <2>1
  <2>3. UNCHANGED <<batches, asks, doubt, missed, torn>> /\ managing' \in BOOLEAN
    BY <1>11 DEF Leave
  <2> QED
    BY <1>1, <2>2, <2>3
<1>12. CASE PublishAnswered
  <2>1. \A q \in removes' : \E r \in removes : q = [r EXCEPT !.here = FALSE]
    BY <1>12 DEF PublishAnswered
  <2>2. \A c \in batches' : \E b \in batches : c = [b EXCEPT !.here = FALSE]
    BY <1>12 DEF PublishAnswered
  <2>3. removes' \subseteq Removal
    <3>1. FALSE \in BOOLEAN
      OBVIOUS
    <3> QED
      BY <1>1, <1>2, <2>1, <3>1
  <2>5. batches' \subseteq Batch /\ \A c \in batches' : c.todo # <<>>
    <3>1. ASSUME NEW c \in batches' PROVE c \in Batch /\ c.todo # <<>>
      <4>1. PICK b \in batches : c = [b EXCEPT !.here = FALSE]
        BY <2>2
      <4>2. b \in Batch /\ b.todo # <<>>
        BY <1>1
      <4> QED
        BY <1>3, <4>1, <4>2, Zenon
    <3> QED
      BY <3>1
  <2>4. UNCHANGED <<asks, torn>> /\ managing' = FALSE /\ doubt' \in BOOLEAN /\ missed' \in BOOLEAN
    BY <1>12 DEF PublishAnswered, Opens
  <2> QED
    BY <1>1, <2>3, <2>4, <2>5
<1>13. CASE Others
  BY <1>1, <1>13 DEF Others, manager, Asks
<1>14. CASE MakeDone
  BY <1>1, <1>14 DEF MakeDone, Opens, manager
<1>15. CASE Submit \/ MakeServed \/ MakeAnswered \/ MakeFails \/ SafetyTimer \/ Publish
             \/ PublishServed \/ PublishFails \/ Manage \/ Edited \/ Discard
  <2>1. batches' \in {batches, {}} /\ removes' \in {removes, {}} /\ UNCHANGED <<doubt, missed, torn>>
    BY <1>15 DEF Submit, MakeServed, MakeAnswered, MakeFails, MakeOnly, SafetyTimer, Publish,
       PublishServed, PublishFails, Manage, Edited, Discard
  <2>2. asks' \in {asks, asks + 1} /\ managing' \in {managing, TRUE}
    BY <1>15 DEF Submit, MakeServed, MakeAnswered, MakeFails, MakeOnly, SafetyTimer, Publish,
       PublishServed, PublishFails, Manage, Edited, Discard, manager, Asks
  <2>3. asks + 1 \in Nat
    BY <1>1
  <2>4. CASE batches' = batches
    BY <1>1, <2>1, <2>2, <2>3, <2>4
  <2>5. CASE batches' = {}
    BY <1>1, <2>1, <2>2, <2>3, <2>5
  <2> QED
    BY <2>1, <2>4, <2>5
<1>16. ASSUME NEW t \in Titles, Tick(t) PROVE OpTypes'
  BY <1>1, <1>16 DEF Tick, manager
<1>17. ASSUME NEW i \in DOMAIN reads, ReadServed(i) \/ ReadFails(i) \/ Rendered(i) PROVE OpTypes'
  BY <1>1, <1>17 DEF ReadServed, ReadFails, Rendered, manager
<1> HIDE DEF OpTypes
<1> QED
  BY <1>4, <1>5, <1>6, <1>7, <1>8, <1>9, <1>10, <1>11, <1>12, <1>13, <1>14, <1>15, <1>16, <1>17
  DEF Next, Make, ReadEnds, Add, PublishEnds

LEMMA FormPageNext ==
    ASSUME Types, Next
    PROVE  FormPage'
<1> SUFFICES ASSUME at' = "form" PROVE (Quiet /\ reads = <<>>)'
  BY DEF FormPage
<1>1. at # "form" => at' # "form"
  BY DEF Next, Make, ReadEnds, Add, RemoveEnds, PublishEnds, Opens, ReadServed, ReadArrives, ReadFails,
     Rendered, SafetyTimer, Submit, MakeServed, MakeAnswered, MakeFails, MakeDone, Tick, RemoveItem,
     AddSelected, AddServed, AddAnswered, AddFails, RemoveServed, RemoveAnswered, ManagerRemoved,
     RemoveFails, Manage, Leave, Edited, Publish, PublishServed, PublishAnswered, PublishFails, Discard,
     Others
<1>2. at = "form" /\ batches = {} /\ removes = {} /\ reads = <<>>
  BY <1>1 DEF Types, Quiet
<1>3. DOMAIN reads = {}
  BY <1>2
<1>4. Submit \/ MakeServed \/ MakeAnswered \/ MakeFails \/ MakeDone \/ SafetyTimer \/ PublishServed
        \/ PublishFails
  BY <1>2, <1>3 DEF Next, Make, PublishEnds, OnPage, Tick, RemoveItem, AddSelected, Manage, Leave,
     Edited, Publish, CanPublish, PublishAnswered, Opens, Discard, Others
<1> QED
  BY <1>2, <1>4 DEF Submit, MakeServed, MakeAnswered, MakeFails, MakeDone, MakeOnly, Opens, SafetyTimer,
     PublishServed, PublishFails, Quiet

LEMMA TypesNext ==
    ASSUME Types, [Next]_vars
    PROVE  Types'
<1>1. CASE Next
  <2>1. (ListTypes /\ OpTypes /\ ReadTypes /\ FormPage)'
    BY <1>1, ListTypesNext, OpTypesNext, ReadTypesNext, FormPageNext
  <2> QED
    BY <2>1 DEF Types, ListTypes, OpTypes, ReadTypes, FormPage
<1>2. CASE UNCHANGED vars
  BY <1>2 DEF vars, server, manager, Types, Quiet
<1> QED
  BY <1>1, <1>2

-----------------------------------------------------------------------------
(* The gate.                                                               *)

\* A title a batch has yet to save, and the parts of GateOK
Pending(b, t) == \E k \in DOMAIN b.todo : b.todo[k] = t
GateParts ==
    /\ \A b \in batches : Once(b.todo)
    /\ \A b \in batches : \A t : Pending(b, t) => Unsaved(t) # {}
    /\ \A b, c \in batches : \A t : Pending(b, t) /\ Pending(c, t) => b = c
    /\ \A b \in batches : \A l \in DOMAIN ticks : ~Pending(b, ticks[l])

LEMMA GateIs == GateOK <=> (at = "draft" /\ ~torn => GateParts)
BY DEF GateOK, GateParts, Pending

\* The head of a batch, and the rest of it
LEMMA TodoIs ==
    ASSUME NEW s \in Seq(Titles), s # <<>>
    PROVE  /\ Head(s) \in Titles /\ \E k \in DOMAIN s : s[k] = Head(s)
           /\ Tail(s) \in Seq(Titles) /\ Len(Tail(s)) = Len(s) - 1 /\ DOMAIN Tail(s) = 1 .. Len(s) - 1
           /\ \A k \in DOMAIN Tail(s) : k + 1 \in DOMAIN s /\ Tail(s)[k] = s[k + 1]
           /\ Once(s) => Once(Tail(s)) /\ \A k \in DOMAIN Tail(s) : Tail(s)[k] # Head(s)
<1>1. /\ Head(s) \in Titles /\ Tail(s) \in Seq(Titles) /\ Len(s) \in Nat \ {0}
      /\ DOMAIN s = 1 .. Len(s) /\ Head(s) = s[1]
      /\ Len(Tail(s)) = Len(s) - 1 /\ DOMAIN Tail(s) = 1 .. Len(s) - 1
      /\ \A k \in 1 .. Len(s) - 1 : Tail(s)[k] = s[k + 1]
  BY HeadTailProperties
<1>2. 1 \in DOMAIN s /\ \A k \in 1 .. Len(s) - 1 : k + 1 \in DOMAIN s /\ k + 1 # 1
  BY <1>1
<1>3. Once(s) => Once(Tail(s)) /\ \A k \in DOMAIN Tail(s) : Tail(s)[k] # Head(s)
  BY <1>1, <1>2 DEF Once
<1> QED
  BY <1>1, <1>2, <1>3

\* Only a form that has nothing under way opens a draft
LEMMA DraftStays ==
    ASSUME Types, Next, at' = "draft"
    PROVE  at = "draft" \/ batches' = {}
<1>1. CASE MakeDone
  BY <1>1 DEF MakeDone, Types, Quiet
<1>2. CASE ~MakeDone
  BY <1>2 DEF Next, Make, ReadEnds, Add, RemoveEnds, PublishEnds, Opens, ReadServed, ReadArrives,
     ReadFails, Rendered, SafetyTimer, Submit, MakeServed, MakeAnswered, MakeFails, Tick, RemoveItem,
     AddSelected, AddServed, AddAnswered, AddFails, RemoveServed, RemoveAnswered, ManagerRemoved,
     RemoveFails, Manage, Leave, Edited, Publish, PublishServed, PublishAnswered, PublishFails, Discard,
     Others
<1> QED
  BY <1>1, <1>2

\* A batch goes on, and the rows of the titles it has yet to save are there
LEMMA GateGoesOn ==
    ASSUME Types, GateParts, NEW b \in batches, Continued(b), UNCHANGED ticks,
           \A t : t # Head(b.todo) /\ Unsaved(t) # {} => (Unsaved(t) # {})'
    PROVE  GateParts'
<1>1. b.todo \in Seq(Titles) /\ b.todo # <<>> /\ Once(b.todo)
  BY DEF Types, Batch, GateParts
<1>2. /\ Once(Tail(b.todo)) /\ Pending(b, Head(b.todo))
      /\ \A k \in DOMAIN Tail(b.todo) : Pending(b, Tail(b.todo)[k]) /\ Tail(b.todo)[k] # Head(b.todo)
  BY <1>1, TodoIs DEF Pending
<1>3. ASSUME NEW c \in batches', c \notin batches \ {b}
      PROVE  Once(c.todo) /\ \A t : Pending(c, t) => Pending(b, t) /\ t # Head(b.todo)
  <2>1. c.todo = Tail(b.todo)
    BY <1>3, ContinuedIs
  <2> QED
    BY <1>2, <2>1 DEF Pending
<1>4. ASSUME NEW c \in batches', NEW d \in batches', c \notin batches \ {b}, d \notin batches \ {b}
      PROVE  c = d
  BY <1>4, ContinuedIs
<1>5. \A c \in batches' : Once(c.todo)
  BY <1>3 DEF GateParts
<1>6. \A c \in batches' : \A t : Pending(c, t) => (Unsaved(t) # {})'
  <2>1. ASSUME NEW c \in batches \ {b}, NEW t, Pending(c, t) PROVE t # Head(b.todo)
    BY <1>2, <2>1 DEF GateParts
  <2> QED
    BY <1>3, <2>1 DEF GateParts
<1>7. \A c, d \in batches' : \A t : Pending(c, t) /\ Pending(d, t) => c = d
  BY <1>3, <1>4 DEF GateParts
<1>8. \A c \in batches' : \A l \in DOMAIN ticks : ~Pending(c, ticks[l])
  BY <1>3 DEF GateParts
<1> QED
  BY <1>5, <1>6, <1>7, <1>8 DEF GateParts, Pending

LEMMA GateNext ==
    ASSUME Types, GateOK, [Next]_vars
    PROVE  GateOK'
<1> SUFFICES ASSUME at' = "draft", ~torn', batches' # {} PROVE GateParts'
  <2>1. batches' = {} => GateParts'
    BY DEF GateParts
  <2> QED
    BY <2>1 DEF GateOK, GateParts, Pending
<1>1. CASE UNCHANGED <<batches, ticks, shown, torn, at>>
  BY <1>1, GateIs DEF GateParts, Pending, Unsaved
<1>2. CASE Next
  <2>1. at = "draft" /\ shown \in Seq(Row) /\ DOMAIN shown = 1 .. Len(shown)
        /\ \A b \in batches : b.todo \in Seq(Titles) /\ b.todo # <<>>
    BY <1>2, DraftStays DEF Types, Batch
  <2>2. ~torn => GateParts
    BY <2>1, GateIs
  <2>3. ASSUME NEW t \in Titles, Tick(t) PROVE GateParts'
    <3>1. GateParts /\ UNCHANGED <<batches, shown>> /\ ticks' = Append(ticks, t) /\ ticks \in Seq(Titles)
      BY <2>2, <2>3 DEF Tick, Types
    <3>2. ~Contains(TitlesOf(shown), t)
      BY <2>3 DEF Tick
    <3>3. Unsaved(t) = {}
      <4>1. TitlesOf(shown) = [i \in 1 .. Len(shown) |-> shown[i].title]
        BY <2>1 DEF TitlesOf
      <4>2. Len(TitlesOf(shown)) = Len(shown)
        BY <2>1, <4>1
      <4> QED
        BY <2>1, <3>2, <4>1, <4>2 DEF Contains, Unsaved
    <3>4. \A l \in DOMAIN ticks' : ticks'[l] = t \/ \E k \in DOMAIN ticks : ticks'[l] = ticks[k]
      <4>1. /\ DOMAIN ticks' = 1 .. Len(ticks) + 1 /\ ticks'[Len(ticks) + 1] = t
            /\ \A k \in 1 .. Len(ticks) : ticks'[k] = ticks[k]
        BY <3>1, AppendProperties
      <4>2. DOMAIN ticks = 1 .. Len(ticks) /\ \A l \in 1 .. Len(ticks) + 1 : l \in DOMAIN ticks \/ l = Len(ticks) + 1
        BY <3>1
      <4> QED
        BY <4>1, <4>2
    <3> QED
      BY <3>1, <3>3, <3>4 DEF GateParts, Pending, Unsaved
  <2>4. CASE AddSelected
    <3> DEFINE new == [id |-> asks, todo |-> ticks, at |-> "sent", here |-> TRUE]
               more == [i \in DOMAIN ticks |-> [title |-> ticks[i], temp |-> TRUE]]
    <3>1. /\ GateParts /\ batches' = batches \cup {new} /\ ticks' = <<>> /\ shown' = shown \o more
          /\ new.todo = ticks
      BY <2>2, <2>4 DEF AddSelected
    <3>2. ticks \in Seq(Titles) /\ Once(ticks) /\ DOMAIN ticks = 1 .. Len(ticks)
      BY DEF Types
    <3> HIDE DEF new
    <3>3. more \in Seq(Row) /\ Len(more) = Len(ticks)
          /\ \A i \in 1 .. Len(ticks) : more[i] = [title |-> ticks[i], temp |-> TRUE]
      BY <2>1, <3>2, AddedRowsAre
    <3> HIDE DEF more
    <3>4. /\ \A i \in DOMAIN shown : i \in DOMAIN shown' /\ shown'[i] = shown[i]
          /\ \A k \in DOMAIN ticks : Len(shown) + k \in DOMAIN shown'
                                       /\ shown'[Len(shown) + k] = [title |-> ticks[k], temp |-> TRUE]
      <4>1. /\ DOMAIN (shown \o more) = 1 .. Len(shown) + Len(more)
            /\ \A j \in 1 .. Len(shown) : (shown \o more)[j] = shown[j]
            /\ \A j \in 1 .. Len(more) : (shown \o more)[Len(shown) + j] = more[j]
        <5>1. shown \in Seq(Row) /\ more \in Seq(Row)
          BY <2>1, <3>3
        <5> QED
          BY <5>1, ConcatIs
      <4>2. /\ Len(shown) \in Nat /\ Len(ticks) \in Nat
            /\ \A k \in 1 .. Len(ticks) : Len(shown) + k \in 1 .. Len(shown) + Len(ticks)
            /\ \A i \in 1 .. Len(shown) : i \in 1 .. Len(shown) + Len(ticks)
        BY <2>1, <3>2
      <4> QED
        BY <2>1, <3>1, <3>2, <3>3, <4>1, <4>2
    <3>5. \A t : Unsaved(t) # {} => (Unsaved(t) # {})'
      BY <3>4 DEF Unsaved
    <3>6. \A t : Pending(new, t) => (Unsaved(t) # {})' /\ \E l \in DOMAIN ticks : ticks[l] = t
      BY <3>1, <3>4 DEF Unsaved, Pending
    <3>7. DOMAIN ticks' = {}
      BY <3>1
    <3>8. \A b \in batches : \A t : Pending(b, t) => ~Pending(new, t)
      BY <3>1, <3>6 DEF GateParts
    <3>9. (\A b \in batches : Once(b.todo))'
      BY <3>1, <3>2 DEF GateParts
    <3>10. \A b \in batches' : \A t : Pending(b, t) => (Unsaved(t) # {})'
      BY <3>1, <3>5, <3>6 DEF GateParts
    <3>11. \A b, c \in batches' : \A t : Pending(b, t) /\ Pending(c, t) => b = c
      BY <3>1, <3>8 DEF GateParts
    <3> QED
      BY <3>7, <3>9, <3>10, <3>11 DEF GateParts, Pending
  <2>5. ASSUME NEW b \in batches, AddServed(b) PROVE GateParts'
    <3> DEFINE new == [b EXCEPT !.at = "served"]
    <3>1. new.todo = b.todo
      BY DEF Types, Batch
    <3>2. batches' = (batches \ {b}) \cup {new} /\ UNCHANGED <<ticks, shown>> /\ GateParts
      BY <2>2, <2>5 DEF AddServed
    <3> HIDE DEF new
    <3> QED
      BY <3>1, <3>2 DEF GateParts, Pending, Unsaved
  <2>6. ASSUME NEW b \in batches, AddAnswered(b) PROVE GateParts'
    <3>1. Continued(b) /\ UNCHANGED ticks
      BY <2>6 DEF AddAnswered
    <3>2. ~torn
      BY <3>1, ContinuedIs DEF Types
    <3>3. \A t : t # Head(b.todo) /\ Unsaved(t) # {} => (Unsaved(t) # {})'
      <4>1. DOMAIN shown' = DOMAIN shown
            /\ \A i \in DOMAIN shown : i \notin Unsaved(Head(b.todo)) => shown'[i] = shown[i]
        BY <2>6 DEF AddAnswered
      <4>2. ASSUME NEW t, t # Head(b.todo), NEW i \in Unsaved(t) PROVE i \in Unsaved(t)'
        <5>1. i \in DOMAIN shown /\ shown[i] = [title |-> t, temp |-> TRUE] /\ shown[i].title = t
          BY DEF Unsaved
        <5>2. i \notin Unsaved(Head(b.todo))
          BY <4>2, <5>1 DEF Unsaved
        <5> QED
          BY <4>1, <5>1, <5>2 DEF Unsaved
      <4> QED
        BY <4>2
    <3> QED
      BY <2>2, <3>1, <3>2, <3>3, GateGoesOn
  <2>7. ASSUME NEW b \in batches, AddFails(b) PROVE GateParts'
    <3>1. Continued(b) /\ UNCHANGED ticks
      BY <2>7 DEF AddFails
    <3>2. ~torn
      BY <3>1, ContinuedIs DEF Types
    <3>3. \A t : t # Head(b.todo) /\ Unsaved(t) # {} => (Unsaved(t) # {})'
      <4> DEFINE m == CHOOSE i \in Unsaved(Head(b.todo)) : \A j \in Unsaved(Head(b.todo)) : i <= j
      <4>1. shown' = shown \/ (Unsaved(Head(b.todo)) # {} /\ shown' = RemoveAt(shown, m))
        BY <2>7 DEF AddFails
      <4>2. Unsaved(Head(b.todo)) \subseteq 1 .. Len(shown)
        BY <2>1 DEF Unsaved
      <4>3. Unsaved(Head(b.todo)) # {} => m \in Unsaved(Head(b.todo))
        BY <4>2, FirstOf
      <4> HIDE DEF m
      <4>4. CASE m \in Unsaved(Head(b.todo)) /\ shown' = RemoveAt(shown, m)
        <5>1. \A k \in DOMAIN shown : k # m => \E j \in DOMAIN shown' : shown'[j] = shown[k]
          BY <2>1, <4>2, <4>4, RemoveAtKeeps
        <5>2. ASSUME NEW t, t # Head(b.todo), NEW i \in Unsaved(t) PROVE (Unsaved(t) # {})'
          <6>1. i \in DOMAIN shown /\ shown[i] = [title |-> t, temp |-> TRUE] /\ shown[i].title = t
            BY DEF Unsaved
          <6>2. i # m
            BY <4>4, <5>2, <6>1 DEF Unsaved
          <6>3. PICK j \in DOMAIN shown' : shown'[j] = shown[i]
            BY <5>1, <6>1, <6>2
          <6> QED
            BY <6>1, <6>3 DEF Unsaved
        <5> QED
          BY <5>2
      <4> QED
        BY <4>1, <4>3, <4>4 DEF Unsaved
    <3> QED
      BY <2>2, <3>1, <3>2, <3>3, GateGoesOn
  <2>8. ASSUME NEW r \in removes, RemoveAnswered(r) PROVE GateParts'
    <3> DEFINE m == CHOOSE i \in Rows(r.title) : \A j \in Rows(r.title) : i <= j
    <3>1. shown' = shown \/ (Rows(r.title) # {} /\ shown' = RemoveAt(shown, m))
      BY <2>8 DEF RemoveAnswered
    <3>2. Rows(r.title) \subseteq 1 .. Len(shown)
      BY <2>1 DEF Rows
    <3>3. Rows(r.title) # {} => m \in Rows(r.title)
      BY <3>2, FirstOf
    <3> HIDE DEF m
    <3>4. \A t : Unsaved(t) # {} => (Unsaved(t) # {})'
      <4>1. CASE m \in Rows(r.title) /\ shown' = RemoveAt(shown, m)
        <5>1. \A k \in DOMAIN shown : k # m => \E j \in DOMAIN shown' : shown'[j] = shown[k]
          BY <2>1, <3>2, <4>1, RemoveAtKeeps
        <5>2. \A t : m \notin Unsaved(t)
          BY <4>1 DEF Rows, Unsaved
        <5> QED
          BY <5>1, <5>2 DEF Unsaved
      <4> QED
        BY <3>1, <3>3, <4>1 DEF Unsaved
    <3>5. UNCHANGED <<batches, ticks>> /\ GateParts
      BY <2>2, <2>8 DEF RemoveAnswered
    <3> QED
      BY <3>4, <3>5 DEF GateParts, Pending
  <2>9. CASE Manage
    <3>1. UNCHANGED <<batches, shown>> /\ ticks' = <<>> /\ GateParts
      BY <2>2, <2>9 DEF Manage
    <3>2. DOMAIN ticks' = {}
      BY <3>1
    <3> QED
      BY <3>1, <3>2 DEF GateParts, Pending, Unsaved
  <2>10. ASSUME NEW i \in DOMAIN reads, ReadArrives(i) PROVE FALSE
    BY <2>10 DEF ReadArrives
  <2>11. MakeDone \/ PublishAnswered \/ Discard => FALSE
    BY <2>1 DEF MakeDone, PublishAnswered, Opens, Discard
  <2>12. UNCHANGED <<batches, ticks, shown, torn, at>> => GateParts'
    BY <1>1
  <2>13. CASE Submit \/ MakeServed \/ MakeAnswered \/ MakeFails \/ SafetyTimer \/ Leave \/ Edited
              \/ Publish \/ PublishServed \/ PublishFails \/ Others
    BY <2>12, <2>13 DEF Submit, MakeServed, MakeAnswered, MakeFails, MakeOnly, SafetyTimer, Leave,
       Edited, Publish, PublishServed, PublishFails, Others
  <2>14. ASSUME NEW i \in DOMAIN reads, ReadServed(i) \/ ReadFails(i) \/ Rendered(i) PROVE GateParts'
    BY <2>12, <2>14 DEF ReadServed, ReadFails, Rendered
  <2>15. ASSUME NEW t \in Titles, RemoveItem(t) PROVE GateParts'
    BY <2>12, <2>15 DEF RemoveItem
  <2>16. ASSUME NEW r \in removes, RemoveServed(r) \/ ManagerRemoved(r) \/ RemoveFails(r)
         PROVE  GateParts'
    BY <2>12, <2>16 DEF RemoveServed, ManagerRemoved, RemoveFails
  <2> QED
    BY <1>2, <2>3, <2>4, <2>5, <2>6, <2>7, <2>8, <2>9, <2>10, <2>11, <2>13, <2>14, <2>15, <2>16
    DEF Next, Make, ReadEnds, Add, RemoveEnds, PublishEnds
<1> QED
  BY <1>1, <1>2 DEF vars

\* The draft is not published before all its items are saved, unless a reading
\* has taken unsaved rows off the page: for any number of batches under way
\* (ListDetailManager.tsx, its publish button).
THEOREM TheGateAlwaysWaits == Spec => []GateWaits
<1>1. Init => GateOK
  BY DEF Init, GateOK
<1>2. Types /\ GateOK => GateWaits
  <2> SUFFICES ASSUME Types, GateOK, CanPublish, ~torn, NEW b \in batches PROVE FALSE
    BY DEF GateWaits
  <2>1. GateParts
    BY GateIs DEF CanPublish
  <2>2. b.todo \in Seq(Titles) /\ b.todo # <<>>
    BY DEF Types, Batch
  <2>3. Unsaved(Head(b.todo)) # {}
    BY <2>1, <2>2, TodoIs DEF GateParts, Pending
  <2> QED
    BY <2>3 DEF CanPublish, Saving, Unsaved
<1>3. Types /\ GateOK /\ [Next]_vars => (Types /\ GateOK)'
  BY TypesNext, GateNext
<1> QED
  BY <1>1, <1>2, <1>3, InitTypes, PTL DEF Spec

-----------------------------------------------------------------------------
(* What is under way, and the readings.                                    *)

\* Steps that touch nothing under way
LEMMA HereStays ==
    ASSUME HereOK, batches' = batches, removes' \subseteq removes, OnPage' => OnPage,
           doubt => doubt', missed => missed', managing => managing'
    PROVE  HereOK'
BY DEF HereOK

\* Removals of which some no longer belong to the manager on screen
Left == {[r EXCEPT !.here = @ /\ r.from # "manager"] : r \in removes}
LEMMA LeftIs ==
    ASSUME removes \subseteq Removal
    PROVE  /\ \A q \in Left : \E r \in removes :
                /\ q = [r EXCEPT !.here = r.here /\ r.from # "manager"]
                /\ q.title = r.title /\ q.from = r.from /\ q.at = r.at
                /\ q.from = "page" => q.here = r.here
                /\ q.from = "manager" => ~q.here
           /\ removes = {} => Left = {}
BY DEF Left, Removal

LEMMA HereNext ==
    ASSUME Types, HereOK, ReadsOK, Next
    PROVE  HereOK'
<1>1. removes \subseteq Removal /\ batches \subseteq Batch /\ reads \in Seq(Read)
  BY DEF Types
<1>2. batches = {} /\ batches' = {} /\ removes = {} /\ removes' = {} => HereOK'
  BY DEF HereOK
<1>3. removes' = Left /\ batches' = batches /\ at' = at /\ (doubt => doubt') /\ (missed => missed')
        => HereOK'
  <2> SUFFICES ASSUME removes' = Left, batches' = batches, at' = at, doubt => doubt', missed => missed'
               PROVE  HereOK'
    OBVIOUS
  <2>1. \A q \in removes' : \E r \in removes :
          /\ q = [r EXCEPT !.here = r.here /\ r.from # "manager"]
          /\ q.title = r.title /\ q.from = r.from
          /\ q.from = "page" => q.here = r.here
          /\ q.from = "manager" => ~q.here
    BY <1>1, LeftIs
  <2>2. \A r, q \in removes' : r.from = "page" /\ q.from = "page" /\ r.title = q.title => r = q
    BY <2>1 DEF HereOK
  <2>3. \A r \in removes' : r.from = "manager" => ~r.here
    BY <2>1
  <2>4. OnPage' => \A r \in removes' : r.from = "page" /\ ~r.here => doubt' /\ missed'
    BY <2>1 DEF HereOK, OnPage
  <2> QED
    BY <2>2, <2>3, <2>4 DEF HereOK, OnPage
<1>4. ASSUME NEW i \in DOMAIN reads, ReadArrives(i) PROVE HereOK'
  <2>1. /\ UNCHANGED <<batches, at, managing>> /\ doubt' = ~reads[i].clean
        /\ missed' = (~reads[i].clean /\ (missed \/ reads[i].late))
        /\ removes' = removes \/ removes' = Left
    BY <1>4 DEF ReadArrives, Left
  <2>2. CASE reads[i].clean
    <3>1. batches = {} /\ removes = {}
      BY <2>2 DEF ReadsOK, Quiet
    <3> QED
      BY <1>1, <1>2, <2>1, <3>1, LeftIs
  <2>3. CASE ~reads[i].clean
    BY <1>3, <2>1, <2>3, HereStays DEF OnPage
  <2> QED
    BY <2>2, <2>3
<1>5. CASE MakeDone
  BY <1>2, <1>5 DEF MakeDone, Types, Quiet
<1>6. CASE AddSelected
  <2> DEFINE new == [id |-> asks, todo |-> ticks, at |-> "sent", here |-> TRUE]
  <2>1. batches' = batches \cup {new} /\ new.here /\ UNCHANGED <<removes, managing, at, missed>>
        /\ (doubt => doubt')
    BY <1>6 DEF AddSelected, manager
  <2> HIDE DEF new
  <2> QED
    BY <2>1 DEF HereOK, OnPage
<1>7. ASSUME NEW b \in batches, AddServed(b) PROVE HereOK'
  <2> DEFINE new == [b EXCEPT !.at = "served"]
  <2>1. batches' = (batches \ {b}) \cup {new} /\ UNCHANGED <<removes, managing, at, doubt, missed>>
    BY <1>7 DEF AddServed, manager
  <2>2. new.here = b.here
    BY <1>1 DEF Batch
  <2> HIDE DEF new
  <2> QED
    BY <2>1, <2>2 DEF HereOK, OnPage
<1>8. ASSUME NEW b \in batches, AddAnswered(b) \/ AddFails(b) PROVE HereOK'
  <2>1. Continued(b) /\ UNCHANGED <<removes, managing, at, missed>> /\ (doubt => doubt')
    <3>1. CASE AddAnswered(b)
      BY <3>1 DEF AddAnswered, manager
    <3>2. CASE AddFails(b)
      BY <3>2 DEF AddFails, manager
    <3> QED
      BY <1>8, <3>1, <3>2
  <2>2. \A c \in batches' : c \in batches \/ c.here = b.here
    BY <2>1, ContinuedIs
  <2> QED
    BY <2>1, <2>2 DEF HereOK, OnPage
<1>9. ASSUME NEW t \in Titles, RemoveItem(t) PROVE HereOK'
  <2> DEFINE new == [id |-> asks, title |-> t, at |-> "sent", here |-> TRUE,
                     from |-> IF managing THEN "manager" ELSE "page"]
  <2>1. /\ removes' = removes \cup {new} /\ new.here /\ new.title = t
        /\ new.from = IF managing THEN "manager" ELSE "page"
        /\ UNCHANGED <<batches, managing, at, doubt, missed>>
    BY <1>9 DEF RemoveItem
  <2>2. ~managing => \A r \in removes : r.title = t => r.from = "manager"
    BY <1>9 DEF RemoveItem
  <2> HIDE DEF new
  <2> QED
    BY <2>1, <2>2 DEF HereOK, OnPage
<1>10. ASSUME NEW r \in removes, RemoveServed(r) PROVE HereOK'
  <2> DEFINE new == [r EXCEPT !.at = "served"]
  <2>1. removes' = (removes \ {r}) \cup {new} /\ UNCHANGED <<batches, managing, at, doubt, missed>>
    BY <1>10 DEF RemoveServed, manager
  <2>2. new.here = r.here /\ new.title = r.title /\ new.from = r.from
    BY <1>1 DEF Removal
  <2> HIDE DEF new
  <2> QED
    BY <2>1, <2>2 DEF HereOK, OnPage
<1>11. ASSUME NEW r \in removes, RemoveEnds(r) PROVE HereOK'
  <2>1. UNCHANGED <<batches, at, managing>> /\ removes' \subseteq removes /\ (doubt => doubt')
        /\ (missed => missed')
    <3>1. CASE RemoveAnswered(r)
      BY <3>1 DEF RemoveAnswered, manager
    <3>2. CASE ManagerRemoved(r)
      BY <3>2 DEF ManagerRemoved
    <3>3. CASE RemoveFails(r)
      BY <3>3 DEF RemoveFails
    <3> QED
      BY <1>11, <3>1, <3>2, <3>3 DEF RemoveEnds
  <2> QED
    BY <2>1, HereStays DEF OnPage
<1>12. CASE Leave
  BY <1>3, <1>12 DEF Leave, Left
<1>13. CASE PublishAnswered
  <2>1. /\ \A q \in removes' : \E r \in removes : q = [r EXCEPT !.here = FALSE]
        /\ \A c \in batches' : \E b \in batches : c = [b EXCEPT !.here = FALSE]
        /\ doubt' = ~Quiet /\ missed' = ~Quiet
    BY <1>13 DEF PublishAnswered
  <2>2. \A q \in removes' : ~q.here /\ \E r \in removes :
          q = [r EXCEPT !.here = FALSE] /\ q.from = r.from /\ q.title = r.title
    BY <1>1, <2>1 DEF Removal
  <2>3. (batches' = {} /\ removes' = {}) \/ (doubt' /\ missed')
    BY <2>1 DEF Quiet
  <2>4. ASSUME NEW p \in removes', NEW q \in removes', p.from = "page", q.from = "page",
               p.title = q.title
        PROVE  p = q
    <3>1. PICK r \in removes : p = [r EXCEPT !.here = FALSE] /\ p.from = r.from /\ p.title = r.title
      BY <2>2
    <3>2. PICK s \in removes : q = [s EXCEPT !.here = FALSE] /\ q.from = s.from /\ q.title = s.title
      BY <2>2
    <3>3. r = s
      BY <2>4, <3>1, <3>2 DEF HereOK
    <3> QED
      BY <3>1, <3>2, <3>3
  <2> QED
    BY <2>2, <2>3, <2>4 DEF HereOK
<1>14. CASE Discard
  BY <1>14 DEF Discard, HereOK
<1>15. CASE Submit \/ MakeServed \/ MakeAnswered \/ MakeFails \/ SafetyTimer \/ Publish
             \/ PublishServed \/ PublishFails \/ Manage \/ Edited \/ Others
  BY <1>15, HereStays DEF Submit, MakeServed, MakeAnswered, MakeFails, MakeOnly, SafetyTimer, Publish,
     PublishServed, PublishFails, Manage, Edited, Others, manager, OnPage
<1>16. ASSUME NEW t \in Titles, Tick(t) PROVE HereOK'
  BY <1>16, HereStays DEF Tick, manager, OnPage
<1>17. ASSUME NEW i \in DOMAIN reads, ReadServed(i) \/ ReadFails(i) \/ Rendered(i) PROVE HereOK'
  BY <1>17, HereStays DEF ReadServed, ReadFails, Rendered, manager, OnPage
<1> QED
  BY <1>4, <1>5, <1>6, <1>7, <1>8, <1>9, <1>10, <1>11, <1>12, <1>13, <1>14, <1>15, <1>16, <1>17
  DEF Next, Make, ReadEnds, Add, PublishEnds

LEMMA NoneClean ==
    ASSUME ReadsOK, ~Quiet
    PROVE  \A i \in DOMAIN reads : ~reads[i].clean
BY DEF ReadsOK

\* ReadsOK after a step that sends a reading, and after a page opens with one
LEMMA AskedReads ==
    ASSUME ReadsOK, NEW clean \in BOOLEAN, AskedIn(reads, reads', clean), clean => Quiet',
           Quiet => clean, stored' = stored
    PROVE  ReadsOK'
<1>1. reads' # <<>> /\ ~Last(reads').late /\ Last(reads').clean = clean
  BY DEF AskedIn
<1>2. ASSUME NEW i \in DOMAIN reads', reads'[i].clean
      PROVE  clean /\ (reads'[i].at = "served" => reads'[i].page = stored')
  <2>1. CASE reads'[i].at = "sent" /\ reads'[i].clean = clean
    BY <1>2, <2>1
  <2>2. CASE \E j \in DOMAIN reads : reads'[i] = reads[j]
    BY <1>2, <2>2 DEF ReadsOK
  <2> QED
    BY <2>1, <2>2 DEF AskedIn
<1> QED
  BY <1>1, <1>2 DEF ReadsOK

LEMMA OpenedReads ==
    ASSUME NEW clean \in BOOLEAN, AskedIn(<<>>, reads', clean), clean => Quiet'
    PROVE  ReadsOK'
<1>1. DOMAIN <<>> = {}
  OBVIOUS
<1>2. reads' # <<>> /\ ~Last(reads').late /\ Last(reads').clean = clean
      /\ \A i \in DOMAIN reads' : reads'[i].at = "sent" /\ reads'[i].clean = clean
  BY <1>1 DEF AskedIn
<1> QED
  BY <1>2 DEF ReadsOK

LEMMA SameReads ==
    ASSUME ReadsOK, UNCHANGED <<reads, stored>>, Quiet => Quiet'
    PROVE  ReadsOK'
BY DEF ReadsOK

LEMMA NoCleanReads ==
    ASSUME \A i \in DOMAIN reads' : ~reads'[i].clean,
           reads' # <<>> /\ Last(reads').late => \A i \in DOMAIN reads' : reads'[i].late
    PROVE  ReadsOK'
BY DEF ReadsOK

LEMMA SpoiledReads ==
    ASSUME Types, ReadsOK, reads' = Spoiled(reads)
    PROVE  ReadsOK' /\ (reads # <<>> <=> reads' # <<>>)
           /\ (reads # <<>> => /\ Last(reads').late = Last(reads).late
                               /\ Last(reads').at = Last(reads).at
                               /\ Last(reads').page = Last(reads).page)
<1>1. reads \in Seq(Read) /\ DOMAIN reads = 1 .. Len(reads) /\ Len(reads) \in Nat
      /\ \A i \in DOMAIN reads : reads[i] \in Read
  BY DEF Types
<1>2. reads' \in Seq(Read) /\ Len(reads') = Len(reads) /\ DOMAIN reads' = DOMAIN reads
      /\ \A i \in DOMAIN reads : reads'[i] = [reads[i] EXCEPT !.clean = FALSE]
  BY <1>1, SpoiledIs
<1>3. \A r \in Read : LET s == [r EXCEPT !.clean = FALSE]
                      IN  ~s.clean /\ s.late = r.late /\ s.at = r.at /\ s.page = r.page
  BY DEF Read
<1>4. \A i \in DOMAIN reads : ~reads'[i].clean /\ reads'[i].late = reads[i].late
        /\ reads'[i].at = reads[i].at /\ reads'[i].page = reads[i].page
  BY <1>1, <1>2, <1>3
<1>5. (reads # <<>> <=> Len(reads) \in DOMAIN reads) /\ (reads' # <<>> <=> Len(reads) \in DOMAIN reads)
  BY <1>1, <1>2
<1>6. reads # <<>> => /\ Last(reads').late = Last(reads).late
                      /\ Last(reads').at = Last(reads).at
                      /\ Last(reads').page = Last(reads).page
  BY <1>2, <1>4, <1>5 DEF Last
<1>7. reads' # <<>> /\ Last(reads').late => \A i \in DOMAIN reads' : reads'[i].late
  BY <1>2, <1>4, <1>5, <1>6 DEF ReadsOK
<1> QED
  BY <1>2, <1>4, <1>5, <1>6, <1>7, NoCleanReads

\* One reading is served
LEMMA ServedReads ==
    ASSUME Types, ReadsOK, NEW i \in DOMAIN reads, ReadServed(i)
    PROVE  ReadsOK' /\ reads' # <<>> /\ reads # <<>> /\ Last(reads').late = Last(reads).late
           /\ (i = Len(reads) => Last(reads').page = stored)
           /\ (i # Len(reads) => Last(reads') = Last(reads))
<1>1. reads \in Seq(Read) /\ DOMAIN reads = 1 .. Len(reads) /\ Len(reads) \in Nat
      /\ stored \in Seq(Titles) /\ \A k \in DOMAIN reads : reads[k] \in Read
  BY DEF Types
<1> DEFINE new == [reads[i] EXCEPT !.at = "served", !.page = stored]
<1>2. reads' = [reads EXCEPT ![i] = new] /\ UNCHANGED <<batches, removes, stored>>
  BY DEF ReadServed, server
<1>3. new \in Read /\ new.page = stored /\ new.clean = reads[i].clean /\ new.late = reads[i].late
  BY <1>1 DEF Read
<1> HIDE DEF new
<1>4. /\ DOMAIN reads' = DOMAIN reads /\ reads'[i] = new
      /\ \A k \in DOMAIN reads : k # i => reads'[k] = reads[k]
  BY <1>2
<1>5. Len(reads') = Len(reads) /\ Len(reads) \in DOMAIN reads /\ reads # <<>> /\ reads' # <<>>
  BY <1>1, <1>2, <1>3, ExceptSeq
<1>6. /\ Last(reads').late = Last(reads).late /\ Last(reads').clean = Last(reads).clean
      /\ (i = Len(reads) => Last(reads').page = stored)
      /\ (i # Len(reads) => Last(reads') = Last(reads))
  BY <1>3, <1>4, <1>5 DEF Last
<1>7. \A k \in DOMAIN reads : reads'[k].clean = reads[k].clean /\ reads'[k].late = reads[k].late
        /\ (reads'[k].page = stored \/ reads'[k] = reads[k])
  BY <1>3, <1>4
<1>8. ReadsOK'
  BY <1>2, <1>4, <1>5, <1>6, <1>7 DEF ReadsOK, Quiet
<1> QED
  BY <1>5, <1>6, <1>8

\* One reading ends
LEMMA EndedReads ==
    ASSUME Types, ReadsOK, NEW i \in DOMAIN reads, reads' = Ended(i), stored' = stored, Quiet => Quiet'
    PROVE  ReadsOK'
<1>1. reads \in Seq(Read) /\ reads # <<>>
  BY DEF Types
<1>2. ReadTypes' /\ \A j \in DOMAIN reads' : \E k \in DOMAIN reads :
         /\ reads'[j].at = reads[k].at /\ reads'[j].page = reads[k].page
         /\ reads'[j].clean = reads[k].clean /\ (reads[k].late => reads'[j].late)
  BY <1>1, EndedIs DEF ReadTypes
<1>3. CASE i = Len(reads)
  <2>1. \A j \in DOMAIN reads' : reads'[j].late
    BY <1>1, <1>3, EndedIs
  <2>2. reads' # <<>> => Len(reads') \in DOMAIN reads'
    BY <1>2 DEF ReadTypes
  <2>3. \A j \in DOMAIN reads' : reads' # <<>>
    BY <1>2 DEF ReadTypes
  <2> QED
    BY <1>2, <2>1, <2>2, <2>3 DEF ReadsOK, Last
<1>4. CASE i # Len(reads)
  <2>1. reads' # <<>> /\ Last(reads') = Last(reads)
    BY <1>1, <1>4, EndedIs
  <2> QED
    BY <1>1, <1>2, <2>1 DEF ReadsOK
<1> QED
  BY <1>3, <1>4

LEMMA ReadsNext ==
    ASSUME Types, ReadsOK, Next
    PROVE  ReadsOK'
<1>1. Quiet \in BOOLEAN /\ DOMAIN <<>> = {}
  BY DEF Quiet
<1>2. CASE MakeDone
  <2>1. CASE UNCHANGED <<reads, stored>>
    BY <1>2, <2>1, SameReads DEF MakeDone, Quiet
  <2>2. ASSUME NEW s \in {<<>>} \cup {<<t>> : t \in Titles}, Opens("draft", s) PROVE ReadsOK'
    <3>1. AskedIn(<<>>, reads', Quiet)
      BY <2>2, ShortIs, OpensIs
    <3>2. Quiet => Quiet'
      BY <1>2 DEF MakeDone, Quiet
    <3> QED
      BY <1>1, <3>1, <3>2, OpenedReads
  <2> QED
    BY <1>2, <2>1, <2>2 DEF MakeDone
<1>3. ASSUME NEW i \in DOMAIN reads, ReadServed(i) PROVE ReadsOK'
  BY <1>3, ServedReads
<1>4. ASSUME NEW i \in DOMAIN reads, ReadArrives(i) PROVE ReadsOK'
  BY <1>4, EndedReads DEF ReadArrives, Quiet, server
<1>5. ASSUME NEW i \in DOMAIN reads, ReadFails(i) PROVE ReadsOK'
  BY <1>5, EndedReads DEF ReadFails, Quiet, server
<1>6. ASSUME NEW i \in DOMAIN reads, Rendered(i) PROVE ReadsOK'
  <2>1. AskedIn(reads, reads', Quiet) /\ UNCHANGED <<stored, batches, removes>>
    BY <1>6, RenderedAsks DEF Rendered, server
  <2> QED
    BY <1>1, <2>1, AskedReads DEF Quiet
<1>7. CASE AddSelected \/ Others \/ \E t \in Titles : RemoveItem(t)
  BY <1>7, SpoiledReads DEF AddSelected, Others, RemoveItem
<1>8. ~Quiet /\ reads' = reads => ReadsOK'
  BY NoneClean, NoCleanReads DEF ReadsOK
<1>9. ASSUME NEW b \in batches, AddServed(b) PROVE ReadsOK'
  BY <1>8, <1>9 DEF AddServed, Quiet
<1>10. ASSUME NEW b \in batches, AddAnswered(b) \/ AddFails(b) PROVE ReadsOK'
  <2>1. Continued(b) /\ UNCHANGED <<removes, stored>>
    BY <1>10 DEF AddAnswered, AddFails, server
  <2>2. ~Quiet
    BY DEF Quiet
  <2>3. CASE reads' = reads
    BY <1>8, <2>2, <2>3
  <2>4. ASSUME NEW clean \in BOOLEAN, AskedIn(reads, reads', clean), clean => batches' = {} /\ removes = {}
        PROVE  ReadsOK'
    BY <2>1, <2>2, <2>4, AskedReads DEF Quiet
  <2> QED
    BY <2>1, <2>3, <2>4, ContinuedIs
<1>11. ASSUME NEW r \in removes, RemoveAnswered(r) PROVE ReadsOK'
  <2>1. UNCHANGED <<batches, stored>> /\ ~Quiet
    BY <1>11 DEF RemoveAnswered, server, Quiet
  <2>2. CASE reads' = reads
    BY <1>8, <2>1, <2>2
  <2>3. ASSUME NEW clean \in BOOLEAN, AskedIn(reads, reads', clean), clean => batches = {} /\ removes' = {}
        PROVE  ReadsOK'
    BY <2>1, <2>3, AskedReads DEF Quiet
  <2> QED
    BY <1>11, <2>2, <2>3, RemoveAsks
<1>12. ASSUME NEW r \in removes, RemoveServed(r) \/ ManagerRemoved(r) \/ RemoveFails(r) PROVE ReadsOK'
  BY <1>8, <1>12 DEF RemoveServed, ManagerRemoved, RemoveFails, Quiet
<1>13. CASE Leave \/ Edited
  <2>1. AskedIn(reads, reads', Quiet) /\ stored' = stored /\ (Quiet => Quiet')
    BY <1>13, PageAsks DEF Leave, Edited, server, Quiet
  <2> QED
    BY <1>1, <2>1, AskedReads
<1>14. CASE PublishAnswered
  <2>1. AskedIn(<<>>, reads', Quiet) /\ (Quiet => Quiet')
    BY <1>14, OpensIs DEF PublishAnswered, Quiet, Types
  <2> QED
    BY <1>1, <2>1, OpenedReads
<1>15. CASE Discard
  BY <1>1, <1>15, NoCleanReads DEF Discard
<1>16. UNCHANGED <<reads, stored, batches, removes>> => ReadsOK'
  BY SameReads DEF Quiet
<1>17. CASE Submit \/ MakeServed \/ MakeAnswered \/ MakeFails \/ SafetyTimer \/ Publish
             \/ PublishServed \/ PublishFails \/ Manage
  BY <1>16, <1>17 DEF Submit, MakeServed, MakeAnswered, MakeFails, MakeOnly, SafetyTimer, Publish,
     PublishServed, PublishFails, Manage, server
<1>18. ASSUME NEW t \in Titles, Tick(t) PROVE ReadsOK'
  BY <1>16, <1>18 DEF Tick, server
<1> QED
  BY <1>2, <1>3, <1>4, <1>5, <1>6, <1>7, <1>9, <1>10, <1>11, <1>12, <1>13, <1>14, <1>15, <1>17, <1>18
  DEF Next, Make, ReadEnds, Add, RemoveEnds, PublishEnds

\* What still waits for the server after a page was left, did before
LEMMA SentStays ==
    ASSUME removes \subseteq Removal, removes' = removes \/ removes' = Left, \A r \in removes' : r.at = "sent"
    PROVE  \A r \in removes : r.at = "sent"
<1>1. ASSUME NEW r \in removes
      PROVE  \E q \in Left : q.at = r.at
  <2>1. [r EXCEPT !.here = r.here /\ r.from # "manager"] \in Left
    BY DEF Left
  <2>2. [r EXCEPT !.here = r.here /\ r.from # "manager"].at = r.at
    BY DEF Removal
  <2> QED
    BY <2>1, <2>2
<1> QED
  BY <1>1

LEMMA FreshNext ==
    ASSUME Types, HereOK, ReadsOK, FreshOK, Next
    PROVE  FreshOK'
<1> SUFFICES ASSUME OnPage', ~missed', ~managing', batches' = {}, \A r \in removes' : r.at = "sent"
             PROVE  Fresh'
  BY DEF FreshOK
<1>1. \A rs, clean : AskedIn(rs, reads', clean) => Fresh'
  BY DEF AskedIn, Fresh
<1>2. UNCHANGED <<at, missed, managing, batches, removes, reads, stored, shown>> => Fresh'
  BY DEF FreshOK, Fresh, OnPage
<1>3. reads \in Seq(Read) /\ removes \subseteq Removal
  BY DEF Types
<1>4. CASE MakeDone
  <2>1. CASE at' = "gone"
    BY <2>1 DEF OnPage
  <2>2. ASSUME NEW s \in {<<>>} \cup {<<t>> : t \in Titles}, Opens("draft", s) PROVE Fresh'
    BY <1>1, <2>2, ShortIs, OpensIs
  <2> QED
    BY <1>4, <2>1, <2>2 DEF MakeDone
<1>5. ASSUME NEW i \in DOMAIN reads, ReadServed(i) PROVE Fresh'
  <2>1. reads # <<>> /\ reads' # <<>> /\ Last(reads').late = Last(reads).late
        /\ (i = Len(reads) => Last(reads').page = stored)
        /\ (i # Len(reads) => Last(reads') = Last(reads))
    BY <1>5, ServedReads
  <2>2. Fresh /\ UNCHANGED <<stored, shown>>
    BY <1>5 DEF ReadServed, FreshOK, OnPage, server, manager
  <2> QED
    BY <2>1, <2>2 DEF Fresh
<1>6. ASSUME NEW i \in DOMAIN reads, ReadArrives(i) PROVE Fresh'
  <2>1. /\ reads[i].at = "served" /\ shown' = Real(reads[i].page) /\ reads' = Ended(i)
        /\ missed' = (~reads[i].clean /\ (missed \/ reads[i].late))
        /\ UNCHANGED <<at, managing, batches, stored>> /\ (removes' = removes \/ removes' = Left)
    BY <1>6 DEF ReadArrives, server, Left
  <2>2. reads[i] \in Read /\ reads # <<>>
    BY <1>3
  <2>3. TitlesOf(shown') = reads[i].page
    BY <2>1, <2>2, RealIs DEF Read
  <2>4. CASE i = Len(reads)
    <3>1. reads[i].page = stored
      <4>1. CASE reads[i].clean
        BY <2>1, <4>1 DEF ReadsOK
      <4>2. CASE ~reads[i].clean
        <5>1. ~missed /\ ~Last(reads).late /\ Last(reads) = reads[i]
          BY <2>1, <2>4, <4>2 DEF Last
        <5>2. \A r \in removes : r.at = "sent"
          BY <1>3, <2>1, SentStays
        <5>3. Fresh
          BY <2>1, <5>1, <5>2 DEF FreshOK, OnPage
        <5> QED
          BY <2>1, <2>2, <5>1, <5>3 DEF Fresh
      <4> QED
        BY <4>1, <4>2
    <3>2. reads' # <<>> => Last(reads').late
      <4>1. reads' \in Seq(Read) /\ \A j \in DOMAIN reads' : reads'[j].late
        BY <1>3, <2>1, <2>4, EndedIs
      <4>2. reads' # <<>> => Len(reads') \in DOMAIN reads'
        BY <4>1
      <4> QED
        BY <4>1, <4>2 DEF Last
    <3> QED
      BY <2>1, <2>3, <3>1, <3>2 DEF Fresh
  <2>5. CASE i # Len(reads)
    <3>1. reads' # <<>> /\ Last(reads') = Last(reads) /\ Len(reads) \in DOMAIN reads
      <4>1. reads' # <<>> /\ Last(reads') = Last(reads)
        BY <1>3, <2>1, <2>5, EndedIs
      <4> QED
        BY <1>3, <2>2, <4>1
    <3>2. CASE reads[i].clean
      <4>1. reads[i].page = stored /\ (Last(reads).late \/ Last(reads).clean)
        BY <2>1, <3>2 DEF ReadsOK
      <4>2. Last(reads).clean /\ Last(reads).at = "served" => Last(reads).page = stored
        BY <3>1 DEF ReadsOK, Last
      <4> QED
        BY <2>1, <2>3, <3>1, <4>1, <4>2 DEF Fresh
    <3>3. CASE ~reads[i].clean
      <4>1. ~missed /\ ~Last(reads).late
        BY <2>1, <2>2, <3>3 DEF ReadsOK
      <4>2. \A r \in removes : r.at = "sent"
        BY <1>3, <2>1, SentStays
      <4>3. Fresh
        BY <2>1, <4>1, <4>2 DEF FreshOK, OnPage
      <4> QED
        BY <2>1, <2>2, <3>1, <4>1, <4>3 DEF Fresh
    <3> QED
      BY <3>2, <3>3
  <2> QED
    BY <2>4, <2>5
<1>7. ASSUME NEW i \in DOMAIN reads, Rendered(i) PROVE Fresh'
  BY <1>1, <1>7, RenderedAsks
<1>8. ASSUME NEW t \in Titles, RemoveItem(t) PROVE Fresh'
  <2>1. reads' = Spoiled(reads) /\ UNCHANGED <<at, missed, managing, batches, stored, shown>>
        /\ removes \subseteq removes'
    BY <1>8 DEF RemoveItem, server
  <2>2. Fresh
    BY <2>1 DEF FreshOK, OnPage
  <2> QED
    BY <2>1, <2>2, SpoiledReads DEF Fresh
<1>9. ASSUME NEW b \in batches, AddServed(b) PROVE FALSE
  BY <1>9 DEF AddServed
<1>10. ASSUME NEW b \in batches, AddAnswered(b) \/ AddFails(b) PROVE Fresh'
  <2>1. Continued(b) /\ UNCHANGED <<missed, at>>
    BY <1>10 DEF AddAnswered, AddFails
  <2>2. b.here
    BY <2>1 DEF HereOK, OnPage
  <2>3. Tail(b.todo) = <<>>
    BY <2>1, ContinuedIs
  <2> QED
    BY <1>1, <2>1, <2>2, <2>3, ContinuedIs
<1>11. ASSUME NEW r \in removes, RemoveServed(r) PROVE FALSE
  <2>1. [r EXCEPT !.at = "served"] \in removes' /\ [r EXCEPT !.at = "served"].at = "served"
    BY <1>3, <1>11 DEF RemoveServed, Removal
  <2> QED
    BY <2>1
<1>12. ASSUME NEW r \in removes, RemoveAnswered(r) PROVE Fresh'
  <2>1. r.here
    BY <1>12 DEF RemoveAnswered, HereOK, OnPage
  <2> QED
    BY <1>1, <1>12, <2>1, RemoveAsks
<1>13. ASSUME NEW r \in removes, ManagerRemoved(r) PROVE FALSE
  BY <1>13 DEF ManagerRemoved, HereOK
<1>14. ASSUME NEW r \in removes, RemoveFails(r) PROVE Fresh'
  <2>1. /\ UNCHANGED <<at, managing, batches, reads, stored, shown>> /\ ~missed
        /\ r.at # "served" /\ removes' = removes \ {r}
    BY <1>14 DEF RemoveFails, server
  <2>2. r.at = "sent"
    BY <1>3, <2>1 DEF Removal
  <2> QED
    BY <2>1, <2>2 DEF FreshOK, Fresh, OnPage
<1>15. CASE Leave \/ Edited
  BY <1>1, <1>15, PageAsks
<1>16. CASE PublishAnswered
  BY <1>1, <1>16, OpensIs DEF PublishAnswered, Types
<1>17. AddSelected => FALSE
  BY DEF AddSelected
<1>18. Discard \/ Others \/ Manage => FALSE
  BY DEF Discard, Others, Manage, OnPage
<1>19. ASSUME NEW i \in DOMAIN reads, ReadFails(i) PROVE FALSE
  BY <1>19 DEF ReadFails
<1>20. CASE Submit \/ MakeServed \/ MakeAnswered \/ MakeFails \/ SafetyTimer \/ Publish
             \/ PublishServed \/ PublishFails
  BY <1>2, <1>20 DEF Submit, MakeServed, MakeAnswered, MakeFails, MakeOnly, SafetyTimer, Publish,
     PublishServed, PublishFails, server, manager
<1>21. ASSUME NEW t \in Titles, Tick(t) PROVE Fresh'
  BY <1>2, <1>21 DEF Tick, server, manager
<1> QED
  BY <1>4, <1>5, <1>6, <1>7, <1>8, <1>9, <1>10, <1>11, <1>12, <1>13, <1>14, <1>15, <1>16, <1>17, <1>18,
     <1>19, <1>20, <1>21 DEF Next, Make, ReadEnds, Add, RemoveEnds, PublishEnds

-----------------------------------------------------------------------------
(* The rows and the list.                                                  *)

\* A list that was just read
LEMMA MatchRead ==
    ASSUME NEW s \in Seq(Titles)
    PROVE  Split(Real(s), <<>>, Len(s)) /\ Matches(Real(s), s, Len(s), FALSE, {})
<1>1. /\ Len(s) \in Nat /\ Len(Real(s)) = Len(s) /\ Len(<<>>) = 0
      /\ \A i \in 1 .. Len(s) : Real(s)[i].title = s[i] /\ ~Real(s)[i].temp
  <2>1. Len(<<>>) = 0 /\ Len(s) \in Nat
    OBVIOUS
  <2>2. Len(Real(s)) = Len(s)
        /\ \A i \in 1 .. Len(s) : Real(s)[i] = [title |-> s[i], temp |-> FALSE]
    BY RealIs
  <2>3. \A i \in 1 .. Len(s) : Real(s)[i].title = s[i] /\ ~Real(s)[i].temp
    <3> DEFINE r == Real(s)
    <3>1. \A i \in 1 .. Len(s) : r[i] = [title |-> s[i], temp |-> FALSE]
      BY <2>2
    <3> HIDE DEF r
    <3>2. ASSUME NEW i \in 1 .. Len(s) PROVE r[i].title = s[i] /\ ~r[i].temp
      <4>1. r[i] = [title |-> s[i], temp |-> FALSE]
        BY <3>1
      <4> QED
        BY <4>1
    <3> QED
      BY <3>2 DEF r
  <2> QED
    BY <2>1, <2>2, <2>3, Zenon
<1>2. Split(Real(s), <<>>, Len(s))
  BY <1>1 DEF Split
<1> DEFINE f == [k \in 1 .. Len(s) |-> k]
<1>3. Matched(Real(s), s, Len(s), FALSE, {}, f)
  BY <1>1 DEF Matched, Kept
<1> QED
  BY <1>2, <1>3 DEF Matches

\* Unsaved rows after those that are saved
LEMMA MatchShown ==
    ASSUME NEW rows \in Seq(Row), NEW s \in Seq(Titles), NEW gone, NEW todo \in Seq(Titles), NEW more,
           more = [i \in DOMAIN todo |-> [title |-> todo[i], temp |-> TRUE]],
           NEW p, p = Len(rows), Split(rows, <<>>, p)
    PROVE  /\ Split(rows \o more, todo, p)
           /\ Matches(rows, s, p, FALSE, gone) => Matches(rows \o more, s, p, FALSE, gone)
<1>1. /\ more \in Seq(Row) /\ Len(more) = Len(todo) /\ Len(todo) \in Nat /\ p \in Nat
      /\ \A i \in 1 .. Len(todo) : more[i] = [title |-> todo[i], temp |-> TRUE]
  BY AddedRowsAre
<1> DEFINE new == rows \o more
<1>2. /\ Len(new) = p + Len(todo) /\ \A i \in 1 .. p : new[i] = rows[i]
      /\ \A i \in 1 .. Len(todo) : new[p + i] = [title |-> todo[i], temp |-> TRUE]
  <2>1. /\ Len(new) = Len(rows) + Len(more)
        /\ \A j \in 1 .. Len(rows) : new[j] = rows[j]
        /\ \A j \in 1 .. Len(more) : new[Len(rows) + j] = more[j]
    BY <1>1, ConcatIs
  <2> HIDE DEF new
  <2> QED
    BY <1>1, <2>1
<1> HIDE DEF new
<1>3. Split(new, todo, p)
  BY <1>1, <1>2 DEF Split
<1>4. ASSUME NEW f, Matched(rows, s, p, FALSE, gone, f) PROVE Matched(new, s, p, FALSE, gone, f)
  <2>1. \A i \in 1 .. p : Kept(new, p, FALSE, gone, i) <=> Kept(rows, p, FALSE, gone, i)
    <3>1. \A i \in 1 .. p : i <= p /\ \A j \in 1 .. i - 1 : j \in 1 .. p
      BY <1>1
    <3> QED
      BY <1>2, <3>1 DEF Kept
  <2>2. \A i \in 1 .. Len(new) : i \notin 1 .. p => ~Kept(new, p, FALSE, gone, i)
    BY <1>1, <1>2 DEF Kept
  <2>3. f \in [1 .. Len(s) -> 1 .. p] /\ \A i \in 1 .. p : i \in 1 .. Len(new)
    BY <1>1, <1>2, <1>4 DEF Matched
  <2>4. f \in [1 .. Len(s) -> 1 .. Len(new)]
    BY <2>3
  <2>5. \A j \in 1 .. Len(s) : new[f[j]].title = s[j] /\ Kept(new, p, FALSE, gone, f[j])
    BY <1>2, <1>4, <2>1, <2>3 DEF Matched
  <2> QED
    BY <1>2, <1>4, <2>1, <2>2, <2>3, <2>4, <2>5 DEF Matched
<1> QED
  BY <1>3, <1>4 DEF Matches, new

\* The first unsaved row is saved on the server
LEMMA MatchServed ==
    ASSUME NEW rows \in Seq(Row), NEW s \in Seq(Titles), NEW gone, NEW p, NEW todo \in Seq(Titles),
           todo # <<>>, Split(rows, todo, p), Matches(rows, s, p, FALSE, gone)
    PROVE  Matches(rows, Append(s, Head(todo)), p, TRUE, gone)
<1>1. PICK f : Matched(rows, s, p, FALSE, gone, f)
  BY DEF Matches
<1>2. /\ p \in Nat /\ Len(s) \in Nat /\ p + 1 \in 1 .. Len(rows) /\ rows[p + 1].title = Head(todo)
  <2>1. Len(todo) \in Nat \ {0} /\ Head(todo) = todo[1] /\ 1 \in 1 .. Len(todo)
    OBVIOUS
  <2>2. p \in Nat /\ Len(rows) = p + Len(todo) /\ rows[p + 1] = [title |-> todo[1], temp |-> TRUE]
    BY <2>1 DEF Split
  <2> QED
    BY <2>1, <2>2
<1>3. /\ Len(Append(s, Head(todo))) = Len(s) + 1
      /\ \A k \in 1 .. Len(s) : Append(s, Head(todo))[k] = s[k]
      /\ Append(s, Head(todo))[Len(s) + 1] = Head(todo)
  BY TodoIs, AppendProperties
<1> DEFINE n == Len(s) + 1
           g == [k \in 1 .. n |-> IF k <= Len(s) THEN f[k] ELSE p + 1]
<1>4. /\ f \in [1 .. Len(s) -> 1 .. Len(rows)]
      /\ \A k \in 1 .. Len(s) : /\ Kept(rows, p, FALSE, gone, f[k]) /\ rows[f[k]].title = s[k]
                                /\ f[k] <= p
  BY <1>1 DEF Matched, Kept
<1>5. /\ \A k \in 1 .. Len(s) : k \in 1 .. n /\ g[k] = f[k]
      /\ n \in 1 .. n /\ g[n] = p + 1 /\ \A k \in 1 .. n : k \in 1 .. Len(s) \/ k = n
  BY <1>2
<1>6. g \in [1 .. n -> 1 .. Len(rows)]
  BY <1>2, <1>4, <1>5
<1> HIDE DEF g
<1>7. \A k, l \in 1 .. n : k < l => g[k] < g[l]
  <2>1. \A k, l \in 1 .. Len(s) : k < l => f[k] < f[l]
    BY <1>1 DEF Matched
  <2>2. \A k \in 1 .. Len(s) : f[k] \in Int /\ f[k] < p + 1
    <3>1. \A k \in 1 .. Len(s) : f[k] \in 1 .. Len(rows) /\ f[k] <= p
      BY <1>4
    <3>2. \A i \in 1 .. Len(rows) : i <= p => i \in Int /\ i < p + 1
      BY <1>2
    <3> QED
      BY <3>1, <3>2
  <2>3. \A k, l \in 1 .. n : k < l => k \in 1 .. Len(s)
    BY <1>2
  <2> HIDE DEF n
  <2> QED
    BY <1>5, <2>1, <2>2, <2>3
<1>8. \A i \in 1 .. Len(rows) : Kept(rows, p, TRUE, gone, i) <=> Kept(rows, p, FALSE, gone, i) \/ i = p + 1
  BY <1>2 DEF Kept
<1>9. Matched(rows, Append(s, Head(todo)), p, TRUE, gone, g)
  BY <1>1, <1>2, <1>3, <1>4, <1>5, <1>6, <1>7, <1>8 DEF Matched
<1> QED
  BY <1>9 DEF Matches

\* The rows after the first unsaved one
LEMMA NextRows ==
    ASSUME NEW p \in Nat, NEW n \in Nat, NEW k \in 1 .. n - 1
    PROVE  /\ (p + 1) + k = p + (k + 1) /\ k + 1 \in 1 .. n
           /\ p + (k + 1) \in 1 .. p + n /\ p + (k + 1) # p + 1
OBVIOUS

\* The answer: the row is a saved one
LEMMA MatchSaved ==
    ASSUME NEW rows \in Seq(Row), NEW s \in Seq(Titles), NEW gone, NEW p, NEW todo \in Seq(Titles),
           todo # <<>>, Split(rows, todo, p), NEW new \in Seq(Row), Len(new) = Len(rows),
           new[p + 1] = [title |-> Head(todo), temp |-> FALSE],
           \A i \in 1 .. Len(rows) : i # p + 1 => new[i] = rows[i]
    PROVE  /\ Split(new, Tail(todo), p + 1)
           /\ (\A t \in gone : \E i \in 1 .. p : rows[i].title = t) /\ Matches(rows, s, p, TRUE, gone)
                => Matches(new, s, p + 1, FALSE, gone)
<1>1. /\ p \in Nat /\ Len(todo) \in Nat /\ p + 1 \in 1 .. Len(rows) /\ Len(rows) = p + Len(todo)
      /\ rows[p + 1] = [title |-> Head(todo), temp |-> TRUE]
      /\ \A i \in 1 .. p : ~rows[i].temp /\ i \in 1 .. Len(rows) /\ i # p + 1
      /\ Len(Tail(todo)) = Len(todo) - 1
      /\ \A k \in 1 .. Len(todo) - 1 : Tail(todo)[k] = todo[k + 1]
  <2>1. Len(todo) \in Nat \ {0} /\ Head(todo) = todo[1] /\ 1 \in 1 .. Len(todo)
    OBVIOUS
  <2> QED
    BY <2>1, TodoIs DEF Split
<1>2. Split(new, Tail(todo), p + 1)
  <2>1. \A k \in 1 .. Len(todo) - 1 :
          new[(p + 1) + k] = [title |-> Tail(todo)[k], temp |-> TRUE]
    <3>1. ASSUME NEW k \in 1 .. Len(todo) - 1
          PROVE  /\ (p + 1) + k = p + (k + 1) /\ k + 1 \in 1 .. Len(todo)
                 /\ p + (k + 1) \in 1 .. Len(rows) /\ p + (k + 1) # p + 1
      <4> DEFINE n == Len(todo)
      <4>1. p \in Nat /\ n \in Nat /\ Len(rows) = p + n /\ k \in 1 .. n - 1
        BY <1>1
      <4> HIDE DEF n
      <4>2. /\ (p + 1) + k = p + (k + 1) /\ k + 1 \in 1 .. n
            /\ p + (k + 1) \in 1 .. p + n /\ p + (k + 1) # p + 1
        BY <4>1, NextRows, Zenon
      <4> QED
        BY <4>1, <4>2, Zenon DEF n
    <3>2. \A k \in 1 .. Len(todo) : rows[p + k] = [title |-> todo[k], temp |-> TRUE]
      BY DEF Split
    <3> QED
      BY <1>1, <3>1, <3>2
  <2>2. \A i \in 1 .. p + 1 : ~new[i].temp
    <3>1. \A i \in 1 .. p + 1 : i \in 1 .. p \/ i = p + 1
      BY <1>1
    <3> QED
      BY <1>1, <3>1
  <2>3. p + 1 \in Nat /\ Len(new) = (p + 1) + Len(Tail(todo))
    BY <1>1
  <2> QED
    BY <1>1, <2>1, <2>2, <2>3 DEF Split
<1>3. ASSUME \A t \in gone : \E i \in 1 .. p : rows[i].title = t,
             NEW f, Matched(rows, s, p, TRUE, gone, f)
      PROVE  Matched(new, s, p + 1, FALSE, gone, f)
  <2>1. \A i \in 1 .. Len(rows) : new[i].title = rows[i].title
    <3>1. new[p + 1].title = Head(todo) /\ rows[p + 1].title = Head(todo)
      BY <1>1
    <3> QED
      BY <3>1
  <2>2. \A i \in 1 .. Len(rows) : Kept(new, p + 1, FALSE, gone, i) <=> Kept(rows, p, TRUE, gone, i)
    <3>1. ASSUME NEW i \in 1 .. Len(rows), i <= p
          PROVE  Kept(new, p + 1, FALSE, gone, i) <=> Kept(rows, p, TRUE, gone, i)
      <4>1. i <= p + 1 /\ \A j \in 1 .. i - 1 : j \in 1 .. Len(rows)
        BY <1>1, <3>1
      <4> QED
        BY <2>1, <3>1, <4>1 DEF Kept
    <3>2. Kept(new, p + 1, FALSE, gone, p + 1) /\ Kept(rows, p, TRUE, gone, p + 1)
      <4>1. Kept(rows, p, TRUE, gone, p + 1)
        BY <1>1 DEF Kept
      <4>2. new[p + 1].title \in gone => \E j \in 1 .. (p + 1) - 1 : new[j].title = new[p + 1].title
        BY <1>1, <1>3, <2>1
      <4> QED
        BY <1>1, <4>1, <4>2 DEF Kept
    <3>3. ASSUME NEW i \in 1 .. Len(rows), i > p + 1
          PROVE  ~Kept(new, p + 1, FALSE, gone, i) /\ ~Kept(rows, p, TRUE, gone, i)
      BY <1>1, <3>3 DEF Kept
    <3>4. \A i \in 1 .. Len(rows) : i <= p \/ i = p + 1 \/ i > p + 1
      BY <1>1
    <3> QED
      BY <3>1, <3>2, <3>3, <3>4
  <2> QED
    BY <1>3, <2>1, <2>2 DEF Matched
<1> QED
  BY <1>2, <1>3 DEF Matches

\* The server refuses it: the row goes
LEMMA MatchRefused ==
    ASSUME NEW rows \in Seq(Row), NEW s \in Seq(Titles), NEW gone, NEW p, NEW todo \in Seq(Titles),
           todo # <<>>, Split(rows, todo, p), NEW new, new = RemoveAt(rows, p + 1)
    PROVE  /\ Split(new, Tail(todo), p)
           /\ Matches(rows, s, p, FALSE, gone) => Matches(new, s, p, FALSE, gone)
<1>1. p \in Nat /\ Len(todo) \in Nat \ {0} /\ Len(rows) = p + Len(todo) /\ p + 1 \in 1 .. Len(rows)
  <2>1. Len(todo) \in Nat \ {0}
    OBVIOUS
  <2> QED
    BY <2>1 DEF Split
<1>2. Len(Tail(todo)) = Len(todo) - 1 /\ \A k \in 1 .. Len(todo) - 1 : Tail(todo)[k] = todo[k + 1]
  BY TodoIs
<1>3. /\ Len(new) = Len(rows) - 1
      /\ \A j \in 1 .. Len(rows) - 1 : new[j] = IF j < p + 1 THEN rows[j] ELSE rows[j + 1]
  BY <1>1, RemoveAtIs
<1>4. Len(new) = p + Len(Tail(todo)) /\ \A i \in 1 .. p : i \in 1 .. Len(new) /\ new[i] = rows[i]
  <2>1. Len(new) = p + Len(Tail(todo)) /\ Len(new) = Len(rows) - 1
    BY <1>1, <1>2, <1>3
  <2>2. \A i \in 1 .. p : i \in 1 .. Len(rows) - 1 /\ i < p + 1
    BY <1>1
  <2> QED
    BY <1>3, <2>1, <2>2
<1>5. \A k \in 1 .. Len(todo) - 1 : new[p + k] = [title |-> Tail(todo)[k], temp |-> TRUE]
  <2>1. ASSUME NEW k \in 1 .. Len(todo) - 1
        PROVE  /\ p + k \in 1 .. Len(rows) - 1 /\ ~(p + k < p + 1) /\ (p + k) + 1 = p + (k + 1)
               /\ k + 1 \in 1 .. Len(todo)
    BY <1>1
  <2>2. \A k \in 1 .. Len(todo) : rows[p + k] = [title |-> todo[k], temp |-> TRUE]
    BY DEF Split
  <2> QED
    BY <1>2, <1>3, <2>1, <2>2
<1>6. Split(new, Tail(todo), p)
  BY <1>1, <1>2, <1>4, <1>5 DEF Split
<1>7. ASSUME NEW f, Matched(rows, s, p, FALSE, gone, f) PROVE Matched(new, s, p, FALSE, gone, f)
  <2>1. \A i \in 1 .. p : Kept(new, p, FALSE, gone, i) <=> Kept(rows, p, FALSE, gone, i)
    <3>1. \A i \in 1 .. p : i <= p /\ \A j \in 1 .. i - 1 : j \in 1 .. p
      BY <1>1
    <3> QED
      BY <1>4, <3>1 DEF Kept
  <2>2. \A i \in 1 .. Len(new) : i \notin 1 .. p => ~Kept(new, p, FALSE, gone, i)
    BY <1>1, <1>4 DEF Kept
  <2>3. f \in [1 .. Len(s) -> 1 .. p] /\ \A i \in 1 .. p : i \in 1 .. Len(rows)
    BY <1>1, <1>7 DEF Matched, Kept
  <2> QED
    BY <1>4, <1>7, <2>1, <2>2, <2>3 DEF Matched
<1> QED
  BY <1>6, <1>7 DEF Matches

\* A saved title is removed on the server: its first row stays behind
LEMMA MatchTaken ==
    ASSUME NEW rows \in Seq(Row), NEW s \in Seq(Titles), Once(s), NEW gone, NEW added \in BOOLEAN,
           NEW p \in Nat, p <= Len(rows), Matches(rows, s, p, added, gone),
           NEW k \in 1 .. Len(s), s[k] \notin gone, \E i \in 1 .. p : rows[i].title = s[k]
    PROVE  Matches(rows, RemoveAt(s, k), p, added, gone \cup {s[k]})
<1>1. PICK f : Matched(rows, s, p, added, gone, f)
  BY DEF Matches
<1>2. Len(s) \in Nat /\ Len(rows) \in Nat /\ k \in Int /\ DOMAIN s = 1 .. Len(s)
  OBVIOUS
<1>3. \A i \in 1 .. p : i \in 1 .. Len(rows) /\ i <= p
  BY <1>2
<1>4. ASSUME NEW i \in 1 .. p, rows[i].title = s[k] PROVE i = f[k]
  <2>1. Kept(rows, p, added, gone, i)
    BY <1>3, <1>4 DEF Kept
  <2>2. PICK m \in 1 .. Len(s) : f[m] = i
    BY <1>1, <1>3, <2>1 DEF Matched
  <2>3. s[m] = s[k]
    BY <1>1, <1>4, <2>2 DEF Matched
  <2> QED
    BY <1>2, <2>2, <2>3 DEF Once
<1>5. f[k] \in 1 .. p /\ rows[f[k]].title = s[k]
  BY <1>4
<1> DEFINE n == Len(s) - 1
           r == RemoveAt(s, k)
           pos(j) == IF j < k THEN j ELSE j + 1
           g == [j \in 1 .. n |-> f[pos(j)]]
           more == gone \cup {s[k]}
<1>6. Len(r) = n /\ \A j \in 1 .. n : r[j] = s[pos(j)]
  BY RemoveAtIs
<1>7. /\ \A j \in 1 .. n : pos(j) \in 1 .. Len(s) /\ pos(j) # k
      /\ \A i, j \in 1 .. n : i < j => pos(i) < pos(j)
      /\ \A m \in 1 .. Len(s) : m # k => \E j \in 1 .. n : pos(j) = m
  <2>1. /\ \A j \in 1 .. n : pos(j) \in 1 .. Len(s) /\ pos(j) # k
        /\ \A i, j \in 1 .. n : i < j => pos(i) < pos(j)
    BY <1>2
  <2>2. ASSUME NEW m \in 1 .. Len(s), m < k PROVE m \in 1 .. n /\ pos(m) = m
    BY <1>2, <2>2
  <2>3. ASSUME NEW m \in 1 .. Len(s), m > k PROVE m - 1 \in 1 .. n /\ pos(m - 1) = m
    BY <1>2, <2>3
  <2>4. \A m \in 1 .. Len(s) : m # k => m < k \/ m > k
    BY <1>2
  <2> HIDE DEF pos, n
  <2> QED
    BY <2>1, <2>2, <2>3, <2>4
<1> HIDE DEF pos, r, n
<1>8. \A m \in 1 .. Len(s) : m # k => f[m] # f[k]
  <2>1. \A m \in 1 .. Len(s) : f[m] \in Int /\ (m # k => m < k \/ k < m)
    BY <1>1, <1>2 DEF Matched
  <2> QED
    BY <1>1, <2>1 DEF Matched
<1>9. \A i \in 1 .. Len(rows) : Kept(rows, p, added, more, i) <=> Kept(rows, p, added, gone, i) /\ i # f[k]
  <2>1. ASSUME NEW i \in 1 .. Len(rows), i <= p, rows[i].title # s[k]
        PROVE  Kept(rows, p, added, more, i) <=> Kept(rows, p, added, gone, i) /\ i # f[k]
    BY <1>5, <2>1 DEF Kept
  <2>2. ASSUME NEW i \in 1 .. Len(rows), i <= p, rows[i].title = s[k]
        PROVE  i = f[k] /\ ~Kept(rows, p, added, more, i)
    <3>1. i \in 1 .. p /\ \A j \in 1 .. i - 1 : j \in 1 .. p /\ j # i
      BY <1>2, <2>2
    <3>2. i = f[k] /\ \A j \in 1 .. i - 1 : rows[j].title # s[k]
      BY <1>4, <2>2, <3>1
    <3> QED
      BY <2>2, <3>2 DEF Kept
  <2>3. ASSUME NEW i \in 1 .. Len(rows), ~(i <= p)
        PROVE  Kept(rows, p, added, more, i) <=> Kept(rows, p, added, gone, i) /\ i # f[k]
    BY <1>2, <1>5, <2>3 DEF Kept
  <2> HIDE DEF more
  <2> QED
    BY <2>1, <2>2, <2>3
<1> HIDE DEF more
<1>10. /\ g \in [1 .. n -> 1 .. Len(rows)]
       /\ \A i, j \in 1 .. n : i < j => g[i] < g[j]
       /\ \A j \in 1 .. n : rows[g[j]].title = r[j] /\ Kept(rows, p, added, more, g[j])
  <2>1. /\ f \in [1 .. Len(s) -> 1 .. Len(rows)]
        /\ \A i, j \in 1 .. Len(s) : i < j => f[i] < f[j]
        /\ \A j \in 1 .. Len(s) : rows[f[j]].title = s[j] /\ Kept(rows, p, added, gone, f[j])
    BY <1>1 DEF Matched
  <2>2. \A j \in 1 .. n : g[j] = f[pos(j)] /\ pos(j) \in 1 .. Len(s) /\ pos(j) # k
    BY <1>7
  <2>3. g \in [1 .. n -> 1 .. Len(rows)]
    BY <2>1, <2>2
  <2> HIDE DEF g
  <2>4. \A i, j \in 1 .. n : i < j => g[i] < g[j]
    BY <1>7, <2>1, <2>2
  <2>5. ASSUME NEW j \in 1 .. n PROVE rows[g[j]].title = r[j] /\ Kept(rows, p, added, more, g[j])
    <3>1. g[j] \in 1 .. Len(rows) /\ g[j] # f[k] /\ Kept(rows, p, added, gone, g[j])
      BY <1>8, <2>1, <2>2
    <3> QED
      BY <1>6, <1>9, <2>1, <2>2, <3>1
  <2> QED
    BY <2>3, <2>4, <2>5
<1>11. ASSUME NEW i \in 1 .. Len(rows), Kept(rows, p, added, more, i) PROVE \E j \in 1 .. n : g[j] = i
  <2>1. Kept(rows, p, added, gone, i) /\ i # f[k]
    BY <1>9, <1>11
  <2>2. PICK m \in 1 .. Len(s) : f[m] = i
    BY <1>1, <2>1 DEF Matched
  <2> QED
    BY <1>7, <2>1, <2>2
<1> HIDE DEF g
<1>12. Matched(rows, r, p, added, more, g)
  BY <1>6, <1>10, <1>11 DEF Matched
<1> QED
  BY <1>12 DEF Matches, r, more

\* The answer: the row goes too
LEMMA MatchDropped ==
    ASSUME NEW rows \in Seq(Row), NEW s \in Seq(Titles), NEW gone, NEW added \in BOOLEAN,
           NEW p, NEW todo \in Seq(Titles), Split(rows, todo, p), NEW q \in 1 .. p,
           NEW t, t \in gone, rows[q].title = t, \A j \in 1 .. q - 1 : rows[j].title # t,
           NEW new, new = RemoveAt(rows, q)
    PROVE  /\ Split(new, todo, p - 1)
           /\ Matches(rows, s, p, added, gone) => Matches(new, s, p - 1, added, gone \ {t})
<1> DEFINE n == Len(rows)
           less == gone \ {t}
           inv(i) == IF i < q THEN i ELSE i - 1
           pos(j) == IF j < q THEN j ELSE j + 1
<1>1. p \in Nat /\ Len(todo) \in Nat /\ n = p + Len(todo) /\ q \in 1 .. n /\ q \in Int /\ q <= p
  <2>1. p \in Nat /\ Len(todo) \in Nat /\ n = p + Len(todo)
    BY DEF Split
  <2> QED
    BY <2>1
<1>2. Len(new) = n - 1 /\ \A j \in 1 .. n - 1 : new[j] = rows[pos(j)]
  BY <1>1, RemoveAtIs
<1> HIDE DEF n
<1>3. ASSUME NEW i \in 1 .. n, i # q
      PROVE  /\ inv(i) \in 1 .. n - 1 /\ pos(inv(i)) = i
             /\ (i <= p <=> inv(i) <= p - 1) /\ (i = p + 1 <=> inv(i) = (p - 1) + 1)
  BY <1>1, <1>3
<1>4. ASSUME NEW j \in 1 .. n - 1
      PROVE  pos(j) \in 1 .. n /\ pos(j) # q /\ inv(pos(j)) = j
  BY <1>1, <1>4
<1>5. ASSUME NEW i \in 1 .. n, NEW j \in 1 .. n, i # q, j # q
      PROVE  i < j <=> inv(i) < inv(j)
  BY <1>1, <1>5
<1>6. Split(new, todo, p - 1)
  <2>1. p - 1 \in Nat /\ Len(new) = (p - 1) + Len(todo)
    BY <1>1, <1>2
  <2>2. ASSUME NEW i \in 1 .. p - 1 PROVE ~new[i].temp
    <3>1. i \in 1 .. n - 1 /\ pos(i) \in 1 .. p
      BY <1>1, <2>2
    <3> QED
      BY <1>2, <3>1 DEF Split
  <2>3. ASSUME NEW k \in 1 .. Len(todo) PROVE new[(p - 1) + k] = [title |-> todo[k], temp |-> TRUE]
    <3>1. (p - 1) + k \in 1 .. n - 1 /\ pos((p - 1) + k) = p + k
      BY <1>1, <2>3
    <3> QED
      BY <1>2, <3>1 DEF Split
  <2> QED
    BY <2>1, <2>2, <2>3 DEF Split
<1> HIDE DEF inv, pos
<1>7. \A i \in 1 .. n : i # q => new[inv(i)] = rows[i]
  BY <1>2, <1>3
<1>8. ASSUME NEW i \in 1 .. n, i # q
      PROVE  Kept(new, p - 1, added, less, inv(i)) <=> Kept(rows, p, added, gone, i)
  <2>1. CASE i <= p /\ rows[i].title = t
    <3>1. q \in 1 .. i - 1
      <4>1. i \notin 1 .. q - 1
        BY <2>1
      <4> QED
        BY <1>1, <1>8, <4>1
    <3> QED
      BY <1>3, <1>7, <1>8, <2>1, <3>1 DEF Kept
  <2>2. CASE i <= p /\ rows[i].title # t
    <3>1. (\E j \in 1 .. i - 1 : rows[j].title = rows[i].title)
            => \E j \in 1 .. inv(i) - 1 : new[j].title = rows[i].title
      <4>1. ASSUME NEW j \in 1 .. i - 1, rows[j].title = rows[i].title
            PROVE  inv(j) \in 1 .. inv(i) - 1 /\ new[inv(j)].title = rows[i].title
        <5>1. j \in 1 .. n /\ j < i /\ i \in 1 .. n
          BY <1>1
        <5>2. j # q
          BY <2>2, <4>1
        <5>3. inv(j) < inv(i) /\ inv(j) \in 1 .. n - 1 /\ inv(i) \in 1 .. n - 1
          BY <1>3, <1>5, <1>8, <5>1, <5>2
        <5>4. new[inv(j)] = rows[j]
          BY <1>7, <5>1, <5>2
        <5>5. inv(j) \in 1 .. inv(i) - 1
          BY <1>1, <5>3
        <5> QED
          BY <4>1, <5>4, <5>5
      <4> QED
        BY <4>1
    <3>2. (\E j \in 1 .. inv(i) - 1 : new[j].title = rows[i].title)
            => \E j \in 1 .. i - 1 : rows[j].title = rows[i].title
      <4>1. ASSUME NEW j \in 1 .. inv(i) - 1, new[j].title = rows[i].title
            PROVE  pos(j) \in 1 .. i - 1 /\ rows[pos(j)].title = rows[i].title
        <5>1. inv(i) \in 1 .. n - 1
          BY <1>3, <1>8
        <5>2. j \in 1 .. n - 1 /\ j < inv(i)
          BY <1>1, <5>1
        <5>3. pos(j) \in 1 .. n /\ pos(j) # q /\ inv(pos(j)) = j
          BY <1>4, <5>2
        <5>4. pos(j) < i
          BY <1>5, <1>8, <5>2, <5>3
        <5>5. pos(j) \in 1 .. i - 1
          BY <1>1, <5>3, <5>4
        <5> QED
          BY <1>2, <4>1, <5>2, <5>5
      <4> QED
        BY <4>1
    <3>3. new[inv(i)] = rows[i] /\ inv(i) <= p - 1
      BY <1>3, <1>7, <1>8, <2>2
    <3> QED
      BY <2>2, <3>1, <3>2, <3>3 DEF Kept
  <2>3. CASE ~(i <= p)
    BY <1>3, <1>8, <2>3 DEF Kept
  <2> QED
    BY <2>1, <2>2, <2>3
<1>9. ~Kept(rows, p, added, gone, q)
  BY <1>1 DEF Kept
<1> HIDE DEF less
<1>10. ASSUME NEW f, Matched(rows, s, p, added, gone, f)
       PROVE  Matched(new, s, p - 1, added, less, [k \in 1 .. Len(s) |-> inv(f[k])])
  <2> DEFINE g == [k \in 1 .. Len(s) |-> inv(f[k])]
  <2>1. /\ \A k \in 1 .. Len(s) : /\ f[k] \in 1 .. n /\ f[k] # q /\ rows[f[k]].title = s[k]
                                  /\ Kept(rows, p, added, gone, f[k])
        /\ \A k, l \in 1 .. Len(s) : k < l => f[k] < f[l]
        /\ \A i \in 1 .. n : Kept(rows, p, added, gone, i) => \E k \in 1 .. Len(s) : f[k] = i
    BY <1>9, <1>10 DEF Matched, n
  <2>2. \A k \in 1 .. Len(s) : g[k] = inv(f[k])
    OBVIOUS
  <2>3. g \in [1 .. Len(s) -> 1 .. n - 1]
    BY <1>3, <2>1
  <2> HIDE DEF g
  <2>4. \A k, l \in 1 .. Len(s) : k < l => g[k] < g[l]
    <3>1. ASSUME NEW k \in 1 .. Len(s), NEW l \in 1 .. Len(s), k < l PROVE g[k] < g[l]
      <4>1. f[k] \in 1 .. n /\ f[l] \in 1 .. n /\ f[k] # q /\ f[l] # q /\ f[k] < f[l]
        BY <2>1, <3>1
      <4>2. inv(f[k]) < inv(f[l])
        BY <1>5, <4>1
      <4> QED
        BY <2>2, <4>2
    <3> QED
      BY <3>1
  <2>5. \A k \in 1 .. Len(s) : new[g[k]].title = s[k] /\ Kept(new, p - 1, added, less, g[k])
    BY <1>7, <1>8, <2>1, <2>2
  <2>6. ASSUME NEW j \in 1 .. n - 1, Kept(new, p - 1, added, less, j) PROVE \E k \in 1 .. Len(s) : g[k] = j
    <3>1. pos(j) \in 1 .. n /\ pos(j) # q /\ inv(pos(j)) = j
      BY <1>4
    <3>2. Kept(rows, p, added, gone, pos(j))
      BY <1>8, <2>6, <3>1
    <3>3. PICK k \in 1 .. Len(s) : f[k] = pos(j)
      BY <2>1, <3>1, <3>2
    <3> QED
      BY <2>2, <3>1, <3>3
  <2>7. Matched(new, s, p - 1, added, less, g)
    BY <1>2, <2>3, <2>4, <2>5, <2>6 DEF Matched
  <2> QED
    BY <2>7 DEF g
<1> QED
  BY <1>6, <1>10 DEF Matches, less

\* Two sequences of the same elements, matched in order without a gap
InOrder(m, n, f) ==
    /\ f \in [1 .. m -> 1 .. n]
    /\ \A k, l \in 1 .. m : k < l => f[k] < f[l]
    /\ \A i \in 1 .. n : \E k \in 1 .. m : f[k] = i
LEMMA InOrderIs ==
    ASSUME NEW m \in Nat, NEW n \in Nat, NEW f, InOrder(m, n, f)
    PROVE  m = n /\ \A k \in 1 .. m : f[k] = k
<1> USE DEF InOrder
<1> DEFINE bad == {k \in 1 .. m : f[k] # k}
<1>1. \A k \in 1 .. m : f[k] = k
  <2> SUFFICES ASSUME bad # {} PROVE FALSE
    OBVIOUS
  <2>1. bad \subseteq Nat
    OBVIOUS
  <2> DEFINE k == CHOOSE i \in bad : \A j \in bad : i <= j
  <2>2. k \in bad /\ \A j \in bad : k <= j
    <3> HIDE DEF bad
    <3> QED
      BY <2>1, FirstOf
  <2> HIDE DEF k
  <2>3. k \in 1 .. m /\ f[k] # k /\ f[k] \in 1 .. n /\ \A j \in 1 .. k - 1 : j \in 1 .. m /\ f[j] = j
    <3>1. \A j \in 1 .. k - 1 : j \in 1 .. m /\ ~(k <= j)
      BY <2>2
    <3> QED
      BY <2>2, <3>1
  <2>4. k \in Nat /\ f[k] \in Nat
    BY <2>3
  <2>5. CASE f[k] < k
    <3>1. f[k] \in 1 .. k - 1
      BY <2>3, <2>4, <2>5
    <3>2. f[f[k]] = f[k] /\ f[k] \in 1 .. m
      BY <2>3, <3>1
    <3> QED
      BY <2>3, <2>4, <2>5, <3>2
  <2>6. CASE f[k] > k
    <3>1. k \in 1 .. n
      BY <2>3, <2>4, <2>6
    <3>2. PICK l \in 1 .. m : f[l] = k
      BY <3>1
    <3>3. l < k \/ l = k \/ k < l
      BY <2>4
    <3>4. CASE l < k
      <4>1. l \in 1 .. k - 1
        BY <2>4, <3>4
      <4> QED
        BY <2>3, <2>4, <3>2, <3>4, <4>1
    <3>5. CASE k < l
      BY <2>3, <2>4, <2>6, <3>2, <3>5
    <3> QED
      BY <2>4, <2>6, <3>2, <3>3, <3>4, <3>5
  <2> QED
    BY <2>3, <2>4, <2>5, <2>6
<1>2. m <= n
  <2>1. m # 0 => m \in 1 .. m /\ f[m] \in 1 .. n
    OBVIOUS
  <2> QED
    BY <1>1, <2>1
<1>3. n <= m
  <2>1. n # 0 => n \in 1 .. n /\ \E k \in 1 .. m : f[k] = n
    OBVIOUS
  <2> QED
    BY <1>1, <2>1
<1> QED
  BY <1>1, <1>2, <1>3

\* With nothing under way the rows are the list
LEMMA MatchAll ==
    ASSUME NEW rows \in Seq(Row), NEW s \in Seq(Titles), NEW p, Split(rows, <<>>, p),
           Matches(rows, s, p, FALSE, {})
    PROVE  TitlesOf(rows) = s
<1>1. PICK f : Matched(rows, s, p, FALSE, {}, f)
  BY DEF Matches
<1>2. Len(rows) = p /\ p \in Nat /\ Len(s) \in Nat /\ DOMAIN rows = 1 .. Len(rows)
  <2>1. Len(<<>>) = 0 /\ Len(rows) \in Nat
    OBVIOUS
  <2> QED
    BY <2>1 DEF Split
<1>3. \A i \in 1 .. p : Kept(rows, p, FALSE, {}, i)
  BY <1>2 DEF Kept
<1>4. Len(s) = p /\ \A k \in 1 .. Len(s) : f[k] = k
  <2>1. InOrder(Len(s), p, f)
    BY <1>1, <1>2, <1>3 DEF Matched, InOrder
  <2>2. Len(s) \in Nat /\ p \in Nat
    BY <1>2
  <2> QED
    BY <2>1, <2>2, InOrderIs
<1>5. \A k \in 1 .. Len(s) : rows[k].title = s[k]
  BY <1>1, <1>4 DEF Matched
<1>6. TitlesOf(rows) = [i \in 1 .. Len(s) |-> s[i]]
  BY <1>2, <1>4, <1>5 DEF TitlesOf
<1> QED
  BY <1>6

-----------------------------------------------------------------------------
(* A page without a doubt.                                                 *)

\* The titles still to be saved, when one batch is, and when none is
LEMMA TodoOf ==
    /\ batches' = {} => Todo' = <<>> /\ Added' = FALSE
    /\ \A b : batches = {b} => Todo = b.todo /\ Added = (b.at = "served")
    /\ \A b : batches' = {b} => Todo' = b.todo /\ Added' = (b.at = "served")
<1>1. \A b : (CHOOSE c \in {b} : TRUE) = b
  OBVIOUS
<1> QED
  BY <1>1 DEF Todo, Added

\* What SteadyOK comes to
LEMMA SteadyIs ==
    ASSUME NEW todo \in Seq(Titles), Todo' = todo, NEW p,
           \A b \in batches' : batches' = {b} /\ Once(b.todo),
           Split(shown', todo, p),
           \A r \in removes' : r.from = "page" => \E i \in 1 .. p : shown'[i].title = r.title,
           (\A r \in removes' : r.from = "manager" => r.at = "sent")
             => Matches(shown', stored', p, Added', GoneTitles')
    PROVE  SteadyOK'
<1>1. Saved' = p
  <2>1. p \in Nat /\ Len(todo) \in Nat /\ Len(shown') = p + Len(todo)
    BY DEF Split
  <2>2. Saved' = Len(shown') - Len(todo)
    BY DEF Saved
  <2> QED
    BY <2>1, <2>2
<1> QED
  BY <1>1 DEF SteadyOK

\* The rows were just read
LEMMA SteadyRead ==
    ASSUME stored' \in Seq(Titles), shown' = Real(stored'), batches' = {}, removes' = {}
    PROVE  SteadyOK'
<1>1. Todo' = <<>> /\ Added' = FALSE /\ GoneTitles' = {} /\ <<>> \in Seq(Titles)
  BY TodoOf DEF GoneTitles
<1>2. Split(shown', <<>>, Len(stored')) /\ Matches(shown', stored', Len(stored'), FALSE, {})
  BY MatchRead
<1> QED
  BY <1>1, <1>2, SteadyIs

\* Nothing changes but removals that are asked for, refused, or left behind
LEMMA SteadyStays ==
    ASSUME SteadyOK, UNCHANGED <<stored, shown, batches>>, OnPage' => OnPage, doubt => doubt',
           \A q \in removes' :
             \/ q.at = "sent" /\ (q.from = "page" => \E i \in 1 .. Saved : shown[i].title = q.title)
             \/ \E r \in removes : q.title = r.title /\ q.from = r.from /\ q.at = r.at,
           \A r \in removes : r.at # "sent" =>
             \E q \in removes' : q.title = r.title /\ q.from = r.from /\ q.at = r.at
    PROVE  SteadyOK'
<1> SUFFICES ASSUME OnPage', ~doubt'
             PROVE  SteadyOK'
  BY DEF SteadyOK
<1>1. OnPage /\ ~doubt
  OBVIOUS
<1>2. Todo' = Todo /\ Added' = Added /\ Saved' = Saved
  BY DEF Todo, Added, Saved
<1>3. GoneTitles' = GoneTitles
  BY DEF GoneTitles
<1>4. (\A q \in removes' : q.from = "manager" => q.at = "sent")
        => \A r \in removes : r.from = "manager" => r.at = "sent"
  OBVIOUS
<1>5. \A q \in removes' : q.from = "page" => \E i \in 1 .. Saved : shown[i].title = q.title
  BY <1>1 DEF SteadyOK
<1> QED
  BY <1>1, <1>2, <1>3, <1>4, <1>5 DEF SteadyOK

LEMMA SteadyLeft ==
    ASSUME SteadyOK, removes \subseteq Removal, UNCHANGED <<stored, shown, batches, at>>,
           removes' = Left, doubt => doubt'
    PROVE  SteadyOK'
<1>1. \A q \in removes' : \E r \in removes : q.title = r.title /\ q.from = r.from /\ q.at = r.at
  BY LeftIs
<1>2. ASSUME NEW r \in removes
      PROVE  \E q \in removes' : q.title = r.title /\ q.from = r.from /\ q.at = r.at
  <2> DEFINE q == [r EXCEPT !.here = r.here /\ r.from # "manager"]
  <2>1. q \in removes'
    BY DEF Left
  <2>2. q.title = r.title /\ q.from = r.from /\ q.at = r.at
    BY DEF Removal
  <2> QED
    BY <2>1, <2>2
<1> QED
  BY <1>1, <1>2, SteadyStays DEF OnPage

\* The row of the title that is being saved is the first unsaved one
LEMMA UnsavedIs ==
    ASSUME shown \in Seq(Row), NEW todo \in Seq(Titles), todo # <<>>, Once(todo), NEW p,
           Split(shown, todo, p)
    PROVE  Unsaved(Head(todo)) = {p + 1}
<1>1. /\ p \in Nat /\ Len(todo) \in Nat \ {0} /\ Len(shown) = p + Len(todo)
      /\ DOMAIN shown = 1 .. Len(shown) /\ DOMAIN todo = 1 .. Len(todo) /\ Head(todo) = todo[1]
  <2>1. /\ Len(todo) \in Nat \ {0} /\ DOMAIN shown = 1 .. Len(shown)
        /\ DOMAIN todo = 1 .. Len(todo) /\ Head(todo) = todo[1]
    OBVIOUS
  <2> QED
    BY <2>1 DEF Split
<1>2. \A i \in 1 .. p : ~shown[i].temp
  BY DEF Split
<1>3. \A k \in 1 .. Len(todo) : shown[p + k] = [title |-> todo[k], temp |-> TRUE]
  BY DEF Split
<1>4. p + 1 \in DOMAIN shown /\ 1 \in 1 .. Len(todo)
  BY <1>1
<1>5. p + 1 \in Unsaved(Head(todo))
  BY <1>1, <1>3, <1>4 DEF Unsaved
<1>6. ASSUME NEW i \in Unsaved(Head(todo)) PROVE i = p + 1
  <2>1. i \in 1 .. Len(shown) /\ shown[i] = [title |-> Head(todo), temp |-> TRUE]
    BY <1>1 DEF Unsaved
  <2>2. shown[i].temp /\ shown[i].title = Head(todo)
    BY <2>1
  <2>3. i \notin 1 .. p
    BY <1>2, <2>2
  <2> DEFINE k == i - p
  <2>4. k \in 1 .. Len(todo) /\ p + k = i
    BY <1>1, <2>1, <2>3
  <2> HIDE DEF k
  <2>5. shown[i] = [title |-> todo[k], temp |-> TRUE]
    BY <1>3, <2>4
  <2>6. todo[k] = todo[1]
    BY <1>1, <2>2, <2>5
  <2>7. k = 1
    BY <1>1, <1>4, <2>4, <2>6 DEF Once
  <2> QED
    BY <2>4, <2>7
<1> QED
  BY <1>5, <1>6

\* Every row that is not saved comes after those that are
LEMMA SavedRowIs ==
    ASSUME shown \in Seq(Row), NEW todo \in Seq(Titles), NEW p, Split(shown, todo, p)
    PROVE  /\ \A t, i : i \in Rows(t) <=> i \in 1 .. p /\ shown[i].title = t
           /\ p \in Nat /\ Len(shown) \in Nat /\ p <= Len(shown)
<1>1. p \in Nat /\ Len(todo) \in Nat /\ Len(shown) = p + Len(todo) /\ DOMAIN shown = 1 .. Len(shown)
  <2>1. Len(todo) \in Nat /\ DOMAIN shown = 1 .. Len(shown)
    OBVIOUS
  <2> QED
    BY <2>1 DEF Split
<1>2. ASSUME NEW i \in 1 .. Len(shown), i \notin 1 .. p PROVE shown[i].temp
  <2> DEFINE k == i - p
  <2>1. k \in 1 .. Len(todo) /\ p + k = i
    BY <1>1, <1>2
  <2> HIDE DEF k
  <2>2. shown[i] = [title |-> todo[k], temp |-> TRUE]
    BY <2>1 DEF Split
  <2> QED
    BY <2>2
<1>3. \A i \in 1 .. p : ~shown[i].temp /\ i \in 1 .. Len(shown)
  BY <1>1 DEF Split
<1>4. \A i \in 1 .. Len(shown) : shown[i] = [title |-> shown[i].title, temp |-> shown[i].temp]
        /\ shown[i].temp \in BOOLEAN
  <2>1. \A i \in 1 .. Len(shown) : shown[i] \in Row
    BY <1>1
  <2>2. \A r \in Row : r = [title |-> r.title, temp |-> r.temp] /\ r.temp \in BOOLEAN
    BY DEF Row
  <2> QED
    BY <2>1, <2>2
<1>5. ASSUME NEW t, NEW i, i \in Rows(t) PROVE i \in 1 .. p /\ shown[i].title = t
  <2>1. i \in 1 .. Len(shown) /\ shown[i] = [title |-> t, temp |-> FALSE]
    BY <1>1, <1>5 DEF Rows
  <2>2. shown[i].title = t /\ ~shown[i].temp
    BY <2>1
  <2> QED
    BY <1>2, <2>1, <2>2
<1>6. ASSUME NEW t, NEW i, i \in 1 .. p, shown[i].title = t PROVE i \in Rows(t)
  <2>1. i \in 1 .. Len(shown) /\ shown[i].temp = FALSE
    BY <1>3, <1>4, <1>6
  <2>2. shown[i] = [title |-> t, temp |-> FALSE]
    BY <1>4, <1>6, <2>1
  <2> QED
    BY <1>1, <2>1, <2>2 DEF Rows
<1> QED
  BY <1>1, <1>5, <1>6

\* Adding: the ticked titles get their rows
LEMMA SteadyAdds ==
    ASSUME Types, SteadyOK, AddSelected
    PROVE  SteadyOK'
<1> SUFFICES ASSUME ~doubt'
             PROVE  SteadyOK'
  BY DEF SteadyOK
<1> DEFINE b == [id |-> asks, todo |-> ticks, at |-> "sent", here |-> TRUE]
           more == [i \in DOMAIN ticks |-> [title |-> ticks[i], temp |-> TRUE]]
<1>1. /\ OnPage /\ ~doubt /\ batches = {} /\ batches' = {b} /\ shown' = shown \o more
      /\ UNCHANGED <<stored, removes>>
  BY DEF AddSelected, server
<1>2. b.todo = ticks /\ b.at = "sent"
  OBVIOUS
<1>3. /\ shown \in Seq(Row) /\ stored \in Seq(Titles) /\ ticks \in Seq(Titles) /\ Once(ticks)
      /\ <<>> \in Seq(Titles)
  BY DEF Types
<1> HIDE DEF b
<1>4. Todo' = ticks /\ Added' = FALSE
  BY <1>1, <1>2, TodoOf
<1>5. Todo = <<>> /\ Added = FALSE /\ GoneTitles' = GoneTitles
  BY <1>1 DEF Todo, Added, GoneTitles
<1>6. Saved = Len(shown) /\ Len(shown) \in Nat
  BY <1>3, <1>5 DEF Saved
<1>7. /\ Split(shown, <<>>, Len(shown))
      /\ \A r \in removes : r.from = "page" => \E i \in 1 .. Len(shown) : shown[i].title = r.title
      /\ (\A r \in removes : r.from = "manager" => r.at = "sent") =>
           Matches(shown, stored, Len(shown), FALSE, GoneTitles)
  BY <1>1, <1>5, <1>6 DEF SteadyOK
<1>8. /\ more \in Seq(Row) /\ \A i \in 1 .. Len(shown) : (shown \o more)[i] = shown[i]
  <2>1. more \in Seq(Row)
    BY <1>3, AddedRowsAre
  <2> HIDE DEF more
  <2> QED
    BY <1>3, <2>1, ConcatIs
<1>9. /\ Split(shown', ticks, Len(shown))
      /\ Matches(shown, stored, Len(shown), FALSE, GoneTitles)
           => Matches(shown', stored', Len(shown), FALSE, GoneTitles)
  BY <1>1, <1>3, <1>7, MatchShown
<1> HIDE DEF more
<1>10. \A r \in removes' : r.from = "page" => \E i \in 1 .. Len(shown) : shown'[i].title = r.title
  BY <1>1, <1>7, <1>8
<1>11. (\A r \in removes' : r.from = "manager" => r.at = "sent")
         => Matches(shown', stored', Len(shown), Added', GoneTitles')
  BY <1>1, <1>4, <1>5, <1>7, <1>9
<1>12. \A c \in batches' : batches' = {c} /\ Once(c.todo)
  BY <1>1, <1>2, <1>3
<1> QED
  BY <1>3, <1>4, <1>9, <1>10, <1>11, <1>12, SteadyIs

\* The one batch of a page without a doubt
LEMMA SteadyBatch ==
    ASSUME Types, SteadyOK, OnPage, ~doubt, NEW b \in batches
    PROVE  /\ batches = {b} /\ Once(b.todo) /\ b.todo \in Seq(Titles) /\ b.todo # <<>>
           /\ Todo = b.todo /\ Added = (b.at = "served")
           /\ Split(shown, b.todo, Saved)
           /\ \A r \in removes : r.from = "page" => \E i \in 1 .. Saved : shown[i].title = r.title
           /\ (\A r \in removes : r.from = "manager" => r.at = "sent") =>
                Matches(shown, stored, Saved, b.at = "served", GoneTitles)
<1>1. batches = {b} /\ Once(b.todo) /\ b.todo \in Seq(Titles) /\ b.todo # <<>>
  BY DEF SteadyOK, Types, Batch
<1>2. Todo = b.todo /\ Added = (b.at = "served")
  BY <1>1, TodoOf
<1> QED
  BY <1>1, <1>2 DEF SteadyOK

LEMMA TodoTyped ==
    ASSUME Types, SteadyOK, OnPage, ~doubt
    PROVE  Todo \in Seq(Titles)
<1>1. CASE batches = {}
  <2>1. Todo = <<>>
    BY <1>1 DEF Todo
  <2>2. <<>> \in Seq(Titles)
    OBVIOUS
  <2> QED
    BY <2>1, <2>2
<1>2. ASSUME NEW b \in batches PROVE Todo \in Seq(Titles)
  <2>1. Todo = b.todo /\ b.todo \in Seq(Titles)
    BY SteadyBatch
  <2> QED
    BY <2>1
<1> QED
  BY <1>1, <1>2

\* A title is saved on the server
LEMMA SteadyServed ==
    ASSUME Types, SteadyOK, NEW b \in batches, AddServed(b)
    PROVE  SteadyOK'
<1> SUFFICES ASSUME OnPage', ~doubt'
             PROVE  SteadyOK'
  BY DEF SteadyOK
<1> DEFINE c == [b EXCEPT !.at = "served"]
<1>1. /\ OnPage /\ ~doubt /\ b.at = "sent" /\ stored' = Append(stored, Head(b.todo))
      /\ batches' = (batches \ {b}) \cup {c} /\ UNCHANGED <<shown, removes>>
  BY DEF AddServed, OnPage
<1>2. c.todo = b.todo /\ c.at = "served"
  BY DEF Types, Batch
<1> HIDE DEF c
<1>3. /\ batches = {b} /\ Once(b.todo) /\ b.todo \in Seq(Titles) /\ b.todo # <<>>
      /\ Split(shown, b.todo, Saved)
      /\ \A r \in removes : r.from = "page" => \E i \in 1 .. Saved : shown[i].title = r.title
      /\ (\A r \in removes : r.from = "manager" => r.at = "sent") =>
           Matches(shown, stored, Saved, FALSE, GoneTitles)
  BY <1>1, SteadyBatch
<1>4. batches' = {c}
  BY <1>1, <1>3
<1>5. Todo' = b.todo /\ Added' = TRUE /\ GoneTitles' = GoneTitles
  <2>1. Todo' = c.todo /\ Added' = (c.at = "served")
    BY <1>4, TodoOf
  <2> QED
    BY <1>1, <1>2, <2>1 DEF GoneTitles
<1>6. shown \in Seq(Row) /\ stored \in Seq(Titles)
  BY DEF Types
<1>7. Matches(shown, stored, Saved, FALSE, GoneTitles)
        => Matches(shown, stored', Saved, TRUE, GoneTitles)
  BY <1>1, <1>3, <1>6, MatchServed
<1>8. (\A r \in removes' : r.from = "manager" => r.at = "sent")
        => Matches(shown', stored', Saved, Added', GoneTitles')
  BY <1>1, <1>3, <1>5, <1>7
<1>9. \A d \in batches' : batches' = {d} /\ Once(d.todo)
  BY <1>2, <1>3, <1>4
<1>10. /\ Split(shown', b.todo, Saved)
       /\ \A r \in removes' : r.from = "page" => \E i \in 1 .. Saved : shown'[i].title = r.title
  BY <1>1, <1>3
<1>11. b.todo \in Seq(Titles) /\ Todo' = b.todo
  BY <1>3, <1>5
<1> DEFINE p == Saved
<1> HIDE DEF p
<1> QED
  BY <1>8, <1>9, <1>10, <1>11, SteadyIs DEF p

\* What the answer to a title leaves to be saved
LEMMA SteadyRest ==
    ASSUME Types, NEW b \in batches, batches = {b}, Once(b.todo), Continued(b)
    PROVE  /\ Todo' = Tail(b.todo) /\ Added' = FALSE /\ Tail(b.todo) \in Seq(Titles)
           /\ \A d \in batches' : batches' = {d} /\ Once(d.todo)
<1>1. b.todo \in Seq(Titles) /\ b.todo # <<>>
  BY DEF Types, Batch
<1>2. Tail(b.todo) \in Seq(Titles) /\ Once(Tail(b.todo))
  BY <1>1, TodoIs
<1>3. CASE Tail(b.todo) = <<>> /\ batches' = batches \ {b}
  <2>1. batches' = {}
    BY <1>3
  <2> QED
    BY <1>2, <1>3, <2>1, TodoOf
<1>4. ASSUME NEW c \in batches', batches' = (batches \ {b}) \cup {c}, c.todo = Tail(b.todo), c.at = "sent"
      PROVE  /\ Todo' = Tail(b.todo) /\ Added' = FALSE
             /\ \A d \in batches' : batches' = {d} /\ Once(d.todo)
  <2>1. batches' = {c}
    BY <1>4
  <2> QED
    BY <1>2, <1>4, <2>1, TodoOf
<1>5. \/ Tail(b.todo) = <<>> /\ batches' = batches \ {b}
      \/ \E c \in batches' : batches' = (batches \ {b}) \cup {c} /\ c.todo = Tail(b.todo)
           /\ c.at = "sent"
  BY ContinuedIs
<1> QED
  BY <1>2, <1>3, <1>4, <1>5

\* The title is answered: its row is a saved one
LEMMA SteadyAnswered ==
    ASSUME Types, HereOK, SteadyOK, NEW b \in batches, AddAnswered(b)
    PROVE  SteadyOK'
<1> SUFFICES ASSUME OnPage', ~doubt'
             PROVE  SteadyOK'
  BY DEF SteadyOK
<1>1. /\ OnPage /\ ~doubt /\ b.at = "served" /\ Continued(b) /\ UNCHANGED <<stored, removes>>
      /\ shown' = IF b.here
                  THEN [i \in DOMAIN shown |->
                          IF i \in Unsaved(Head(b.todo)) THEN [shown[i] EXCEPT !.temp = FALSE]
                          ELSE shown[i]]
                  ELSE shown
  BY DEF AddAnswered, OnPage, server
<1>2. b.here
  BY <1>1 DEF HereOK
<1> DEFINE p == Saved
           t == Head(b.todo)
<1>3. /\ batches = {b} /\ Once(b.todo) /\ b.todo \in Seq(Titles) /\ b.todo # <<>>
      /\ Split(shown, b.todo, p)
      /\ \A r \in removes : r.from = "page" => \E i \in 1 .. p : shown[i].title = r.title
      /\ (\A r \in removes : r.from = "manager" => r.at = "sent") =>
           Matches(shown, stored, p, TRUE, GoneTitles)
  BY <1>1, SteadyBatch
<1>4. shown \in Seq(Row) /\ stored \in Seq(Titles) /\ shown' \in Seq(Row)
  BY TypesNext DEF Types, ListTypes, Next, Add
<1>5. Unsaved(t) = {p + 1}
  BY <1>3, <1>4, UnsavedIs
<1> HIDE DEF p, t
<1>6. p \in Nat /\ Len(shown) \in Nat /\ p + 1 \in DOMAIN shown /\ DOMAIN shown = 1 .. Len(shown)
      /\ shown[p + 1] = [title |-> t, temp |-> TRUE] /\ p <= Len(shown)
  <2>1. p \in Nat /\ Len(shown) \in Nat /\ p <= Len(shown)
    BY <1>3, <1>4, SavedRowIs
  <2>2. p + 1 \in DOMAIN shown /\ shown[p + 1] = [title |-> t, temp |-> TRUE]
    BY <1>5 DEF Unsaved
  <2> QED
    BY <1>4, <2>1, <2>2
<1>7. /\ DOMAIN shown' = DOMAIN shown /\ shown'[p + 1] = [title |-> t, temp |-> FALSE]
      /\ \A i \in DOMAIN shown : i # p + 1 => shown'[i] = shown[i]
  <2>1. shown' = [i \in DOMAIN shown |->
                    IF i \in {p + 1} THEN [shown[i] EXCEPT !.temp = FALSE] ELSE shown[i]]
    BY <1>1, <1>2, <1>5 DEF t
  <2> DEFINE row == [shown[p + 1] EXCEPT !.temp = FALSE]
  <2>2. shown[p + 1] \in Row /\ shown[p + 1].title = t
    BY <1>4, <1>6
  <2>3. row \in Row /\ row.title = shown[p + 1].title /\ row.temp = FALSE
    BY <2>2 DEF Row
  <2>4. \A x \in Row : x = [title |-> x.title, temp |-> x.temp]
    BY DEF Row
  <2>5. shown'[p + 1] = row
    BY <1>6, <2>1
  <2> HIDE DEF row
  <2>6. row = [title |-> t, temp |-> FALSE]
    BY <2>2, <2>3, <2>4
  <2> QED
    BY <1>6, <2>1, <2>5, <2>6
<1>8. Len(shown') = Len(shown)
  BY <1>4, <1>6, <1>7
<1>9. /\ Split(shown', Tail(b.todo), p + 1)
      /\ (\A u \in GoneTitles : \E i \in 1 .. p : shown[i].title = u)
           /\ Matches(shown, stored, p, TRUE, GoneTitles)
           => Matches(shown', stored, p + 1, FALSE, GoneTitles)
  <2>1. /\ shown'[p + 1] = [title |-> Head(b.todo), temp |-> FALSE]
        /\ \A i \in 1 .. Len(shown) : i # p + 1 => shown'[i] = shown[i]
    BY <1>6, <1>7 DEF t
  <2>2. b.todo \in Seq(Titles) /\ b.todo # <<>> /\ Split(shown, b.todo, p)
    BY <1>3
  <2> QED
    BY <1>4, <1>8, <2>1, <2>2, MatchSaved, Zenon
<1>10. \A u \in GoneTitles : \E i \in 1 .. p : shown[i].title = u
  BY <1>3 DEF GoneTitles
<1>11. Todo' = Tail(b.todo) /\ Added' = FALSE /\ Tail(b.todo) \in Seq(Titles)
       /\ GoneTitles' = GoneTitles /\ \A d \in batches' : batches' = {d} /\ Once(d.todo)
  BY <1>1, <1>3, SteadyRest DEF GoneTitles
<1>12. \A r \in removes' : r.from = "page" => \E i \in 1 .. p + 1 : shown'[i].title = r.title
  <2>1. \A i \in 1 .. p : i \in DOMAIN shown /\ i # p + 1 /\ i \in 1 .. p + 1
    BY <1>6
  <2> QED
    BY <1>1, <1>3, <1>7, <2>1
<1>13. (\A r \in removes' : r.from = "manager" => r.at = "sent")
         => Matches(shown', stored', p + 1, Added', GoneTitles')
  BY <1>1, <1>3, <1>9, <1>10, <1>11
<1> QED
  BY <1>9, <1>11, <1>12, <1>13, SteadyIs

\* It is refused: its row goes
LEMMA SteadyRefused ==
    ASSUME Types, HereOK, SteadyOK, NEW b \in batches, AddFails(b)
    PROVE  SteadyOK'
<1> SUFFICES ASSUME OnPage', ~doubt'
             PROVE  SteadyOK'
  BY DEF SteadyOK
<1>1. /\ OnPage /\ ~doubt /\ b.at # "served" /\ Continued(b) /\ UNCHANGED <<stored, removes>>
      /\ shown' = IF b.here /\ Unsaved(Head(b.todo)) # {}
                  THEN RemoveAt(shown, CHOOSE i \in Unsaved(Head(b.todo)) :
                                          \A j \in Unsaved(Head(b.todo)) : i <= j)
                  ELSE shown
  BY DEF AddFails, OnPage, server
<1>2. b.here
  BY <1>1 DEF HereOK
<1> DEFINE p == Saved
<1>3. /\ batches = {b} /\ Once(b.todo) /\ b.todo \in Seq(Titles) /\ b.todo # <<>>
      /\ Split(shown, b.todo, p)
      /\ \A r \in removes : r.from = "page" => \E i \in 1 .. p : shown[i].title = r.title
      /\ (\A r \in removes : r.from = "manager" => r.at = "sent") =>
           Matches(shown, stored, p, FALSE, GoneTitles)
  BY <1>1, SteadyBatch
<1>4. shown \in Seq(Row) /\ stored \in Seq(Titles)
  BY DEF Types
<1>5. Unsaved(Head(b.todo)) = {p + 1}
  BY <1>3, <1>4, UnsavedIs
<1> HIDE DEF p
<1>6. p \in Nat /\ Len(shown) \in Nat /\ p + 1 \in 1 .. Len(shown)
  <2>1. p \in Nat /\ Len(shown) \in Nat
    BY <1>3, <1>4, SavedRowIs
  <2>2. p + 1 \in DOMAIN shown
    BY <1>5 DEF Unsaved
  <2> QED
    BY <1>4, <2>1, <2>2
<1>7. shown' = RemoveAt(shown, p + 1)
  <2>1. (CHOOSE i \in {p + 1} : \A j \in {p + 1} : i <= j) = p + 1
    BY <1>6
  <2> QED
    BY <1>1, <1>2, <1>5, <2>1
<1>8. /\ Split(shown', Tail(b.todo), p)
      /\ Matches(shown, stored, p, FALSE, GoneTitles) => Matches(shown', stored, p, FALSE, GoneTitles)
  BY <1>3, <1>4, <1>7, MatchRefused
<1>9. Todo' = Tail(b.todo) /\ Added' = FALSE /\ Tail(b.todo) \in Seq(Titles)
      /\ GoneTitles' = GoneTitles /\ \A d \in batches' : batches' = {d} /\ Once(d.todo)
  BY <1>1, <1>3, SteadyRest DEF GoneTitles
<1>10. \A i \in 1 .. p : shown'[i] = shown[i]
  <2>1. \A i \in 1 .. p : i \in 1 .. Len(shown) - 1 /\ i < p + 1
    BY <1>6
  <2> QED
    BY <1>4, <1>6, <1>7, <2>1, RemoveAtIs
<1>11. \A r \in removes' : r.from = "page" => \E i \in 1 .. p : shown'[i].title = r.title
  BY <1>1, <1>3, <1>10
<1>12. (\A r \in removes' : r.from = "manager" => r.at = "sent")
         => Matches(shown', stored', p, Added', GoneTitles')
  BY <1>1, <1>3, <1>8, <1>9
<1> QED
  BY <1>8, <1>9, <1>11, <1>12, SteadyIs

\* A removal is asked for, of a row that is saved
LEMMA SteadyAsked ==
    ASSUME Types, SteadyOK, NEW t \in Titles, RemoveItem(t)
    PROVE  SteadyOK'
<1> SUFFICES ASSUME OnPage', ~doubt'
             PROVE  SteadyOK'
  BY DEF SteadyOK
<1> DEFINE new == [id |-> asks, title |-> t, at |-> "sent", here |-> TRUE,
                   from |-> IF managing THEN "manager" ELSE "page"]
<1>1. /\ removes' = removes \cup {new} /\ OnPage /\ ~doubt /\ Rows(t) # {}
      /\ UNCHANGED <<stored, shown, batches, at, doubt>>
  BY DEF RemoveItem, OnPage, server
<1>2. new.title = t /\ new.at = "sent"
  OBVIOUS
<1> HIDE DEF new
<1>3. \E i \in 1 .. Saved : shown[i].title = t
  <2>1. shown \in Seq(Row) /\ Split(shown, Todo, Saved)
    BY <1>1 DEF Types, SteadyOK
  <2>2. Todo \in Seq(Titles)
    BY <1>1, TodoTyped
  <2> DEFINE p == Saved
  <2> HIDE DEF p
  <2>3. \A i \in Rows(t) : i \in 1 .. p /\ shown[i].title = t
    BY <2>1, <2>2, SavedRowIs DEF p
  <2> QED
    BY <1>1, <2>3 DEF p
<1> QED
  BY <1>1, <1>2, <1>3, SteadyStays DEF OnPage

\* A removal is done on the server
LEMMA SteadyTaken ==
    ASSUME Types, HereOK, SteadyOK, NEW r \in removes, RemoveServed(r)
    PROVE  SteadyOK'
<1> SUFFICES ASSUME OnPage', ~doubt'
             PROVE  SteadyOK'
  BY DEF SteadyOK
<1> DEFINE q == [r EXCEPT !.at = "served"]
<1>1. PICK k \in DOMAIN stored : stored[k] = r.title /\ stored' = RemoveAt(stored, k)
  BY DEF RemoveServed
<1>2. /\ OnPage /\ ~doubt /\ r.at = "sent" /\ removes' = (removes \ {r}) \cup {q}
      /\ UNCHANGED <<shown, batches>>
  BY DEF RemoveServed, OnPage
<1>3. q.at = "served" /\ q.title = r.title /\ q.from = r.from /\ r.title \in Titles
      /\ r.from \in {"page", "manager"}
  BY DEF Types, Removal
<1> HIDE DEF q
<1> DEFINE p == Saved
           todo == Todo
<1>4. /\ \A b \in batches : batches = {b} /\ Once(b.todo)
      /\ Split(shown, todo, p)
      /\ \A x \in removes : x.from = "page" => \E i \in 1 .. p : shown[i].title = x.title
      /\ (\A x \in removes : x.from = "manager" => x.at = "sent") =>
           Matches(shown, stored, p, Added, GoneTitles)
  BY <1>2 DEF SteadyOK
<1>5. Todo' = todo /\ Added' = Added /\ Added \in BOOLEAN
  BY <1>2 DEF Todo, Added
<1>6. todo \in Seq(Titles)
  BY <1>2, TodoTyped
<1> HIDE DEF p, todo
<1>7. shown \in Seq(Row) /\ stored \in Seq(Titles) /\ Once(stored) /\ DOMAIN stored = 1 .. Len(stored)
  BY DEF Types
<1>8. \A x \in removes' : x.from = "page" => \E i \in 1 .. p : shown[i].title = x.title
  BY <1>2, <1>3, <1>4
<1>9. (\A x \in removes' : x.from = "manager" => x.at = "sent")
        => Matches(shown', stored', p, Added', GoneTitles')
  <2> SUFFICES ASSUME \A x \in removes' : x.from = "manager" => x.at = "sent"
               PROVE  Matches(shown, stored', p, Added, GoneTitles')
    BY <1>2, <1>5
  <2>1. r.from = "page"
    BY <1>2, <1>3
  <2>2. \A x \in removes : x.from = "manager" => x.at = "sent"
    BY <1>2, <2>1
  <2>3. GoneTitles' = GoneTitles \cup {r.title}
    BY <1>2, <1>3, <2>1 DEF GoneTitles
  <2>4. r.title \notin GoneTitles
    BY <1>2, <2>1 DEF HereOK, GoneTitles
  <2>5. p \in Nat /\ p <= Len(shown)
    BY <1>4, <1>6, <1>7, SavedRowIs
  <2>6. Matches(shown, stored, p, Added, GoneTitles) /\ k \in 1 .. Len(stored)
    BY <1>4, <1>7, <2>2
  <2>7. stored[k] \notin GoneTitles /\ \E i \in 1 .. p : shown[i].title = stored[k]
    BY <1>1, <1>4, <2>1, <2>4
  <2>8. Matches(shown, RemoveAt(stored, k), p, Added, GoneTitles \cup {stored[k]})
    BY <1>5, <1>7, <2>5, <2>6, <2>7, MatchTaken
  <2> QED
    BY <1>1, <2>3, <2>8
<1>10. /\ \A b \in batches' : batches' = {b} /\ Once(b.todo)
       /\ Split(shown', todo, p)
       /\ \A x \in removes' : x.from = "page" => \E i \in 1 .. p : shown'[i].title = x.title
  BY <1>2, <1>4, <1>8
<1> QED
  BY <1>5, <1>6, <1>9, <1>10, SteadyIs

\* The answer: the page takes the row off
LEMMA SteadyDropped ==
    ASSUME Types, HereOK, SteadyOK, NEW r \in removes, RemoveAnswered(r)
    PROVE  SteadyOK'
<1> SUFFICES ASSUME OnPage', ~doubt'
             PROVE  SteadyOK'
  BY DEF SteadyOK
<1> DEFINE t == r.title
<1>1. /\ OnPage /\ ~doubt /\ r.at = "served" /\ r.from = "page" /\ removes' = removes \ {r}
      /\ UNCHANGED <<stored, batches>>
      /\ shown' = IF r.here /\ Rows(t) # {}
                  THEN RemoveAt(shown, CHOOSE i \in Rows(t) : \A j \in Rows(t) : i <= j)
                  ELSE shown
  BY DEF RemoveAnswered, OnPage, server
<1>2. r.here /\ t \in Titles
  BY <1>1 DEF HereOK, Types, Removal
<1> DEFINE p == Saved
           todo == Todo
<1>3. /\ \A b \in batches : batches = {b} /\ Once(b.todo)
      /\ Split(shown, todo, p)
      /\ \A x \in removes : x.from = "page" => \E i \in 1 .. p : shown[i].title = x.title
      /\ (\A x \in removes : x.from = "manager" => x.at = "sent") =>
           Matches(shown, stored, p, Added, GoneTitles)
  BY <1>1 DEF SteadyOK
<1>4. Todo' = todo /\ Added' = Added /\ Added \in BOOLEAN
  BY <1>1 DEF Todo, Added
<1>5. todo \in Seq(Titles)
  BY <1>1, TodoTyped
<1> HIDE DEF p, todo, t
<1>6. shown \in Seq(Row) /\ stored \in Seq(Titles)
  BY DEF Types
<1>7. /\ \A i : i \in Rows(t) <=> i \in 1 .. p /\ shown[i].title = t
      /\ p \in Nat /\ Len(shown) \in Nat /\ p <= Len(shown)
  BY <1>3, <1>5, <1>6, SavedRowIs
<1>8. Rows(t) # {} /\ Rows(t) \subseteq Nat
  BY <1>1, <1>3, <1>7 DEF t
<1> DEFINE q == CHOOSE i \in Rows(t) : \A j \in Rows(t) : i <= j
<1>9. q \in Rows(t) /\ \A j \in Rows(t) : q <= j
  BY <1>8, FirstOf
<1>10. shown' = RemoveAt(shown, q)
  BY <1>1, <1>2, <1>8
<1> HIDE DEF q
<1>11. q \in 1 .. p /\ shown[q].title = t /\ \A j \in 1 .. q - 1 : shown[j].title # t
  <2>1. q \in 1 .. p /\ shown[q].title = t
    BY <1>7, <1>9
  <2>2. \A j \in 1 .. q - 1 : j \in 1 .. p /\ ~(q <= j)
    BY <1>7, <2>1
  <2> QED
    BY <1>7, <1>9, <2>1, <2>2
<1>12. t \in GoneTitles
  BY <1>1, <1>2 DEF GoneTitles, t
<1>13. GoneTitles' = GoneTitles \ {t}
  BY <1>1 DEF HereOK, GoneTitles, t
<1>14. /\ Split(shown', todo, p - 1)
       /\ Matches(shown, stored, p, Added, GoneTitles)
            => Matches(shown', stored, p - 1, Added, GoneTitles \ {t})
  <2> DEFINE gone == GoneTitles
             added == Added
  <2>1. added \in BOOLEAN /\ t \in gone
    BY <1>4, <1>12
  <2> HIDE DEF gone, added
  <2>2. Split(shown, todo, p)
    BY <1>3
  <2>3. q \in 1 .. p /\ shown[q].title = t /\ \A j \in 1 .. q - 1 : shown[j].title # t
    BY <1>11
  <2>4. /\ Split(shown', todo, p - 1)
        /\ Matches(shown, stored, p, added, gone) => Matches(shown', stored, p - 1, added, gone \ {t})
    BY <1>5, <1>6, <1>10, <2>1, <2>2, <2>3, MatchDropped, Zenon
  <2> QED
    BY <2>4 DEF gone, added
<1>15. (\A x \in removes' : x.from = "manager" => x.at = "sent")
         => Matches(shown', stored', p - 1, Added', GoneTitles')
  <2>1. (\A x \in removes' : x.from = "manager" => x.at = "sent")
          => \A x \in removes : x.from = "manager" => x.at = "sent"
    BY <1>1
  <2> QED
    BY <1>1, <1>3, <1>4, <1>13, <1>14, <2>1
<1>16. ASSUME NEW x \in removes', x.from = "page"
       PROVE  \E i \in 1 .. p - 1 : shown'[i].title = x.title
  <2>1. x \in removes /\ x # r
    BY <1>1, <1>16
  <2>2. x.title # t
    BY <1>1, <1>16, <2>1 DEF HereOK, t
  <2>3. PICK i \in 1 .. p : shown[i].title = x.title
    BY <1>3, <1>16, <2>1
  <2>4. i # q /\ q \in 1 .. Len(shown)
    BY <1>7, <1>11, <2>2, <2>3
  <2>5. \A j \in 1 .. Len(shown) - 1 : shown'[j] = IF j < q THEN shown[j] ELSE shown[j + 1]
    BY <1>6, <1>10, <2>4, RemoveAtIs
  <2>6. CASE i < q
    <3>1. i \in 1 .. p - 1 /\ i \in 1 .. Len(shown) - 1
      BY <1>7, <1>11, <2>3, <2>6
    <3> QED
      BY <2>3, <2>5, <2>6, <3>1
  <2>7. CASE i > q
    <3>1. i - 1 \in 1 .. p - 1 /\ i - 1 \in 1 .. Len(shown) - 1 /\ ~(i - 1 < q) /\ (i - 1) + 1 = i
      BY <1>7, <1>11, <2>3, <2>7
    <3>2. shown'[i - 1] = shown[i]
      BY <2>5, <3>1
    <3> QED
      BY <2>3, <3>1, <3>2
  <2>8. i < q \/ i > q
    BY <1>7, <1>11, <2>3, <2>4
  <2> QED
    BY <2>6, <2>7, <2>8
<1>17. \A b \in batches' : batches' = {b} /\ Once(b.todo)
  BY <1>1, <1>3
<1> QED
  BY <1>4, <1>5, <1>14, <1>15, <1>16, <1>17, SteadyIs

\* SteadyOK is inductive
LEMMA SteadyNext ==
    ASSUME Types, HereOK, ReadsOK, SteadyOK, Next
    PROVE  SteadyOK'
<1> SUFFICES ASSUME OnPage', ~doubt'
             PROVE  SteadyOK'
  BY DEF SteadyOK
<1>1. removes \subseteq Removal /\ reads \in Seq(Read) /\ stored \in Seq(Titles)
      /\ stored' \in Seq(Titles)
  BY TypesNext DEF Types
<1>2. UNCHANGED <<stored, shown, batches, removes, at, doubt>> => SteadyOK'
  BY SteadyStays DEF OnPage
<1>3. CASE MakeDone
  <2>1. CASE at' = "gone"
    BY <2>1 DEF OnPage
  <2>2. ASSUME NEW s \in {<<>>} \cup {<<t>> : t \in Titles}, stored' = s, Opens("draft", s)
        PROVE  SteadyOK'
    <3>1. batches' = {} /\ removes' = {}
      BY <1>3 DEF MakeDone, Types, Quiet
    <3>2. shown' = Real(stored')
      BY <2>2 DEF Opens
    <3> QED
      BY <1>1, <3>1, <3>2, SteadyRead
  <2> QED
    BY <1>3, <2>1, <2>2 DEF MakeDone
<1>4. ASSUME NEW i \in DOMAIN reads, ReadArrives(i) PROVE SteadyOK'
  <2>1. /\ reads[i].clean /\ reads[i].at = "served" /\ shown' = Real(reads[i].page)
        /\ UNCHANGED <<stored, batches>> /\ (removes' = removes \/ removes' = Left)
    BY <1>4 DEF ReadArrives, server, Left
  <2>2. reads[i].page = stored /\ batches = {} /\ removes = {}
    BY <2>1 DEF ReadsOK, Quiet
  <2>3. removes' = {}
    BY <1>1, <2>1, <2>2, LeftIs
  <2> QED
    BY <1>1, <2>1, <2>2, <2>3, SteadyRead
<1>5. ASSUME NEW t \in Titles, Tick(t) PROVE SteadyOK'
  BY <1>2, <1>5 DEF Tick, server
<1>6. ASSUME NEW t \in Titles, RemoveItem(t) PROVE SteadyOK'
  BY <1>6, SteadyAsked
<1>7. CASE AddSelected
  BY <1>7, SteadyAdds
<1>8. ASSUME NEW b \in batches, Add(b) PROVE SteadyOK'
  BY <1>8, SteadyServed, SteadyAnswered, SteadyRefused DEF Add
<1>9. ASSUME NEW r \in removes, RemoveServed(r) PROVE SteadyOK'
  BY <1>9, SteadyTaken
<1>10. ASSUME NEW r \in removes, RemoveAnswered(r) PROVE SteadyOK'
  BY <1>10, SteadyDropped
<1>11. ASSUME NEW r \in removes, ManagerRemoved(r) PROVE SteadyOK'
  BY <1>11 DEF ManagerRemoved
<1>12. ASSUME NEW r \in removes, RemoveFails(r) PROVE SteadyOK'
  <2>1. /\ UNCHANGED <<stored, shown, batches, at>> /\ removes' = removes \ {r}
        /\ r.at # "served" /\ (doubt => doubt')
    BY <1>12 DEF RemoveFails, server
  <2>2. r.at = "sent"
    BY <1>1, <2>1 DEF Removal
  <2>3. \A q \in removes' : \E x \in removes : q.title = x.title /\ q.from = x.from /\ q.at = x.at
    BY <2>1
  <2>4. \A x \in removes : x.at # "sent" =>
          \E q \in removes' : q.title = x.title /\ q.from = x.from /\ q.at = x.at
    BY <2>1, <2>2
  <2> QED
    BY <2>1, <2>3, <2>4, SteadyStays DEF OnPage
<1>13. CASE Leave
  <2>1. UNCHANGED <<stored, shown, batches, at, doubt>> /\ removes' = Left
    BY <1>13 DEF Leave, Left, server
  <2> QED
    BY <1>1, <2>1, SteadyLeft
<1>14. CASE PublishAnswered
  <2>1. /\ Quiet /\ stored' = stored /\ shown' = Real(stored)
        /\ batches' = {[b EXCEPT !.here = FALSE] : b \in batches}
        /\ removes' = {[r EXCEPT !.here = FALSE] : r \in removes}
    BY <1>14 DEF PublishAnswered, Opens, server
  <2>2. batches' = {} /\ removes' = {}
    BY <2>1 DEF Quiet
  <2> QED
    BY <1>1, <2>1, <2>2, SteadyRead
<1>15. CASE Discard \/ Others
  BY <1>15 DEF Discard, Others, OnPage
<1>16. CASE Submit \/ MakeServed \/ MakeAnswered \/ MakeFails \/ SafetyTimer \/ Publish
             \/ PublishServed \/ PublishFails \/ Manage \/ Edited
  BY <1>2, <1>16 DEF Submit, MakeServed, MakeAnswered, MakeFails, MakeOnly, SafetyTimer, Publish,
     PublishServed, PublishFails, Manage, Edited, server
<1>17. ASSUME NEW i \in DOMAIN reads, ReadServed(i) \/ ReadFails(i) \/ Rendered(i) PROVE SteadyOK'
  BY <1>2, <1>17 DEF ReadServed, ReadFails, Rendered, server
<1> QED
  BY <1>3, <1>4, <1>5, <1>6, <1>7, <1>8, <1>9, <1>10, <1>11, <1>12, <1>13, <1>14, <1>15, <1>16, <1>17
  DEF Next, Make, ReadEnds, RemoveEnds, PublishEnds

-----------------------------------------------------------------------------
(* The page shows the list.                                                *)

LEMMA InitInv == Init => IInv
<1> SUFFICES ASSUME Init
             PROVE  IInv
  OBVIOUS
<1>1. Types /\ stored \in Seq(Titles)
  BY InitTypes DEF Types
<1>2. shown = Real(stored) /\ batches = {} /\ removes = {}
  BY DEF Init
<1>3. HereOK
  BY <1>2 DEF HereOK
<1>4. reads = <<>> \/ reads = <<NewRead("viewer", TRUE)>>
  BY DEF Init
<1>5. NewRead("viewer", TRUE).at = "sent" /\ ~NewRead("viewer", TRUE).late
      /\ NewRead("viewer", TRUE).clean
  BY DEF NewRead
<1>6. ReadsOK /\ (reads # <<>> => ~Last(reads).late /\ Last(reads).at = "sent")
  <2>1. CASE reads = <<>>
    <3>1. \A i \in DOMAIN reads : FALSE
      BY <2>1
    <3> QED
      BY <2>1, <3>1 DEF ReadsOK
  <2>2. CASE reads = <<NewRead("viewer", TRUE)>>
    <3> DEFINE read == NewRead("viewer", TRUE)
    <3> HIDE DEF read
    <3>1. reads = <<read>>
      BY <2>2 DEF read
    <3>2. DOMAIN reads = {1} /\ reads[1] = read /\ Len(reads) = 1 /\ reads # <<>>
      BY <3>1
    <3>3. Last(reads) = read
      BY <3>2 DEF Last
    <3> QED
      BY <1>2, <1>5, <3>2, <3>3 DEF ReadsOK, Quiet, read
  <2> QED
    BY <1>4, <2>1, <2>2
<1>7. TitlesOf(shown) = stored
  BY <1>1, <1>2, RealIs
<1>8. FreshOK
  BY <1>6, <1>7 DEF FreshOK, Fresh
<1>9. SteadyOK
  <2>1. Todo = <<>> /\ Added = FALSE /\ GoneTitles = {}
    BY <1>2 DEF Todo, Added, GoneTitles
  <2>2. Split(shown, <<>>, Len(stored)) /\ Matches(shown, stored, Len(stored), FALSE, {})
    BY <1>1, <1>2, MatchRead
  <2>3. Saved = Len(stored)
    <3>1. Len(stored) \in Nat /\ Len(<<>>) = 0
      BY <1>1
    <3>2. Len(shown) = Len(stored) + Len(<<>>)
      BY <2>2 DEF Split
    <3>3. Saved = Len(shown) - Len(<<>>)
      BY <2>1 DEF Saved
    <3> QED
      BY <3>1, <3>2, <3>3
  <2> QED
    BY <1>2, <2>1, <2>2, <2>3 DEF SteadyOK
<1> QED
  BY <1>1, <1>3, <1>6, <1>8, <1>9 DEF IInv

LEMMA InvNext ==
    ASSUME IInv, [Next]_vars
    PROVE  IInv'
<1>1. CASE Next
  BY <1>1, TypesNext, HereNext, ReadsNext, FreshNext, SteadyNext DEF IInv
<1>2. CASE UNCHANGED vars
  <2>1. /\ UNCHANGED <<stored, shown, batches, removes, reads, at, managing, doubt, missed>>
        /\ IInv /\ Types'
    BY <1>2, TypesNext DEF IInv, vars, server, manager
  <2>2. HereOK' /\ ReadsOK'
    BY <2>1, HereStays, SameReads DEF IInv, Quiet, OnPage
  <2>3. FreshOK'
    BY <2>1 DEF IInv, FreshOK, Fresh, OnPage
  <2>4. SteadyOK'
    BY <2>1, SteadyStays DEF IInv, OnPage
  <2> QED
    BY <2>1, <2>2, <2>3, <2>4 DEF IInv
<1> QED
  BY <1>1, <1>2

LEMMA InvShows ==
    ASSUME IInv
    PROVE  ShownIsStored
<1> SUFFICES ASSUME OnPage, ~managing, Quiet, reads = <<>>, ~(doubt /\ missed)
             PROVE  TitlesOf(shown) = stored
  BY DEF ShownIsStored
<1>1. batches = {} /\ removes = {} /\ shown \in Seq(Row) /\ stored \in Seq(Titles)
  BY DEF Quiet, IInv, Types
<1>2. CASE ~missed
  BY <1>1, <1>2 DEF IInv, FreshOK, Fresh
<1>3. CASE ~doubt
  <2>1. Todo = <<>> /\ Added = FALSE /\ GoneTitles = {}
    BY <1>1 DEF Todo, Added, GoneTitles
  <2>2. Split(shown, <<>>, Saved) /\ Matches(shown, stored, Saved, FALSE, {})
    BY <1>1, <1>3, <2>1 DEF IInv, SteadyOK
  <2> DEFINE p == Saved
  <2> HIDE DEF p
  <2>3. Split(shown, <<>>, p) /\ Matches(shown, stored, p, FALSE, {})
    BY <2>2 DEF p
  <2> QED
    BY <1>1, <2>3, MatchAll
<1> QED
  BY <1>2, <1>3

\* When nothing is under way the page shows the list, in its order, whatever
\* was added, removed, refused, read and rendered at once before, unless an
\* answer that could have told the page was lost or overtaken (ListViewer).
THEOREM ThePageShowsTheList == Spec => []ShownIsStored
<1> QED
  BY InitInv, InvNext, InvShows, PTL DEF Spec

-----------------------------------------------------------------------------
(* Types.                                                                  *)

\* The submission stays within the requests of its form, and the page and its
\* manager hold titles
PlainOK ==
    /\ form \in Explored \cup {NoForm} /\ at \in {"form", "draft", "list", "gone"}
    /\ make.step \in 0 .. 3
    /\ hidden \subseteq Titles /\ busy \in Titles \cup {NoTitle}
    /\ publishing \in {"no", "sent", "served"}

LEMMA FormSteps == ASSUME PlainOK PROVE Len(form.steps) \in Nat /\ Len(form.steps) <= 3
<1>1. form \in AllForms \cup {NoForm}
  BY ListForms DEF PlainOK
<1>2. /\ NewList.steps = <<"create">> /\ MenuList.steps = <<"create", "fill">>
      /\ PairCard.steps = <<"create", "fill", "publish">> /\ Contact.steps = NewList.steps
      /\ Wizard.steps = PairCard.steps /\ Register.steps = <<"create", "login">> /\ NoForm.steps = <<>>
  BY DEF NoForm, NewList, MenuList, PairCard, Wizard, Contact, Register
<1>3. form \in {NewList, MenuList, PairCard, Wizard, Contact, Register, NoForm}
  BY <1>1 DEF AllForms, NewEntity
<1>4. form.steps \in {<<>>, <<"create">>, <<"create", "fill">>, <<"create", "fill", "publish">>, <<"create", "login">>}
  <2> HIDE DEF NoForm, NewList, MenuList, PairCard, Wizard, Contact, Register
  <2> QED
    BY <1>2, <1>3
<1>5. /\ Len(<<>>) = 0 /\ Len(<<"create">>) = 1 /\ Len(<<"create", "fill">>) = 2
      /\ Len(<<"create", "fill", "publish">>) = 3 /\ Len(<<"create", "login">>) = 2
  OBVIOUS
<1>6. Len(form.steps) \in {0, 1, 2, 3}
  BY <1>4, <1>5, Zenon
<1>7. \A n \in {0, 1, 2, 3} : n \in Nat /\ n <= 3
  OBVIOUS
<1> QED
  BY <1>6, <1>7, Zenon

LEMMA MakePlain ==
    ASSUME PlainOK, MakeOK, Make
    PROVE  PlainOK'
<1>1. CASE Submit
  <2>1. PICK step \in {1, 2} : make' = [make EXCEPT !.step = step]
    BY <1>1 DEF Submit
  <2>2. make'.step \in 0 .. 3
    BY <2>1 DEF MakeOK
  <2> QED
    BY <1>1, <2>2 DEF Submit, MakeOnly, manager, PlainOK
<1>2. CASE MakeServed
  <2>1. make'.step = make.step
    BY <1>2 DEF MakeServed, MakeOK
  <2> QED
    BY <1>2, <2>1 DEF MakeServed, MakeOnly, manager, PlainOK
<1>3. CASE MakeAnswered
  <2>1. make'.step = (IF form.keeps /\ make.step = 1 THEN 0 ELSE make.step + 1) /\ make.step < Len(form.steps)
    BY <1>3 DEF MakeAnswered, MakeOK
  <2>2. make'.step \in 0 .. 3
    BY <2>1, FormSteps DEF PlainOK
  <2> QED
    BY <1>3, <2>2 DEF MakeAnswered, MakeOnly, manager, PlainOK
<1>4. CASE MakeFails
  <2>1. make'.step = 0
    BY <1>4 DEF MakeFails, MakeOK
  <2> QED
    BY <1>4, <2>1 DEF MakeFails, MakeOnly, manager, PlainOK
<1>5. CASE MakeDone
  <2>1. make'.step = 0 /\ form' = NoForm
    BY <1>5 DEF MakeDone, Idle
  <2>2. at' \in {"form", "draft", "list", "gone"} /\ publishing' \in {"no", publishing}
        /\ hidden' \in {{}, hidden} /\ busy' \in {NoTitle, busy}
    BY <1>5 DEF MakeDone, Opens, manager
  <2> QED
    BY <2>1, <2>2 DEF PlainOK
<1> QED
  BY <1>1, <1>2, <1>3, <1>4, <1>5 DEF Make

LEMMA PlainNext ==
    ASSUME PlainOK, MakeOK, Types, [Next]_vars
    PROVE  PlainOK'
<1>1. CASE Next /\ ~Make
  <2>1. UNCHANGED <<form, make>>
    BY <1>1, FormsOnly
  <2>2. at' \in {at, "list", "gone"}
    BY <1>1 DEF Next, ReadServed, ReadEnds, ReadArrives, ReadFails, Rendered, SafetyTimer, Tick,
         RemoveItem, AddSelected, Add, AddServed, AddAnswered, AddFails, RemoveServed, RemoveEnds,
         RemoveAnswered, ManagerRemoved, RemoveFails, Manage, Leave, Edited, Publish, PublishServed,
         PublishEnds, PublishAnswered, PublishFails, Discard, Others, Opens
  <2>3. publishing' \in {publishing, "no", "sent", "served"}
    BY <1>1 DEF Next, ReadServed, ReadEnds, ReadArrives, ReadFails, Rendered, SafetyTimer, Tick,
         RemoveItem, AddSelected, Add, AddServed, AddAnswered, AddFails, RemoveServed, RemoveEnds,
         RemoveAnswered, ManagerRemoved, RemoveFails, Manage, Leave, Edited, Publish, PublishServed,
         PublishEnds, PublishAnswered, PublishFails, Discard, Others, Opens
  <2>4. busy' \in {busy, NoTitle} \cup Titles
    BY <1>1 DEF Next, ReadServed, ReadEnds, ReadArrives, ReadFails, Rendered, SafetyTimer, Tick,
         RemoveItem, AddSelected, Add, AddServed, AddAnswered, AddFails, RemoveServed, RemoveEnds,
         RemoveAnswered, ManagerRemoved, RemoveFails, Manage, Leave, Edited, Publish, PublishServed,
         PublishEnds, PublishAnswered, PublishFails, Discard, Others, Opens, manager
  <2>5. hidden' \in {hidden, {}} \/ \E r \in removes : hidden' = hidden \cup {r.title}
    BY <1>1 DEF Next, ReadServed, ReadEnds, ReadArrives, ReadFails, Rendered, SafetyTimer, Tick,
         RemoveItem, AddSelected, Add, AddServed, AddAnswered, AddFails, RemoveServed, RemoveEnds,
         RemoveAnswered, ManagerRemoved, RemoveFails, Manage, Leave, Edited, Publish, PublishServed,
         PublishEnds, PublishAnswered, PublishFails, Discard, Others, Opens, manager
  <2>6. hidden' \subseteq Titles
    BY <2>5 DEF PlainOK, Types, Removal
  <2> QED
    BY <2>1, <2>2, <2>3, <2>4, <2>6 DEF PlainOK
<1>2. CASE UNCHANGED vars
  BY <1>2 DEF vars, manager, PlainOK
<1> QED
  BY <1>1, <1>2, MakePlain DEF Next

LEMMA PlainGives == ASSUME PlainOK, MakeOK, Types PROVE TypeOK
<1>1. \A i \in DOMAIN shown : shown[i].title \in Titles /\ shown[i].temp \in BOOLEAN
  <2>1. \A i \in DOMAIN shown : shown[i] \in Row
    BY DEF Types
  <2> QED
    BY <2>1 DEF Row
<1>2. \A b \in batches : b.todo \in Seq(Titles) \ {<<>>} /\ b.at \in {"sent", "served"}
  BY DEF Types, Batch
<1>3. \A r \in removes : r.title \in Titles /\ r.at \in {"sent", "served"}
  BY DEF Types, Removal
<1>4. \A i \in DOMAIN reads : reads[i].kind \in {"viewer", "refresh", "render"}
  <2>1. \A i \in DOMAIN reads : reads[i] \in Read
    BY DEF Types
  <2> QED
    BY <2>1 DEF Read
<1> QED
  BY <1>1, <1>2, <1>3, <1>4 DEF TypeOK, PlainOK, MakeOK, Types

\* A submission never runs past the requests of its form, and every row, batch,
\* removal and the manager's lock is of a title that can be there
THEOREM TypeCorrect == Spec => []TypeOK
<1>1. Init => PlainOK /\ MakeOK /\ IInv
  <2>1. ASSUME Init PROVE PlainOK
    BY <2>1, ListForms DEF Init, PlainOK, Idle
  <2>2. Init => MakeOK
    BY DEF Init, Idle, MakeOK
  <2> QED
    BY <2>1, <2>2, InitInv
<1>2. PlainOK /\ MakeOK /\ IInv /\ [Next]_vars => (PlainOK /\ MakeOK /\ IInv)'
  BY PlainNext, MakeOKNext, InvNext DEF IInv
<1>3. PlainOK /\ MakeOK /\ IInv => TypeOK
  BY PlainGives DEF IInv
<1> QED
  BY <1>1, <1>2, <1>3, PTL DEF Spec
=============================================================================
