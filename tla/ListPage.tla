------------------------------ MODULE ListPage ------------------------------
(***************************************************************************)
(* One viewer makes a list and works on it: the forms that make a list or  *)
(* a battle in several requests, the page of a draft and the page of a     *)
(* public list, where items are added one by one behind rows that are      *)
(* shown at once, removed, managed, edited, and the draft is published.    *)
(* Requests and reads of the list overlap and end in any order.            *)
(*                                                                         *)
(* doubt, missed, torn and lost are no state of the code: they name what   *)
(* the page cannot know because an answer was lost or overtaken.           *)
(***************************************************************************)
EXTENDS Integers, Sequences, SequencesExt, FiniteSets

CONSTANTS
    Explored,    \* the forms explored, a set of the records below
    Places,      \* where a visit starts: "form", "draft", "list"
    Titles,      \* the titles that can be added
    MinItems,    \* MIN_ITEMS_TO_PUBLISH
    MaxAsks      \* bound: clicks, and changes by others

ASSUME ListBounds == IsFiniteSet(Titles) /\ MinItems \in Nat \ {0} /\ MaxAsks \in Nat

(***************************************************************************)
(* The forms: the requests one submission sends in turn, whether the form  *)
(* remembers what it has made when a later one fails, and whether the      *)
(* server makes it once (the name of an account is taken afterwards).      *)
(***************************************************************************)
NewList == [steps |-> <<"create">>, keeps |-> FALSE, once |-> FALSE, opens |-> "draft"]
MenuList == [NewList EXCEPT !.steps = <<"create", "fill">>]
PairCard == [NewList EXCEPT !.steps = <<"create", "fill", "publish">>, !.opens = "gone"]
Wizard == [PairCard EXCEPT !.keeps = TRUE]
Contact == [NewList EXCEPT !.opens = "gone"]
NewEntity == Contact
Register == [PairCard EXCEPT !.steps = <<"create", "login">>, !.once = TRUE]
AllForms == {NewList, MenuList, PairCard, Wizard, Contact, NewEntity, Register}
NoForm == [Contact EXCEPT !.steps = <<>>]

ASSUME ListForms == Explored \subseteq AllForms /\ Places \subseteq {"form", "draft", "list"}

VARIABLES
    form, make,          \* the form, and its submission
    at,                  \* what is on screen: "form", "draft", "list", "gone"
    stored, public,      \* the list on the server
    shown,               \* the rows of the page, some not saved yet
    ticks,               \* what is ticked in the panel, in order
    batches, removes,    \* ticked titles being saved; rows being removed
    reads,               \* reads of the list, in the order they were sent
    syncing,             \* a refresh is awaited
    managing, hidden, busy, \* the manager is open, what it took off, its lock
    publishing,          \* the publish request: "no", "sent", "served"
    asks, doubt, missed, torn
server == <<stored, public>>
manager == <<managing, hidden, busy>>
vars == <<form, make, at, server, shown, ticks, batches, removes, reads, syncing, manager,
          publishing, asks, doubt, missed, torn>>

NoTitle == "none"
Idle == [step |-> 0, served |-> FALSE, kept |-> FALSE, made |-> 0, lost |-> FALSE]
Real(s) == [i \in DOMAIN s |-> [title |-> s[i], temp |-> FALSE]]
TitlesOf(rows) == [i \in DOMAIN rows |-> rows[i].title]
Saving == syncing \/ \E i \in DOMAIN shown : shown[i].temp
OnPage == at \in {"draft", "list"}

TypeOK ==
    /\ form \in Explored \cup {NoForm} /\ at \in {"form", "draft", "list", "gone"}
    /\ make.step \in 0 .. 3 /\ make.made \in Nat
    /\ stored \in Seq(Titles) /\ ticks \in Seq(Titles) /\ hidden \in SUBSET Titles
    /\ \A i \in DOMAIN shown : shown[i].title \in Titles /\ shown[i].temp \in BOOLEAN
    /\ busy \in Titles \cup {NoTitle} /\ publishing \in {"no", "sent", "served"}
    /\ \A b \in batches : b.todo \in Seq(Titles) \ {<<>>} /\ b.at \in {"sent", "served"}
    /\ \A r \in removes : r.title \in Titles /\ r.at \in {"sent", "served"}
    /\ \A i \in DOMAIN reads : reads[i].kind \in {"viewer", "refresh", "render"}

Asks == asks < MaxAsks /\ asks' = asks + 1
Quiet == batches = {} /\ removes = {}
Spoiled(rs) == [i \in DOMAIN rs |-> [rs[i] EXCEPT !.clean = FALSE]]

(***************************************************************************)
(* Reading the list.                                                       *)
(***************************************************************************)
NewRead(kind, clean) ==
    [kind |-> kind, at |-> "sent", page |-> <<>>, clean |-> clean, late |-> FALSE]
\* A second reading of the viewer's own cancels the first, of which there is
\* never more than one.
Own(rs) == {i \in DOMAIN rs : rs[i].kind = "viewer"}
Uncancelled(rs) == IF Own(rs) = {} THEN rs ELSE RemoveAt(rs, CHOOSE i \in Own(rs) : TRUE)
\* refresh(): the list is read again, and the server renders the public page.
Refreshed(rs, clean) ==
    rs \o <<NewRead("refresh", clean)>>
       \o IF at = "list" THEN <<NewRead("render", clean)>> ELSE <<>>
Rendering(rs) == \E i \in DOMAIN rs : rs[i].kind = "render"

\* Every reading sent before the i-th is late once that one has ended.
Ended(i) ==
    [j \in 1 .. Len(reads) - 1 |->
        IF j < i THEN [reads[j] EXCEPT !.late = TRUE] ELSE reads[j + 1]]
\* The end of a reading ends the wait, unless the page is being rendered.
StopSyncing(i) ==
    syncing' = (syncing /\ reads[i].kind = "viewer" /\ Rendering(reads))

ReadServed(i) ==
    /\ reads[i].at = "sent" /\ reads[i].kind # "render"
    /\ reads' = [reads EXCEPT ![i].at = "served", ![i].page = stored]
    /\ UNCHANGED <<form, make, at, server, shown, ticks, batches, removes, syncing, manager,
                   publishing, asks, doubt, missed, torn>>

\* The answer takes the place of every row, saved or not.
ReadArrives(i) ==
    /\ reads[i].at = "served"
    /\ shown' = Real(reads[i].page)
    /\ hidden' = {}
    /\ busy' = IF shown' = shown THEN busy ELSE NoTitle
    /\ removes' = IF shown' = shown THEN removes
                  ELSE {[r EXCEPT !.here = @ /\ r.from # "manager"] : r \in removes}
    /\ reads' = Ended(i)
    /\ StopSyncing(i)
    /\ doubt' = ~reads[i].clean
    /\ missed' = (~reads[i].clean /\ (missed \/ reads[i].late))
    /\ torn' = (torn \/ batches # {})
    /\ UNCHANGED <<form, make, at, server, ticks, batches, managing, publishing, asks>>

ReadFails(i) ==
    /\ reads[i].kind # "render"
    /\ reads' = Ended(i)
    /\ StopSyncing(i)
    /\ missed' = TRUE
    /\ UNCHANGED <<form, make, at, server, shown, ticks, batches, removes, manager, publishing,
                   asks, doubt, torn>>

\* The rendered page makes the viewer's own reading start over.
Rendered(i) ==
    /\ reads[i].kind = "render"
    /\ reads' = Append(Uncancelled(RemoveAt(reads, i)), NewRead("viewer", Quiet))
    /\ UNCHANGED <<form, make, at, server, shown, ticks, batches, removes, syncing, manager,
                   publishing, asks, doubt, missed, torn>>

\* Twenty seconds after refresh() the publish button no longer waits.
SafetyTimer ==
    /\ syncing /\ syncing' = FALSE
    /\ UNCHANGED <<form, make, at, server, shown, ticks, batches, removes, reads, manager,
                   publishing, asks, doubt, missed, torn>>

(***************************************************************************)
(* The forms.                                                              *)
(***************************************************************************)
MakeOnly == <<form, server, shown, ticks, batches, removes, reads, syncing, manager, publishing,
              doubt, missed, torn>>

\* A submission; the wizard saves its first page again or goes on from it.
Submit ==
    /\ at = "form" /\ make.step = 0 /\ Asks
    /\ \E step \in IF form.keeps /\ make.kept THEN {1, 2} ELSE {1} :
         make' = [make EXCEPT !.step = step]
    /\ UNCHANGED <<at, MakeOnly>>

\* Only the first request of a form that has nothing yet makes something.
MakeServed ==
    /\ at = "form" /\ make.step > 0 /\ ~make.served
    /\ (form.once /\ make.step = 1) => make.made = 0
    /\ make' = [make EXCEPT !.served = TRUE,
                            !.made = IF make.step = 1 /\ ~make.kept THEN @ + 1 ELSE @]
    /\ UNCHANGED <<at, asks, MakeOnly>>

\* Mutant: the wizard forgets the draft it has made.
MakeAnsweredForgets ==
    /\ at = "form" /\ make.served /\ make.step < Len(form.steps)
    /\ make' = [make EXCEPT !.step = IF form.keeps /\ @ = 1 THEN 0 ELSE @ + 1, !.served = FALSE]
    /\ UNCHANGED <<at, asks, MakeOnly>>

\* The next request follows; the wizard waits for its next page first.
MakeAnswered ==
    /\ at = "form" /\ make.served /\ make.step < Len(form.steps)
    /\ make' = [make EXCEPT !.step = IF form.keeps /\ @ = 1 THEN 0 ELSE @ + 1, !.served = FALSE,
                            !.kept = form.keeps]
    /\ UNCHANGED <<at, asks, MakeOnly>>

\* The form can be sent again, whatever its requests have done.
MakeFails ==
    /\ at = "form" /\ make.step > 0
    /\ make' = [make EXCEPT !.step = 0, !.served = FALSE,
                            !.lost = @ \/ (make.served /\ make.step = 1)]
    /\ UNCHANGED <<at, asks, MakeOnly>>

\* A page of the list opens and the viewer's own reading of it starts.
Opens(page, s) ==
    /\ at' = page
    /\ shown' = Real(s) /\ ticks' = <<>> /\ syncing' = FALSE /\ publishing' = "no"
    /\ managing' = FALSE /\ hidden' = {} /\ busy' = NoTitle
    /\ reads' = <<NewRead("viewer", Quiet)>>
\* The last request of a list's form opens its draft.
MakeDone ==
    /\ at = "form" /\ make.served /\ make.step = Len(form.steps)
    /\ make' = Idle /\ form' = NoForm
    /\ \/ /\ form.opens = "gone" /\ at' = "gone"
          /\ UNCHANGED <<stored, shown, ticks, syncing, publishing, manager, reads>>
       \/ /\ form.opens = "draft"
          /\ \E s \in {<<>>} \cup {<<t>> : t \in Titles} :
               /\ (s # <<>>) <=> (make.step > 1)
               /\ stored' = s /\ Opens("draft", s)
    /\ UNCHANGED <<public, batches, removes, asks, doubt, missed, torn>>

(***************************************************************************)
(* Adding: the ticked titles are shown at once and saved one after another.*)
(***************************************************************************)
Tick(t) ==
    /\ OnPage /\ ~managing
    /\ ~Contains(ticks, t) /\ ~Contains(TitlesOf(shown), t)
    /\ ticks' = Append(ticks, t)
    /\ UNCHANGED <<form, make, at, server, shown, batches, removes, reads, syncing, manager,
                   publishing, asks, doubt, missed, torn>>

AddSelected ==
    /\ OnPage /\ ~managing /\ ticks # <<>> /\ Asks
    /\ shown' = shown \o [i \in DOMAIN ticks |-> [title |-> ticks[i], temp |-> TRUE]]
    /\ batches' = batches \cup {[id |-> asks, todo |-> ticks, at |-> "sent", here |-> TRUE]}
    /\ ticks' = <<>>
    /\ reads' = Spoiled(reads)
    /\ doubt' = (doubt \/ batches # {})
    /\ UNCHANGED <<form, make, at, server, removes, syncing, manager, publishing, missed, torn>>

\* A title is in a list once.
AddServed(b) ==
    /\ b.at = "sent" /\ ~Contains(stored, Head(b.todo))
    /\ stored' = Append(stored, Head(b.todo))
    /\ batches' = (batches \ {b}) \cup {[b EXCEPT !.at = "served"]}
    /\ UNCHANGED <<form, make, at, public, shown, ticks, removes, reads, syncing, manager,
                   publishing, asks, doubt, missed, torn>>

\* The rest of a batch; after its last title the list is read again.  A batch
\* of a page that was left only makes the page on screen render.
Continued(b) ==
    LET rest == [b EXCEPT !.todo = Tail(@), !.at = "sent"]
        over == rest.todo = <<>> IN
    /\ batches' = (batches \ {b}) \cup IF over THEN {} ELSE {rest}
    /\ torn' = (torn /\ batches' # {})
    /\ reads' = IF ~over THEN reads
                ELSE IF b.here THEN Refreshed(reads, batches' = {} /\ removes = {})
                ELSE IF at = "list" THEN Append(reads, NewRead("render", FALSE))
                ELSE reads
    /\ syncing' = (syncing \/ (over /\ b.here))

Unsaved(t) == {i \in DOMAIN shown : shown[i] = [title |-> t, temp |-> TRUE]}
AddAnswered(b) ==
    /\ b.at = "served"
    /\ Continued(b)
    /\ shown' = IF b.here
                THEN [i \in DOMAIN shown |->
                        IF i \in Unsaved(Head(b.todo)) THEN [shown[i] EXCEPT !.temp = FALSE]
                        ELSE shown[i]]
                ELSE shown
    /\ UNCHANGED <<form, make, at, server, ticks, removes, manager, publishing, asks, doubt,
                   missed>>

\* Mutant: a title that was refused stays on the page.
AddFailsKeepsRow(b) ==
    /\ Continued(b)
    /\ doubt' = (doubt \/ b.at = "served")
    /\ UNCHANGED <<form, make, at, server, shown, ticks, removes, manager, publishing, asks,
                   missed>>

\* Refused, or the answer was lost: the row is taken off the page again.
AddFails(b) ==
    /\ Continued(b)
    /\ shown' = IF b.here /\ Unsaved(Head(b.todo)) # {}
                THEN RemoveAt(shown, CHOOSE i \in Unsaved(Head(b.todo)) :
                                        \A j \in Unsaved(Head(b.todo)) : i <= j)
                ELSE shown
    /\ doubt' = (doubt \/ b.at = "served")
    /\ UNCHANGED <<form, make, at, server, ticks, removes, manager, publishing, asks, missed>>

(***************************************************************************)
(* Removing a row of the page, or of the manager.                          *)
(***************************************************************************)
Rows(t) == {i \in DOMAIN shown : shown[i] = [title |-> t, temp |-> FALSE]}
RemoveItem(t) ==
    /\ OnPage /\ Rows(t) # {} /\ Asks
    /\ \/ /\ ~managing /\ \A r \in removes : r.title = t => r.from = "manager"
          /\ UNCHANGED busy
       \/ managing /\ t \notin hidden /\ busy # t /\ busy' = t
    /\ removes' = removes \cup
         {[id |-> asks, title |-> t, at |-> "sent", here |-> TRUE,
           from |-> IF managing THEN "manager" ELSE "page"]}
    /\ reads' = Spoiled(reads)
    /\ UNCHANGED <<form, make, at, server, shown, ticks, batches, syncing, managing, hidden,
                   publishing, doubt, missed, torn>>

RemoveServed(r) ==
    /\ r.at = "sent"
    /\ \E i \in DOMAIN stored : stored[i] = r.title /\ stored' = RemoveAt(stored, i)
    /\ removes' = (removes \ {r}) \cup {[r EXCEPT !.at = "served"]}
    /\ UNCHANGED <<form, make, at, public, shown, ticks, batches, reads, syncing, manager,
                   publishing, asks, doubt, missed, torn>>

\* Mutant: the page does not read the list again after a removal.
RemoveAnsweredAlone(r) ==
    /\ r.at = "served" /\ r.from = "page"
    /\ removes' = removes \ {r}
    /\ shown' = IF r.here /\ Rows(r.title) # {}
                THEN RemoveAt(shown, CHOOSE i \in Rows(r.title) : \A j \in Rows(r.title) : i <= j)
                ELSE shown
    /\ UNCHANGED <<form, make, at, server, ticks, batches, reads, syncing, manager, publishing,
                   asks, doubt, missed, torn>>

\* The page takes the row off and reads the list again.
RemoveAnswered(r) ==
    /\ r.at = "served" /\ r.from = "page"
    /\ removes' = removes \ {r}
    /\ shown' = IF r.here /\ Rows(r.title) # {}
                THEN RemoveAt(shown, CHOOSE i \in Rows(r.title) : \A j \in Rows(r.title) : i <= j)
                ELSE shown
    /\ reads' = IF r.here THEN Refreshed(reads, batches = {} /\ removes' = {})
                ELSE IF at = "list" THEN Append(reads, NewRead("render", FALSE)) ELSE reads
    /\ syncing' = (syncing \/ r.here)
    /\ UNCHANGED <<form, make, at, server, ticks, batches, manager, publishing, asks, doubt,
                   missed, torn>>

\* The manager takes it off its own rows only; a manager that was closed, or
\* opened anew, learns nothing of it.
ManagerRemoved(r) ==
    /\ r.at = "served" /\ r.from = "manager"
    /\ removes' = removes \ {r}
    /\ hidden' = IF r.here THEN hidden \cup {r.title} ELSE hidden
    /\ busy' = IF r.here THEN NoTitle ELSE busy
    /\ doubt' = TRUE
    /\ missed' = (missed \/ ~r.here)
    /\ UNCHANGED <<form, make, at, server, shown, ticks, batches, reads, syncing, managing,
                   publishing, asks, torn>>

RemoveFails(r) ==
    /\ removes' = removes \ {r}
    /\ busy' = IF r.here /\ r.from = "manager" THEN NoTitle ELSE busy
    /\ doubt' = (doubt \/ r.at = "served")
    /\ missed' = (missed \/ r.at = "served")
    /\ UNCHANGED <<form, make, at, server, shown, ticks, batches, reads, syncing, managing, hidden,
                   publishing, asks, torn>>

(***************************************************************************)
(* Managing, editing, publishing.                                          *)
(***************************************************************************)
\* Not while a row is unsaved; the panel and its ticks go.
Manage ==
    /\ OnPage /\ ~managing /\ shown # <<>> /\ Asks
    /\ \A i \in DOMAIN shown : ~shown[i].temp
    /\ managing' = TRUE /\ hidden' = {} /\ busy' = NoTitle /\ ticks' = <<>>
    /\ UNCHANGED <<form, make, at, server, shown, batches, removes, reads, syncing, publishing,
                   doubt, missed, torn>>

\* "Done", or the panel is opened: the list is read again.
Leave ==
    /\ OnPage /\ managing
    /\ managing' = FALSE /\ hidden' = {} /\ busy' = NoTitle
    /\ removes' = {[r EXCEPT !.here = @ /\ r.from # "manager"] : r \in removes}
    /\ reads' = Refreshed(reads, Quiet) /\ syncing' = TRUE
    /\ UNCHANGED <<form, make, at, server, shown, ticks, batches, publishing, asks, doubt, missed,
                   torn>>

\* New words for the list: a draft reads it again, a public page refreshes.
Edited ==
    /\ OnPage /\ Asks
    /\ \/ /\ at = "draft" /\ UNCHANGED syncing
          /\ reads' = Append(Uncancelled(reads), NewRead("viewer", Quiet))
       \/ /\ at = "list" /\ syncing' = TRUE
          /\ reads' = Refreshed(reads, Quiet)
    /\ UNCHANGED <<form, make, at, server, shown, ticks, batches, removes, manager, publishing,
                   doubt, missed, torn>>

\* Mutant: an unsaved row does not hold the button back.
CanPublishUnsaved ==
    at = "draft" /\ publishing = "no" /\ Len(shown) >= MinItems /\ ~syncing

CanPublish == at = "draft" /\ publishing = "no" /\ Len(shown) >= MinItems /\ ~Saving
Publish ==
    /\ CanPublish
    /\ publishing' = "sent"
    /\ UNCHANGED <<form, make, at, server, shown, ticks, batches, removes, reads, syncing, manager,
                   asks, doubt, missed, torn>>

PublishServed ==
    /\ publishing = "sent" /\ (public \/ Len(stored) >= MinItems)
    /\ publishing' = "served" /\ public' = TRUE
    /\ UNCHANGED <<form, make, at, stored, shown, ticks, batches, removes, reads, syncing, manager,
                   asks, doubt, missed, torn>>

\* The page of the list opens; what is under way belongs to the page left.
PublishAnswered ==
    /\ publishing = "served"
    /\ Opens("list", stored)
    /\ batches' = {[b EXCEPT !.here = FALSE] : b \in batches}
    /\ removes' = {[r EXCEPT !.here = FALSE] : r \in removes}
    /\ doubt' = ~Quiet /\ missed' = ~Quiet
    /\ UNCHANGED <<form, make, server, asks, torn>>

PublishFails ==
    /\ publishing # "no" /\ publishing' = "no"
    /\ UNCHANGED <<form, make, at, server, shown, ticks, batches, removes, reads, syncing, manager,
                   asks, doubt, missed, torn>>

\* The draft is discarded (request and answer in one step) and the page left.
Discard ==
    /\ at = "draft" /\ ~public /\ at' = "gone"
    /\ stored' = <<>> /\ publishing' = "no" /\ syncing' = FALSE
    /\ batches' = {} /\ removes' = {} /\ reads' = <<>>
    /\ UNCHANGED <<form, make, public, shown, ticks, manager, asks, doubt, missed, torn>>

\* Anyone may add to a public list, and take off again what they added.
Others ==
    /\ at = "list" /\ Asks
    /\ \/ \E i \in DOMAIN stored : stored' = RemoveAt(stored, i)
       \/ \E t \in Titles : ~Contains(stored, t) /\ stored' = Append(stored, t)
    /\ reads' = Spoiled(reads) /\ doubt' = TRUE /\ missed' = TRUE
    /\ UNCHANGED <<form, make, at, public, shown, ticks, batches, removes, syncing, manager,
                   publishing, torn>>
-----------------------------------------------------------------------------
Init ==
    /\ at \in Places /\ make = Idle
    /\ form \in IF at = "form" THEN Explored ELSE {NoForm}
    /\ stored \in {<<>>} \cup {<<t>> : t \in Titles} /\ (at = "form" => stored = <<>>)
    /\ public = (at = "list")
    /\ shown = Real(stored) /\ ticks = <<>>
    /\ batches = {} /\ removes = {} /\ syncing = FALSE
    /\ reads = IF OnPage THEN <<NewRead("viewer", TRUE)>> ELSE <<>>
    /\ managing = FALSE /\ hidden = {} /\ busy = NoTitle /\ publishing = "no"
    /\ asks = 0 /\ doubt = FALSE /\ missed = FALSE /\ torn = FALSE

Make == Submit \/ MakeServed \/ MakeAnswered \/ MakeFails \/ MakeDone
Add(b) == AddServed(b) \/ AddAnswered(b) \/ AddFails(b)
RemoveEnds(r) == RemoveAnswered(r) \/ ManagerRemoved(r) \/ RemoveFails(r)
ReadEnds(i) == ReadArrives(i) \/ ReadFails(i) \/ Rendered(i)
PublishEnds == PublishAnswered \/ PublishFails
Next ==
    \/ Make
    \/ \E i \in DOMAIN reads : ReadServed(i) \/ ReadEnds(i)
    \/ SafetyTimer
    \/ \E t \in Titles : Tick(t) \/ RemoveItem(t)
    \/ AddSelected
    \/ \E b \in batches : Add(b)
    \/ \E r \in removes : RemoveServed(r) \/ RemoveEnds(r)
    \/ Manage \/ Leave \/ Edited
    \/ Publish \/ PublishServed \/ PublishEnds
    \/ Discard \/ Others

\* Requests end, and the timer fires; nobody has to click.
Fairness ==
    /\ WF_vars(\E b \in batches : Add(b))
    /\ WF_vars(\E r \in removes : RemoveEnds(r))
    /\ WF_vars(\E i \in DOMAIN reads : ReadEnds(i))
    /\ WF_vars(SafetyTimer) /\ WF_vars(PublishEnds)
Spec == Init /\ [][Next]_vars /\ Fairness

(***************************************************************************)
(* Properties.                                                             *)
(***************************************************************************)
\* The wizard makes one battle however often its requests fail, unless it was
\* never told of the one it made.
OneIsMade == (form.keeps /\ ~make.lost) => make.made <= 1

\* When nothing is under way the page shows the list, in its order: because the
\* rows followed every answer, or because the list was read again after what
\* overlapped, unless that reading failed or was overtaken.
ShownIsStored ==
    (OnPage /\ ~managing /\ Quiet /\ reads = <<>> /\ ~(doubt /\ missed))
        => TitlesOf(shown) = stored

\* The draft is not published before all its items are saved, unless a
\* reading has taken unsaved rows off the page.
GateWaits == (CanPublish /\ ~torn) => batches = {}

\* The publish button comes back from every wait.
ButtonsReturn ==
    /\ (at = "draft" /\ Saving) ~> (at # "draft" \/ ~Saving)
    /\ publishing # "no" ~> publishing = "no"
=============================================================================
