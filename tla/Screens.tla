------------------------------- MODULE Screens -------------------------------
(***************************************************************************)
(* A component that shows the server's answer to a query it may change at  *)
(* any time: the admin's tables and panels, the search boxes and pickers,  *)
(* the sections of a profile.  They are all written by hand and differ in  *)
(* a few decisions, which a record states per component: is an answer to   *)
(* an older query dropped, does typing wait before it asks, what a failure *)
(* leaves on the screen, how a write on a row reloads the rows and what it *)
(* disables meanwhile.  The steps are the same for all of them; any answer *)
(* may overtake any other.                                                 *)
(*                                                                         *)
(* The users table adds its selection (rows ticked, or "every row these    *)
(* filters match"), which a bulk operation acts on, and the undo of a      *)
(* toast (app/admin/(protected)/users/AdminUsersManager.tsx).              *)
(***************************************************************************)
EXTENDS Integers, FiniteSets

CONSTANTS
    Screens,     \* the components explored, a set of the records below
    Queries,     \* filters and page in play: pairs <<filters, page>>
    Rows,        \* rows with buttons
    Slots,       \* writes under way at once
    Opening,     \* what a screen without a search box opens with
    MaxAsks,     \* bound: what the user does, in all
    None,        \* nothing
    Blank        \* an empty search box, or nobody signed in

Filters(q) == IF q = Blank THEN None ELSE q[1]
ASSUME ScreensBounds ==
    /\ Opening \subseteq Queries /\ Slots # {} /\ MaxAsks \in Nat
    /\ {None, "all", "ticked", "undo"} \cap Rows = {} /\ {None, Blank} \cap Queries = {} /\ None # Blank
    /\ \A q \in Queries : q = <<q[1], q[2]>>

(***************************************************************************)
(* The components.                                                         *)
(***************************************************************************)
\* guard: which answers count.  "newest": the one to the last request (its
\* number is kept, or the debounced text's effect cancels the one before);
\* "cancel": none once the query changed, then the last; "all": any.
\* ask: "now", "wait" (a timer the next key restarts), or "both" (a timer for
\* the typed text, chips that ask at once and leave the timer alone).
\* fail: a failure is a notice beside the old rows ("keep"), takes their place
\* until a success ("replace") or for good ("sticks"), or empties them ("empty").
\* write: after a write succeeded the rows are read with the query of the
\* render the click came from, before ("held") or after ("asked") the buttons
\* come back, or with the query of now ("bump"); "none": no writes.
\* lock: buttons off during a write: "all", those of its "row", all but the
\* items of the rows' own "menu", or "none".
\* again: a button that asks again: never, after a failure, when idle, always.
\* blank: an empty query asks nothing and clears.  wipes: a new query clears.
\* match: rows of another query are not displayed.  bulk: the users table.
Screen == [guard : {"newest", "cancel", "all"}, ask : {"now", "wait", "both"},
           fail : {"keep", "replace", "sticks", "empty"},
           write : {"none", "held", "asked", "bump"}, lock : {"none", "row", "all", "menu"},
           again : {"never", "failed", "idle", "always"},
           blank : BOOLEAN, wipes : BOOLEAN, match : BOOLEAN, bulk : BOOLEAN]

\* A table read at once, whatever arrives is shown, errors beside the rows.
Table == [guard |-> "all", ask |-> "now", fail |-> "keep", write |-> "none",
          lock |-> "none", again |-> "never", blank |-> FALSE, wipes |-> FALSE,
          match |-> FALSE, bulk |-> FALSE]
\* A search box: typing waits, an empty text clears, a failure finds nothing.
Box == [Table EXCEPT !.ask = "wait", !.fail = "empty", !.blank = TRUE]

UsersTable == [Table EXCEPT !.guard = "newest", !.fail = "replace", !.write = "held",
                            !.lock = "menu", !.again = "failed", !.bulk = TRUE]
AuditLog == [Table EXCEPT !.guard = "newest", !.fail = "replace", !.write = "asked",
                          !.lock = "all", !.again = "failed"]
WatchLinks == [Table EXCEPT !.ask = "wait", !.write = "bump"]
WatchLinkTitles == Box
Overviews == [Table EXCEPT !.ask = "wait", !.write = "held", !.lock = "row"]
ListsTable == Overviews
ListItems == [Table EXCEPT !.wipes = TRUE]
BattlesTable == Overviews
EntityTable == [Table EXCEPT !.ask = "wait", !.write = "held", !.lock = "all"]
EntityPanel == [Table EXCEPT !.wipes = TRUE]
EntityAwards == [Table EXCEPT !.write = "held"]
AwardTitles == Box
DailyBattles == [Table EXCEPT !.write = "held", !.lock = "row"]
DailyFilms == [Box EXCEPT !.guard = "cancel"]
Messages == [Table EXCEPT !.fail = "replace", !.write = "held", !.again = "always"]
Alerts == Messages
Relations == [Table EXCEPT !.write = "held", !.lock = "all", !.blank = TRUE]
RelationTitles == Box
Dashboard == [Table EXCEPT !.again = "idle"]
Analytics == [Table EXCEPT !.again = "idle", !.match = TRUE]
Seo == Dashboard
SeoInspector == [Table EXCEPT !.fail = "empty", !.again = "always"]
Ingestion == [Table EXCEPT !.write = "held", !.lock = "all", !.again = "idle"]
Algorithms == [Table EXCEPT !.write = "asked", !.lock = "all", !.again = "idle"]
ExplainTitles == [Box EXCEPT !.guard = "newest"]
ExplainScore == [Table EXCEPT !.write = "held", !.lock = "all"]
UserRecord == [Table EXCEPT !.fail = "replace", !.write = "held", !.lock = "all",
                            !.again = "failed"]
UserActivity == [Table EXCEPT !.fail = "replace", !.again = "failed"]
UserAudit == [Table EXCEPT !.fail = "replace", !.again = "failed"]
UserOverview == [Table EXCEPT !.guard = "cancel", !.fail = "empty"]
SiteSearch == Box
GraphSearch == [Box EXCEPT !.guard = "cancel"]
SimilarLists == [Box EXCEPT !.guard = "newest"]
ListsExplorer == [Table EXCEPT !.guard = "newest", !.ask = "both", !.again = "failed"]
ProfileSections == [Table EXCEPT !.guard = "cancel", !.fail = "sticks", !.blank = TRUE]
ProfileTaste == [ProfileSections EXCEPT !.fail = "replace", !.again = "failed"]
PersonalUniverse == [Table EXCEPT !.guard = "cancel", !.fail = "replace"]
BattleEntries == [Box EXCEPT !.fail = "keep"]
BattlePeople == [Box EXCEPT !.guard = "newest", !.fail = "keep"]
ListCandidates == [Table EXCEPT !.guard = "newest", !.ask = "wait", !.fail = "empty",
                                !.wipes = TRUE]
NewListTitles == [Box EXCEPT !.guard = "newest"]
HeroSky == Table
\* The text of the hub counts as typed once its pause is over.
TournamentHub == [Table EXCEPT !.guard = "newest"]
MyBattles == Table
TasteBand == ProfileSections
SimilarTasters == [ProfileSections EXCEPT !.fail = "empty"]
DraftList == ProfileSections

AllScreens == {UsersTable, AuditLog, WatchLinks, WatchLinkTitles, Overviews, ListsTable,
    ListItems, BattlesTable, EntityTable, EntityPanel, EntityAwards, AwardTitles,
    DailyBattles, DailyFilms, Messages, Alerts, Relations, RelationTitles, Dashboard,
    Analytics, Seo, SeoInspector, Ingestion, Algorithms, ExplainTitles, ExplainScore,
    UserRecord, UserActivity, UserAudit, UserOverview, SiteSearch, GraphSearch,
    SimilarLists, ListsExplorer, ProfileSections, ProfileTaste, PersonalUniverse,
    BattleEntries, BattlePeople, ListCandidates, NewListTitles, HeroSky, TasteBand,
    SimilarTasters, DraftList, TournamentHub, MyBattles}

\* What no component combines: a reload by the query of now with an empty box,
\* chips with an empty box, a bulk operation with either or without a reload.
ASSUME ScreenKinds ==
    /\ Screens \subseteq Screen
    /\ \A s \in Screens :
        /\ s.write = "bump" \/ s.ask = "both" => ~s.blank
        /\ s.bulk => s.write = "held" /\ s.ask # "both" /\ ~s.blank

-----------------------------------------------------------------------------
(***************************************************************************)
(* The state.                                                              *)
(***************************************************************************)
VARIABLES
    screen,      \* the component explored
    query,       \* what its controls say
    timer,       \* the query a pending timer was armed with, or None
    requests,    \* reads under way: the query, where it is, the data it was
                 \* served, whether its answer still counts, the write it ends
    asked,       \* the query of the last read that counted
    shown,       \* the rows held: their query and data, or None
    loading,     \* the spinner
    failed,      \* the last answer that counted was a failure
    version,     \* the server's data: how many writes it took
    acked,       \* the data of the last write known to have succeeded
    writes,      \* per slot: the row, the query of the click's render, where it is
    busy,        \* what disables buttons: None, a row, or "all"
    toast,       \* the query of the render that offered the undo on show, or None
    selection,   \* rows ticked, "all these filters match", and (kept for the
                 \* property) the filters under which they were ticked
    asks         \* what the user did so far
vars == <<screen, query, timer, requests, asked, shown, loading, failed, version,
          acked, writes, busy, toast, selection, asks>>
reading == <<requests, asked, loading>>
writing == <<version, acked, writes, busy, toast>>

Ids == 1 .. (MaxAsks + 1)
Idle == [at |-> "idle", row |-> None, query |-> None, data |-> 0]
NothingTicked == [rows |-> {}, all |-> FALSE, under |-> None]

TypeOK ==
    /\ screen \in Screens
    /\ query \in Queries \cup {Blank}
    /\ timer \in Queries \cup {Blank, None}
    /\ requests \subseteq
          [id : Ids, query : Queries, at : {"sent", "served"}, data : 0 .. MaxAsks,
           counts : BOOLEAN, ends : Slots \cup {None}]
    /\ asked \in Queries \cup {Blank}
    /\ shown \in [query : Queries, data : 0 .. MaxAsks] \cup {None}
    /\ loading \in BOOLEAN /\ failed \in BOOLEAN
    /\ version \in 0 .. MaxAsks /\ acked \in 0 .. version
    /\ writes \in [Slots -> [at : {"idle", "sent", "served", "reading"},
                             row : Rows \cup {None, "ticked", "undo"},
                             query : Queries \cup {Blank, None}, data : 0 .. MaxAsks]]
    /\ busy \in Rows \cup {None, "all"}
    /\ toast \in Queries \cup {Blank, None}
    /\ selection \in [rows : SUBSET Rows, all : BOOLEAN,
                      under : {Filters(q) : q \in Queries} \cup {None}]
    /\ asks \in 0 .. MaxAsks

(***************************************************************************)
(* Reading.                                                                *)
(***************************************************************************)
FreeId(rs) == CHOOSE i \in Ids : \A r \in rs : r.id # i
Uncounted(rs) == {[r EXCEPT !.counts = FALSE] : r \in rs}
\* A read of q; it ends write slot s when it is answered.
Ask(q, s) ==
    /\ requests' =
         (IF screen.guard = "all" THEN requests ELSE Uncounted(requests))
           \cup {[id |-> FreeId(requests), query |-> q, at |-> "sent", data |-> 0,
                  counts |-> TRUE, ends |-> s]}
    /\ asked' = q
    /\ loading' = TRUE
\* The effect's cleanup cancels what the query before it asked.
Cancel == requests' = IF screen.guard = "cancel" THEN Uncounted(requests) ELSE requests

\* Whatever the user does, MaxAsks times in all.
User == asks < MaxAsks /\ asks' = asks + 1

\* What a new query does at once: wait, clear, or ask.
Follow(q) ==
    \/ /\ screen.blank /\ q = Blank
       /\ timer' = None /\ asked' = Blank
       /\ requests' = IF screen.guard = "all" THEN requests ELSE Uncounted(requests)
       /\ loading' \in {loading, FALSE}   \* some leave the spinner in a closed box
    \/ /\ screen.ask # "now" /\ ~(screen.blank /\ q = Blank)
       /\ timer' = q /\ Cancel
       /\ loading' \in {loading, screen.blank}  \* some boxes spin from the first key
       /\ UNCHANGED asked
    \/ /\ screen.ask = "now" /\ ~(screen.blank /\ q = Blank)
       /\ Ask(q, None)
       /\ UNCHANGED timer

\* Mutant: the flag of "all these filters match" outlives the filters.
SelectionAfterKeepsAll(q) ==
    IF Filters(q) = Filters(query) THEN selection ELSE [selection EXCEPT !.rows = {}]

\* The users table forgets the ticks when anything but the page changed.
SelectionAfter(q) ==
    IF Filters(q) = Filters(query) THEN selection ELSE NothingTicked

ChangeQuery(q) ==
    /\ User
    /\ q # query /\ (q = Blank => screen.blank)
    /\ query' = q
    /\ Follow(q)
    /\ shown' = IF (screen.wipes /\ screen.ask = "now") \/ q = Blank THEN None ELSE shown
    /\ selection' = SelectionAfter(q)
    /\ UNCHANGED <<screen, failed, writing>>

\* A chip of the lists explorer asks at once; a timer armed for the text goes on.
Pick(q) ==
    /\ User
    /\ screen.ask = "both" /\ q # query /\ q \in Queries
    /\ query' = q
    /\ Ask(q, None)
    /\ UNCHANGED <<screen, timer, shown, failed, writing, selection>>

\* The timer asks what it was armed with.
TimerFires ==
    /\ timer # None
    /\ timer' = None
    /\ Ask(timer, None)
    /\ shown' = IF screen.wipes THEN None ELSE shown
    /\ UNCHANGED <<screen, query, failed, writing, selection, asks>>

\* "Try again", "refresh": the query of now; the lists explorer repeats the last read.
AskAgain ==
    /\ User
    /\ \/ screen.again = "always"
       \/ screen.again = "idle" /\ ~loading
       \/ screen.again = "failed" /\ failed /\ ~loading
    /\ query # Blank
    /\ Ask(IF screen.ask = "both" THEN asked ELSE query, None)
    /\ UNCHANGED <<screen, query, timer, shown, failed, writing, selection>>

\* The server reads its data.
Serve(r) ==
    /\ r.at = "sent"
    /\ requests' = (requests \ {r}) \cup {[r EXCEPT !.at = "served", !.data = version]}
    /\ UNCHANGED <<screen, query, timer, asked, shown, loading, failed, writing,
                   selection, asks>>

\* The end of a write enables the buttons, whichever write disabled them.
Over(s) ==
    /\ writes' = [writes EXCEPT ![s] = Idle]
    /\ busy' = IF writes[s].row = "undo" THEN busy ELSE None
\* The end of a read ends the write that waited for it.
Release(s) == IF s = None THEN UNCHANGED <<writes, busy>> ELSE Over(s)

\* Mutant: the number of the last request is not compared.
ArriveWhatever(r) ==
    /\ r.at = "served"
    /\ requests' = requests \ {r}
    /\ shown' = [query |-> r.query, data |-> r.data]
    /\ failed' = FALSE /\ loading' = FALSE
    /\ Release(r.ends)
    /\ UNCHANGED <<screen, query, timer, asked, version, acked, toast, selection, asks>>

\* An answer, when it still counts, takes the place of the rows.
Arrive(r) ==
    /\ r.at = "served"
    /\ requests' = requests \ {r}
    /\ shown' = IF r.counts THEN [query |-> r.query, data |-> r.data] ELSE shown
    /\ failed' = IF r.counts THEN failed /\ screen.fail = "sticks" ELSE failed
    /\ loading' = (loading /\ ~r.counts)
    /\ Release(r.ends)
    /\ UNCHANGED <<screen, query, timer, asked, version, acked, toast, selection, asks>>

\* Mutant: the spinner is switched off after a success only.
ArriveFailedKeepsSpinning(r) ==
    /\ requests' = requests \ {r}
    /\ failed' = (failed \/ r.counts)
    /\ Release(r.ends)
    /\ UNCHANGED <<screen, query, timer, asked, shown, loading, version, acked, toast,
                   selection, asks>>

\* A failure, before or after the server did its part.
ArriveFailed(r) ==
    /\ requests' = requests \ {r}
    /\ shown' = IF r.counts /\ screen.fail = "empty" THEN None ELSE shown
    /\ failed' = (failed \/ (r.counts /\ screen.fail # "empty"))
    /\ loading' = (loading /\ ~r.counts)
    /\ Release(r.ends)
    /\ UNCHANGED <<screen, query, timer, asked, version, acked, toast, selection, asks>>

(***************************************************************************)
(* Writing: a button of a row, a bulk operation, the undo of a toast.      *)
(***************************************************************************)
Displayed ==
    IF \/ failed /\ screen.fail \in {"replace", "sticks"}
       \/ shown # None /\ screen.match /\ shown.query # query
    THEN None ELSE shown

\* What a write takes, and which buttons that disables.
Enabled(row) ==
    CASE screen.lock = "all" -> busy = None
      [] screen.lock = "row" -> busy # row
      [] OTHER -> TRUE
LockedBy(row) ==
    CASE screen.lock \in {"all", "menu"} -> "all" [] screen.lock = "row" -> row
      [] OTHER -> None
\* The handler keeps the query of the render its button came from.
Begin(s, row, q) ==
    /\ User
    /\ writes[s] = Idle
    /\ writes' = [writes EXCEPT ![s] = [at |-> "sent", row |-> row, query |-> q, data |-> 0]]
    /\ UNCHANGED <<screen, query, timer, reading, shown, failed, version, acked, selection>>

Click(s, row) ==
    /\ screen.write # "none" /\ Displayed # None /\ query # Blank
    /\ Enabled(row)
    /\ Begin(s, row, query) /\ busy' = LockedBy(row)
    /\ UNCHANGED toast

\* The toast's button runs what the click's handler closed over.
Undo(s) ==
    /\ toast # None
    /\ Begin(s, "undo", toast)
    /\ toast' = None
    /\ UNCHANGED busy

ToastExpires ==
    /\ toast # None
    /\ toast' = None
    /\ UNCHANGED <<screen, query, timer, reading, shown, failed, version, acked, writes,
                   busy, selection, asks>>

RunBulk(s) ==
    /\ screen.bulk /\ (selection.all \/ selection.rows # {}) /\ busy = None
    /\ Begin(s, "ticked", query) /\ busy' = "all"
    /\ UNCHANGED toast

ServeWrite(s) ==
    /\ writes[s].at = "sent"
    /\ version' = version + 1
    /\ writes' = [writes EXCEPT ![s].at = "served", ![s].data = version + 1]
    /\ UNCHANGED <<screen, query, timer, reading, shown, failed, acked, busy, toast,
                   selection, asks>>

\* Mutant: no reload while a read is under way.
ReadAgainUnlessLoading(s) ==
    /\ IF loading THEN UNCHANGED reading ELSE Ask(writes[s].query, None)
    /\ Over(s)
    /\ UNCHANGED timer

\* After a success the rows are read again, and the write is over when they
\* arrived ("held"), at once ("asked"), or at once with the query of now ("bump").
ReadAgain(s) ==
    LET q == writes[s].query IN
    CASE screen.write = "held" ->
           /\ Ask(q, s)
           /\ writes' = [writes EXCEPT ![s].at = "reading"]
           /\ UNCHANGED <<busy, timer>>
      [] screen.write = "asked" ->
           /\ Ask(q, None)
           /\ Over(s)
           /\ UNCHANGED timer
      [] OTHER ->
           /\ Follow(query)
           /\ Over(s)

WriteSucceeds(s) ==
    /\ writes[s].at = "served"
    /\ acked' = IF writes[s].data > acked THEN writes[s].data ELSE acked
    /\ ReadAgain(s)
    /\ toast' = IF screen.bulk /\ writes[s].row \in Rows THEN writes[s].query ELSE toast
    /\ selection' = IF writes[s].row = "ticked" THEN NothingTicked ELSE selection
    /\ UNCHANGED <<screen, query, shown, failed, version, asks>>

\* Mutant: the buttons come back after a success only.
WriteFailsKeepsBusy(s) ==
    /\ writes[s].at \in {"sent", "served"}
    /\ writes' = [writes EXCEPT ![s] = Idle]
    /\ UNCHANGED <<screen, query, timer, reading, shown, failed, version, acked, busy,
                   toast, selection, asks>>

\* Refused, or the answer was lost after the server did it: a notice, no read.
WriteFails(s) ==
    /\ writes[s].at \in {"sent", "served"}
    /\ Over(s)
    /\ UNCHANGED <<screen, query, timer, reading, shown, failed, version, acked, toast,
                   selection, asks>>

(***************************************************************************)
(* The users table's ticks.                                                *)
(***************************************************************************)
Tick(rows, all) ==
    /\ screen.bulk
    /\ selection' = IF rows = {} /\ ~all THEN NothingTicked
                    ELSE [rows |-> rows, all |-> all, under |-> Filters(query)]
    /\ UNCHANGED <<screen, query, timer, reading, shown, failed, writing, asks>>

ToggleRow(r) ==
    /\ Displayed # None
    /\ Tick(CASE selection.all -> {}
              [] r \in selection.rows -> selection.rows \ {r}
              [] OTHER -> selection.rows \cup {r}, FALSE)
TogglePage ==
    /\ Displayed # None
    /\ Tick(IF selection.rows = Rows THEN {} ELSE Rows, FALSE)
\* Offered when the whole page is ticked.
SelectAllMatching ==
    /\ Displayed # None /\ selection.rows = Rows
    /\ Tick(Rows, TRUE)
ClearSelection == selection.rows # {} /\ Tick({}, FALSE)

-----------------------------------------------------------------------------
Init ==
    /\ screen \in Screens
    /\ query \in (IF screen.blank THEN {Blank} ELSE Opening)
    /\ timer = None
    /\ requests = IF query = Blank THEN {}
                  ELSE {[id |-> 1, query |-> query, at |-> "sent", data |-> 0,
                         counts |-> TRUE, ends |-> None]}
    /\ asked = query /\ loading = (query # Blank)
    /\ shown = None /\ failed = FALSE
    /\ version = 0 /\ acked = 0
    /\ writes = [s \in Slots |-> Idle] /\ busy = None
    /\ toast = None /\ selection = NothingTicked /\ asks = 0

Answers == \E r \in requests : Serve(r) \/ Arrive(r) \/ ArriveFailed(r)
WriteAnswers == \E s \in Slots : ServeWrite(s) \/ WriteSucceeds(s) \/ WriteFails(s)

Next ==
    \/ \E q \in Queries \cup {Blank} : ChangeQuery(q) \/ Pick(q)
    \/ TimerFires
    \/ AskAgain
    \/ Answers
    \/ WriteAnswers
    \/ \E s \in Slots, row \in Rows : Click(s, row)
    \/ \E s \in Slots : Undo(s) \/ RunBulk(s)
    \/ ToastExpires
    \/ \E row \in Rows : ToggleRow(row)
    \/ TogglePage \/ SelectAllMatching \/ ClearSelection

\* Timers fire, and every read and write ends: with an answer or with an error.
Fairness == WF_vars(TimerFires) /\ WF_vars(Answers) /\ WF_vars(WriteAnswers)
Spec == Init /\ [][Next]_vars /\ Fairness

(***************************************************************************)
(* Properties.                                                             *)
(***************************************************************************)
Settled == requests = {} /\ timer = None /\ \A s \in Slots : writes[s] = Idle

\* Where old answers are dropped, the rows on the screen, once nothing is under
\* way, are the answer to the last question; and that is what the controls say,
\* unless a handler of an older render (a write's reload, an armed timer) asked
\* it.  A failure since leaves the rows it found.
RowsAnswerTheQuestion ==
    Settled /\ ~failed /\ Displayed # None =>
        /\ screen.guard # "all" => shown.query = asked
        /\ screen.guard # "all" /\ screen.write \in {"none", "bump"} /\ screen.ask # "both"
             => shown.query = query
        /\ screen.match => shown.query = query

\* Where only the last answer counts, an answered write is in the rows on the
\* screen once its reload is over: a read served before the write never stays.
WritesAreSeen ==
    Settled /\ ~failed /\ screen.guard = "newest" /\ Displayed # None
        => shown.data >= acked

\* The ticks a bulk operation acts on were made under the filters of now.
TicksAreOfTheseFilters ==
    selection.all \/ selection.rows # {} => selection.under = Filters(query)

\* The spinner ends, whatever fails.
SpinnerEnds == loading ~> ~loading \/ query = Blank

\* The buttons a write disabled come back, whatever fails.
ButtonsComeBack == busy # None ~> busy = None
=============================================================================
