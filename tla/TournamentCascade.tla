--------------------------- MODULE TournamentCascade ---------------------------
(***************************************************************************)
(* Tournament together with the hard delete of a title by an admin         *)
(* (admin/entity_manager.py): the foreign keys of tournament_models.py     *)
(* cascade into the battle's participants, matches and votes.              *)
(***************************************************************************)
EXTENDS Tournament

VARIABLE live   \* the titles that still exist

cvars == <<vars, live>>

CInit == Init /\ live = Entities

\* set_entries and publish check that every title exists
Keep == Next /\ Ranked(seed') \subseteq live /\ UNCHANGED live

\* Mutant of Survives: only the foreign key of side a cascades
SurvivesOnSideB(e) == {s \in DOMAIN match : e # match[s].a}

Survives(e) == {s \in DOMAIN match : e \notin {match[s].a, match[s].b}}

\* Participants and matches of the title go (CASCADE), with the votes of
\* those matches; a battle it had won loses its winner (SET NULL).  A round
\* without matches has no deadline.
DeleteEntity(e) ==
  /\ e \in live /\ live' = live \ {e}
  /\ battle' = [battle EXCEPT !.winner = IF @ = e THEN None ELSE @]
  /\ seed' = [seed EXCEPT ![e] = 0]
  /\ match' = Restrict(match, Survives(e))
  /\ vote' = Restrict(vote, Survives(e))
  /\ delta' = Restrict(delta, Survives(e))
  /\ moved' = [moved EXCEPT ![e] = 0]
  /\ left' = IF \E s \in Survives(e) : s[1] = battle.round THEN left ELSE None
  /\ UNCHANGED req

CNext == Keep \/ \E e \in Entities : DeleteEntity(e)

CSpec == CInit /\ [][CNext]_cvars

\* Time passes, and the periodic loop (core/periodic.py, every instance runs
\* it) keeps calling advance_if_due on an overdue battle
CFairSpec ==
  CSpec /\ WF_cvars(Tick /\ UNCHANGED live) /\ WF_cvars(AdvanceIfDue /\ UNCHANGED live)
-----------------------------------------------------------------------------
\* Deleting a title never promotes anyone: whoever stands in a later round is
\* the winner of a match of the round before whose result is still there, or
\* of one that was deleted with its loser.  No title comes back from the dead.
StandingsSurvive ==
  \A s \in DOMAIN match :
    match[s].status # "pending" =>
      /\ {match[s].a, match[s].b} \subseteq live
      /\ s[1] > 1 =>
           LET f == <<s[1] - 1, 2 * s[2]>>
               g == <<s[1] - 1, 2 * s[2] + 1>>
           IN  /\ f \in DOMAIN match => match[f].winner = match[s].a
               /\ g \in DOMAIN match => match[g].winner = match[s].b

\* Only the admin takes away results: in every other step a closed match of a
\* battle that is not deleted stays as it is, and a delete removes the
\* matches of that title alone.
OnlyDeletesForget ==
  [][\A s \in DOMAIN match :
       match[s].status = "closed" /\ battle'.status # "gone" =>
         IF s \in DOMAIN match'
         THEN match'[s] = match[s] /\ vote'[s] = vote[s]
         ELSE \E e \in live \ live' : e \in {match[s].a, match[s].b}]_cvars

\* core/periodic.py: "Close every tournament round whose deadline passed, so
\* brackets move on".  A round that has a deadline is closed, unless the owner
\* extends it for ever; deleting titles of a draft or of a finished battle
\* does not stand in the way, only one of an active battle does.
Whole == battle.status = "active" => DOMAIN match = Rows(battle.size)

RoundsWithDeadlineEnd ==
  \A r \in UNION {1..TotalRounds(n) : n \in Sizes} :
    (battle.status = "active" /\ battle.round = r /\ left # None)
      ~> (battle.status # "active" \/ battle.round # r \/ left = None)

DeadlinesAreMet == (<>[][~ ExtendRound]_cvars) /\ []Whole => RoundsWithDeadlineEnd

\* The same promise, of every battle.
DeadlinesAreMetAfterDeletes == (<>[][~ ExtendRound]_cvars) => RoundsWithDeadlineEnd
=============================================================================
