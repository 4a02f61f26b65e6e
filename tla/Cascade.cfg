SPECIFICATION CFairSpec
CONSTANTS
  e1 = e1
  e2 = e2
  e3 = e3
  e4 = e4
  u1 = u1
  u2 = u2
  q1 = q1
  None = None
  Entities = {e1, e2, e3, e4}
  Users = {u2}
  Creator = u1
  Requests = {q1}
  Sizes = {4}
  Randomize = {FALSE}
  Durations = {2}
  Extras = {1}
  MaxLeft = 2
  EntryLists <- MCEntryLists
  Gains = {2}
  Cap = 3
  MinVoters = 1
INVARIANTS StandingsSurvive
PROPERTIES DeadlinesAreMet
\* A deleted battle leaves nothing to do
CHECK_DEADLOCK FALSE
