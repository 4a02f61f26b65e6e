SPECIFICATION Spec
CONSTANTS
  e1 = e1
  e2 = e2
  e3 = e3
  e4 = e4
  u1 = u1
  u2 = u2
  q1 = q1
  q2 = q2
  None = None
  Entities = {e1, e2, e3, e4}
  Users = {u1, u2}
  Creator = u1
  Requests = {q1}
  Sizes = {4, 8}
  Randomize = {FALSE, TRUE}
  Durations = {1}
  Extras = {1}
  MaxLeft = 1
  EntryLists <- MCAllOrders
  Gains = {2}
  Cap = 3
  MinVoters = 1
SYMMETRY Symmetry
INVARIANTS MajorityDecides NeverStuck
 
\* A deleted battle leaves nothing to do
CHECK_DEADLOCK FALSE
