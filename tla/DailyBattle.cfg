SPECIFICATION Spec
SYMMETRY Symmetry
CONSTANTS
  Days = 2
  Ids = {k1, k2}
  Pairs = {p1, p2}
  Users = {u1}
  Guests = {g1}
  Requests = {r1, r2}
  Makers = {m1, m2}
  None = None
  Gone = Gone
INVARIANTS CountersMatchVotes FedVotesWereCounted
 
\* The days and the battles are bounded, and then all is done
CHECK_DEADLOCK FALSE
