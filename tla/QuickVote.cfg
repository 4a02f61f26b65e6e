SPECIFICATION Spec
CONSTANTS
  Entities = {1, 2}
  Users = {u1, u2}
  Requests = {r1, r2}
  Stars = {s}
  Gains = {1}
  Limit = 1
  MaxBegun = 3
  None = None
SYMMETRY Symmetry
INVARIANTS VotesMoveCurrentScores  
\* All the transactions have ended
CHECK_DEADLOCK FALSE
