SPECIFICATION FairSpec
CONSTANTS
  Battles = {b1, b2}
  Instances = {i1, i2}
  Fragile = {b1}
  Rounds = 3
  Duration = 2
  None = None
PROPERTIES NoRoundIsCutShort OverdueRoundsAreClosed
\* All battles over: nothing is left to do
CHECK_DEADLOCK FALSE
