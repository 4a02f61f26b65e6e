SPECIFICATION Spec
INVARIANTS DrawIsFair
\* A bracket that reached its final has nothing left to play
CHECK_DEADLOCK FALSE
