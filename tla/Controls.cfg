SPECIFICATION Spec
CONSTANTS
    Explored <- AllControls
    Items = {a, b}
    MaxWrites = 2
    MaxReads = 2
    MaxDay = 1
INVARIANTS PageAgrees
PROPERTIES PollsCatchUp LocksEnd
CHECK_DEADLOCK FALSE
