SPECIFICATION Spec
CONSTANTS
    Runs <- AllPlaces
    Last = 3
    MaxReads = 1
    MaxRuns = 2
    None = None
INVARIANTS LosersStayOut  
PROPERTIES PicksEnd  PoolIsTheViewers
CHECK_DEADLOCK FALSE
