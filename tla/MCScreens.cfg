SPECIFICATION Spec
CONSTANTS
    Screens <- AllScreens
    Queries <- TwoPagesAndAnother
    Opening <- OneOpening
    Rows = {r}
    Slots = {s1, s2}
    MaxAsks = 3
    None = None
    Blank = Blank
INVARIANTS RowsAnswerTheQuestion WritesAreSeen TicksAreOfTheseFilters
PROPERTIES SpinnerEnds ButtonsComeBack
CHECK_DEADLOCK FALSE
