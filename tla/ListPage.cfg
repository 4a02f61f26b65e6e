SPECIFICATION Spec
CONSTANTS
    Explored <- AllForms
    Places = {"form", "draft", "list"}
    Titles = {a, b}
    MinItems = 2
    MaxAsks = 2
INVARIANTS OneIsMade  GateWaits
PROPERTIES ButtonsReturn
CHECK_DEADLOCK FALSE
