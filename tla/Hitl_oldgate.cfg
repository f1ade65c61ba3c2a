SPECIFICATION Spec
CONSTANTS
    p1 = p1
    Procs = {p1}
    Waits <- ToolThenGates
    MaxNode = 1
INVARIANTS DecisionsKeepTheirRequest
CHECK_DEADLOCK FALSE
