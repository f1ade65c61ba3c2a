SPECIFICATION Spec
CONSTANTS
    N = 3
    Plans <- PlansSkip
    Artifacts = {1}
    DoneFiles = {}
    DoneGates = {}
    Budgets = {2}
    Answers = {"ok"}
    Pauses = {"wait"}
    MaxRuns = 1
    MaxVer = 1
    MaxTrouble = 0
INVARIANTS GatesComeFirst
CHECK_DEADLOCK FALSE
