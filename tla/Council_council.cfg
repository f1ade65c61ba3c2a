SPECIFICATION Spec
CONSTANTS
    p1 = p1
    Procs = {p1}
    N = 2
    Required = {1}
    MinMembers = 2
    MaxRounds = 2
    Cap = 4
    Raise = 6
    MaxCommands = 4
    MaxTrouble = 2
INVARIANTS VetoHolds ApprovedByAPerson CostPerRound
PROPERTIES CommandReturns
CHECK_DEADLOCK FALSE
