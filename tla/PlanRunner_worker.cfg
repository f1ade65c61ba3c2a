SPECIFICATION Spec
CONSTANTS
    p1 = p1
    p2 = p2
    N = 3
    Deps <- DepsChain
    Gates = {2}
    Artifacts = {1, 2}
    NeedsKnowledge = {}
    BadMode = {}
    DoneFiles = {1}
    DoneGates = {2}
    BudgetSteps = 3
    RunModes = {"external"}
    Procs = {p1}
    MaxRuns = 1
    MaxVer = 2
    MaxEdits = 0
    MaxCrashes = 0
    MaxAborts = 0
    MaxWorkers = 1
INVARIANTS PeopleDecideGates
CHECK_DEADLOCK FALSE
