SPECIFICATION FairSpec
CONSTANTS
    p1 = p1
    p2 = p2
    N = 3
    Deps <- DepsJoin
    Gates = {1}
    Artifacts = {1, 2}
    NeedsKnowledge = {2}
    BadMode = {}
    DoneFiles = {2}
    DoneGates = {1}
    BudgetSteps = 2
    RunModes = {"stub", "external"}
    Procs = {p1}
    MaxRuns = 2
    MaxVer = 1
    MaxEdits = 0
    MaxCrashes = 0
    MaxAborts = 1
    MaxWorkers = 1
INVARIANTS WithinMaxSteps CompletedIsBacked
PROPERTIES CallReturns
CHECK_DEADLOCK FALSE
