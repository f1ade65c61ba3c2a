SPECIFICATION WavesSpec
CONSTANTS
    N = 4
    Plans <- PlansChecked
    Artifacts = {1}
    DoneFiles = {1}
    DoneGates = {2}
    Budgets = {1, 3}
    Answers = {"ok", "bad", "torn"}
    Pauses = {"wait", "tool"}
    MaxRuns = 2
    MaxVer = 1
    MaxTrouble = 1
    w1 = w1
    w2 = w2
    s1 = s1
    s2 = s2
    a = a
    b = b
    f = f
    Workers = {w1, w2}
    Alone = {w2}
    ToolSteps = {s1}
    StepOf <- SameStep
    Act = {a}
    Free = {f}
    MaxBatch = 2
    MaxTurns = 3
    MaxCalls = 2
    MaxCost = 1
    FirstCap = 2
    MaxCap = 3
    MaxRequests = 2
    MaxAnswers = 1
    MaxWorkerKills = 1
    Often = 2
INVARIANTS CompletedIsBacked ApprovesWhatWasAsked DoneIsComplete
INVARIANTS ActNeedsApproval OneCallPerTakeUp WithinMaxCalls OvershootIsOneCallEach
PROPERTIES ProgressKept NoRework CallReturns NothingBeforeDecision
CHECK_DEADLOCK FALSE
