SPECIFICATION WorkerSpec
CONSTANTS
    w1 = w1
    w2 = w2
    s1 = s1
    s2 = s2
    a = a
    b = b
    f = f
    Workers = {w1, w2}
    Alone = {}
    ToolSteps = {s1, s2}
    StepOf <- OwnStep
    Act = {a}
    Free = {}
    MaxBatch = 1
    MaxTurns = 3
    MaxCalls = 2
    MaxCost = 1
    FirstCap = 1
    MaxCap = 1
    MaxRequests = 1
    MaxAnswers = 1
    MaxWorkerKills = 0
    Often = 2
INVARIANTS OvershootIsOneCall
CHECK_DEADLOCK FALSE
