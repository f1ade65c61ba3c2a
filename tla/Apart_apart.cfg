SPECIFICATION ApartSpec
CONSTANTS
    a = a
    b = b
    c = c
    other = other
    Ids = {a, b, c, other}
    IdLists <- IdListsThree
    MaxDeps = 2
    ReviewBeforeGate = {"critic"}
    Types <- TypesTwo
    Areas = {"growth", "money", "legal", "desk"}
    Fallback = "desk"
    Risky = {"money"}
    Councils = {"growth"}
    Agents <- AgentsOf
    Horizontals <- HorizontalsOf
    Delegation <- DelegationOf
    AreaSteps <- AreaStepsOf
    DefaultSteps = 2
    MaxClarify = 2
    RouterIds <- TwoSteps
    GateId = other
    MaxHits = 2
    Loops = {"runner", "grid"}
    Sizes = {1, 2}
    MaxLots = 2
    VenueStops = TRUE
    Own = 1
    MaxErrors = 1
    Slots = 3
    MaxUnits = 2
    MaxTrouble = 1
INVARIANTS CycleIsFound OrderRespectsDeps OnlyRepeatsAreUnorderable WavesAgree
INVARIANTS WorkIsReviewed RoutedPlanIsKept
INVARIANTS NothingBookedTwice OneMarketOrderAfterKill
PROPERTIES EveryRequestEnds BookComesDown ProtectedAgain
CHECK_DEADLOCK FALSE
