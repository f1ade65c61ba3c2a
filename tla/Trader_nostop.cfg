SPECIFICATION TraderSpec
CONSTANTS
    Loops = {"runner", "grid"}
    Sizes = {1}
    MaxLots = 2
    VenueStops = TRUE
    Own = 0
    MaxErrors = 1
    Slots = 4
    MaxUnits = 2
    MaxTrouble = 0
INVARIANTS PositionHasStop
CHECK_DEADLOCK FALSE
