SPECIFICATION StoresSpec
CONSTANTS
    p1 = p1
    p2 = p2
    Procs = {p1, p2}
    MaxRows = 3
    MaxFacts = 2
    MaxLost = 1
    Runs = {p1, p2}
    Sources = {"doc", "note"}
    Converted = {"doc"}
    Texts = {"short", "long"}
    Readers = {{"a", "b"}}
    Manifest <- ManifestOrder
    Size <- Lengths
    MaxEdits = 1
    MaxFaults = 1
    MaxChunks = 2
    MaxRuns = 2
SYMMETRY Interchangeable
CHECK_DEADLOCK FALSE
INVARIANTS CorrectionWaits DecisionsTakeEffect EveryProposalIsAsked
INVARIANTS SourcesAreWhole RunLeavesCheckout
