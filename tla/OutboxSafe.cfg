SPECIFICATION Spec
CONSTANTS
    NumRecords = 1
    MaxRevision = 2
    MaxPlacement = 2
    MaxFailures = 1
    InFlight = 1
    ClaimLimit = 2
    PageSize = 1
    MaxFaults = 1
    MaxOps = 1
    w1 = w1
    w2 = w2
    d1 = d1
    Workers = {w1, w2}
    Dispatchers = {d1}
INVARIANTS DeliveriesHold CurrentMeansProjected
PROPERTIES HeadsOnlyAdvance ProjectsOnlyInScope OnlyStartedAttemptsCount ImplementsHeads
SYMMETRY Symmetry
CHECK_DEADLOCK FALSE
