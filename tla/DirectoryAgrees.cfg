SPECIFICATION FairSpec
CONSTANTS
    c1 = c1
    c2 = c2
    Callers = {c1, c2}
    None = None
    Lost = Lost
    MaxCalls = 1
    MaxFaults = 2
INVARIANTS DirectoryHolds AnsweredMeansPublished
PROPERTIES DirectoryOnlyAdvances Recovers
CHECK_DEADLOCK FALSE
