SPECIFICATION SuiteSpec
CONSTANTS
    Parts = {"evidence", "records", "served", "leases", "vectors", "refills", "turns",
            "ticks", "windows", "search", "expiry", "passages", "repair", "locks"}
    None = None  p1 = p1  p2 = p2  p3 = p3
    Claims = {p1, p2}  Completions = {p3}  Spaces = {1, 2}
    FirstLives = {"active", "readOnly"}  MaxSteps = 4
INVARIANTS ProjectionsHold SearchesHold TurnsHold DispatchHolds
PROPERTIES StepsHold
SYMMETRY Symmetric
CHECK_DEADLOCK FALSE
