SPECIFICATION FairSpec
CONSTANTS
    Parts = {"upload", "healthy", "removal", "space"}
    None = None
    Grants = {"g1"}  Calls = {"c1", "c2"}  Texts = {}  Reconcilers = {"t1"}  MaxLate = 1
INVARIANTS SourcesHold
PROPERTIES OriginalsAlone ErasureEnds LedgerStays
CHECK_DEADLOCK FALSE
