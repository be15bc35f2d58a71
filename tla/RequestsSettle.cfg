SPECIFICATION FairSpec
CONSTANTS
    Parts = {"batch", "backfill", "links", "calls", "spaces", "keys"}
    None = None
PROPERTIES RequestsEnd
CHECK_DEADLOCK FALSE
