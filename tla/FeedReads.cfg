SPECIFICATION FairSpec
CONSTANTS
    r1 = r1
    r2 = r2
    Records = {r1, r2}
    MaxRevision = 2
    c1 = c1
    c2 = c2
    Clients = {c1, c2}
    PublishLimit = 2
    PageSize = 1
    MaxFaults = 1
INVARIANTS FeedHolds RevisionOrder
PROPERTIES EveryEventSeen
CHECK_DEADLOCK FALSE
