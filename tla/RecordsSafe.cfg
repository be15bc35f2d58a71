SPECIFICATION SuiteSpec
CONSTANTS
    Parts = {"batch", "backfill", "pages", "links", "lists", "claims",
            "sources", "mutations"}
    None = None  p1 = p1  p2 = p2
    BatchItems = {p1, p2}  BatchManifests = {"m1", "m2"}  BatchCallers = {"c1", "c2"}
    BatchCalls = 1  BatchFaults = 1
    IndexWriters = {p1, p2}  IndexRecords = 3  IndexMax = 3  IndexBatch = 2  IndexBytes = 2
    IndexVersions = 2  IndexWrites = 2  IndexQueries <- AllQueries
    Callers = {c1, c2, c3}
    LinkEnds = {1, 2, 3}  LinkClaim = 1  LinkSource = 2  LinkRows = {11, 12, 13}
    LinkAsks <- LinkRequests  ListAsks <- ListRequests  LinkPage = 1  LinkLapses = 1
    ClaimKeys = {"k1", "k2"}  ClaimCreator = "k1"  ClaimTexts = {"t1", "t2"}  ClaimBase = 2
    ClaimAsks <- ClaimRequests  SourceAsks <- SourceRequests
    Requests <- RecordRequests  Identities = {1, 2, 3, 4, 5}  Values = {"x", "y"}  NoValue = None
    MaxRecords = 2  Sessions = {p1, p2}
    Budgets <- RecordBudgets
INVARIANTS ReceiptsHold ChainsHold BatchesHold IndexHolds
    LinksHold ClaimsHold
PROPERTIES StepsHold EffectsHold ImplementsLedger
SYMMETRY Symmetric
CHECK_DEADLOCK FALSE
