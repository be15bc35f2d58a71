SPECIFICATION SuiteSpec
CONSTANTS
    Parts = {"keys", "creation", "texts", "removals", "space", "admission"}
    None = None  p1 = p1  p2 = p2  p3 = p3
    KeyIssuers = {p1, p2}  KeyCleaners = {p3}  KeyFaults = 1
    Creators = {p1, p2, p3}  Listers = {"l1"}  OwnerOf <- OneIsBob  Settings <- Deployments  Lease = 1
    Requests = {p1, p2}  AssertionOf <- Alike  AssertEnds <- EndsAt  KeyEnds = 2
    Joined = {1, 2, 3}  AdmitTime = 2  AdmitVersions = 2
    Attempts = {"a0", "a1"}  Committed = "a0"  Removals = {p1, p2}  Failing = {}  Bad = {}
    Landing <- LateOriginal  SourcePage = 2  SourceFinds = 1  SourceStops = 0
    Owners = {p1, p2}  Ticks = {"t1"}  SpaceKeys = {"k1", "k2"}  SpacePage = 1  MaxAsked = 2  SpaceFinds = 2
    Grants = {}  Calls = {p1, p2}  Texts = {p1, p2}  Reconcilers = {"t1"}  MaxLate = 1
INVARIANTS KeysHold CreatedIsServed AssertionsSpentOnce AdmissionsHold
    BytesTold
PROPERTIES OnlyForward
SYMMETRY Symmetric
CHECK_DEADLOCK FALSE
