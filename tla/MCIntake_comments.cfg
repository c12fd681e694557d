SPECIFICATION IntakeSpec
CONSTANTS
    d1 = d1
    p1 = p1
    w1 = w1
    Deliveries = {}
    VersionOf <- NoDelivery
    Versions = {2}
    InitialVersions = {1}
    Replays = {}
    Replicas = {w1}
    Slots = 1
    MaxAttempts = 2
    MaxFaults = 0
    MaxHead = 2
    MaxCallers = 3
    ReviewScenarios <- MCReviews
    Issues = {}
    Alerts = {}
    Capabilities = {{"issues"}}
    Overlap = 1
    PageSize = 1
    MaxPages = 2
    Horizon = 3
    MaxChanges = 0
    MaxRounds <- NoRounds
    MaxMishaps = 0
    ra = ra
    rb = rb
    rc = rc
    Repos = {ra, rb, rc}
    ReleaseIds = {1, 2, 3, 4, 5, 6}
    Prereleases = {4}
    StarPage = 1
    MaxStarPages = 2
    MaxTrackers = 2
    ReleasePage = 2
    MaxBackfill = 2
    NoRepo = NoRepo
    Leader = Leader
    Manual = Manual
    StarScenarios <- NoStars
INVARIANTS
    CommentedOnce
CHECK_DEADLOCK FALSE
