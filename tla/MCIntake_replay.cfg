SPECIFICATION IntakeSpec
CONSTANTS
    d1 = d1
    p1 = p1
    w1 = w1
    Deliveries = {d1}
    VersionOf <- OneDelivery
    Versions = {2}
    InitialVersions = {0, 1}
    Replays = {p1}
    Replicas = {w1}
    Slots = 2
    MaxAttempts = 1
    MaxFaults = 0
    MaxHead = 2
    MaxCallers = 3
    ReviewScenarios <- MCReviews
    Issues = {1, 2}
    Alerts = {11, 12, 13}
    Capabilities = {{"issues"}, {"alerts"}}
    Overlap = 1
    PageSize = 1
    MaxPages = 2
    Horizon = 3
    MaxChanges = 2
    MaxRounds <- MCRounds
    MaxMishaps = 1
    ra = ra
    rb = rb
    rc = rc
    Repos = {ra, rb, rc}
    ReleaseIds = {1, 2, 3, 4, 5, 6}
    Prereleases = {4}
    StarPage = 1
    MaxStarPages = 2
    MaxTrackers = 2
    ReleasePage = 2
    MaxBackfill = 2
    NoRepo = NoRepo
    Leader = Leader
    Manual = Manual
    StarScenarios <- MCStars
INVARIANTS
    EvaluatedOnce
    NewestReviewed
    AutoCommentsOnce
    DrainedMeansQuiet
    CursorCovers
    WithdrawnMeansGone
    ReleasesTold
PROPERTIES
    StatusKept
    DisabledIsTheUsers
CHECK_DEADLOCK FALSE
