SPECIFICATION RulesSpec
CONSTANTS
    r1 = r1
    r2 = r2
    e1 = e1
    e2 = e2
    e3 = e3
    e4 = e4
    ch1 = ch1
    ch2 = ch2
    tg = tg
    fs = fs
    dc = dc
    sl = sl
    NoOne = NoOne
    Replicas = {r1, r2}
    Events = {e1, e2, e3, e4}
    Channels = {ch1, ch2}
    Filters <- MCFilters
    Critical = {e3}
    Quiet = {ch1, ch2}
    Window = 1
    BurstWindow = 1
    MaxBatch = 2
    Scenarios <- MCScenarios
    MaxEvaluating = 2
    Day = 4
    LastDay = 1
    Nobody = Nobody
    Workers = {w1, w2}
    Items = {i1, i2}
    Targets = {tg, fs, dc, sl}
    RouteMap <- MCRouteMap
    Misconfigured = {sl}
    Reliable = {fs}
    MaxFailures = 2
    MaxAttempts = 8
    MaxTroubles = 1
    None = None
    t1 = t1
    t2 = t2
    k1 = k1
    k2 = k2
    k3 = k3
    run = run
    issue = issue
    alice = alice
    bob = bob
    eve = eve
    Clicks = {k1, k2, k3}
    Tokens = {t1, t2}
    Keys = {run, issue}
    WebKeys = {run}
    Actors = {alice, bob, eve}
    Operators = {alice, bob}
    KeyOf <- MCKeyOf
    Bound <- MCBound
    Risky = {issue}
    MaxFaults = 1
INVARIANTS
    EventsAccounted
    OneRowPerEvent
    RoutesRespected
    DeferredExactly
    DivertedInTime
    OneHolder
    NothingStranded
PROPERTIES
    WindowKept
    ImplementsAction
CHECK_DEADLOCK FALSE
