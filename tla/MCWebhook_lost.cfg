SPECIFICATION Spec
CONSTANTS
    d1 = d1
    w1 = w1
    w2 = w2
    Deliveries = {d1}
    VersionOf <- OneDelivery
    Versions = {2}
    InitialVersions = {0}
    Replays = {}
    Replicas = {w1}
    Slots = 1
    MaxAttempts = 2
    MaxFaults = 1
INVARIANTS
    ProcessedMeansEvaluated
CHECK_DEADLOCK FALSE
