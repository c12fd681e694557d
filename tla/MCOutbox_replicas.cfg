SPECIFICATION HoldersSpec
CONSTANTS
    r1 = r1
    w1 = w1
    w2 = w2
    chA = chA
    p1 = p1
    p2 = p2
    Rows = {r1}
    Workers = {w1, w2}
    Channels = {chA}
    ChannelOf <- OneRow
    ReleaseRows = {r1}
    MaxAttempts = 2
    BatchSize = 1
    Tokens = {1, 2, 3}
    NoToken = 0
    MaxFaults = 3
    Replicas = {p1, p2}
    TTL = 4
    Heartbeat = 1
    Delay = 2
    MaxToken = 3
    MaxBoots = 3
    MaxStops = 1
    MaxLeaseFaults = 1
INVARIANTS
    HolderUndisturbed
    DuplicatesNeedFaults
    TriesBounded
    OneReplicaRuns
    InterruptedOnlyByFault
    LeaseEndsWithRun
PROPERTIES
    ImplementsQueue
    EventuallySettled
    TaskRunsAgain
CHECK_DEADLOCK FALSE
