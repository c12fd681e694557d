SPECIFICATION Spec
CONSTANTS
    a = a
    b = b
    chA = chA
    chB = chB
    Replicas = {a, b}
    Channels = {chA, chB}
    BotFree = {chB}
    Subscribed = {chA}
    Hour = 2
    Day = 4
    SendAt = 1
    SendEmpty = FALSE
    WeekDays = 2
    MonthDays = 2
    WeeklyDay = 7
    MonthlyDay = 1
    MaxClock = 9
    MaxBoots = 2
    MaxEvents = 1
    MaxLag = 0
    MaxToggles = 1
    MaxFaults = 1
SYMMETRY ReplicaSymmetry
INVARIANTS
    LedgerMeansQueued
    DigestSent
    EventsCovered
PROPERTIES
    NoBackfill
CHECK_DEADLOCK FALSE
