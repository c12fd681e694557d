SPECIFICATION Spec
CONSTANTS
    a = a
    b = b
    chA = chA
    chB = chB
    Replicas = {a}
    Channels = {chA, chB}
    BotFree = {chB}
    Subscribed = {chA}
    Hour = 2
    Day = 4
    SendAt = 1
    SendEmpty = FALSE
    WeekDays = 2
    MonthDays = 2
    WeeklyDay = 1
    MonthlyDay = 7
    MaxClock = 9
    MaxBoots = 1
    MaxEvents = 2
    MaxLag = 0
    MaxToggles = 0
    MaxFaults = 0
INVARIANTS
    WeeklyCoversWeek
CHECK_DEADLOCK FALSE
