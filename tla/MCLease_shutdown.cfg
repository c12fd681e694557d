SPECIFICATION LeaseSpec
CONSTANTS
    r1 = r1
    r2 = r2
    Replicas = {r1, r2}
    TTL = 3
    Heartbeat = 1
    Delay = 1
    MaxToken = 2
    MaxBoots = 2
    MaxStops = 1
    MaxLeaseFaults = 0
PROPERTIES
    ReleasedWhenDone
CHECK_DEADLOCK FALSE
