SPECIFICATION Spec
CONSTANTS
    a = a
    b = b
    d1 = d1
    d2 = d2
    g1 = g1
    g2 = g2
    f1 = f1
    f2 = f2
    None = None
    Workers = {d1, d2}
    Threshold = 2
    HalfOpenMax = 1
    Slots = 2
    Retries = 1
    Callers = {a, b}
    Runners = {g1, g2}
    Flights = {f1, f2}
INVARIANTS
    ProbesCounted
    ClosedMeansAnswered
PROPERTIES
    HalfOpenAdmits
    NobodyForgotten
