SPECIFICATION Spec
CONSTANTS
    s1 = s1
    s2 = s2
    p1 = p1
    p2 = p2
    Songs = {s1}
    Plans = {}
    Calls = {c1}
    keyOf <- DistinctKeys
    MaxClock = 2
    MaxFaults = 1
    MayMove = FALSE
INVARIANT OfflineWorkKept
CHECK_DEADLOCK FALSE
