\* Every song has the same title and every plan the same date; two calls, two edits,
\* one restart (perhaps for another PostgreSQL) or failed transaction.
SPECIFICATION Spec
CONSTANTS
    s1 = s1
    s2 = s2
    p1 = p1
    p2 = p2
    Songs = {s1}
    Plans = {p1, p2}
    Calls = {c1, c2}
    keyOf <- SameKey
    MaxClock = 2
    MaxFaults = 1
    MayMove = TRUE
INVARIANT LastPullSound
PROPERTIES
    ServerWins
    BackOnline
CHECK_DEADLOCK FALSE
