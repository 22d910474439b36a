SPECIFICATION Spec
CONSTANTS
    RequestsPerIP = 2
    Window = 2
    IPs = {a, b}
    Workers = {w1, w2, w3}
    None = None
    DBTimeout = 1
    Skew = 1
    MaxTime = 5
    MaxRequests = 3
SYMMETRY Symmetry
INVARIANTS TypeOK MemoryWindowKept RefusedOnlyWhenFull TableWindowKept OneAtATime
\* Time and the numbers of requests are bounded.
CHECK_DEADLOCK FALSE
