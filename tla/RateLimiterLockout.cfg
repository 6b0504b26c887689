SPECIFICATION WindowSpec
CONSTANTS
    Callers = {c1, c2}
    MaxRequests = 3
    MaxFailures = 0
INVARIANT KeyExpires
