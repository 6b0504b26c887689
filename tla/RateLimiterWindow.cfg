SPECIFICATION WindowSpec
CONSTANTS
    Callers = {c1, c2, c3}
    MaxRequests = 3
    MaxFailures = 1
INVARIANTS
    WindowBound
PROPERTY
    RefusedOnlyWhenFull
