SPECIFICATION TriageSpec
CONSTANTS
    Tasks = {t1}
    Deliveries = {d1, d2}
    Channels <- CriticalBlock
    MaxTries = 2
    MaxFaults = 3
    MaxCrashes = 1
    MaxExpiries = 1
    Analysts = {a1, a2}
    MaxTriage = 2
SYMMETRY Symmetry
INVARIANTS
    ConfirmedOnce
    RecordedByEitherPath
    NotifiedWithoutFaults
    ResolvedStays
CHECK_DEADLOCK FALSE
