SPECIFICATION Spec
CONSTANTS
    Workers = {w1, w2}
    Msgs = {m1, m2}
    NoEntry = NoEntry
    MaxRetries = 1
    Count = 2
    MaxLen = 2
    MaxFaults = 1
    MaxReplays = 1
INVARIANTS
    NothingVanishes
    TriesBounded
    CountedOnce
PROPERTIES
    ImplementsDelivery
    AllHandled
CHECK_DEADLOCK FALSE
