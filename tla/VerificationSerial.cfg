CONSTANTS
    Handlers = {h1}
    Verifs = {v1, v2}
    NoHandler = NoHandler
    NoVerif = NoVerif
    MaxAttempts = 2
    MaxOtps = 1
    MaxAborts = 1
SPECIFICATION FairSpec
CHECK_DEADLOCK FALSE
INVARIANTS
    GuessesWithinLimit
    OneTimestamp
PROPERTIES
    ImplementsLifecycle
    PendingIsSettled
