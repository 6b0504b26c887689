CONSTANTS
    Handlers = {h1, h2}
    Verifs = {v1, v2}
    NoHandler = NoHandler
    NoVerif = NoVerif
    MaxAttempts = 1
    MaxOtps = 1
    MaxAborts = 0
SPECIFICATION Spec
CHECK_DEADLOCK FALSE
SYMMETRY Symmetry
INVARIANTS
    StatusAgrees
PROPERTIES
    NeverReopened
    FinalOnceUnattended
