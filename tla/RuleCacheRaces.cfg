SPECIFICATION EditorSpec
CONSTANTS
    Editors = {d1, d2}
    Evaluators = {e1}
    MaxEdits = 2
    MaxFaults = 1
    Names = {"", "amount", "location"}
    MaxNesting = 2
    Conditions <- MCConditions
    Contexts <- MCContexts
    Edited <- MCEdited
INVARIANTS
    StaleOnlyWithExcuse
    MeaningKept
    MatchesForCause
PROPERTY
    ConvergesToCommitted
