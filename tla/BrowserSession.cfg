CONSTANTS
  Calls = {"c1"}
  SignIns = {"f1", "f2"}
  Users = {"a", "b"}
  Registered = {"a"}
  MaxPairs = 2
  MaxErrors = 1
  MaxElsewhere = 1
SPECIFICATION Spec
INVARIANT ShownOwnsTokens
PROPERTIES ImplementsRefreshQueue SignedOutForCause EveryRequestSettles
CHECK_DEADLOCK FALSE
