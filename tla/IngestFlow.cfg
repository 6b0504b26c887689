CONSTANTS
  Requests = {r1, r2}
  PoolSize = 2
  Sections = 7
  BestEffort = {3, 5, 6, 7}
  Past = {p1}
  Hours = 1
  Days = 1
  MaxTime = 2
  MaxTrouble = 1
SPECIFICATION Spec
INVARIANTS GridlockNeedsFullPool AnsweredIsAccounted VerifyIsReachable SkewIsOne
PROPERTY EveryoneEnds
CHECK_DEADLOCK FALSE
