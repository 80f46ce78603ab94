SPECIFICATION Spec
CONSTANTS
  d1 = d1
  t1 = t1
  t2 = t2
  Documents <- OneDocument
  Tokens <- TwoTokens
  Queries = {"references", "callees"}
  Results = {"answer"}
  Troubles = {"malformed"}
  SettledAttempts = 2
  MaxRequests = 2
  MaxAnnounced = 2
  QueueBound = 2
CHECK_DEADLOCK FALSE
SYMMETRY TokenSymmetry
INVARIANTS
  NotComputedDuringWork
  NotComputedBeforePreparedWork
  WaitsOnlyForRealWork
PROPERTIES
  StillWorkingIsNews
  AnswerReflectsSeenWork
