SPECIFICATION FairSpec
CONSTANTS
  d1 = d1
  t1 = t1
  t2 = t2
  Documents <- OneDocument
  Tokens <- OneToken
  Queries = {"typeDefinition", "callees", "declarationHover"}
  Results = {"answer", "modified"}
  Troubles = {"requests", "notifications", "timeouts", "closes"}
  SettledAttempts = 2
  MaxRequests = 2
  MaxAnnounced = 1
  QueueBound = 2
CHECK_DEADLOCK FALSE
INVARIANTS
  ServerNeverSurprised
  NoMutualWait
PROPERTIES
  CallReturns
