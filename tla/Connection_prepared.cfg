SPECIFICATION Spec
CONSTANTS
  d1 = d1
  t1 = t1
  t2 = t2
  Documents <- OneDocument
  Tokens <- OneToken
  Queries = {"typeDefinition", "references"}
  Results = {"answer"}
  Troubles = {}
  SettledAttempts = 3
  MaxRequests = 2
  MaxAnnounced = 2
  QueueBound = 3
CHECK_DEADLOCK FALSE
INVARIANTS PreparedForgottenAfterOneReask
