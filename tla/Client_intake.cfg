SPECIFICATION Spec
CONSTANTS
  KeepsState = FALSE
  SynchronizesIndex = FALSE
  Says = {"begin", "request", "response"}
  MaxCalls = 2
  MaxUnread = 2
CHECK_DEADLOCK FALSE
INVARIANTS SameReasonAfterIntake
