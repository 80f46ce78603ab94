SPECIFICATION FairSpec
CONSTANTS
  KeepsState = TRUE
  SynchronizesIndex = TRUE
  Says = {"begin", "end", "request", "response", "malformed"}
  MaxCalls = 3
  MaxUnread = 2
CHECK_DEADLOCK FALSE
INVARIANTS
  NothingLeftBehind
  DirectoryOutlivesServer
  GivenUpIsStopped
PROPERTIES
  FirstReasonKept
  ShutdownEnds
