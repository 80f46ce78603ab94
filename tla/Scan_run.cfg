SPECIFICATION Spec
CONSTANTS
  NumChunks = 4
  NumServers = 2
  Files = {"f1", "f2", "f3"}
  Grammars <- MCGrammars
  Language <- MCLanguage
  Supports <- TwoServers
  Capabilities <- SomeCaps
  Codebases <- MixedChunks
INVARIANTS
  FirstFailureUnlessShutdown
  AnswersNeedCleanEnd
  MembershipAskedOnce
  FailsClosed
  ReadWhereAsked
  OneServerPerChunk
CHECK_DEADLOCK FALSE
