SPECIFICATION Spec
CONSTANTS
  NumChunks = 4
  NumServers = 2
  Files = {"f1", "f2", "f3"}
  Grammars <- MCGrammars
  Language <- MCLanguage
  Supports <- TwoServers
  Capabilities <- SomeCaps
  Codebases <- PlainChunks
INVARIANTS
  FirstFailureReported
CHECK_DEADLOCK FALSE
