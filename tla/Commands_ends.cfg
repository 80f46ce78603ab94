SPECIFICATION Spec
CONSTANTS
  Cut <- MCCut
  GramLength = 2
  MinTokens = 2
  MaxLines = 3
  MaximumAliasDepth = 2
  MaxUnionOrderings = 2
  Plain = "Plain"
  Lookalike = "Lookalike"
  Absent = Absent
  TestsExcluded = TRUE
  Library <- MCLibrary
  Defaults <- MCDefaults
  Root <- MCRoot
  NotUtf8Names <- MCNotUtf8Names
  Sources <- MCSources
  Servers <- MCServers
  MarkedDirectories <- MCMarkedDirectories
  SharedCalleeDomainsThreshold <- HalfOfThem
  NameOrder <- MCNameOrder
  Scenarios <- MCScenarios
CHECK_DEADLOCK FALSE
INVARIANTS
  PruningLosesNoCandidate
  TouchedIffNotCarriedOver
  OrderOfDeclarationsIsMoot
  FirstFailureUnlessMembership
  RememberedAliasIsFresh
  SidesAreInterchangeable
  
  PositionsFitWhatIsShown
  NoLoadIsLost
  ReportShowsWhy
