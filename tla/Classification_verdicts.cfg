SPECIFICATION Spec
CONSTANTS
  MaxLevel = 1
  CalleeThreshold = 1
  MaxSteps = 2
  Domains = {d1, d2}
  Absent = Absent
INVARIANTS
  LossNeverReverses
  EvidencePullsItsWay
  ObservationDoesNotPromote
PROPERTIES
  StricterStructureClaimsNothing
