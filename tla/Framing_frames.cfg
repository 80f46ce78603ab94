SPECIFICATION Spec
CONSTANTS
  MaxHeader = 5
  MaxPayload = 2
  ChunkSize = 4
  MaxSent = 2
  Announced <- MCAnnounced
  Texts <- MCTexts
  Tails <- MCTails
INVARIANTS
  ReadsWhatWasSent
  DeadlineIsForTheRestOfAFrame
CHECK_DEADLOCK FALSE
