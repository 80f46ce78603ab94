SPECIFICATION FairSpec
CONSTANTS
  WriteChunk = 2
  ReadChunk = 2
  PendingChunks = 1
  PipeSize = 2
  MaxWrite = 3
  MaxOffered = 5
  MaxSaid = 2
PROPERTIES
  BothAreStreams
  CallsReturn
  ThreadsEnd
CHECK_DEADLOCK FALSE
