SPECIFICATION Spec
CONSTANTS
  Sample <- MCSample
  Capacity = 3
  Chunks <- MCChunks
  MaxSequence = 7
PROPERTY IsStream
CHECK_DEADLOCK FALSE
