\* One header block, or none, and a body of two chunks through a ring of one.
SPECIFICATION ServedSpec
CONSTANTS
  MaxBlocks = 1
  MaxFields = 0
  MaxTrailers = 0
  Word = 16
  Initial = 2
  MaxLen = 15
  Int64Max = 7
  RingCapacity = 1
  ChunkSizes = {1}
  MaxChunks = 2
  Uploading = FALSE
PROPERTIES
  ServedCallReturns
CHECK_DEADLOCK FALSE
