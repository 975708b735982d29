\* Two intermediate blocks and a last one, with a field each and a trailer; a
\* body of up to two chunks through a ring of one, and a size_t of four bits.
SPECIFICATION ResponseSpec
CONSTANTS
  MaxBlocks = 3
  MaxFields = 1
  MaxTrailers = 1
  Word = 16
  Initial = 2
  MaxLen = 15
  Int64Max = 7
  RingCapacity = 1
  ChunkSizes = {1, 7, 8}
  MaxChunks = 2
  Uploading = TRUE
INVARIANTS
  NeverMixed
  HeadIsFinal
  ResponseIsWhole
PROPERTIES
  HeadArrives
CHECK_DEADLOCK FALSE
