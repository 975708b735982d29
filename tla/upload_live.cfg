\* A server that reads the request and answers it.
SPECIFICATION FairSpec
CONSTANTS
  Reactor = Reactor
  User = User
  Closers = {}
  Tokens = {t1, t2}
  NoToken = NoToken
  Capacity = 1
  MaxChunks = 2
  ChunkLen = 2
  DelayInterruptible = FALSE
  ForeignControl = TRUE
PROPERTIES
  UploadEnds
CHECK_DEADLOCK FALSE
