\* An exception interrupts flushResume between two attempts.
SPECIFICATION Spec
CONSTANTS
  Reactor = Reactor
  User = User
  Closers = {}
  Tokens = {t1, t2, t3}
  NoToken = NoToken
  Capacity = 1
  MaxChunks = 2
  ChunkLen = 2
  DelayInterruptible = TRUE
  ForeignControl = TRUE
SYMMETRY TokenSymmetry
INVARIANTS
  BlocksOnlyWhileSending
CHECK_DEADLOCK FALSE
