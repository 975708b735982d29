\* Three chunks of two units through a ring of 2, one closer.
SPECIFICATION Spec
CONSTANTS
  Reactor = Reactor
  User = User
  Closers = {c1}
  Tokens = {t1, t2, t3}
  NoToken = NoToken
  Capacity = 2
  MaxChunks = 3
  ChunkLen = 2
  DelayInterruptible = TRUE
  ForeignControl = TRUE
SYMMETRY TokenSymmetry
INVARIANTS
  NoLostWakeup
  WireInOrder
CHECK_DEADLOCK FALSE
