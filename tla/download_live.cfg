\* Three chunks through a ring of two, one closer; nothing assumed of the server.
SPECIFICATION SilentSpec
CONSTANTS
  Reactor = Reactor
  User = User
  Closers = {c1}
  Tokens = {t1, t2}
  NoToken = NoToken
  Capacity = 2
  N = 3
  DelayInterruptible = FALSE
  ForeignControl = FALSE
PROPERTIES
  CloseNeverSucceeds
  CloseReturns
  EndFreesReader
  ReadingEnds
CHECK_DEADLOCK FALSE
