SPECIFICATION Spec
CONSTANTS
  Sockets = {s1, s2}
  NoSocket = NoSocket
  Contexts = {x1, x2, x3}
  NoContext = NoContext
INVARIANTS ContextsAreLive SocketsAreWatched
PROPERTIES DeadlineIsServed ShutdownEnds
CHECK_DEADLOCK FALSE
