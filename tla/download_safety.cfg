\* One transfer of 3 chunks through a ring of 2, one closer, all exceptions.
SPECIFICATION Spec
CONSTANTS
  Reactor = Reactor
  User = User
  Closers = {c1}
  Tokens = {t1, t2, t3}
  NoToken = NoToken
  Capacity = 2
  N = 3
  DelayInterruptible = TRUE
  ForeignControl = TRUE
SYMMETRY TokenSymmetry
INVARIANTS
  TypeOK
  NoLostWakeup
  TokenOwnership
  BodyInOrder
  Agreement
  NoStall
  BoundedControl
PROPERTIES
  EndIsFinal
CHECK_DEADLOCK FALSE
