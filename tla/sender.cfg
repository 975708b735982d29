SPECIFICATION FairSpec
CONSTANTS
  Callers = {}
  Streams = {s1, s2}
  Stopper = stop
  NoMsg = NoMsg
  Max = 2
  Word = 2
  MaxSends = 1
INVARIANTS SlotIsFree NoUseAfterFree AnswerIsTrue
PROPERTIES ImplementsChannel AcceptedIsTaken StopReturns
CHECK_DEADLOCK FALSE
