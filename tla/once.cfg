SPECIFICATION Spec
CONSTANTS
  Threads = {t1, t2, t3, t4}
  Helper = helper
  Nobody = Nobody
INVARIANTS OneRunOneResult
PROPERTY WaitersReturn
CHECK_DEADLOCK FALSE
