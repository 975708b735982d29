SPECIFICATION Spec
CONSTANTS
  t1 = t1
  t2 = t2
  t3 = t3
  Transfers <- MCTransfers
  NoTransfer = NoTransfer
  Id <- MCId
  Hash <- MCHash
  InitialBuckets = 1
  MaxLoad = 1
  MaxQueue = 2
  MaxResumes = 1
INVARIANTS RegistryFinds OneOwner BorrowedUntilDone AbortedForCause
PROPERTY EndsRelease
CHECK_DEADLOCK FALSE
