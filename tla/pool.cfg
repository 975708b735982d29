SPECIFICATION FairSpec
CONSTANTS
  Controller = controller
  Closer = closer
  NoWorker = NoWorker
  MinAgents = 1
  MaxAgents = 2
  GrowLoad = 1
  ShrinkLoad = 1
  Word = 8
  Clients = {c1, c2}
  Smoothed = TRUE
  SustainTicks = 1
  SpawnCooldown = 0
  KillCooldown = 1
  MaxWorkers = 3
  MaxTime = 1
  MaxFaults = 1
INVARIANTS NeverInterrupted OwnedUntilStopped
PROPERTY DrainedIsStopped
CHECK_DEADLOCK FALSE
