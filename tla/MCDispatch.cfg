SPECIFICATION Spec
CONSTANTS
  t1 = t1  t2 = t2
  Task <- MCTask
  Conductor = {"api", "sdk", "cli"}
  Lanes <- MCLanes
  MaxAttempts = 3
  RotateAfter = 2
  MaxTurns = 3
  CostCap = 4
  Cost = {1, 3}
  Errors <- MCErrors
  BaseDelay = 3
  MaxDelay = 8
  CacheTtl = 5
  CacheGuard = 1
SYMMETRY TaskSymmetry
INVARIANTS DoneIsAnswered SpendIsBounded LanesAreTried NapSparesCache
CHECK_DEADLOCK FALSE
