SPECIFICATION Spec
CONSTANTS
  t1 = t1  t2 = t2  w1 = w1  w2 = w2
  Task <- MCTask
  HeadName <- MCHead
  RequiredHead <- MCRequiredHead
  Rank <- MCRank
  DAGs <- MCDAGs
  Worker <- MCWorker
  NoTask = NoTask
  NoHead = NoHead
  Roster = {"tester"}
  DispatchStatus = {"done"}
  OnBoard = {}
  CliTask <- MCTask
  MaxAttempts = 2
  MaxTransients = 2
  MaxRestarts = 1
  CanStop = TRUE
  CanCrash = TRUE
SYMMETRY WorkerSymmetry
INVARIANTS TypeOK NoDoubleDrive ClaimsAreHeld StartedAfterBlockers
PROPERTIES SettledIsFinal ImplementsBoard
CHECK_DEADLOCK FALSE
