SPECIFICATION FairSpec
CONSTANTS
  t1 = t1  t2 = t2  w1 = w1  w2 = w2
  Task <- MCTask
  HeadName <- MCHead
  RequiredHead <- MCRequiredHead
  Rank <- MCRank
  DAGs <- MCDAGs
  Worker <- MCWorker
  NoTask = NoTask
  NoHead = NoHead
  Roster = {"tester"}
  DispatchStatus = {"done"}
  OnBoard <- MCFirst
  CliTask <- MCTask
  MaxAttempts = 2
  MaxTransients = 2
  MaxRestarts = 0
  CanStop = TRUE
  CanCrash = FALSE
PROPERTIES ReadyIsSettled StopEndsLoop
CHECK_DEADLOCK FALSE
