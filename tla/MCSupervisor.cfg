SPECIFICATION FairSpec
CONSTANTS
  t0 = t0  t1 = t1  t2 = t2  t3 = t3  s1 = s1  s2 = s2
  Task <- MCTask
  HeadName <- MCHead
  RequiredHead <- MCRequiredHead
  Rank <- MCRank
  DAGs <- MCDAGs
  Slot <- MCSlot
  Pools <- MCPools
  NoTask = NoTask
  Roster = {"tester"}
  DispatchStatus = {"done"}
  OnBoard <- MCOnBoard
  CliTask <- MCCliTask
  CanAbort = TRUE
  WaitForWork = FALSE
INVARIANTS TypeOK NoDoubleDrive StartedAfterBlockers ReturnsDrained ClaimsAreHeld
PROPERTIES ReadyIsSettled
CHECK_DEADLOCK FALSE
