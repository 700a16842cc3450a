SPECIFICATION FairSpec
CONSTANTS
  s1 = s1  s2 = s2  codex = codex  claude = claude  scout = scout  ui = ui
  Sender = {}
  Writer <- MCSwarm
  Reader = {}
  CursorReader = {}
  Lane = {}
  Limit = 1
  NoMessage = NoMessage
  MaxRows = 1
  MaxDeaths = 0
  Swarm <- MCSwarm
  Area <- MCArea
  Lease = 1
  Skew <- MCSkew
  NoOwner = NoOwner
PROPERTIES AreaIsFreedForOthers
CHECK_DEADLOCK FALSE
