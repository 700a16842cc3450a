SPECIFICATION FairSpec
CONSTANTS
  s1 = s1  s2 = s2  codex = codex  claude = claude  scout = scout  ui = ui
  Sender <- MCSender
  Writer <- MCSwarm
  Reader <- MCReader
  CursorReader <- MCCursorReader
  Lane = {"agent:codex"}
  Limit = 1
  NoMessage = NoMessage
  MaxRows = 2
  MaxDeaths = 1
  Swarm <- MCSwarm
  Area <- MCArea
  Lease = 1
  Skew <- MCSkew
  NoOwner = NoOwner
INVARIANTS WonIsKept CursorSkipsOnlyLateOrRead
PROPERTIES MessageIsRead DeadOwnerIsReplaced
CHECK_DEADLOCK FALSE
