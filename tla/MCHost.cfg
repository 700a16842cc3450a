SPECIFICATION Spec
CONSTANTS
  p1 = p1  p2 = p2  i1 = i1  i2 = i2
  Pid <- MCPid
  NoPid = NoPid
  Source <- MCPid
  Issue <- MCIssue
  MaxFilings = 2
  Setups <- MCSetups
SYMMETRY PidSymmetry
INVARIANTS OneTeamUnlessRaced DaemonIsNamed RefiledHasCause SeenIsFiled
CHECK_DEADLOCK FALSE
