SPECIFICATION Spec
CONSTANTS
  l1 = l1  l2 = l2
  Loop <- MCLoop
  Timeout = 3
  Never = Never
PROPERTIES SilentMeansQuiet
CHECK_DEADLOCK FALSE
