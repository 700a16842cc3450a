SPECIFICATION WorkflowFairSpec
CONSTANTS
  MaxCycles = 2
  MaxParallel = 2
  Stages <- MCStages
  Prompts = 3
INVARIANTS MergeIsEarned
PROPERTIES EveryWorkflowEnds
CHECK_DEADLOCK FALSE
