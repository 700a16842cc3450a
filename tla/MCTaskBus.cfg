SPECIFICATION Spec
CONSTANTS
  sup = sup  a1 = a1  t1 = t1
  Process <- MCProcess
  Recipients = {sup, a1}
  NameOrder <- MCOrder
  Kinds = {"note", "task_delegated", "task_progress", "task_done"}
  Tasks <- MCTasks
  NoTask = NoTask
  NoFile = NoFile
  NoRaw = NoRaw
  MaxMessages = 2
  MaxSent = 3
  Dispatcher = {sup}
  Agent <- MCAgent
INVARIANTS QueueUnlessRaced OldestFirst TileAgrees
CHECK_DEADLOCK FALSE
