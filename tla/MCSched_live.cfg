SPECIFICATION FairSpec
CONSTANTS
  MaxTasks = 3
  Priority = 0
  HZ = 1
  MaxJiffies = 6
  MaxDepth = 1
  Seconds = {1, 2}
  Signals = {15}
  Calls <- SleepCalls
INVARIANTS NoPanic OnlyStaleUnrunnable
PROPERTIES RunnableRuns SleepersWake
