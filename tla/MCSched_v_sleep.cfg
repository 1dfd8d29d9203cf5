SPECIFICATION Spec
CONSTANTS
  MaxTasks = 3
  Priority = 0
  HZ = 1
  MaxJiffies = 5
  MaxDepth = 0
  Seconds = {1, 2}
  Signals = {15}
  Calls <- SleepCalls
INVARIANTS SleepListSorted
