SPECIFICATION Spec
CONSTANTS
  MaxTasks = 3
  Priority = 0
  HZ = 1
  MaxJiffies = 2
  MaxDepth = 2
  Seconds = {1}
  Signals = {15}
  Calls <- SleepCalls
INVARIANTS CurrentIsRunnable
