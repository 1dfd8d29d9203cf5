SPECIFICATION Spec
CONSTANTS
  MaxTasks = 4
  Priority = 0
  HZ = 1
  MaxJiffies = 12
  MaxDepth = 0
  Seconds = {4}
  Signals = {15}
  Calls <- ReapCalls
INVARIANTS WaitReportsOwnChild
