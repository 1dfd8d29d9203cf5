SPECIFICATION Spec
CONSTANTS
  Signals = {10, 17, 19}
  Deadlines = {1, 2}
  MaxFrames = 1
CHECK_DEADLOCK FALSE
INVARIANTS TypeOK HandlerStack StackFramesExact SleepRestored LeftoverExplained
