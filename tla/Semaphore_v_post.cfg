SPECIFICATION Spec
CONSTANTS
  MaxTasks = 3
  Sem = {s1}
  Priority = 1
  MaxDepth = 1
INVARIANTS DeferredPostFindsValue
