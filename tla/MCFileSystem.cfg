SPECIFICATION Spec
CONSTANTS
  t1 = t1
  t2 = t2
  MinRootRef = 5
  Tasks <- MCTasks
  Slots = {0, 1, 2, 3}
  SubdentryCount = 2
  DirentIds = {1, 2, 3}
  MaxRef = 2
  Modes = {TRUE}
  Paths <- MCPaths
SYMMETRY Symmetry
CONSTRAINT Bound
CHECK_DEADLOCK FALSE
INVARIANTS DiskIsTree CacheCoherent
PROPERTY ImplementsNamespace
