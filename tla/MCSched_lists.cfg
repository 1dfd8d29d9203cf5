SPECIFICATION Spec
CONSTANTS
  MaxTasks = 3
  Priority = 0
  HZ = 1
  MaxJiffies = 2
  MaxDepth = 1
  Seconds = {0, 1}
  Signals = {15}
  Calls <- ListCalls
INVARIANTS TypeOK ListInv RunqNeverEmpty NotifiedAreZombies LockExclusion IndInv
PROPERTIES ZombieStaysZombie
