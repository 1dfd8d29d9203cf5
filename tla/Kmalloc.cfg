CONSTANTS
  NPages = 3
  TmpPageCount = 2
  LAST_SIZENO = 2
  Sizes = {28, 60, 61, 125}
  MaxLive = 3
  MaxMaps = 2
  MaxCli = 1
SPECIFICATION Spec
CHECK_DEADLOCK FALSE
INVARIANTS FramesExact BlocksExact CountsExact Coalesced AssertionsHold NullOnlyWhenFull
PROPERTY ImplementsHeap
