CONSTANTS
  NPages = 21
  TmpSlots = 14
  Tasks = {1, 2}
  Programs <- MCPrograms
  MaxProgram = 3
  MaxHeap = 2
  AddrPages = 16
  Brks = {0, 3}
  Segs = {1}
  SegSizes = {0, 1}
  MaxAttach = 1
  MaxOther = 3
SPECIFICATION Spec
CHECK_DEADLOCK FALSE
INVARIANTS TypeOK RefcountsExact CountsExact Isolation WholeAddressSpaces AssertionsExplained
