SPECIFICATION Spec
CONSTANTS
  Readers = {r1, r2}
  Handlers = {r1}
  BuffSize = 3
  MaxWire = 0
  MaxMonitor = 1
  MaxSaved = 1
  Serial = {49}
  Modifiers <- MCModifiers
  Typed <- MCTyped
VIEW View
INVARIANTS NoStuckModifier WokenFindInput
PROPERTY ImplementsInput
