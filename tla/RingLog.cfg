SPECIFICATION Spec
CONSTANTS
  f1 = f1
  f2 = f2
  Torn = Torn
  Frame = {f1, f2}
  Capacity = 4
  MaxDropped = 1
INVARIANTS
  SlotExclusive
PROPERTIES
  SizeIsAvailable
  ImplementsQueue
