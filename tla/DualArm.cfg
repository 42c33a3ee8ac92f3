SPECIFICATION Spec
CONSTANTS
  MaxPairs = 3
INVARIANTS
  QuietUnlessRunning
  PairsAreWhole
PROPERTIES
  FaultIsLatched
  RunStops
