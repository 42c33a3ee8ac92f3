SPECIFICATION Spec
CONSTANTS
  MaxPairs = 2
PROPERTIES
  RunAlwaysStops
