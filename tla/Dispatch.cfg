SPECIFICATION FairSpec
CONSTANTS
  Shape <- MCShape
  Initial = "cart"
  MaxCommands = 3
  None = None
  Plan = Plan
  Between = Between
INVARIANTS
  LimitsHold
  StreamIsFresh
  NeverDrawnBack
PROPERTIES
  ImplementsMailbox
  ReceivedTakesEffect
  TargetReached
