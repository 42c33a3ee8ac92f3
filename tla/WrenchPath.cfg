SPECIFICATION Spec
CONSTANTS
  MaxFrames = 2
  MaxTicks = 2
  Free = Free
  Torn = Torn
  Zero = Zero
  None = None
INVARIANTS
  WrenchIsSound
PROPERTIES
  TickEnds
