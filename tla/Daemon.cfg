SPECIFICATION DaemonSpec
INVARIANTS
  ShutdownIsLast
PROPERTIES
  StopEnds
