SPECIFICATION WorkerSpec
CHECK_DEADLOCK FALSE
CONSTANTS
  Gap = 1
  Dt = 2
  Capacity = 2
  Goal = {1, 2}
  Duration = {}
  Time = {5, 6}
  MaxTime = 5
  MaxCalls = 3
  Joints = Joints
  Idle = Idle
  Nothing = Nothing
PROPERTIES
  KeepsEarlierWaypoints
