SPECIFICATION Spec
CONSTANTS
  Id = {r1, r2}
  Path = {p1, p2}
  NoId = NoId
  NoPath = NoPath
  Absent = Absent
  NoFrame = NoFrame
  Capacity = 2
  MaxBatch = 2
  MaxFrames = 3
INVARIANTS
  PushesAreConfined
  FramesAccounted
  CompleteIsExact
  RowsInOrder
PROPERTIES
  FilesOnlyGrow
  ImplementsSession
  FailureReported
  CallsReturn
