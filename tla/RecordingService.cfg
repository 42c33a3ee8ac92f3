SPECIFICATION Spec
CONSTANTS
  Client = {c1, c2}
  Id = {r1, r2}
  Path = {p1, p2}
  NoId = NoId
  NoPath = NoPath
  Nothing = Nothing
  MaxCalls = 3
SYMMETRY Interchangeable
CHECK_DEADLOCK FALSE
INVARIANTS
  AnswersHold
  DefaultStopIsMine
