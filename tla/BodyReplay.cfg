SPECIFICATION BodySpec
CONSTANTS
  Bodies = {q1, q2}
  MaxBody = 3
  Limit = 2
  Memory = 1
  Budget = 3
INVARIANTS CaptureBounded NothingLeft ReplayWhole
SYMMETRY Symmetry
CHECK_DEADLOCK FALSE
