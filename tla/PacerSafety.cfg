SPECIFICATION Spec
CONSTANTS
  Callers = {c1, c2}
  None = None
  MaxWaiters = 1
  Second = 5
  PerSecond = 3
  Slack = 200
  MinDelay = 1
  Reserve = 1
  MaxDelay = 2
  MaxPatience = 3
  MaxTime = 7
INVARIANTS Spaced WindowBound SleepSound
SYMMETRY Symmetry
