SPECIFICATION GuardSpec
CONSTANTS
  Limit = 3
  Window = 2
  Compact = 1
  MaxLag = 1
  MaxTime = 6
INVARIANTS WindowBudget NoOverstay
