SPECIFICATION FlowSpec
CONSTANTS
  q1 = q1
  q2 = q2
  q3 = q3
  r1 = r1
  r2 = r2
  r3 = r3
  d1 = d1
  m = m
  None = None
  Requests = {q1, q2, q3}
  Routes = {r1, r2, r3}
  Interactions = {}
  Discord = {d1}
  Majors = {m}
  Buckets = {b1, b2, b3}
  RouteOf <- MCRouteOf
  MajorOf <- MCMajorOf
  Reveals <- OneReveal
  MaxWaiters = 1
  Slots = 3
  MaxBlock = 0
  MaxOrphans = 0
  Limit = 2
  Anonymous = FALSE
  Disable401Lock = FALSE
  Impatient = {q1, q2, q3}
  SweeperRuns = FALSE
INVARIANTS OneProbe NothingKept
PROPERTY InvalidSticks
SYMMETRY Symmetry
