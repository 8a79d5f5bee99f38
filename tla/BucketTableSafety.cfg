SPECIFICATION Spec
CONSTANTS
  q1 = q1
  q2 = q2
  q3 = q3
  r1 = r1
  r2 = r2
  d1 = d1
  d2 = d2
  m = m
  None = None
  Requests = {q1, q2, q3}
  Routes = {r1, r2}
  Discord = {d1, d2}
  Majors = {m}
  Buckets = {b1, b2, b3}
  RouteOf <- MCRouteOf
  MajorOf <- MCMajorOf
  Reveals <- AnyReveal
  MaxWaiters = 1
  Slots = 3
  MaxBlock = 1
  MaxOrphans = 1
INVARIANTS CountsExact ActsThroughOwnBucket NoWaitCycle
PROPERTY CooldownKept
SYMMETRY Symmetry
