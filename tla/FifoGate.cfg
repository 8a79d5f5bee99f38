SPECIFICATION FairSpec
CONSTANTS
  Callers = {c1, c2, c3, c4}
  MaxWaiters = 2
  None = None
INVARIANT GateSafe
PROPERTIES LockSpec CancelReturns WaitersServed
