SPECIFICATION PeersSpec
CONSTANTS
  n1 = n1
  n2 = n2
  d = d
  q1 = q1
  q2 = q2
  Nil = Nil
  Nodes = {n1, n2}
  Dead = {d}
  Strangers = {x}
  Requests = {q1, q2}
  Rank <- Scores
  MaxNodes = 2
  MaxInFlight = 1
  HopHeaders = {Nil, 1}
  MaxChanges = 2
INVARIANTS TablesSettle ForwardedOnce OwnerServes
PROPERTIES RequestsAnswered
CHECK_DEADLOCK FALSE
