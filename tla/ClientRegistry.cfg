SPECIFICATION RegistrySpec
CONSTANTS
  NoClient = NoClient
  Bots = {b1}
  Bearers = {t1, t2}
  Anon = Anon
  NoAuth = Anon
  States <- MCStates
  Owner <- MCOwner
  Requests = {q1, q2, q3}
  MaxBearerClients = 1
  MaxClientStates = 1
  MaxInFlightRequests = 2
  MaxBucketStates = 2
  MaxEntries = 1
INVARIANTS CountsExact OneClientPerCredential  NothingAfterClose
PROPERTIES NoVainEviction
SYMMETRY Symmetry
CHECK_DEADLOCK FALSE
