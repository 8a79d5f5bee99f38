SPECIFICATION ExchangeSpec
CONSTANTS
  Absent = Absent
  Bad = Bad
  MinDelay = 3
  Slack = 1
  MaxDelay = 7
  MaxLen = 4
  Starts <- Paths
  Segments <- Names
  Methods = {"GET", "DELETE"}
  Responses <- MCResponses
INVARIANTS
  RouteGrouping
  RouteTogether
  AsLongAsAsked
  LimitedWaits
