SPECIFICATION Spec
CONSTANTS
  Pods = {p1, p2}
  k1 = k1
  k2 = k2
  fast = fast
  slow = slow
  Tickets = {k1}
  Clocks = {"response", "resolution"}
  Policies = {fast, slow}
  Span <- MCSpan
  PctPairs <- MCPctPairs
  BatchLimit = 2
  MaxFailures = 1
  Poison <- PoisonResponse
  Horizon = 3
  MaxFaults = 0
  MaxEdits = 2
  None = None
  Deleted = Deleted
PROPERTIES
  GoodTimersAdvance
CHECK_DEADLOCK FALSE
