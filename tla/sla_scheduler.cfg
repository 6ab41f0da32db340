SPECIFICATION FairSpec
CONSTANTS
  Pods = {p1, p2}
  k1 = k1
  k2 = k2
  fast = fast
  slow = slow
  Tickets = {k1}
  Clocks = {"response", "resolution"}
  Policies = {fast, slow}
  Span <- MCSpan
  PctPairs <- MCPctPairs
  BatchLimit = 2
  MaxFailures = 1
  Poison <- NoPoison
  Horizon = 3
  MaxFaults = 1
  MaxEdits = 1
  None = None
  Deleted = Deleted
INVARIANTS
  TypeOK
  FiredExactlyOnce
  BreachedIffBreachRecorded
  WakesByTarget
  ClaimIsCurrent
PROPERTIES
  NoEarlyBreach
  ImplementsContract
  OverdueIsSettled
CHECK_DEADLOCK FALSE
