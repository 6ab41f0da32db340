SPECIFICATION FairSpec
CONSTANTS
  Tickets = {t1}
  Pods = {p1, p2}
  Retention = 1
  MaxFaults = 1
  None = None
INVARIANTS
  TypeOK
PROPERTIES
  IsFrameSource
  DashboardConverges
CHECK_DEADLOCK FALSE
