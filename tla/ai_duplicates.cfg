SPECIFICATION Spec
CONSTANTS
  Tickets = {t1}
  Workers = {w1, w2}
  None = None
  MaxAttempts = 3
  MaxReceives = 2
  MaxResolves = 1
  MaxMessages = 5
  MaxFaults = 1
SYMMETRY WorkerSymmetry
INVARIANTS
  DeduplicatedByGuard
CHECK_DEADLOCK FALSE
