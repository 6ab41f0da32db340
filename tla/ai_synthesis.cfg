SPECIFICATION FairSpec
CONSTANTS
  Tickets = {t1}
  Workers = {w1, w2}
  None = None
  MaxAttempts = 2
  MaxReceives = 2
  MaxResolves = 2
  MaxMessages = 4
  MaxFaults = 1
INVARIANTS
  TypeOK
  OneCallPerMessage
  AttemptBudget
  NoTicketForgotten
PROPERTIES
  SettledIsFinal
  StuckIsHealed
CHECK_DEADLOCK FALSE
