SPECIFICATION Spec
CONSTANTS
  Timers = {t1}
  Handlers = {h1, h2}
  PctPairs <- OnePctPair
  Recipients <- Both
  MaxReceives = 2
  MaxFailures = 1
  None = None
SYMMETRY HandlerSymmetry
INVARIANTS
  TypeOK
  AckedHasOutcome
  AlertsMatchRows
  HoldersWork
PROPERTIES
  ProducerKeepsContract
CHECK_DEADLOCK FALSE
