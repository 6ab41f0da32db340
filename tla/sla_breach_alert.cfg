SPECIFICATION Spec
CONSTANTS
  Timers = {t1}
  Handlers = {h1, h2}
  PctPairs <- OnePctPair
  Recipients <- Both
  MaxReceives = 2
  MaxFailures = 1
  None = None
INVARIANTS
  BreachIsAlerted
CHECK_DEADLOCK FALSE
