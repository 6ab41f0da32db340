SPECIFICATION FairSpec
CONSTANTS
  Timers = {t1}
  Handlers = {h1, h2}
  PctPairs <- OnePctPair
  Recipients <- EndpointOrNobody
  MaxReceives = 2
  MaxFailures = 0
  None = None
PROPERTIES
  QueueDrains
CHECK_DEADLOCK FALSE
