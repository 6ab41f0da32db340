SPECIFICATION Spec
CONSTANTS
  e1 = e1
  m1 = m1
  m2 = m2
  Endpoints = {e1}
  Messages = {m1, m2}
  EndpointOf <- OneEndpoint
  Attempt <- FirstAttempts
  Handlers = {h1, h2}
  Conns = {c1, c2}
  Cap = 1
  Threshold = 2
  MaxAttempts = 6
  MaxLimited = 1
  MaxFaults = 0
  MaxEdits = 0
  None = None
SYMMETRY HandlerAndMessageSymmetry
INVARIANTS
  RetriedUntilExhausted
CHECK_DEADLOCK FALSE
