SPECIFICATION Spec
CONSTANTS
  e1 = e1
  m1 = m1
  m2 = m2
  Endpoints = {e1}
  Messages = {m1, m2}
  EndpointOf <- OneEndpoint
  Attempt <- FirstAttempts
  Handlers = {h1, h2}
  Conns = {c1, c2}
  Cap = 1
  Threshold = 2
  MaxAttempts = 6
  MaxLimited = 1
  MaxFaults = 1
  MaxEdits = 1
  None = None
SYMMETRY HandlerAndMessageSymmetry
INVARIANTS
  TypeOK
  SlotsCoverPosts
  DeletedHasRow
  PoolAccounted
  OnePostPerRecord
PROPERTIES
  DisabledByFailures
CHECK_DEADLOCK FALSE
