SPECIFICATION Spec
CONSTANTS
  admin = admin
  agent = agent
  Requests = {admin, agent}
  Grants <- OneAdmin
  Requested <- MostStatuses
  Settings = {TRUE, FALSE}
  MaxVersion = 5
  None = None
INVARIANTS
  TypeOK
  HistoryIsChain
  NoUpdateLost
  ResolutionsAnnounced
  FirstResponseOnce
PROPERTIES
  LegalMoves
