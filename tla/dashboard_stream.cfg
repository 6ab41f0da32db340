SPECIFICATION FairSpec
CONSTANTS
  Readers = {r1, r2}
  Retention = 2
  MaxSeq = 4
  MaxLag = 2
  MaxDrops = 1
  None = None
INVARIANTS
  TypeOK
  MissedIsNoticeable
  
PROPERTIES
  ClientSettles
