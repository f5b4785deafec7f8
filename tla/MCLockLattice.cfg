SPECIFICATION FairSpec
CONSTANTS
  c1 = c1
  c2 = c2
  State = State
  None = None
  Thread = {t1, t2, t3}
  Coll = {c1, c2}
  Rank <- MCRank
  MaxRank = 1
INVARIANTS
  TypeOK
  NoLostWakeup
  NoGridlock
PROPERTIES
  GrantsAccess
  WriterProgress
