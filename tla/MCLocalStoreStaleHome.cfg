SPECIFICATION Spec
CONSTANTS
  None = None
  Main = Main
  Thread = {t1, t2}
  Coll = {c1, c2}
  Query = {q1}
  Inode <- MCInode
  Ops <- Querying
  Faults = {}
  Watch = {}
INVARIANTS
  HomesResolve
