SPECIFICATION Spec
CONSTANTS
  None = None
  Main = Main
  Thread = {t1, t2}
  Coll = {c1, c2}
  Query = {}
  Inode <- MCInode
  Ops <- AllOps
  Faults = {"crash"}
  Watch = {}
SYMMETRY Symmetric
INVARIANTS
  TypeOK
  CacheIsLive
  RegisteredIsOnDisk
