SPECIFICATION Spec
CONSTANTS
  None = None
  Main = Main
  Thread = {t1, t2}
  Coll = {c1, c2}
  Query = {}
  Inode <- MCInode
  Ops <- Naming
  Faults = {"crash", "catalog"}
  Watch = {"doubt"}
SYMMETRY Symmetric
INVARIANTS
  RenameNeverCollides
  OnDiskIsRegistered
  ArchiveConsistent
