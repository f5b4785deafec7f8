SPECIFICATION Spec
CONSTANTS
  None = None
  Broken = Broken
  d1 = d1
  d2 = d2
  r1 = r1
  r2 = r2
  r3 = r3
  f1 = f1
  f2 = f2
  v1 = v1
  v2 = v2
  Doc = {d1, d2}
  Rid = {r1, r2, r3}
  File = {f1, f2}
  Version = {v1, v2}
  DocOf <- MCDocOf
  FileOf <- MCFileOf
  Batch <- MCBatch
  MaxId = 3
  MaxFaults = 2
  Faults = {"crash", "write", "encode", "invalid"}
SYMMETRY Symmetric
INVARIANTS
  TypeOK
  HitsAreFaithful
  SettledStaySearchable
  PurgedIsGone
