SPECIFICATION Spec
CONSTANTS
  f1 = f1
  Keys <- MCFileKeys
  Data = {d1, d2}
  Zdbs = {z1, z2}
  Cap = 2
  Junk = Junk
  None = None
SYMMETRY Symmetry
INVARIANTS
  TypeOK
  RowsDisjoint
  StoredReadable
  ReadsOwnData
CHECK_DEADLOCK FALSE
