SPECIFICATION Spec
CONSTANTS
  c1 = c1
  c2 = c2
  c3 = c3
  v1 = v1
  Clients = {c1, c2, c3}
  NumMaps = 2
  Keys = {1}
  Vals = {v1}
  None = None
  Absent = Absent
  NoClient = NoClient
  MaxTx = 2
  InnerMayFail = FALSE
  Unwind = TRUE
SYMMETRY Symmetry
INVARIANT TypeOK
PROPERTY PoisonFreezes
PROPERTY KVSpec
