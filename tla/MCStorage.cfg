SPECIFICATION StorageSpec
CONSTANTS
  c1 = c1
  c2 = c2
  k1 = k1
  v1 = v1
  Clients = {c1, c2}
  MapIds = {0, 1}
  NumMaps = 2
  Keys = {k1}
  Vals = {v1}
  None = None
  NoDump = NoDump
  MaxLoads = 2
SYMMETRY Symmetry
INVARIANT StorageTypeOK
INVARIANT Isolation
PROPERTY CommitsSerially
INVARIANT DumpIsCommittedState
INVARIANT CopyIsCommittedState
PROPERTY LoadOverlaysDump
