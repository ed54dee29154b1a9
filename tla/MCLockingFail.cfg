SPECIFICATION FairSpec
CONSTANTS
  c1 = c1
  c2 = c2
  v1 = v1
  Clients = {c1, c2}
  NumMaps = 2
  Keys = {1, 2}
  Vals = {v1}
  None = None
  Absent = Absent
  NoClient = NoClient
  MaxTx = 2
  InnerMayFail = TRUE
  Unwind = TRUE
INVARIANT SnapshotStable
 
PROPERTY AllClientsStop
