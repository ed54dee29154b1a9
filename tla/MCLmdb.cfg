SPECIFICATION FairSpec
CONSTANTS
  c1 = c1
  c2 = c2
  m1 = m1
  k1 = k1
  k2 = k2
  v1 = v1
  Clients = {c1, c2}
  MapIds = {m1}
  Keys = {k1, k2}
  Vals = {v1}
  None = None
  NoClient = NoClient
  InitCap = 1
  MaxCap = 6
  MaxWrites = 2
  MaxReaders = 1
  MaxTx = 2
  MaxCrashes = 1
INVARIANT TypeOK
PROPERTY KVSpec
PROPERTY RetriesSucceed
