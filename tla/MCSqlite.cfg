SPECIFICATION FairSpec
CONSTANTS
  c1 = c1
  c2 = c2
  m1 = m1
  k1 = k1
  k2 = k2
  v1 = v1
  Clients = {c1, c2}
  MapIds = {m1}
  Keys = {k1, k2}
  Vals = {v1}
  None = None
  NoClient = NoClient
  MaxTx = 2
  MaxFaults = 2
  Faults = {"begin", "statement", "commit", "rollback", "crash"}
  Unwind = TRUE
INVARIANT TypeOK
PROPERTY AbandonedHasNoEffect
INVARIANT RefusedOnlyByFailure
PROPERTY KVSpec
PROPERTY AllClientsStop
