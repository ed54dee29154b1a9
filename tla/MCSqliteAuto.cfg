SPECIFICATION Spec
CONSTANTS
  c1 = c1
  c2 = c2
  m1 = m1
  k1 = k1
  k2 = k2
  v1 = v1
  Clients = {c1, c2}
  MapIds = {m1}
  Keys = {k1, k2}
  Vals = {v1}
  None = None
  NoClient = NoClient
  MaxTx = 2
  MaxFaults = 2
  Faults = {"autorollback", "statement", "commit", "crash"}
  Unwind = TRUE
SYMMETRY Symmetry
PROPERTY OkMeansInstalled
INVARIANT ConnectionReturnedClean
