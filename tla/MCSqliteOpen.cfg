SPECIFICATION FairSpec
CONSTANTS
  a = a
  A = A
  b = b
  p1 = p1
  p2 = p2
  v1 = v1
  Procs = {p1, p2}
  Names = {a, A, b}
  NoIndex = NoIndex
  Fold <- MCFold
  Vals = {v1}
  None = None
  Missing = Missing
  NoProc = NoProc
  Schemas <- SchemaVersions
  MaxOpens = 2
INVARIANT TypeOK
INVARIANT CreateFindsNoTable
INVARIANT MapsKeepContents
PROPERTY OpenReturns
