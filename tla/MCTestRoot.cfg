SPECIFICATION FairSpec
CONSTANTS
  p1 = p1
  p2 = p2
  t1 = t1
  t2 = t2
  n1 = n1
  n2 = n2
  Procs = {p1, p2}
  Threads = {t1, t2}
  Names = {n1, n2}
  NoName = NoName
  MaxAttempts = 2
  MaxCases = 2
INVARIANT TypeOK
INVARIANT RootsAreExclusive
INVARIANT FreshDirSucceeds
PROPERTY CreateReturns
