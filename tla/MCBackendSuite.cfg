SPECIFICATION SuiteSpec
CONSTANTS
  Clients = {"main", "thr0", "thr1"}
  NumDbs = 2
  MapIds <- MCMapIds
  Keys <- MCKeys
  Vals <- MCVals
  None = None
  RandomKeys <- MCRandomKeys
  RandomVals = {1, 2}
  RandomCells <- MCRandomCells
  RandomActions <- MCRandomActions
  MaxActions = 2
INVARIANT NoTestFails
INVARIANT NoTestHangs
