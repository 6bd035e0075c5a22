CONSTANTS
  Workers = {w1, w2, w3}
  NumLocks = 2
  nCoefs = 5
  DomainSize = 3
  MatrixOf <- MCMatrixOf
  RowOf <- MCRowOf
  Garbage <- MCGarbage
SPECIFICATION FairSpec
INVARIANTS TypeOK NoDataRace RowsComplete
PROPERTIES RefinesCoefSum Termination
