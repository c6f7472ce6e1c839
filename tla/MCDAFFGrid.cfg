SPECIFICATION Spec
CONSTANTS
  Degree <- MCDegree
  Headers <- MCHeaders
  Alphas <- MCAlphas
  Betas <- MCBetas
INVARIANTS
  TypeOK
  IndexIsValid
  WrittenRecordIsFound
  NearestPerAxis
  CellEncloses
