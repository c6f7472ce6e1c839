SPECIFICATION MCSpec
CONSTANTS
  Files <- MCFiles
  NoFile = NoFile
  Readers = {r1, r2}
  NoReader = NoReader
  Closed = Closed
  MaxHandle = 2
  Error = Error
  Angles <- MCAngles
  Nearest <- MCNearest
  Cell <- MCCell
  Garbage = Garbage
  cabs <- Mc
  carg <- Mc
INVARIANTS
  MexHandlesOwnReaders
  MexRecordsAreTrue
  PyResultsAreTrue
  CsViewsKeepTheirContent
PROPERTIES
  MexImplementsHandles
  PyImplementsHandles
CHECK_DEADLOCK FALSE
