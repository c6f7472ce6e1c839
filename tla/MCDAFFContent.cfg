SPECIFICATION MCSpec
CONSTANTS
  Base = 4
  LittleEndian = TRUE
  Garbage = 99
  Dirty = 77
  cabs <- MCcabs
  carg <- MCcarg
  Gains = {1, 2}
  Files <- MCFiles
  Contents <- MCContents
  Windows = {"DAFF_WINDOW_HANN"}
  NULL = NULL
  Unset = Unset
  Names = {"", "KEY", "Key", "A"}
  EmptyName = ""
  Upper <- MCUpper
  Blocks <- MCBlocks
INVARIANTS
  CoefficientsKeepTheirPlace
  SpectraAgree
  OutputAnswersItsInput
  LookupIsLastSpelling
  OnlyKnownKeysLeak
