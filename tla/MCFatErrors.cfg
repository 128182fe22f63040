CONSTANTS
  Volumes <- MCVolumes
  ShortName <- MCShortName
  Ended <- MCEnded
  Cells = 3
  FatBytes = 4
  CacheSize = 2
  FewClusters = 7
  MaxHandles = 2
  Word = 12
  Counts = {3, 4}
  Errors = TRUE
SPECIFICATION ErrorsSpec
INVARIANTS
  DataRight
CHECK_DEADLOCK FALSE
