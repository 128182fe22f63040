CONSTANTS
  Volumes <- MCVolumes
  ShortName <- MCShortName
  Ended <- MCEnded
  Cells = 3
  FatBytes = 4
  CacheSize = 2
  FewClusters = 7
  MaxHandles = 2
  Word = 12
  Counts = {2, 4}
  Errors = FALSE
SPECIFICATION FairSpec
INVARIANTS
  BufferCurrent
PROPERTIES
  CallReturns
  StreamSpec
