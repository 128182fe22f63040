CONSTANTS
  HeapStart = 3
  HeapSize = 24
  HdrSize = 3
  BlockSize = 2
  Word = 256
  Byte = 4
  Requests = {0, 1, 4, 6}
SPECIFICATION FairTextsSpec
INVARIANTS
  TypeOK
  WholeUnlessLost
  Coalesced
PROPERTIES
  FirstFit
  LostForGood
  CallReturns
  AllocatorSpec
