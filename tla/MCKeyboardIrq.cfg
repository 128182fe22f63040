CONSTANTS
  Byte = {Esc, k}
  Esc = Esc
  NoByte = NoByte
  Wire = 2
SPECIFICATION FairSpec
INVARIANTS
  ReadsFresh
  KeyboardAlive
PROPERTIES
  BytesTaken
