CONSTANTS
  Byte = {Esc, k}
  Esc = Esc
  NoByte = NoByte
  Wire = 2
SPECIFICATION FairSpec
PROPERTIES
  ReadyReads
