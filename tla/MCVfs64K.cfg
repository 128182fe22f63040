CONSTANTS
  welcome = welcome
  Names = {welcome, f}
  Defaults <- MCDefaults
  FileSlots = 2
  Fds = {3, 4}
  Chunk = 2
  CopyWord = 2
  Word = 256
  Buffers = {b1, b2}
  Byte = {x}
  Flags <- MCFlags
  Text = Text
  Junk = Junk
  Beyond = Beyond
  NULL = NULL
  Counts = {1, 2}
  MaxSize = 3
SYMMETRY Symmetry
SPECIFICATION Spec
PROPERTIES
  StoreSpec
