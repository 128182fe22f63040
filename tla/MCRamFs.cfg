CONSTANTS
  MaxFiles = 4
  MaxSize = 8
  Chunk = 3
  Names <- MCNames
  Stored <- MCStored
  Lines <- MCLines
  Buffers = {b1, b2}
  Junk = "junk"
  NULL = NULL
  Spelling <- MCSpelling
  PathRoom = 5
  PathBuffer = 4
  EOL = "eol"
  Space = {"blank", "eol"}
  RowSize = 4
  Patterns <- MCPatterns
SYMMETRY Symmetry
SPECIFICATION Spec
INVARIANTS
  TreeRooted
  BuffersOwned
  UniqueNames
  ShownAsStored
PROPERTIES
  TreeSpec
