CONSTANTS
  Size = 4
  Char = {a, b, d}
  NUL = NUL
SPECIFICATION Spec
INVARIANTS
  SlotStable
PROPERTIES
  FifoSpec
