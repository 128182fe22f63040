CONSTANTS
  Keys <- MCKeys
  Keymap <- MCKeymap
  Swap <- MCSwap
  NUL = NUL
  Wire = 4
  Down = 2
SPECIFICATION Spec
INVARIANTS
  PrefixPaired
  ModifiersAgree
  TypedAsHeld
