CONSTANTS
  Half = 4
  Delays = {0, 1, 4}
  Limit = 3
  LastTick = 6
  Lines = {0, 1, 7}
  Numbers = {3, 8}
  Registered = {3}
  Raises = 2
SPECIFICATION Spec
INVARIANTS
  DeliveredToHandler
  InServiceIsHandled
  HandlersRunWhole
PROPERTIES
  RequestsServed
  NotEarly
  SleepReturns
  SleepSpec
