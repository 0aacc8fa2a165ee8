CONSTANTS
  b1 = b1
  b2 = b2
  e1 = e1
  e2 = e2
  e3 = e3
  Browsers = {b1, b2}
  Exchanges = {e1, e2}
  Kind <- MCKindOfTwo
  Room = 1
SPECIFICATION Spec
INVARIANTS
  OneWriterPerConnection
CHECK_DEADLOCK FALSE
