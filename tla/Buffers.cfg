CONSTANTS
  None = None
  Socks = {s1}
  Mbuffs = {b1, b2, b3, b4}
  MaxMsgs = 4
  START_HEAP = 1
  MAX_CONN_ATTEMPTS = 2
  MaxCalls = 2
SPECIFICATION Spec
SYMMETRY BufferSymmetry
INVARIANTS
  TypeOK
  OneOwner
  LeaksPaidFor
CHECK_DEADLOCK FALSE
