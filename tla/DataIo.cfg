CONSTANTS
  Socks = {s1}
  Wakes = TRUE
  ATOMIC_READ = 4
  Chunk = 2
  ReadLen = 4
  WriteLens <- Lengths
  Space = 2
  MaxBytes = 6
  MaxFailures = 1
SPECIFICATION Spec
INVARIANTS
  TypeOK
  StreamsInOrder
  RestIsUnsent
  MbuffsAccounted
PROPERTIES
  PendingAreAnswered
CHECK_DEADLOCK FALSE
