CONSTANTS
  Socks = {s1}
  Wakes = FALSE
  ATOMIC_READ = 4
  Chunk = 2
  ReadLen = 4
  WriteLens <- Lengths
  Space = 2
  MaxBytes = 6
  MaxFailures = 1
SPECIFICATION Spec
PROPERTIES
  RequestsAreRead
CHECK_DEADLOCK FALSE
