CONSTANTS
  Clients = {a, b}
  None = None
  Daemons <- ThreeDaemons
  Pid <- ThreePids
  Configs <- CommandLines
  DFL_MTU = 1
  MaxFds = 2
SPECIFICATION Spec
INVARIANTS
  TypeOK
  NamedIsReached
PROPERTIES
  PidFileKept
  FailsForCause
  AcceptedAreRead
CHECK_DEADLOCK FALSE
