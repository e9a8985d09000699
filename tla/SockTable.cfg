CONSTANTS
  MAX_SOCKETS = 3
  MAX_PORTS = 4
  WORD = 8
  Overal <- MCOveral
  socket_bps = 2
  MaxFd = 4
  None = None
SPECIFICATION Spec
INVARIANTS
  TypeOK
  PortsOwned
  ControlOwned
  EventsServed
  SpeedAccounted
  BusyHasPort
CHECK_DEADLOCK FALSE
