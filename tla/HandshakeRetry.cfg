CONSTANTS
  caller = caller
  server = server
  rival = rival
  None = None
  Socks = {caller, server}
  Calls <- PairCalls
  Threaded = {}
  Rate <- PairRate
  MAX_CONN_ATTEMPTS = 2
  MaxRequests <- PairRequests
  Losable = {}
  MaxLosses = 0
  Duplicates = FALSE
  SendErrors = FALSE
  Timely = FALSE
SPECIFICATION Spec
INVARIANT RetryArmed
CHECK_DEADLOCK FALSE
