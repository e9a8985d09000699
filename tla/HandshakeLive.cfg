CONSTANTS
  caller = caller
  server = server
  rival = rival
  None = None
  Socks = {caller, server}
  Calls <- PairCalls
  Threaded = {}
  Rate <- PairRate
  MAX_CONN_ATTEMPTS = 3
  MaxRequests <- PairRequests
  Losable = {"connect", "accept", "acceptack", "ctrlack"}
  MaxLosses = 2
  Duplicates = FALSE
  SendErrors = FALSE
  Timely = TRUE
SPECIFICATION FairSpec
PROPERTY ConnectAnswered
CHECK_DEADLOCK FALSE
