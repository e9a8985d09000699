CONSTANTS
  caller = caller
  server = server
  rival = rival
  None = None
  Socks = {caller, server, rival}
  Calls <- RivalCalls
  Threaded = {server}
  Rate <- RivalRate
  MAX_CONN_ATTEMPTS = 2
  MaxRequests <- RivalRequests
  Losable = {"connect", "accept", "acceptack", "ctrlack"}
  MaxLosses = 0
  Duplicates = TRUE
  SendErrors = TRUE
  Timely = FALSE
SPECIFICATION Spec
SYMMETRY RivalSymmetry
INVARIANTS
  TypeOK
  OwnedOnce
  TimersHaveMessages
  RepliesAnswerRequests
PROPERTIES
  Rendezvous
CHECK_DEADLOCK FALSE
