CONSTANTS
  MaxMade <- MCMaxMade
  MaxBatch = 2
  MaxExp = 2
  KernelTx <- MCKernelTx
SPECIFICATION FairSpec
INVARIANTS
  TypeOK
  WakeupExactlyOne
PROPERTY Mailboxes
