\* One deletion beside the worker; sessions expire, the password changes, a call fails.
CONSTANTS
  None = None
  Worker = Worker
  Deleters = {d1}
  MaxToken = 6
  MaxPassword = 2
  MaxCode = 1
  MaxEvent = 2
  MaxDelete = 2

SPECIFICATION LiveSpec

INVARIANTS
  TypeOK

PROPERTIES
  WorkerKeepsTokens
  CodeBuysSession
  Recovers
