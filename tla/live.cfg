\* Fair threads, with the cooldown between repairs.
CONSTANTS
  None = None
  Names = {n1, n2}
  Accounts = {a1}
  Deleters = {d1}
  Worker = Worker
  Max = 1
  MaxFills = 2
  CoolsDown = TRUE
  Installed = TRUE
  MaxRequest = 1
  MaxUpdate = 0
  MaxRemove = 0
  MaxWebsite = 1
  MaxRegistrar = 0
  MaxFault = 1
  MaxLost = 0
  MaxPartial = 0
  MaxCrash = 0
  RegistrarStates = {"ok", "hold"}

SPECIFICATION LiveSpec

PROPERTIES
  StockIsUsed
  RequestsEnd
