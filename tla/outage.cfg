\* The process dies, a person edits a domain or deletes the account under running steps.
CONSTANTS
  None = None
  Names = {n1, n2}
  Accounts = {a1}
  Deleters = {d1}
  Worker = Worker
  Max = 1
  MaxFills = 2
  CoolsDown = TRUE
  Installed = TRUE
  MaxRequest = 1
  MaxUpdate = 1
  MaxRemove = 1
  MaxWebsite = 1
  MaxRegistrar = 0
  MaxFault = 0
  MaxLost = 0
  MaxPartial = 0
  MaxCrash = 1
  RegistrarStates = {"ok", "hold"}

SPECIFICATION MCSpec

INVARIANTS
  AtMostOneFilling

PROPERTIES
  OnlyStockIsAdded
  NeverBackToStock
