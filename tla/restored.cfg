\* A deleted domain is held and released by the registrar.
CONSTANTS
  None = None
  Names = {n1}
  Accounts = {a1}
  Deleters = {d1}
  Worker = Worker
  Max = 1
  MaxFills = 2
  CoolsDown = TRUE
  Installed = TRUE
  MaxRequest = 1
  MaxUpdate = 0
  MaxRemove = 0
  MaxWebsite = 0
  MaxRegistrar = 2
  MaxFault = 0
  MaxLost = 0
  MaxPartial = 0
  MaxCrash = 0
  RegistrarStates = {"ok", "hold"}

SPECIFICATION MCSpec

PROPERTIES
  OnlyStockIsAdded
