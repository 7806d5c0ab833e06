\* One account with one slot, two delete requests at once, one change on the website, one fault.
CONSTANTS
  None = None
  Names = {n1, n2}
  Accounts = {a1}
  Deleters = {d1, d2}
  Worker = Worker
  Max = 1
  MaxFills = 2
  CoolsDown = TRUE
  Installed = TRUE
  MaxRequest = 2
  MaxUpdate = 0
  MaxRemove = 0
  MaxWebsite = 1
  MaxRegistrar = 0
  MaxFault = 1
  MaxLost = 0
  MaxPartial = 0
  MaxCrash = 0
  RegistrarStates = {"ok", "hold"}

SPECIFICATION MCSpec

INVARIANTS
  TypeOK
  OneInventoryWriter
  OneSessionUser
  UsedIsServed
  CleanupRemembered

PROPERTIES
  OnlyStockIsAdded
  NoFalseRemoval
  NeverBackToStock
  DeletedIsGone
