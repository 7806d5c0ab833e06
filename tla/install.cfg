\* A fresh installation: the first synchronisation happens in the run, a domain is bought.
CONSTANTS
  None = None
  Names = {n1, n2}
  Accounts = {a1}
  Deleters = {d1}
  Worker = Worker
  Max = 1
  MaxFills = 2
  CoolsDown = TRUE
  Installed = FALSE
  MaxRequest = 1
  MaxUpdate = 0
  MaxRemove = 0
  MaxWebsite = 1
  MaxRegistrar = 1
  MaxFault = 1
  MaxLost = 1
  MaxPartial = 0
  MaxCrash = 0
  RegistrarStates = {"ok"}

SPECIFICATION MCSpec

PROPERTIES
  OnlyStockIsAdded
  FirstLeftAlone
