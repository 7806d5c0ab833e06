\* A bound domain is on hold at the first synchronisation and released later.
CONSTANTS
  None = None
  Names = {n1}
  Accounts = {a1}
  Deleters = {d1}
  Worker = Worker
  Max = 1
  MaxFills = 2
  CoolsDown = TRUE
  Installed = FALSE
  MaxRequest = 0
  MaxUpdate = 0
  MaxRemove = 0
  MaxWebsite = 0
  MaxRegistrar = 2
  MaxFault = 1
  MaxLost = 0
  MaxPartial = 0
  MaxCrash = 0
  RegistrarStates = {"ok", "hold"}

SPECIFICATION MCSpec

PROPERTIES
  FirstLeftAlone
