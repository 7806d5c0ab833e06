\* The process dies in the middle of a fill.
CONSTANTS
  None = None
  Names = {n1}
  Accounts = {a1}
  Deleters = {d1}
  Worker = Worker
  Max = 1
  MaxFills = 2
  CoolsDown = TRUE
  Installed = TRUE
  MaxRequest = 0
  MaxUpdate = 0
  MaxRemove = 0
  MaxWebsite = 0
  MaxRegistrar = 0
  MaxFault = 0
  MaxLost = 0
  MaxPartial = 0
  MaxCrash = 1
  RegistrarStates = {"ok", "hold"}

SPECIFICATION MCSpec

INVARIANTS
  UsedIsServed
