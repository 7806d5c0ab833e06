\* Two accounts; Aliyun sells, holds or loses a domain and once lists too few, people move a domain on the website.
CONSTANTS
  None = None
  Names = {n1, n2}
  Accounts = {a1, a2}
  Deleters = {d1}
  Worker = Worker
  Max = 1
  MaxFills = 2
  CoolsDown = TRUE
  Installed = TRUE
  MaxRequest = 0
  MaxUpdate = 0
  MaxRemove = 0
  MaxWebsite = 2
  MaxRegistrar = 1
  MaxFault = 0
  MaxLost = 0
  MaxPartial = 1
  MaxCrash = 0
  RegistrarStates = {"none", "ok", "hold"}

SPECIFICATION MCSpec

PROPERTIES
  NeverAddedTwice
  NoFalseRemoval
