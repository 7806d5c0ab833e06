\* Requests, a stop and throttling at any time.
CONSTANTS
  y1 = y1
  b1 = b1
  Yyds <- MCYyds
  Aliyun <- MCAliyun
  Changes = {c1}
  Interval = 2
  Stagger = 1
  Pause = 1
  Base = 2
  Cap = 3
  Headers = {5}
  MaxFills = 2
  MaxFailure = 1

SPECIFICATION LiveSpec

INVARIANTS
  TypeOK
  NoSleepOver
  StopsInTime
  BackoffBounded

PROPERTIES
  ChangesAreRead
  AccountsAreCalled
  ThreadEnds
