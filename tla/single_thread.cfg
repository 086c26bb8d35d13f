SPECIFICATION FairSpec
CONSTANTS
  app = app
  net = net
  Threads <- OneThread
  Callers = {app}
  Drainers = {app}
  Receiver = app
  Reconnector = app
  IdSpace = 8
  CounterSpace = 16
  WaitCounts = {0, 1, 2}
  LateWaits = FALSE
  UpdateIds <- UnnumberedIds
  MaxReplays = 1
  MaxRequests = 4
  MaxDisconnects = 2
INVARIANTS
  TypeOK
  BarrierBeforeWrap
  NoOrphanWait
  AuthFirst
PROPERTIES
  OnlyOrphansBlock
  Serializes
CHECK_DEADLOCK FALSE
