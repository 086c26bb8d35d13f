SPECIFICATION FairSpec
CONSTANTS
  app = app
  net = net
  Threads <- TwoThreads
  Callers = {app}
  Drainers = {app, net}
  Receiver = net
  Reconnector = app
  IdSpace = 4
  CounterSpace = 8
  WaitCounts = {0, 1}
  LateWaits = TRUE
  UpdateIds <- UnnumberedIds
  MaxReplays = 1
  MaxRequests = 2
  MaxDisconnects = 1
INVARIANT BarrierBeforeWrap
PROPERTY OnlyOrphansBlock
CHECK_DEADLOCK FALSE
