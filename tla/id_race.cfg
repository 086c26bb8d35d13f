SPECIFICATION Spec
CONSTANTS
  app = app
  net = net
  Threads <- TwoThreads
  Callers = {app, net}
  Drainers = {net}
  Receiver = net
  Reconnector = net
  IdSpace = 8
  CounterSpace = 16
  WaitCounts = {0, 1}
  LateWaits = FALSE
  UpdateIds <- UnnumberedIds
  MaxReplays = 0
  MaxRequests = 3
  MaxDisconnects = 0
INVARIANT BarrierBeforeWrap
CHECK_DEADLOCK FALSE
