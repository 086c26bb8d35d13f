SPECIFICATION FairSpec
CONSTANTS
  app = app
  net = net
  Threads <- OneThread
  Callers = {app}
  Drainers = {app}
  Receiver = app
  Reconnector = app
  IdSpace = 8
  CounterSpace = 16
  WaitCounts = {0, 1}
  LateWaits = FALSE
  UpdateIds <- UnnumberedIds
  MaxReplays = 1
  MaxRequests = 3
  MaxDisconnects = 1
PROPERTY WorksAfterReconnect
CHECK_DEADLOCK FALSE
