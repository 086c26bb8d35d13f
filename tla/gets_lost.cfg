SPECIFICATION FairSpec
CONSTANTS
  app = app
  net = net
  Threads <- TwoThreads
  Callers = {app}
  Receiver = net
  Names = {}
  IdSpace = 4
  HandleSpace = 4
  LowHandles = 4
  Masked <- OwnMask
  ANY_REQUEST_ID = 15
  UpdateIds <- UnnumberedIds
  MaxCallbacks = 3
  MaxGets = 2
  MaxUpdates = 0
PROPERTY GetsCalled
CHECK_DEADLOCK FALSE
