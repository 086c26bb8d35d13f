SPECIFICATION Spec
CONSTANTS
  app = app
  net = net
  Threads <- TwoThreads
  Callers = {app}
  Receiver = net
  Names = {"poll"}
  IdSpace = 4
  HandleSpace = 3
  LowHandles = 1
  Masked <- PollMasks
  ANY_REQUEST_ID = 15
  UpdateIds <- UnnumberedIds
  MaxCallbacks = 3
  MaxGets = 2
  MaxUpdates = 1
INVARIANTS
  OwnAnswer
  NoDanglingCallback
CHECK_DEADLOCK FALSE
