SPECIFICATION FairSpec
CONSTANTS
  app = app
  net = net
  Threads <- OneThread
  Callers = {app}
  Receiver = app
  Names = {"poll"}
  IdSpace = 2
  HandleSpace = 3
  LowHandles = 3
  Masked <- OwnMask
  ANY_REQUEST_ID = 15
  UpdateIds <- UnnumberedIds
  MaxCallbacks = 3
  MaxGets = 2
  MaxUpdates = 1
INVARIANTS
  TypeOK
  OneShotOnce
  NoDanglingCallback
  UniqueNames
PROPERTIES
  NoCallAfterRemove
  GetsCalled
CHECK_DEADLOCK FALSE
