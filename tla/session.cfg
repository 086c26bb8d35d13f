SPECIFICATION FairSpec
CONSTANTS
  App = "app"
  Net = "net"
  Skus = {"s1"}
  Polls = {}
  Flags <- OneFlag
  Identities <- TwoGames
  NoGame = ""
  MaxLogins = 2
  MaxCalls = 2
  MaxDisconnects = 2
INVARIANTS
  TypeOK
  InSync
  SameIdentity
PROPERTY Converges
CHECK_DEADLOCK FALSE
