SPECIFICATION Spec
CONSTANTS
  c1 = c1  c2 = c2  server = server
  Conns = {c1, c2}
  Addresses = {server}
  NoIP = NoIP
  None = None
  Io = Io  Ui = Ui
  Threads = {Io, Ui}
  Address <- OneServer
  IoOf <- OneIo
  Heads = {"good", "bad"}
  Endings <- OneLeaves
  MaxPacks <- OnePack
  HeartbeatAfter = 3
  DeadAfter = 4
  ConnectWait = 2
  RetryWait = 1
  CloseWait = 0
  Answers = {"unknown", "address", "malformed"}
INVARIANTS
  NeverAbandoned HeartbeatIsRegistered
PROPERTIES
  AttemptsApart SilenceReconnects
