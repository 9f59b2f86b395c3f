SPECIFICATION Spec
CONSTANTS
  c1 = c1  c2 = c2
  a1 = a1  a2 = a2  n2 = n2
  io1 = io1  io2 = io2  main = main  user = user  user2 = user2
  Conns = {c1}
  Accepted = {c1}
  Addresses = {a1}
  NoIP = NoIP
  None = None
  Address <- Distinct
  Asked <- ByName
  Threads = {io1, main, user, user2}
  IoOf <- OneIo
  AcceptIo = io1
  Main = main
  Users = {user, user2}
  Heads = {"good"}
  Endings <- Leave
  MaxPacks <- OnePack
PROPERTIES LookupReturns
CHECK_DEADLOCK FALSE
