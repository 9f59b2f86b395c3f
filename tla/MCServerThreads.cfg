SPECIFICATION Spec
CONSTANTS
  c1 = c1  c2 = c2
  a1 = a1  a2 = a2  n2 = n2
  io1 = io1  io2 = io2  main = main  user = user  user2 = user2
  Conns = {c1, c2}
  Accepted = {c1, c2}
  Addresses = {a1, a2}
  NoIP = NoIP
  None = None
  Address <- Distinct
  Asked <- ByName
  Threads = {io1, io2, main}
  IoOf <- TwoIo
  AcceptIo = io1
  Main = main
  Users = {main}
  Heads = {"good"}
  Endings <- Leave
  MaxPacks <- TwoPacks
INVARIANTS PacksInOrder ReadingIsListed ClosedOncePerThread AcceptPosted
