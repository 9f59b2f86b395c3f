SPECIFICATION Spec
CONSTANTS
  call = call  image = image
  dialog = dialog  other = other
  f = f
  Messages = {call, image}
  Objects = {dialog, other}
  Functions = {f}
  NULL = NULL
  MaxSlots = 4
INVARIANTS FiredInOrder
PROPERTIES RemovedNotCalled
CHECK_DEADLOCK FALSE
