SPECIFICATION PoolSpec
CONSTANTS
  Sizes = {1, 2, 3}
  Callers = {"main", "io"}
  MaxServed = 3
INVARIANTS
  TakesTurns
CHECK_DEADLOCK FALSE
