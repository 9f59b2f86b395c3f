SPECIFICATION Spec
CONSTANTS
  small = small
  medium = medium
  large = large
  Packs <- MCPacks
  Size <- MCSize
  MAX_SEND_LEN = 5
  MaxSends = 5
INVARIANTS
  OneWriteAtATime
  WriteMemoryStable
  NothingMislaid
  BatchFitsBuffer
PROPERTIES
  EveryPackLeaves
  ImplementsChannel
CHECK_DEADLOCK FALSE
