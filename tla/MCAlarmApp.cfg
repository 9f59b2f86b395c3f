SPECIFICATION AppSpec
CONSTANTS
  Chars = {37, 46, 47, 50, 69, 70, 102}
  MaxLen = 5
  Junk = {0, 70}
  Target <- MCTarget
  Beside <- MCBeside
  MaxNotices = 3
  Lengths = {0, 1}
  MaxTimers = 2
  b1 = b1  b2 = b2
  Boards = {b1, b2}
  NULL = NULL
INVARIANTS BufferHolds ServesTarget WordsInOrder OneBoardShown BoardReopens
PROPERTIES PlayerHasFile NoticesHandled
CHECK_DEADLOCK FALSE
