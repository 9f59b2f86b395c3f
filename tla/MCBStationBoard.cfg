SPECIFICATION Spec
CONSTANTS
  Titles = {"v1", "v2"}
  Counts = {1}
  Garbage <- NotSet
  Word = 8
  Fans = {1, 2}
  MaxVideos = 1
  DaysInMonth = 2
  MaxDay = 2
INVARIANTS
  DayHasBaseline SavedBaseline FansRiseAgrees RisesMatchBaseline
PROPERTIES
  DayDawns RequestAnswered
