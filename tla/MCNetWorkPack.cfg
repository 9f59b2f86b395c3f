SPECIFICATION Spec
CONSTANTS
  Bodies <- MCBodies
  MessageIds = {1000}
  Users = {0, 1}
  Servers = {0}
  Word = 64
INVARIANTS RoundTrip PacksAreRead
