CONSTANTS
  a = a
  b = b
  Process = {a, b}
  Time <- MCTime
  Announced <- MCAnnounced
  BlockSize = 2
  NoFile = NoFile
  MaxRuns = 3
  MaxKills = 1
SPECIFICATION Spec
INVARIANTS
  OverlapLosesOnlyTheFirst
CHECK_DEADLOCK FALSE
