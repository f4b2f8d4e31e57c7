\* One command with failing saves (liveness, no symmetry).
SPECIFICATION FairSpec
CONSTANTS
  Pairs = {p1, p2}
  Workers = {w1, w2}
  Buckets = {FALSE, TRUE}
  SaveMayFail = TRUE
  Contents = {A, B}
  MaxEdits = 0
  MaxCommands = 1
  MaxCrashes = 0
  None = None
PROPERTIES CommandsEnd
CHECK_DEADLOCK FALSE
