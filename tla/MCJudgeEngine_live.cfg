\* One worker that nobody replaces, disk faults at any point, a reset (liveness, no symmetry).
SPECIFICATION FairSpec
CONSTANTS
  Subs = {s1, s2}
  Workers = {w1}
  QueueLimit = 1
  DiskMayFail = TRUE
  LoseResponses = FALSE
  MaxResets = 1
  MaxCrashes = 0
  None = None
PROPERTIES EveryClientAnswered QueueDrains
CHECK_DEADLOCK FALSE
