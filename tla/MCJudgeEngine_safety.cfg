\* Two workers, an overflowing queue, disk faults, lost responses, a reset or a crash.
SPECIFICATION Spec
CONSTANTS
  Subs = {s1, s2}
  Workers = {w1, w2}
  QueueLimit = 1
  DiskMayFail = TRUE
  LoseResponses = TRUE
  MaxResets = 1
  MaxCrashes = 1
  None = None
SYMMETRY Symmetry
INVARIANTS OneJobPerSubmission AnswerIsOwn NothingVanishes
PROPERTIES ImplementsService
CONSTRAINT OneDisturbance
CHECK_DEADLOCK FALSE
