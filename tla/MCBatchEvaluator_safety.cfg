\* Two commands, two edits, failing saves and a crash.
SPECIFICATION Spec
CONSTANTS
  Pairs = {p1, p2}
  Workers = {w1, w2}
  Buckets = {FALSE, TRUE}
  SaveMayFail = TRUE
  Contents = {A, B}
  MaxEdits = 2
  MaxCommands = 2
  MaxCrashes = 1
  None = None
SYMMETRY Symmetry
INVARIANTS DurableProgress JoinedMeansEvaluated SkipIsCurrent
PROPERTIES ProgressIsKept
CHECK_DEADLOCK FALSE
