\* Two iterations, runs that are killed, resumed or begun afresh.
SPECIFICATION Spec
CONSTANTS
  Iterations = 2
  B = 2
  NDiv = 2
  NFinal = 1
  MaxRuns = 2
  None = None
INVARIANTS Lineage EndsComplete
PROPERTIES SavedWorkKept ResumedRunsAreOne
CHECK_DEADLOCK FALSE
