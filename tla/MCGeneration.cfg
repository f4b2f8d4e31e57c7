\* A run of any mode after earlier ones, a crash, failing calls and writes.
SPECIFICATION MCSpec
CONSTANTS
  Tasks <- MCTasks
  NKeys = 2
  Weight <- MCWeight
  Concurrency = 2
  MaxBackoff = 2
  DiskMayFail = TRUE
  MaxTime = 1
  MaxRuns = 1
  MaxCrashes = 1
  None = None
INVARIANTS UsageBalanced OutcomeMatchesDisk
PROPERTIES DisabledForGood WorkIsKept RunsEnd
CHECK_DEADLOCK FALSE
