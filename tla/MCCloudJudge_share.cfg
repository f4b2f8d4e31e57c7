\* Two threads, nothing fails, the cluster never goes by itself.
SPECIFICATION FairSpec
CONSTANTS
  Threads = {t1, t2}
  MaxEvals = 3
  MaxLosses = 0
  RequestsFail = FALSE
  None = None
INVARIANT AllShareOneCluster
CHECK_DEADLOCK FALSE
