\* Two threads; the cluster may go, and requests fail, at any point.
SPECIFICATION FairSpec
CONSTANTS
  Threads = {t1, t2}
  MaxEvals = 3
  MaxLosses = 1
  RequestsFail = TRUE
  None = None
INVARIANTS AnswerIsOwn NothingLeftRunning
PROPERTIES EvaluationsEnd
CHECK_DEADLOCK FALSE
