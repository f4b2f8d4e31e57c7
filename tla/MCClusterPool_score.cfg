\* Pairs of two problems, up to three clusters, failures and Ctrl+C at any point.
SPECIFICATION MCSpec
CONSTANTS
  Problems = {p, q}
  Workers = {w1, w2}
  NPairs = 2
  MaxClusters = 3
  Part <- MCPart
INVARIANT ScoreIsOwn
CHECK_DEADLOCK FALSE
