\* Two workers share, wait for and evict the checker of one problem; calls of
\* go-judge fail (liveness: no symmetry).
SPECIFICATION FairSpec
CONSTANTS
  Workers = {w1, w2}
  Slots = {chk}
  Contents = {good, bad}
  Broken = {bad}
  FileIds = {f1, f2, f3}
  GoJudgeFails = TRUE
  MaxEdits = 1
  None = None
INVARIANTS SingleFlight KeptWhileUnedited OnlyOvertakenLinger CachedFileIsLive
PROPERTIES JobsEnd EditsReachJobs SharingIsTransparent
