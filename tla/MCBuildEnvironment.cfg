\* Two packages, from two rounds or two starts; failing disks, calls that time out.
SPECIFICATION FairSpec
CONSTANTS
  MaxRounds = 2
  MaxRequests = 2
  NSolutions = 3
  Rows = {z, a}
  ZeroRow = z
  DiskMayFail = TRUE
  MayTimeOut = TRUE
INVARIANTS TypeOK NoFailureWithoutCause JudgedAsBuilt
PROPERTIES InstalledWhole BuildEnds
CHECK_DEADLOCK FALSE
