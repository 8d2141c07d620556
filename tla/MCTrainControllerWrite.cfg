SPECIFICATION FairSpec
CONSTANTS
  MaxConn = 2
  Peers = {p1, p2}
  MaxHolds = 0
  MaxFinds = 2
  MaxScanErrs = 1
INVARIANT
  WriteHasConn
CHECK_DEADLOCK FALSE
