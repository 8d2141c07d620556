SPECIFICATION FairSpec
CONSTANTS
  MaxConn = 1
  Peers = {p1}
  MaxHolds = 1
  MaxFinds = 2
  MaxScanErrs = 1
INVARIANT
  NeverStuck
PROPERTY
  SearchGoesOn
CHECK_DEADLOCK FALSE
