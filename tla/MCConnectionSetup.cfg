SPECIFICATION FairSpec
CONSTANTS
  USER_RETRY = 1
  Reads = {"device name"}
  MaxLinks = 2
  MaxFaults = 2
INVARIANTS
  TypeOK
  HeadInProgress
PROPERTIES
  PermitMeansReady
  NotificationComes
  WaitEnds
CHECK_DEADLOCK FALSE
