CONSTANTS
  MaxConn = 1
  Peers = {p1}
  MaxHolds = 1
  ADV_1S_DURATION = 2

SPECIFICATION FairSpec
INVARIANTS TypeOK AwakeWhileConnected LastRefDroppedInCleanup
PROPERTIES ComesBack SleepsAgain JumpHappens
