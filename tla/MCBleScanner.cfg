SPECIFICATION Spec
CONSTANTS
  Devices <- MCDevices
  Contains <- MCContains
  MaxScans = 4
INVARIANTS TypeOK NoLeakedScan OneEntryEach
PROPERTIES TimerOfThisScan ScanEnds
