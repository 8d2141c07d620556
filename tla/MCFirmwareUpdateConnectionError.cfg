SPECIFICATION Spec
CONSTANTS
  ImagePages = 2
  FlashPages = 6
  USER_RETRY = 1
  PageRetries = 3
  EraseWaits = 2
  ConnectRetries = 2
  MaxFaults = 2
INVARIANTS
  DoneDespiteConnectionError
CHECK_DEADLOCK FALSE
