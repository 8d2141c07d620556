CONSTANTS
  Places <- MCPlaces
  start_address <- MCAddress
  ImgChunks = 2
  Lens = {0, 2}
  LongWindow = 2
  ShortWindow = 1
  MaxResets = 2

SPECIFICATION FairSpec
INVARIANTS TypeOK CopyKeepsImage StartedImageComplete
PROPERTIES BootEnds PhoneServed
