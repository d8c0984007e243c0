SPECIFICATION FairSpec
CONSTANTS
  Hid = {1}
  AoaLimit = 1
  Reserve = 1
  SenderLimit = 2
  MaxSequence = 2
  MaxEvents = 3
  MaxTexts = 1
INVARIANTS FreshPaste DevicesPaired
PROPERTIES Progress
CHECK_DEADLOCK FALSE
