SPECIFICATION FairSpec
CONSTANTS
  MaxPort = 1
  MaxAttempts = 2
INVARIANTS InterruptsTheLiving NothingLeft
PROPERTIES ConnectionSpec Progress
CHECK_DEADLOCK FALSE
