SPECIFICATION SessionFairSpec
CONSTANTS
  Arguments <- MCArguments
  MaxArgs = 3
  Launched <- MCLaunched
INVARIANTS AssertionsHold NothingUsedAfterDestroy NothingLeaks
PROPERTIES ShutdownEnds LossNoticed
CHECK_DEADLOCK FALSE
