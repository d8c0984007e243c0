SPECIFICATION FairSpec
CONSTANTS
  Sizes = {2}
  NoSize = NoSize
  Fallback = {1}
  MaxErrors = 2
  Downsize = TRUE
  MaxChanges = 2
  MaxRequests = 1
INVARIANTS ResetHonoured ReleasedAtEnd
PROPERTIES Progress
CHECK_DEADLOCK FALSE
