SPECIFICATION FairSpec
CONSTANTS
  Request = {r1}
  Handler = {h1, h2}
  Activity = {a1, a2}
  None = None
PROPERTIES Progress
CHECK_DEADLOCK FALSE
