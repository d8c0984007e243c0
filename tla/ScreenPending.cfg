SPECIFICATION ScreenSpec
CONSTANTS
  FrameSizes <- MCFrameSizes
  UserSizes <- MCUserSizes
  Desktop <- MCDesktop
  Orientations = {0}
  Requests <- MCRequests
  Margins = 3
  Scale = 1
  Frames = 3
  Moves = 1
  Faults = 1
INVARIANTS PendingSizeHasNoTexture
CHECK_DEADLOCK FALSE
