SPECIFICATION ScreenSpec
CONSTANTS
  FrameSizes <- MCFrameSizes
  UserSizes <- MCUserSizes
  Desktop <- MCDesktop
  Orientations = {0, 3, 5, 6}
  Requests <- MCRequests
  Margins = 3
  Scale = 2
  Frames = 2
  Moves = 4
  Faults = 1
INVARIANTS ClickHitsPixel WindowFits PictureCurrent
CHECK_DEADLOCK FALSE
