SPECIFICATION Spec
CONSTANTS
  Target = 2
  Rate = 2
  InitialMargin = 0
  PlayedMargin = 1
  Inputs = {1}
  Request = 2
  Labels = 7
  Graphs <- MCGraphs
INVARIANTS ConsumeFindsFrame NothingPushedAfterClose LatencyBounded
PROPERTIES FramesInOrder LastFrameShown StopEnds PlaysInOrder PlaybackStarts
CHECK_DEADLOCK FALSE
