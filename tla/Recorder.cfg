SPECIFICATION FairSpec
CONSTANTS
  NoPts = NoPts
  MaxPts = 2
  MaxPackets = 3
  Tick = 2
INVARIANTS FileCorrect QueuesServed
PROPERTIES StopEnds
CHECK_DEADLOCK FALSE
