SPECIFICATION FairSpec
CONSTANTS
  d1 = d1
  d2 = d2
  d3 = d3
  n1 = n1
  n2 = n2
  Msg = {d1, d2, d3, n1, n2}
  NonDroppable = {n1, n2}
  Limit = 2
INVARIANTS FreedOnce
PROPERTIES StreamSpec Progress
CHECK_DEADLOCK FALSE
