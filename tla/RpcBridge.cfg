SPECIFICATION Spec
CONSTANTS
  Request = {r1, r2}
  Handler = {h1, h2}
  Activity = {a1, a2}
  None = None
SYMMETRY Symmetry
INVARIANTS ResumedAtMostOnce NotForgotten
CHECK_DEADLOCK FALSE
