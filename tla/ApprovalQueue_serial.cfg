SPECIFICATION QueueSpec
CONSTANTS
  Ids = {r1, r2, r3, r4}
  Handlers = {h1}
  Types <- Promotable
  Threshold = 2
SYMMETRY Rows
INVARIANT AutoIsEarned
PROPERTIES DecidedOnce
CHECK_DEADLOCK FALSE
