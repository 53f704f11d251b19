SPECIFICATION QueueSpec
CONSTANTS
  Ids = {r1}
  Handlers = {h1, h2}
  Types <- Promotable
  Threshold = 1
PROPERTIES DecidedOnce
CHECK_DEADLOCK FALSE
