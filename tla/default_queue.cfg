SPECIFICATION Spec
CONSTANTS
  Handles = {h1, h2, h3}
  NoHandle = NoHandle
  MaxEvents = 2
CHECK_DEADLOCK FALSE
INVARIANT DefaultQueueIsQueue
