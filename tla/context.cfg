SPECIFICATION Spec
CONSTANTS
  Handles = {h1, h2, h3}
  NoHandle = NoHandle
  MaxEvents = 2
SYMMETRY Symmetry
CHECK_DEADLOCK FALSE
INVARIANTS
  TypeOK
  NeverMisused
  QueuesOwned
  EventsMeasured
