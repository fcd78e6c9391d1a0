SPECIFICATION Spec
CONSTANTS
  Hosts = {w1, w2}
  Wrappers = {w1, w2}
  ConstWrappers = {}
  Buffers = {b1, b2}
  NoBuffer = NoBuffer
  Queues = {q1}
  DefaultQueue = q1
  Val = {v1, v2}
  Junk = Junk
  MaxPending = 2
  Kernels = {k1}
  MaxArgs = 1
  Arity <- Arity1
  Size <- Size2
  ElementSize <- SameType
  Rules <- AllRules
VIEW View
SYMMETRY Symmetry
INVARIANTS
  TypeOK
  CleanMeansSeen
  ProgramOrder
PROPERTY
  SyncSpec
