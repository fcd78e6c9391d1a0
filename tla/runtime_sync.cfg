SPECIFICATION FairSpec
CONSTANTS
  Hosts = {w1, a1}
  Wrappers = {w1}
  ConstWrappers = {}
  Buffers = {b1, b2}
  NoBuffer = NoBuffer
  Queues = {q1}
  DefaultQueue = q1
  Val = {v1}
  Junk = Junk
  MaxPending = 2
  Kernels = {k1}
  MaxArgs = 2
  Arity <- Arity2
  Size <- Size1
  ElementSize <- SameType
  Rules <- MarkAnywhere
VIEW View
INVARIANT
  OneOwner
PROPERTIES
  SyncSpec
  CallsReturn
