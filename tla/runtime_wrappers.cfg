SPECIFICATION Spec
CONSTANTS
  Hosts = {w1, w2}
  Wrappers = {w1, w2}
  ConstWrappers = {}
  Buffers = {b1, b2}
  NoBuffer = NoBuffer
  Queues = {q1}
  DefaultQueue = q1
  Val = {v1}
  Junk = Junk
  MaxPending = 1
  Kernels = {k1}
  MaxArgs = 3
  Arity <- Arity2
  Size <- Size2
  ElementSize <- SameType
  Rules <- BareBuffers
VIEW View
SYMMETRY Symmetry
INVARIANTS
  DirtyOnDevice
  ArgsAlive
PROPERTY
  WrittenMeansDirty
