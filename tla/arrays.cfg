SPECIFICATION Spec
CONSTANTS
  Hosts = {a1, a2}
  Wrappers = {}
  ConstWrappers = {}
  Buffers = {b1, b2}
  NoBuffer = NoBuffer
  Queues = {q1}
  DefaultQueue = q1
  Val = {v1, v2}
  Junk = Junk
  MaxPending = 2
  Kernels = {k1}
  MaxArgs = 2
  Arity <- Arity1
  Size <- NoWrappers
  ElementSize <- NoWrappers
  Arrays = {a1, a2}
  IntArrays = {a2}
  Managed = {a1}
  Rules <- NoRules
VIEW View
SYMMETRY Symmetry
INVARIANTS
  TypeOK
  ElementsCurrent
  DeviceCurrent
  ArraysOwnBuffers
