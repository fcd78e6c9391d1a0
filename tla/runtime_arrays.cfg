SPECIFICATION Spec
CONSTANTS
  Hosts = {a1, a2}
  Wrappers = {}
  ConstWrappers = {}
  Buffers = {b1, b2, b3}
  NoBuffer = NoBuffer
  Queues = {q1, q2}
  DefaultQueue = q1
  Val = {v1}
  Junk = Junk
  MaxPending = 3
  Kernels = {k1}
  MaxArgs = 3
  Arity <- Arity2
  Size <- Size1
  ElementSize <- SameType
  Rules <- NoWithinArity
VIEW View
SYMMETRY Symmetry
INVARIANT
  NoLateTransfer
PROPERTY
  OutputsDelivered
