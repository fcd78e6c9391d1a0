SPECIFICATION Spec
CONSTANTS
  Hosts = {w1, a1}
  Wrappers = {w1}
  ConstWrappers = {}
  Buffers = {b1, b2}
  NoBuffer = NoBuffer
  Queues = {q1, q2}
  DefaultQueue = q1
  Val = {v1, v2}
  Junk = Junk
  MaxPending = 2
  Kernels = {k1}
  MaxArgs = 1
  Arity <- Arity1
  Size <- Size1
  ElementSize <- SameType
  Rules <- NoDefaultQueue
INVARIANT
  CleanMeansSeen
