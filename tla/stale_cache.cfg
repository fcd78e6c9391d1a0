SPECIFICATION Spec
CONSTANTS
  n1 = n1
  n2 = n2
  n3 = n3
  p1 = p1
  p2 = p2
  Names = {n1, n2, n3}
  Kernels = {k1, k2, k3}
  Null = Null
  Templated = {t1, t2}
  Params = {p1, p2}
  NameFor <- NameOfParams
  Rules <- AnyParams
INVARIANT CacheFits
