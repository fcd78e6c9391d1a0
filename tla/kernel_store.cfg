SPECIFICATION TemplatedSpec
CONSTANTS
  n1 = n1
  n2 = n2
  n3 = n3
  Names = {n1, n2, n3}
  Kernels = {k1, k2}
  Null = Null
  Templated = {t1}
  Params <- ParamsOfX
  NameFor <- NameOfParams
  Rules <- AllRules
  Globals <- GlobalNames
  Nil = Nil
  Template <- TheTemplate
  Faulty <- FaultyTemplates
  Locals <- LocalValues
  Whole <- WholeOf
  MaxErrors = 2
INVARIANTS TypeOK ExistsMeansStored DeletedOnce CacheFits CacheAlive
PROPERTIES NamesAreFinal ImplementsStore RenderEnds
