SPECIFICATION Spec
CONSTANTS
  None = None
  MaxBuilds = 1
  Comp <- Small
  DefinitionOrder <- SmallOrder
  Assemblies <- SmallAssemblies
  Designs <- SmallDesigns
CHECK_DEADLOCK FALSE
INVARIANTS
  TypeOK
  OrdersLinearise
  FailsOnlyIfUnsortable
  NothingMissing
  StopMirrorsStart
