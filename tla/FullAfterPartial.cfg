SPECIFICATION Spec
CONSTANTS
  None = None
  MaxBuilds = 2
  Comp <- NodeComp
  DefinitionOrder <- NodeOrder
  Assemblies <- NodeAssemblies
  Designs <- NodeDesigns
CHECK_DEADLOCK FALSE
INVARIANT DeclaredOrderKept
