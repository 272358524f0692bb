SPECIFICATION Spec
CONSTANTS
  Names = {a, b}
  Reuse = FALSE
  None = None
  Torn = Torn
  MaxKeys = 4
  MaxFaults = 2
\* once the keys are used up, a command may stop before it generates one
CHECK_DEADLOCK FALSE
INVARIANTS
  TypeOK
  Agreed
  
  KeyMatches
