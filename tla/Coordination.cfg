SPECIFICATION FairSpec
CONSTANTS
  C = C
  M = M
  None = None
  Full = {TRUE, FALSE}
  MaxFaults = 1
  MaxWipes = 1
\* a node that is down may stay down
CHECK_DEADLOCK FALSE
INVARIANTS
  TypeOK
  
  StartsAgain

  
