SPECIFICATION Spec
CONSTANTS
  Names = {n1, n2, n3}
  Obedient = {n1, n2}
INVARIANTS
  NoErrorLost
PROPERTIES
  ImplementsForkJoin
  Returns
\* The call returns, and nothing is left to happen.
CHECK_DEADLOCK FALSE
