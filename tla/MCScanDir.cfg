SPECIFICATION Spec
CONSTANTS
  MaxNode = 4
  Iterations = {i1, i2}
INVARIANTS
  EveryEntryOnce
  BreadthFirst
PROPERTIES
  IterationEnds
