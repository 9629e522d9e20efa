SPECIFICATION Spec
CONSTANTS
  n1 = n1
  n2 = n2
  NULL = NULL
  Nodes = {n1, n2}
  Callers = {c1, c2}
  Groups <- MCGroups
  MaxItems = 2
  MaxEpoch = 3
SYMMETRY Sym
INVARIANTS
  EpochsAdjacent
PROPERTIES
  CallsAtomic
  LiftedWhenDone
