SPECIFICATION Spec
CONSTANTS
  Handles = {h1, h2}
  NoHandle = NoHandle
  Contexts = {c1, c2}
  MaxObjects = 2
  MaxBound = 2
SYMMETRY Symmetry
CHECK_DEADLOCK FALSE
INVARIANTS ParkedExist
