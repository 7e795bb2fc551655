SPECIFICATION Spec
CONSTANTS
  Handles = {h1, h2}
  NoHandle = NoHandle
  Contexts = {c1, c2}
  MaxObjects = 3
  MaxBound = 2
SYMMETRY Symmetry
CHECK_DEADLOCK FALSE
INVARIANTS TypeOK LookupsCurrent NeverFreedInUse IndexBufferNamed UntypedParkedExist
PROPERTIES FreedAtLast
