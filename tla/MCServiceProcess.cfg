SPECIFICATION Spec
CONSTANTS
  NProcs = 2
  MaxViews = 3
  MaxFaults = 1
INVARIANTS OneClientServed
PROPERTIES WindowIsOwn AllListen WaitsEnd
CHECK_DEADLOCK FALSE
