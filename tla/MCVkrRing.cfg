SPECIFICATION LiveSpec
CONSTANTS
  BufferSize = 2
  Wrap = 4
  Sizes <- SmallSizes
  MaxUnits = 6
INVARIANTS TypeOK NoLostWakeUp
PROPERTIES Delivery CommandsRun StopReturns
CHECK_DEADLOCK FALSE
