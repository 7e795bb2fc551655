SPECIFICATION Spec
CONSTANTS
  MaxAdds = 3
  MaxShifts = 2
  MaxClients = 3
  Capacity = 1
INVARIANTS FrameKept
PROPERTIES UiReturns NextIsAccepted
CHECK_DEADLOCK FALSE
