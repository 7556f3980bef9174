SPECIFICATION Spec
CONSTANTS
  Freqs = {1, 2}
  MaxCalls = 2
  MaxSignals = 1
INVARIANTS
  WindowCatchesUp
  RigClosedAtExit
PROPERTIES
  DeadRigIsNoticed
  CloseReturns
  ImplementsRadioLink
CHECK_DEADLOCK FALSE
