SPECIFICATION Spec
CONSTANTS
  q1 = q1
  q2 = q2
  Qsos = {q1, q2}
  Services = {"LoTW", "eQSL"}
  MaxFlight = 2
  Inboxes = {"eQSL"}
  MaxStray = 1
  Faults = {}
SYMMETRY QsoSymmetry
PROPERTIES
  EveryCompletionIsRecorded
CHECK_DEADLOCK FALSE
