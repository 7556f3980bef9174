SPECIFICATION Spec
CONSTANTS
  q1 = q1
  q2 = q2
  Qsos = {q1, q2}
  Services = {"LoTW", "eQSL"}
  MaxFlight = 2
  Inboxes = {"LoTW", "eQSL"}
  MaxStray = 0
  Faults = {}
SYMMETRY QsoSymmetry
PROPERTIES
  ConfirmationsStick
