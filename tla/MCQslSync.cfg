SPECIFICATION Spec
CONSTANTS
  q1 = q1
  q2 = q2
  Qsos = {q1, q2}
  Services = {"LoTW", "eQSL"}
  MaxFlight = 3
  Inboxes = {"eQSL"}
  MaxStray = 1
  Faults = {"fetch", "update", "launch"}
VIEW SyncView
SYMMETRY QsoSymmetry
INVARIANTS
  NothingRunsUnseen
  SlotsReadTheirOwn
PROPERTIES
  SentMeansAcknowledged
  SentSticks
  CompletionIsRecorded
CHECK_DEADLOCK FALSE
