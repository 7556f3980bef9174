SPECIFICATION Spec
CONSTANTS
  Keys = {1}
  Vals = {u}
  MaxId = 1
  Filters <- AllKeys
  Faults = {"fetch"}
INVARIANTS
  ArchiveHoldsLog
