SPECIFICATION Spec
CONSTANTS
  Keys = {1, 2, 3}
  Vals = {u}
  MaxId = 3
  Filters <- AllKeys
  Faults = {}
PROPERTIES
  BatchDeletesOnlySelected
