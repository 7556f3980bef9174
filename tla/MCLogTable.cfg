SPECIFICATION Spec
CONSTANTS
  Keys = {1, 2, 3}
  Vals = {u, v}
  MaxId = 3
  Filters <- MCFilters
  Faults = {"delete", "fetch", "clear"}
INVARIANTS
  TableMirrorsLog
  DeletionOnCourse
  FilterIsPending
PROPERTIES
  EditTouchesOnlyItsContact
