SPECIFICATION Spec
CONSTANTS
  Text <- MCText
  Blank = ""
  Wide = {"LONG"}
  Upper <- MCUpper
  Lower <- MCLower
  Trim <- MCTrim
  Cut <- MCCut
  None = None
  PosOf <- MCPosOf
  Dates = {"today"}
  Bands = {"20m"}
  ModeNames <- MCModeNames
  SubmodesOf <- MCSubmodesOf
  Renames <- MCRenames
  Limit <- MCLimit
  Logs = {"home", "club"}
  KindOf <- MCKindOf
  Quick <- MCQuick
  Typed <- MCTyped
  DefaultPower = 10
  ForeignFiles <- MCForeignFiles
  Log4OmLog <- MCLog4OmLog
  MaxRows = 2
  MaxOps = 3
  MaxEntered = 1
CHECK_DEADLOCK FALSE
INVARIANTS
  FileKeepsContact
  ReimportAddsNothing
PROPERTIES
  EditKeepsTheRest
