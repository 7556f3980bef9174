SPECIFICATION Spec
CONSTANTS
  Plan <- MCPlan
  ModeTable <- MCModeTable
  Blank = ""
  Calls = {"A", "B"}
  NoReport = NoReport
  Dials = {0, 54, 60, 70}
  RadioModes <- MCRadioModes
  Reports = {"", "57"}
  Announced <- MCAnnounced
INVARIANTS
  BandHoldsFrequency
  FormFollowsRadio
  GridIsOfStation
PROPERTIES
  StatusKeepsText
