SPECIFICATION UpgradeSpec
CONSTANTS
  Programs = {p, q}
  Ids = {1, 2, 3}
  Qsos = {"c", "d"}
  Modes = {"PSK31", "PSK63", "PSK", "PACKET", "PKT"}
  Submodes = {"none", "psk31", "psk63", "qpsk"}
  NoSubmode = "none"
  NoRow = NoRow
  Map <- MCMap
  Stored <- MCStored
  Loggable <- MCLoggable
  Kinds = {"sqlite", "mariadb"}
SYMMETRY Symmetry
INVARIANTS
  VersionsAreEarned
PROPERTIES
  ContactIsKept
  UpgradeIsThorough
