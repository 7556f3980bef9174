SPECIFICATION DeskSpec
CONSTANTS
  Backends = {Hamlib, TCI}
  Queued = {Hamlib}
  Retrying = {TCI}
  Dials = {1}
  Startups <- NoStartup
  MaxCalls = 3
PROPERTIES
  NoSecondConnect
