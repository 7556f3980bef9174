SPECIFICATION DeskSpec
CONSTANTS
  Backends = {Hamlib, TCI}
  Queued = {Hamlib}
  Retrying = {TCI}
  Dials = {1}
  Startups <- AnyStartup
  MaxCalls = 3
INVARIANTS
  PillIsOfRadio
