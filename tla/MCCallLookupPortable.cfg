SPECIFICATION Spec
CONSTANTS
  k1 = k1
  k1p = k1p
  k2 = k2
  NoCall = NoCall
  Bases = {k1, k2}
  Calls = {k1, k1p, k2}
  Fragments = {fragment}
  Base <- MCBase
  CtyMatched = {k1, k1p}
PROPERTIES
  PortableIsShown
