SPECIFICATION Spec
CONSTANTS
  Trxs = {t0, t1}
  Freqs = {1, 2}
  None = None
INVARIANTS
  PanelShowsTrackedTrx
PROPERTIES
  LinkRecovers
  ImplementsRadioLink
