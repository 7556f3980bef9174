SPECIFICATION Spec
CONSTANTS
  Trxs = {t0}
  Freqs = {1}
  None = None
INVARIANTS
  TxPillIsTrue
