SPECIFICATION Spec
CONSTANTS
  u1 = u1
  u2 = u2
  c1 = c1
  c2 = c2
  r1 = r1
  r2 = r2
  Underlyings = {u1}
  Contracts = {c1, c2}
  UnderlyingOf <- AllOfU1
  Refs = {r1, r2}
  Prices = {3}
  Shares = {1, 2}
  MaxContracts = 1
  SpotQuotes <- TheQuotes
  MaxVolume <- Uneven
  MaxCount = 2
  Lossy = {3}
CHECK_DEADLOCK FALSE
SYMMETRY Perms
INVARIANTS TypeOK SnapshotFresh CleanMeansCurrent SpotNotAbove OptionVolumeCovered
