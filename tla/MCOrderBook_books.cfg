SPECIFICATION Spec
CONSTANTS
  r1 = r1
  r2 = r2
  r3 = r3
  s1 = s1
  s2 = s2
  Refs = {r1, r2}
  Stocks = {s1, s2}
  Prices = {1}
  Shares = {0, 1}
  SeqSpace = 1
  MaxVolume = 2
  MaxCount = 2
SYMMETRY Perms
INVARIANTS TypeOK IndexSound SnapshotCurrent VolumeCovered
