SPECIFICATION FeedSpec
CONSTANTS
  r1 = r1
  r2 = r2
  r3 = r3
  s1 = s1
  s2 = s2
  Refs = {r1, r2, r3}
  Stocks = {s1, s2}
  Prices = {1, 2}
  Shares = {1, 2}
  SeqSpace = 2
  MaxVolume = 6
  MaxCount = 3
SYMMETRY Perms
INVARIANTS VolumeConserved IndexComplete CountBounded
PROPERTIES ImplementsLedger UpdatesTell
