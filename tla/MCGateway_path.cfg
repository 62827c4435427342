SPECIFICATION GatewaySpec
CONSTANTS
  r1 = r1
  r2 = r2
  r3 = r3
  s1 = s1
  s2 = s2
  Refs = {r1, r2}
  Stocks = {s1, s2}
  Prices = {1, 2}
  Shares = {1, 2}
  SeqSpace = 8
  MaxVolume = 9
  MaxCount = 9
  EventCap = 2
  BroadcastCap = 1
  BatchSize = 1
  MaxEvents = 4
CHECK_DEADLOCK FALSE
SYMMETRY Perms
INVARIANTS NeverCrossedUnlessLost CaughtUp ViewCurrent
PROPERTIES FeedOnly
