SPECIFICATION FairSpec
CONSTANTS
  c1 = c1
  c2 = c2
  c3 = c3
  c4 = c4
  Conns = {c1, c2}
  MaxClients = 2
  RemoveCap = 1
  QueueCap <- OneEach
  BatchCap <- OneEach
  MaxFrames <- OneEach
PROPERTIES Delivered ShutdownStops
