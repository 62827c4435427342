SPECIFICATION Spec
CONSTANTS
  c1 = c1
  c2 = c2
  c3 = c3
  c4 = c4
  Conns = {c1}
  MaxClients = 1
  RemoveCap = 1
  QueueCap <- OneEach
  BatchCap <- OneEach
  MaxFrames <- TwoOnly
INVARIANTS FramesIntact
