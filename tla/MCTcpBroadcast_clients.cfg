SPECIFICATION Spec
CONSTANTS
  c1 = c1
  c2 = c2
  c3 = c3
  c4 = c4
  Conns = {c1, c2, c3, c4}
  MaxClients = 3
  RemoveCap = 2
  QueueCap <- OneEach
  BatchCap <- TwoBbo
  MaxFrames <- TwoOnly
SYMMETRY Perms
INVARIANTS TypeOK ListExact LateClient Gapless InOrder Accounted
