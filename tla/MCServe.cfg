SPECIFICATION ServeSpec
CONSTANTS
  p1 = p1
  p2 = p2
  p3 = p3
  Peers <- SomePeers
  MaxConnections = 2
  Nobody = Nobody
  MaxFalls = 1
INVARIANT SlotsCounted
PROPERTY ServeSettles
CHECK_DEADLOCK FALSE
