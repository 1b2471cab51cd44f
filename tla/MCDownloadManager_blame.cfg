SPECIFICATION Spec
CONSTANTS
  p1 = p1 p2 = p2 k1 = k1 k2 = k2 k3 = k3 c1 = c1 c2 = c2 c3 = c3
  Pieces = {p1, p2}
  NumBlocks = 2
  Keys = {k1, k2, k3}
  Conns = {c1, c2, c3}
  KeyOf <- ThreePeers
  Faults <- CorruptDrop
  BitsOf <- EverySeed
  Answers <- AllAtOnce
  StartVerified = {{}}
  Rechecks = {}
  CanStop = FALSE
  TrackerFails = FALSE
  DiskFails = FALSE
  MaxConns = 3
  MaxPipelined = 1
  MaxTimeouts = 2
  MaxHashFailures = 2
  MaxAsked = 2
  NoPiece = NoPiece NoKey = NoKey NoReq = NoReq NoConn = NoConn
INVARIANTS
  OnlyFaultyBanned
CHECK_DEADLOCK FALSE
