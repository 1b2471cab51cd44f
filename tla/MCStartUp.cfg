SPECIFICATION FairSpec
CONSTANTS
  a1 = a1 a2 = a2 a3 = a3
  Key <- ShortKeys
  HashLen = 1
  Parse <- Fields
  Uploads <- SomeUploads
  Urls <- AllUrls
  Scheme <- SchemeOf
  Peers = {a1, a2, a3}
  PeersOf <- SwarmOf
  MaxPeers = 2
  MaxRequests = 4
  SocketFails = TRUE
  NoUrl = NoUrl
  StreamsOf <- StreamsByPeer
  Streams <- AllStreams
  NumPieces = 10
  HandshakeLen = 2
  ReadSize = 16
  MaxRounds = 2
  NoPeer = NoPeer
INVARIANTS
  TypeOK
  NoHalfTorrent
  PiecesCoverFiles
  PeersFromTheirTracker
  AttemptsAccounted
  EveryTrackerTried
  DeliveredInOrder
  NothingHeldBack
  BitsAsAnnounced
PROPERTIES
  RoundsAsSpecified
  NeverRedialed
  RoundEnds
  EndIsReported
CHECK_DEADLOCK FALSE
