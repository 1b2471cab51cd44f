SPECIFICATION Spec
CONSTANTS
  a1 = a1 a2 = a2 a3 = a3
  Key <- RealKeys
  HashLen = 1
  Parse <- Fields
  Uploads <- RealUploads
  Urls <- AllUrls
  Scheme <- SchemeOf
  Peers = {a1, a2, a3}
  PeersOf <- SwarmOf
  MaxPeers = 2
  MaxRequests = 4
  SocketFails = FALSE
  NoUrl = NoUrl
  StreamsOf <- StreamsByPeer
  Streams <- AllStreams
  NumPieces = 10
  HandshakeLen = 2
  ReadSize = 16
  MaxRounds = 0
  NoPeer = NoPeer
INVARIANTS
  InfoHashIsOriginal
CHECK_DEADLOCK FALSE
