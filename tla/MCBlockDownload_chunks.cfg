\* Bounds: chains of one to three chunks, two workers, two peers: as many chunks
\* as workers, fewer, and one more.
SPECIFICATION Spec
CONSTANTS
  MaxChunks = 3
  NumWorkers = 2
  BufLen = 2
  Peers = {p, q}
  NoPeer = NoPeer
  Answers = {"full", "some", "empty", "invalid"}
  PeersFail = TRUE
  WrongTypes = TRUE

  
PROPERTIES
  NoneLost
  AllDownloaded
CHECK_DEADLOCK FALSE
