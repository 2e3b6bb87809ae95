\* Bounds: chains of up to 14 blocks, so that a history reaches its first jump,
\* five headers in an answer and three blocks in a chunk, so that a chain takes
\* several of each; one failed request or download; the target peer's best chain
\* changes up to twice in a sync; any number of syncs.
SPECIFICATION SyncSpec
CONSTANTS
  Genesis <- G
  Blocks <- TreeNodes
  Parent <- TreeParent
  ChainOf <- TreeChainOf
  TotalWork <- TreeWork
  HeaderOK <- TreeChildren
  BodyOK <- TreeChildren
  Subscribers = {}
  FutureBlocks <- Late
  FlushChoices = {FALSE}
  MaxBatch = 5
  MaxChains = 4
  PeerTips <- Tips
  PeerMoves <- Moves
  TipBlocks <- Mined
  MaxHeaders = 5
  BlocksPerRequest = 3
  MaxFailures = 1
INVARIANTS
  HeaderSyncInv
PROPERTIES
  EndsSynced
  
CHECK_DEADLOCK FALSE
