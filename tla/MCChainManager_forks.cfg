\* Bounds: six blocks on three forks, calls with up to three blocks, two header
\* chains at a time, one subscriber.
SPECIFICATION Spec
CONSTANTS
  g = g a1 = a1 a2 = a2 a3 = a3 b2 = b2 b3 = b3 c1 = c1
  s1 = s1
  Genesis = g
  Blocks <- ForkBlocks
  Parent <- ForkParent
  ChainOf <- ForkChainOf
  TotalWork <- ForkWork
  HeaderOK <- ForkChildren
  BodyOK <- ForkValid
  Subscribers = {s1}
  FutureBlocks = {c1}
  FlushChoices = {TRUE, FALSE}
  MaxBatch = 3
  MaxChains = 2
INVARIANTS
  TypeOK
  StoreMatchesTip
  StoredChainsValid
  SubscribersFollow
  ReorgAttaches
PROPERTIES
  MayCommitMeansFlushed
  RevertsToBranchPoint
  CallsReturn
  ImplementsHeaviestChain
CHECK_DEADLOCK FALSE
