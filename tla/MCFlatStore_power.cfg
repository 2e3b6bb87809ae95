SPECIFICATION Spec
CONSTANTS
  g = g a1 = a1 a2 = a2 c1 = c1 c2 = c2
  Genesis = g
  Blocks <- TwoBlocks
  Parent <- TwoParent
  ChainOf <- TwoChainOf
  TotalWork <- TwoWork
  HeaderOK <- TwoChildren
  BodyOK <- TwoChildren
  EarlyExit = FALSE
  PowerLoss = TRUE
  MaxEntries = 4
  MaxExits = 2
INVARIANTS StoreInv
PROPERTIES FlushedSurvives
CHECK_DEADLOCK FALSE
