SPECIFICATION MinerSpec
CONSTANTS
  o1 = o1 o2 = o2 p1 = p1 p2 = p2 c1 = c1
  P = P Q = Q C = C G = G
  Txns <- FamilyTxns
  Coins <- FamilyCoins
  Spends <- FamilySpends
  Creates <- FamilyCreates
  Inputs <- FamilyInputs
  Weight <- FamilyWeight
  MaxHeight = 2
  MaxWeight = 3
INVARIANTS PoolInv MinerInv
PROPERTIES KeptUntilSpent ParentsAtFirst MineBlockReturns
CHECK_DEADLOCK FALSE
