SPECIFICATION BuilderSpec
CONSTANTS
  o1 = o1 o2 = o2 o3 = o3
  Coins <- MCCoins
  Txns <- MCTxns
  Spends <- MCSpends
  Creates <- MCCreates
  MaxHeight = 2
  Senders = {1, 2}
  Reservers = {3}
  Amount <- MCAmount
  Value <- MCValue
  Maturity <- MCMaturity
  MinerCoins <- MCMinerCoins
INVARIANTS BuilderInv SpentByOne
PROPERTIES QuietSendsSucceed
