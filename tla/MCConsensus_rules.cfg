\* Bounds: words of five bits; three blocks, of which the last two have one or
\* two transactions; or six empty blocks, three adjustments of the difficulty
\* and a window of three timestamps.  Chains are not extended above the bound.
CONSTANTS
    Word = 32
    Networks <- MCNetworks
    Offered <- Blocks
    BlockInterval = 3
    AdjustmentInterval = 2
    Window = 3
    HalvingInterval = 2
    Reward = 37
    MaturityDelay = 2
    MaxBlockWeight = 11
SPECIFICATION Spec
INVARIANTS
    LedgerInv
    HeadersInv
PROPERTY MedianNeverGoesBack
CHECK_DEADLOCK FALSE
