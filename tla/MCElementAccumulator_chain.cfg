\* Bounds: three blocks above a genesis block of three outputs, at most eight
\* leaves and three outputs a block: trees of heights 0 to 3 merge, and a block
\* can add to, and spend from, several trees at once.
CONSTANTS
    GenesisOutputs = 3
    MaxHeight = 3
    MaxLeaves = 8
    MaxCreated = 3
SPECIFICATION Spec
INVARIANTS
    AccumulatorInv
    UpdatedThereAndBack
PROPERTY OldProofsTellTheTruth
