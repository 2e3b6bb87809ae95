\* Bounds: two addresses, chains of height three, four blocks, one restart.  Once
\* wallet.json is ahead of the chain store the node cannot start again, so the
\* system may stop.
CONSTANTS
    MaxSeed = 2
    MaxHeight = 3
    MaxBlocks = 4
    MaxRestarts = 1
SPECIFICATION Spec
INVARIANTS
    WalletInv
PROPERTY CommitsAreDurable
CHECK_DEADLOCK FALSE
