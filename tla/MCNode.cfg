SPECIFICATION SpecRebooting
CONSTANTS
    g = g
    a1 = a1
    a2 = a2
    a3 = a3
    a4 = a4
    a5 = a5
    b2 = b2
    b3 = b3
    b4 = b4
    c1 = c1
    Genesis = g
    NoBlock = NoBlock
    Blocks <- MCBlocks
    Parent <- MCParent
    Work <- HeavyFork
    HashRank <- MCHashRank
    Ticketed <- MCTicketed
    Invalid = {b3}
    RevealBlocks = 2
    ReorgWindow = 4
    CheckpointInterval = 3
    MaxOrphanDepth = 2
    MaxOrphansPerHeight = 1
    MaxOrphanPool = 3
INVARIANTS
    TypeOK
    LedgerIsReplay
    DrawsUnlessRestored
    
    NoStrandedCheckpoint
PROPERTIES
    
    ImplementsRevealWindow
