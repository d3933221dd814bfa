SPECIFICATION SpecServing
CONSTANTS
    g = g
    a1 = a1
    a2 = a2
    a3 = a3
    b2 = b2
    b3 = b3
    x3 = x3
    c1 = c1
    Genesis = g
    NoBlock = NoBlock
    Blocks <- MCBlocks
    Parent <- MCParent
    Work <- MCWork
    HashRank <- MCHashRank
    Ticketed <- MCTicketed
    Invalid = {x3}
    RevealBlocks = 2
    ReorgWindow = 3
    CheckpointInterval = 2
    MaxOrphanDepth = 1
    MaxOrphansPerHeight = 1
    MaxOrphanPool = 2
    PageStarts = {2}
    PageSize = 2
    TxBatch = 3
INVARIANTS
    
    RecoveryNeverRegresses
    PageAgrees
    HistoryHasNoGap
