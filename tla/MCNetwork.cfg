SPECIFICATION Spec
CONSTANTS
    g = g
    a1 = a1
    c1 = c1
    c2 = c2
    A = A
    B = B
    C = C
    Genesis = g
    Blocks <- MCBlocks
    Parent <- MCParent
    Work <- MCWork
    TargetWork <- MCTargetWork
    Nodes = {A, B, C}
    Peers <- Line
    MaxSeen = 2
    EventCap = 1
    Batch = 1
    MaxLosses = 1
CHECK_DEADLOCK FALSE
INVARIANTS
    QuietMeansConverged
PROPERTIES
    GossipEnds
    SyncClosesGap
