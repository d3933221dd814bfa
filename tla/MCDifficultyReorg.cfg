SPECIFICATION Spec
CONSTANTS
    TargetBlockTime = 1
    MinDifficulty = 8
    MaxDifficulty = 10
    InitialDifficulty = 9
    MtpWindow = 3
    FutureLimit = 1
    ReorgWindow = 3
    CheckpointInterval = 2
    MaxOrphanDepth = 2
    MaxTime = 3
    MaxHeight = 4
    MaxOrphans = 2
INVARIANTS
    ReorgCompletes
