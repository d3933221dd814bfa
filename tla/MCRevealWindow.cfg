SPECIFICATION Spec
CONSTANTS
    RevealBlocks = 3
    ReorgWindow = 3
    CheckpointInterval = 2
    MaxHeight = 7
INVARIANTS
    TypeOK
    NoTicketOverdue
    DrawnExactlyOnce
    EntropyCompleteUnlessRestored
