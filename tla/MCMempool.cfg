SPECIFICATION Spec
CONSTANTS
    A = A
    B = B
    Accounts = {A, B}
    Txs <- MCTxs
    GenesisBalance <- MCGenesis
    MaxMempoolSize = 3
    MaxPerSender = 2
    TxExpiryBlocks = 1
    MaxBlockTxs = 1
    GuaranteeAfter = 4
INVARIANTS
    TypeOK
    CapsHold
    NoConfirmedPending
    Persisted
    AffordableUnlessHurt
PROPERTIES
    DrainsUnlessWaiting
