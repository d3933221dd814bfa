SPECIFICATION Spec
CONSTANTS
    u1 = u1
    u2 = u2
    m = m
    garbage = garbage
    nobody = nobody
    NoSender = nobody
    Addresses <- MCAddresses
    Decodable <- MCDecodable
    Transactions <- MCTransactions
    Forged <- MCForged
    GenesisBalance <- MCGenesisBalance
    GenesisPot = 4
    Divisor <- MCDivisor
    U64Max = 31
    MinTxFee = 1
    MaxBlockTxs = 2
    RevealBlocks = 2
    MaxOffered = 3
    MaxHeight = 5
INVARIANTS
    NeverAborts
    EmissionBounded
    NoReplay
    BooksMatchTrail
    TicketsFollowChain
CHECK_DEADLOCK FALSE
