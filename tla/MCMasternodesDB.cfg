CONSTANTS
    g = g
    a = a
    b = b
    k1 = k1
    k2 = k2
    k3 = k3
    NullKey = NullKey
    NullTx = NullTx
    NullId = NullId
    NoEntry = NoEntry
    Ids <- MCIds
    Keys <- MCKeys
    OwnerOf <- MCOwnerOf
    OperatorOf <- MCOperatorOf
    GenesisIds <- MCGenesisIds
    GenesisTxn <- MCGenesisTxn
    TxPool <- MCTxPool
    ActivationDelay = 1
    ResignDelay = 1
    MaxHeight = 2
    MaxTxs = 1
    MaxChainTxs = 2
    NoChain = NoChain
    CrashPoints = {"none", "coins", "criminals"}
SPECIFICATION DBSpec
INVARIANTS RegistryFollowsChain  StoredProofsCount
