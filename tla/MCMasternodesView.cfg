CONSTANTS
    g = g
    a = a
    b = b
    k1 = k1
    k2 = k2
    k3 = k3
    NullKey = NullKey
    NullTx = NullTx
    NullId = NullId
    NoEntry = NoEntry
    Ids <- MCIds
    Keys <- MCKeys
    OwnerOf <- MCOwnerOf
    OperatorOf <- MCOperatorOf
    GenesisIds <- MCGenesisIds
    GenesisTxn <- MCGenesisTxn
    TxPool <- MCTxPool
    ActivationDelay = 1
    ResignDelay = 1
    MaxHeight = 3
    MaxTxs = 2
    MaxChainTxs = 3
SPECIFICATION Spec
INVARIANTS TypeOK IndexConsistent UndoRecordsApply MintersRegistered MintedCountersMatch 
PROPERTIES CaughtStaysCaught ImplementsRegistry
CHECK_DEADLOCK FALSE
