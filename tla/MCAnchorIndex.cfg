CONSTANTS
    a = a
    b = b
    c = c
    d = d
    NullTx = NullTx
    Txs <- MCTxs
    Prev <- MCPrev
    Height <- MCHeight
    Signed <- MCTxs
    Rank <- MCRank
    MinConfirmations = 2
    MaxBtcHeight = 3
SPECIFICATION Spec
INVARIANTS TypeOK TopChainIntact PendingNotForgotten
PROPERTIES NewTopIsConfirmed
