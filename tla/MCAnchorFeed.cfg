CONSTANTS
    a = a
    b = b
    c = c
    NullTx = NullTx
    Txs = {a, b}
    Prev <- MCPrev
    Height <- MCHeight
    Signed = {a, b}
    Rank <- MCRank
    MinConfirmations = 1
    MaxBtcHeight = 3
    MaxRewinds = 1
SPECIFICATION FeedSpec
 
PROPERTIES TopIsBest BestAnchorInTheEnd
