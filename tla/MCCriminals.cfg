CONSTANTS
    n1 = n1
    n2 = n2
    n3 = n3
    NoProof = NoProof
    Nodes <- MCNodes
    GenesisNodes <- MCGenesisNodes
    Rank <- MCRank
    Blocks <- MCBlocks
    Interval = 1
    ActivationDelay = 1
    ResignDelay = 1
    MaxHeight = 3
SPECIFICATION HistorySpec
INVARIANTS  DoubleSignIsNoticed
