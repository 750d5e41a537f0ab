CONSTANTS
    me = me
    n1 = n1
    Me = me
    NoProof = NoProof
    Nodes <- MCNodes
    GenesisNodes <- MCGenesisNodes
    Rank <- MCRank
    Blocks <- MCBlocks
    OwnHashes <- MCOwnHashes
    Interval = 1
    ActivationDelay = 1
    ResignDelay = 1
    MaxHeight = 2
SPECIFICATION StakerSpec
INVARIANTS StakerTypeOK NeverDoubleSigns PublishedOnItsTip
