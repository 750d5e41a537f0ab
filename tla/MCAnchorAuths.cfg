CONSTANTS
    Blocks <- MCBlocks
    Genesis <- MCGenesis
    Parent <- MCParent
    Height <- MCHeight
    Operators = {"me", "p", "q"}
    Me = "me"
    GenesisTeam <- MCTeam
    NextTeam <- MCNextTeam
    AnchoringLag = 2
    AnchoringFrequency = 2
    FirstStays = TRUE
    MaxCalls = 2
    MaxAuths = 4
SPECIFICATION Spec
INVARIANTS TypeOK 
PROPERTIES NewestIsVoted PruneKeepsBest
