CONSTANTS
    Anchors = {1, 2}
    Operators <- MCOperators
    Me = "me"
    GenesisTeam <- MCGenesis
    Salts = {1, 2, 3}
    NextTeam <- MCNextTeam
    Subsidy = 1
    FoundationReward = 2
    MaxUndone = 2
SPECIFICATION FairSpec
INVARIANTS TypeOK RewardsFollowChain OneRewardPerAnchor TeamFollowsChain 
PROPERTIES  EveryAnchorIsRewarded
