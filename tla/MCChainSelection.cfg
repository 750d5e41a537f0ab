CONSTANTS
    Blocks <- MCBlocks
    Genesis = "g"
    Parent <- MCParent
    Height <- MCHeight
    Bad = {"b3"}
    Anchors = {"x", "y", "z"}
    AnchorBlock <- MCAnchorBlock
    Previous <- MCPrevious
    None = "none"
    MaxTops = 2
SPECIFICATION Spec
INVARIANTS TypeOK TipSatisfiesAnchors BestCandidateIsActive AnchoredBlockIsActive BestChainIsActive
PROPERTIES ActivationEnds
