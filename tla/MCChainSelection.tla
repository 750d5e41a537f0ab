--------------------------- MODULE MCChainSelection ---------------------------
(***************************************************************************)
(* Two branches from the genesis block, the second of which forks once     *)
(* more; anchors on both branches of the fork and below it.                *)
(***************************************************************************)
EXTENDS ChainSelection

MCBlocks == {"g", "a1", "a2", "b1", "b2", "b3", "c2"}
MCParent == [b \in MCBlocks \ {"g"} |->
    CASE b \in {"a1", "b1"} -> "g" [] b = "a2" -> "a1" [] b \in {"b2", "c2"} -> "b1" [] b = "b3" -> "b2"]
MCHeight == [b \in MCBlocks |->
    CASE b = "g" -> 0 [] b \in {"a1", "b1"} -> 1 [] b \in {"a2", "b2", "c2"} -> 2 [] b = "b3" -> 3]
MCAnchorBlock == [x |-> "b1", y |-> "c2", z |-> "a1"]
MCPrevious    == [x |-> "none", y |-> "x", z |-> "none"]
=============================================================================
