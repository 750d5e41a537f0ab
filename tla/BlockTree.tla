------------------------------ MODULE BlockTree ------------------------------
(***************************************************************************)
(* The tree of blocks (CBlockIndex): pprev and nHeight of each, the chain  *)
(* that ends with a block (CChain), and its block of a height.             *)
(***************************************************************************)
EXTENDS Integers

CONSTANTS Blocks, Genesis, Parent, Height

ASSUME TreeAssumption ==
    /\ Genesis \in Blocks /\ Height \in [Blocks -> Nat] /\ Height[Genesis] = 0
    /\ \A b \in Blocks \ {Genesis} : Parent[b] \in Blocks /\ Height[b] = Height[Parent[b]] + 1

PathTo[b \in Blocks] == IF b = Genesis THEN {b} ELSE {b} \cup PathTo[Parent[b]]
Chain                == [b \in Blocks |-> PathTo[b]]
At(b, h)             == CHOOSE c \in Chain[b] : Height[c] = h
=============================================================================
