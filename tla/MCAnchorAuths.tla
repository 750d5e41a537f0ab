---------------------------- MODULE MCAnchorAuths ----------------------------
(***************************************************************************)
(* Two branches that part after the first block; votes are due for blocks  *)
(* of height 2 and 4.  Blocks of the second name another team.             *)
(***************************************************************************)
EXTENDS AnchorAuths

MCBlocks  == {<<"a", h>> : h \in 0 .. 6} \cup {<<"b", h>> : h \in 2 .. 4}
MCGenesis == <<"a", 0>>
MCParent  == [x \in MCBlocks \ {MCGenesis} |-> IF x[2] = 2 THEN <<"a", 1>> ELSE <<x[1], x[2] - 1>>]
MCHeight  == [x \in MCBlocks |-> x[2]]

MCTeam     == {"me", "p"}
MCNextTeam == [x \in MCBlocks |-> IF x[1] = "a" THEN MCTeam ELSE {"p", "q"}]
=============================================================================
