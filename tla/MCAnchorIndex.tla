---------------------------- MODULE MCAnchorIndex ----------------------------
(***************************************************************************)
(* Two anchors without a previous one compete, each with a follower; the   *)
(* follower c of a may also lie in the same Bitcoin block as b, and d      *)
(* follows b.                                                              *)
(***************************************************************************)
EXTENDS AnchorIndex

CONSTANTS a, b, c, d

MCTxs    == {a, b, c, d}
MCPrev   == [t \in MCTxs |-> CASE t = c -> a [] t = d -> b [] OTHER -> NullTx]
MCHeight == [t \in MCTxs |-> CASE t = a -> 1 [] t = b -> 1 [] t = c -> 2 [] OTHER -> 3]
MCRank   == [t \in MCTxs |-> CASE t = a -> 2 [] t = b -> 1 [] t = c -> 3 [] OTHER -> 4]
=============================================================================
