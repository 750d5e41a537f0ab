----------------------------- MODULE MCAnchorFeed -----------------------------
(***************************************************************************)
(* a and b compete, and the hash of b is the smaller; c follows a.         *)
(***************************************************************************)
EXTENDS AnchorFeed

CONSTANTS a, b, c

MCPrev   == [t \in Txs |-> IF t = c THEN a ELSE NullTx]
MCHeight == [t \in Txs |-> IF t = c THEN 2 ELSE 1]
MCRank   == [t \in Txs |-> CASE t = a -> 2 [] t = b -> 1 [] OTHER -> 3]
=============================================================================
