------------------------------ MODULE MCStaker -------------------------------
(***************************************************************************)
(* me stakes on the genesis block or on a block of n1; the two compete.    *)
(* The block of n1 bans me with two headers that were signed elsewhere     *)
(* with me's key, so me also ceases to be active, and is active again when *)
(* the block is disconnected.                                              *)
(***************************************************************************)
EXTENDS Staker

CONSTANTS me, n1

MCNodes        == {me, n1}
MCGenesisNodes == {me, n1}
MCRank         == [n \in MCNodes |-> IF n = me THEN 1 ELSE 2]

H(n, counter, height, prev, hash) ==
    [minter |-> n, mintedBlocks |-> counter, height |-> height, prev |-> prev, hash |-> hash]
B(header, creates, proof) == [header |-> header, creates |-> creates, proof |-> proof]

elsewhere == <<H(me, 9, 1, 0, 21), H(me, 9, 1, 0, 22)>>

MCBlocks == {B(H(n1, 1, 1, 0, 1), {}, elsewhere), B(H(n1, 2, 2, 1, 2), {}, NoProof)}

MCOwnHashes == <<11, 12>>
=============================================================================
