----------------------------- MODULE MCCriminals -----------------------------
(***************************************************************************)
(* n1 double-signs, n2 and n3 do not.  A tree of five blocks, each with    *)
(* its minter and counter:                                                 *)
(*                                                                         *)
(*   genesis - a1 (n1, 1) - a2 (n1, 2; bans n1)                            *)
(*           - b1 (n1, 1; creates n3) - c2 (n3, 1; carries a useless pair) *)
(*                                    - d2 (n2, 1; bans n1)                *)
(*                                                                         *)
(* The useless pair is one header of n2, twice.                            *)
(***************************************************************************)
EXTENDS CriminalsHistory

CONSTANTS n1, n2, n3

MCNodes        == {n1, n2, n3}
MCGenesisNodes == {n1, n2}
MCRank         == [n \in MCNodes |-> IF n = n1 THEN 1 ELSE IF n = n2 THEN 2 ELSE 3]

H(n, counter, height, prev, hash) ==
    [minter |-> n, mintedBlocks |-> counter, height |-> height, prev |-> prev, hash |-> hash]
B(header, creates, proof) == [header |-> header, creates |-> creates, proof |-> proof]

a1 == H(n1, 1, 1, 0, 1)
a2 == H(n1, 2, 2, 1, 2)
b1 == H(n1, 1, 1, 0, 3)
c2 == H(n3, 1, 2, 3, 4)
d2 == H(n2, 1, 2, 3, 5)

MCBlocks == {B(a1, {}, NoProof), B(a2, {}, <<a1, b1>>), B(b1, {n3}, NoProof),
             B(c2, {}, <<d2, d2>>), B(d2, {}, <<b1, a1>>)}
=============================================================================
