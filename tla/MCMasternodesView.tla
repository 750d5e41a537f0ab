-------------------------- MODULE MCMasternodesView --------------------------
(***************************************************************************)
(* MasternodesView on a small instance: a genesis masternode and two later *)
(* creations that compete for one owner key.                               *)
(***************************************************************************)
EXTENDS MasternodesView, TLC

CONSTANTS g, a, b, k1, k2, k3

MCIds        == {g, a, b}
MCKeys       == {k1, k2, k3}
MCOwnerOf    == g :> k1 @@ a :> k2 @@ b :> k2
MCOperatorOf == g :> k1 @@ a :> k2 @@ b :> k3
MCGenesisIds == {g}
MCGenesisTxn == g :> 1

Tx(type, id, ok) == [type |-> type, id |-> id, ok |-> ok]
MCTxPool == {Tx("create", a, TRUE), Tx("create", b, TRUE),
             Tx("resign", a, TRUE), Tx("resign", a, FALSE),
             Tx("criminal", a, TRUE), Tx("spend", a, TRUE), Tx("spend", b, TRUE)}

(***************************************************************************)
(* The registry is a function of the active chain: between blocks, the     *)
(* nodes reachable in *pmasternodesview are those the chain defines.  The  *)
(* property says that every ConnectTip and DisconnectTip, with caches,     *)
(* undo records, bans and roll-backs, and every dropped cache of an        *)
(* invalid block, implements a step of Registry.                           *)
(***************************************************************************)
Nodes == [id \in Ids |-> IF ExistMasternode(base, id) THEN base.allNodes[id] ELSE EmptyNode]
R == INSTANCE Registry WITH nodes <- Nodes
ImplementsRegistry == R!Spec
=============================================================================
