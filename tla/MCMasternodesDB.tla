--------------------------- MODULE MCMasternodesDB ---------------------------
(***************************************************************************)
(* MasternodesDB on a small instance: a genesis masternode and two later   *)
(* creations that compete for one owner key.                               *)
(***************************************************************************)
EXTENDS MasternodesDB, TLC

CONSTANTS g, a, b, k1, k2, k3

MCIds        == {g, a, b}
MCKeys       == {k1, k2, k3}
MCOwnerOf    == g :> k1 @@ a :> k2 @@ b :> k2
MCOperatorOf == g :> k1 @@ a :> k3 @@ b :> k2
MCGenesisIds == {g}
MCGenesisTxn == g :> 1

Tx(type, id, ok) == [type |-> type, id |-> id, ok |-> ok]
MCTxPool == {Tx("create", a, TRUE), Tx("create", b, TRUE),
             Tx("resign", a, TRUE), Tx("criminal", a, TRUE)}

Nodes == [id \in Ids |-> IF ExistMasternode(base, id) THEN base.allNodes[id] ELSE EmptyNode]
R == INSTANCE Registry WITH nodes <- Nodes

(***************************************************************************)
(* Between two blocks the registry is the one the active chain defines,    *)
(* also after a crash and a restart, whatever the last flush had reached.  *)
(***************************************************************************)
RegistryFollowsChain == running /\ pc = "idle" => Nodes = R!Replay(chain)

(***************************************************************************)
(* What ConnectBlock's height check is for: "verify that the mn view's     *)
(* current state corresponds to the previous block".  A block that has     *)
(* passed it is connected to the registry of its previous block.           *)
(***************************************************************************)
MnViewCorresponds == running /\ pc = "connect" => Nodes = R!Replay(chain)
=============================================================================
