------------------------------ MODULE Registry ------------------------------
(***************************************************************************)
(* What the masternode registry promises: it is a function of the active   *)
(* chain.  `nodes` maps each id to its record (EmptyNode when there is no  *)
(* such node).  A block that joins the chain applies its transactions one  *)
(* after the other and counts one block for its minter; a roll-back gives  *)
(* the registry of the shorter chain.  There are no caches, indexes, undo  *)
(* records or tombstones here.                                             *)
(***************************************************************************)
EXTENDS Masternode, SequencesExt

CONSTANT GenesisIds

VARIABLES chain, nodes

Exists(ns, id) == ns[id] # EmptyNode

Creates(ns, id) ==
    /\ ~Exists(ns, id)
    /\ \A j \in Ids : Exists(ns, j) => OwnerOf[j] # OwnerOf[id] /\ OperatorOf[j] # OperatorOf[id]

Resigns(ns, tx, h) ==
    Exists(ns, tx.id) /\ tx.ok /\ GetState(ns[tx.id], h) \in {"PRE_ENABLED", "ENABLED"}

Bans(ns, tx) == Exists(ns, tx.id) /\ tx.ok /\ ns[tx.id].banTx = NullTx

ApplyTx(h, ns, tx) ==
    CASE tx.type = "create" /\ Creates(ns, tx.id)   -> [ns EXCEPT ![tx.id] = FromTx(tx.id, h)]
      [] tx.type = "resign" /\ Resigns(ns, tx, h)   -> [ns EXCEPT ![tx.id].resignHeight = h]
      [] tx.type = "criminal" /\ Bans(ns, tx)       -> [ns EXCEPT ![tx.id].banHeight = h,
                                                                  ![tx.id].banTx = <<h, tx.id>>]
      [] OTHER                                      -> ns

CountMinted(ns, minter) ==
    [id \in Ids |-> IF Exists(ns, id) /\ OperatorOf[id] = minter
                    THEN [ns[id] EXCEPT !.mintedBlocks = @ + 1] ELSE ns[id]]

ApplyBlock(ns, h, block) ==
    CountMinted(FoldLeft(LAMBDA acc, tx : ApplyTx(h, acc, tx), ns, block.txs), block.minter)

GenesisNodes == [id \in Ids |-> IF id \in GenesisIds THEN FromTx(id, 0) ELSE EmptyNode]

\* The registry of a chain.
Replay(c) ==
    FoldLeft(LAMBDA acc, block : [height |-> acc.height + 1,
                                  nodes  |-> ApplyBlock(acc.nodes, acc.height + 1, block)],
             [height |-> 0, nodes |-> GenesisNodes], c).nodes

Init == chain = <<>> /\ nodes = GenesisNodes

Connect ==
    /\ Len(chain') = Len(chain) + 1
    /\ Front(chain') = chain
    /\ nodes' = ApplyBlock(nodes, Len(chain'), Last(chain'))

Disconnect ==
    /\ chain # <<>>
    /\ chain' = Front(chain)
    /\ nodes' = Replay(chain')

Next == Connect \/ Disconnect

Spec == Init /\ [][Next]_<<chain, nodes>>
=============================================================================
