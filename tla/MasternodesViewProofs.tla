----------------------- MODULE MasternodesViewProofs ------------------------
(***************************************************************************)
(* What holds of the masternode registry in every reachable state, for     *)
(* every set of masternodes and keys, all delays and all bounds.           *)
(*                                                                         *)
(* First the properties that are conjuncts of the inductive invariant Inv, *)
(* and those that follow from it with BanInv and SpendInv.  Then the       *)
(* minting counters: MintInv (a counter is a number of blocks on the chain)*)
(* is inductive together with Inv, and needs the theorems on cardinality.  *)
(***************************************************************************)
EXTENDS MasternodesViewInv, FiniteSetTheorems

\* Inv holds in every reachable state, for all ids, keys, delays and bounds.
THEOREM Invariance == Spec => []Inv
BY InitInv, NextInv, PTL DEF Spec

\* Every value the validation thread keeps has its type.
THEOREM TypeCorrect == Spec => []TypeOK
<1>1. Inv => TypeOK
  BY Zenon DEF Inv
<1> QED BY <1>1, Invariance, PTL

(***************************************************************************)
(* The owner and operator indexes agree with the node map through every    *)
(* transaction connected and rolled back: no two registered masternodes    *)
(* share a key, and ConnectBlock's lookups by key find existing nodes.     *)
(***************************************************************************)
THEOREM IndexesAgree == Spec => []IndexConsistent
<1>1. Inv => IndexConsistent
  BY Zenon DEF Inv, ViewOK
<1> QED BY <1>1, Invariance, PTL

(***************************************************************************)
(* OnUndoBlock always finds the node a record names, in the state in which *)
(* the recorded transaction left it: its unchecked dereference is safe.    *)
(***************************************************************************)
THEOREM UndoIsSafe == Spec => []UndoRecordsApply
<1>1. Inv => UndoRecordsApply
  BY Zenon DEF Inv, ViewOK
<1> QED BY <1>1, Invariance, PTL

(***************************************************************************)
(* The assertions of IncrementMintedBy and DecrementMintedBy hold: the     *)
(* minter of a block is registered when it is connected, and still when it *)
(* is disconnected and the creations of that block are undone.             *)
(***************************************************************************)
THEOREM MintersStayRegistered == Spec => []MintersRegistered
<1>1. Inv => MintersRegistered
  BY Zenon DEF Inv, ViewOK
<1> QED BY <1>1, Invariance, PTL

(***************************************************************************)
(* A masternode caught at double signing stays caught, through every       *)
(* block connected, refused or rolled back: ConnectTip erases the proofs   *)
(* of bannedCriminals only, and DisconnectTip brings back those of         *)
(* disconnectedCriminals.                                                  *)
(***************************************************************************)
THEOREM CaughtForever == Spec => CaughtStaysCaught
<1> DEFINE Kept == \A id \in Ids : Caught(id) => Caught(id)'
<1>1. ASSUME Inv, BanInv, [Next]_vars PROVE [Kept]_vars
  <2>0. ASSUME base' = base, criminals \subseteq criminals' PROVE Kept
    BY <2>0, Zenon DEF Caught, ExistMasternode
  <2>1. CASE ConnectTipDone
    <3>1. pc = "connect" /\ criminals' = criminals \ touched
      BY <2>1, Zenon DEF ConnectTipDone
    <3>2. \A j \in Ids : Banned(View.allNodes, j) => Banned(base'.allNodes, j)
      <4>1. PICK id \in Ids :
              LET n == [View.allNodes[id] EXCEPT !.mintedBlocks = @ + 1]
              IN  /\ IsNode(View.allNodes[id]) /\ View.allNodes[id] \in CMasternode /\ IsNode(n)
                  /\ base'.allNodes = [View.allNodes EXCEPT ![id] = n]
        BY <1>1, <2>1, ConnectTipEffect, Zenon
      <4>2. View.allNodes \in NodeMaps
        BY <1>1, ViewTypes, Zenon DEF Inv
      <4> QED BY <4>1, <4>2, SMTT(30) DEF NodeMaps, CMasternode, Banned
    <3>3. \A j \in touched : Banned(View.allNodes, j) /\ j \in Ids
      BY <1>1, <3>1, Zenon DEF BanInv, Inv, TypeOK
    <3>4. \A j \in Ids : Banned(base.allNodes, j) => Banned(View.allNodes, j)
      BY <1>1, <3>1, Zenon DEF BanInv
    <3> QED BY <3>1, <3>2, <3>3, <3>4, Zenon DEF Caught, Banned, ExistMasternode
  <2>2. CASE DisconnectTipDone
    <3>1. pc = "undo" /\ criminals' = criminals \cup touched
      BY <2>2, Zenon DEF DisconnectTipDone
    <3>2. \A j \in Ids : Banned(View.allNodes, j) => Banned(base'.allNodes, j)
      <4>1. PICK id \in Ids :
              LET n == [View.allNodes[id] EXCEPT !.mintedBlocks = @ - 1]
              IN  /\ IsNode(View.allNodes[id]) /\ View.allNodes[id] \in CMasternode /\ IsNode(n)
                  /\ base'.allNodes = [View.allNodes EXCEPT ![id] = n]
        BY <1>1, <2>2, DisconnectTipEffect, Zenon
      <4>2. View.allNodes \in NodeMaps
        BY <1>1, ViewTypes, Zenon DEF Inv
      <4> QED BY <4>1, <4>2, SMTT(30) DEF NodeMaps, CMasternode, Banned
    <3>3. \A j \in Ids : Banned(base.allNodes, j) => Banned(View.allNodes, j) \/ j \in touched
      BY <1>1, <3>1, Zenon DEF BanInv
    <3> QED BY <3>1, <3>2, <3>3, Zenon DEF Caught, Banned, ExistMasternode
  <2>3. CASE UNCHANGED vars
    BY <2>3, Zenon
  <2> QED
    BY <1>1, <2>0, <2>1, <2>2, <2>3, Zenon
       DEF Next, ConnectBlock, ConnectCreate, ConnectResign, ConnectCriminal, ConnectSpend, ConnectTx,
           ConnectBlockFails, DisconnectBlock, DisconnectTx, OnUndoBlock, UndoTx, AddCriminalProof, AssertFails
<1>2. Spec => [](Inv /\ BanInv)
  BY InitInv, NextInv, BanInit, BanStep, PTL DEF Spec
<1>3. Inv /\ BanInv /\ [Next]_vars => [Kept]_vars
  BY <1>1, Zenon
<1>4. Spec => [][Kept]_vars
  BY <1>2, <1>3, PTL DEF Spec
<1> QED BY <1>4, Zenon DEF CaughtStaysCaught

(***************************************************************************)
(* A masternode whose collateral is spent on the active chain mints no     *)
(* block from there on: CanSpend and the proof-of-stake check exclude each *)
(* other at every height, also through rolled back bans and resignations.  *)
(***************************************************************************)
THEOREM SpentNeverStakes == Spec => []NoStakeWithoutCollateral
<1>1. Spec => [](Inv /\ BanInv /\ SpendInv)
  BY InitInv, NextInv, BanInit, BanStep, SpendInit, SpendStep, PTL DEF Spec
<1>2. Inv /\ BanInv /\ SpendInv => NoStakeWithoutCollateral
  <2> SUFFICES ASSUME Inv, SpendInv, NEW i \in 1 .. Len(chain), NEW j \in 1 .. Len(chain), NEW id \in Ids,
                      InBlock(chain[i], "spend", id), ExistMasternode(base, id), i <= j
               PROVE  chain[j].minter # OperatorOf[id]
    BY Zenon DEF NoStakeWithoutCollateral
  <2>1. j \in i .. Len(chain)
    BY DEF Inv, TypeOK
  <2> QED BY <2>1, Zenon DEF SpendInv, SpentOK, ExistMasternode
<1> QED BY <1>1, <1>2, PTL

-----------------------------------------------------------------------------
(* The counter of a masternode and the blocks that it minted.              *)

MintedBy(k) == {j \in 1 .. Len(chain) : chain[j].minter = k}

CountsOK(nodes) ==
    \A id \in Ids : IsNode(nodes[id]) => nodes[id].mintedBlocks = Cardinality(MintedBy(OperatorOf[id]))

MintInv ==
    /\ CountsOK(base.allNodes) /\ CountsOK(View.allNodes)
    /\ pc = "connect" => block.mintedBlocks = Cardinality(MintedBy(block.minter)) + 1
    /\ MintedCountersMatch

\* The blocks of a minter are finitely many.
LEMMA MintedFinite == ASSUME Inv, NEW k PROVE IsFiniteSet(MintedBy(k)) /\ Cardinality(MintedBy(k)) \in Nat
<1>1. Len(chain) \in Nat
  BY DEF Inv, TypeOK
<1>2. IsFiniteSet(1 .. Len(chain))
  BY <1>1, FS_Interval
<1>3. MintedBy(k) \subseteq 1 .. Len(chain)
  BY Zenon DEF MintedBy
<1>4. IsFiniteSet(MintedBy(k))
  BY <1>2, <1>3, FS_Subset, Zenon
<1> QED BY <1>4, FS_CardinalityType, Zenon

\* An operator that is not registered has minted no block of the chain.
LEMMA NoneMinted ==
    ASSUME Inv, NEW k, ~ExistByOperator(View, k)
    PROVE  Cardinality(MintedBy(k)) = 0
<1>1. \A j \in 1 .. Len(chain) : ExistByOperator(View, chain[j].minter)
  BY Zenon DEF Inv, ViewOK, MintersRegistered, Registered
<1>2. MintedBy(k) = {}
  BY <1>1, Zenon DEF MintedBy
<1> QED BY <1>2, FS_EmptySet, Zenon

\* A step that touches neither chain nor base, and no counter but that of a new node.
LEMMA MintKept ==
    ASSUME Inv, MintInv, base' = base, chain' = chain,
           pc' = "connect" => /\ pc = "connect" /\ block'.minter = block.minter
                              /\ block'.mintedBlocks = block.mintedBlocks,
           \A id \in Ids : IsNode(View'.allNodes[id]) =>
              \/ /\ IsNode(View.allNodes[id])
                 /\ View'.allNodes[id].mintedBlocks = View.allNodes[id].mintedBlocks
              \/ View'.allNodes[id].mintedBlocks = 0 /\ ~ExistByOperator(View, OperatorOf[id])
    PROVE  MintInv'
<1>1. \A k : MintedBy(k)' = MintedBy(k)
  BY Zenon DEF MintedBy
<1>2. CountsOK(base.allNodes)' /\ MintedCountersMatch'
  BY <1>1, Zenon DEF MintInv, CountsOK, MintedCountersMatch
<1>3. pc' = "connect" => block'.mintedBlocks = Cardinality(MintedBy(block.minter)) + 1
  BY Zenon DEF MintInv
<1>4. ASSUME NEW id \in Ids, IsNode(View'.allNodes[id])
      PROVE  View'.allNodes[id].mintedBlocks = Cardinality(MintedBy(OperatorOf[id])')
  <2>1. CASE IsNode(View.allNodes[id]) /\ View'.allNodes[id].mintedBlocks = View.allNodes[id].mintedBlocks
    BY <1>1, <2>1, Zenon DEF MintInv, CountsOK
  <2>2. CASE View'.allNodes[id].mintedBlocks = 0 /\ ~ExistByOperator(View, OperatorOf[id])
    BY <1>1, <2>2, NoneMinted, Zenon
  <2> QED BY <1>4, <2>1, <2>2, Zenon
<1>5. pc' = "connect" => MintedBy(block.minter)' = MintedBy(block.minter)
  BY Zenon DEF MintedBy
<1>6. CountsOK(View.allNodes)'
  BY <1>1, <1>4, Zenon DEF CountsOK
<1> QED BY <1>2, <1>3, <1>5, <1>6, Zenon DEF MintInv

\* One node is replaced by another with the same counter.
LEMMA MintSame ==
    ASSUME Inv, NEW id \in Ids, NEW n, IsNode(View.allNodes[id]), Changed(id, n),
           IsNode(n) => n.mintedBlocks = View.allNodes[id].mintedBlocks
    PROVE  \A j \in Ids : IsNode(View'.allNodes[j]) =>
              IsNode(View.allNodes[j]) /\ View'.allNodes[j].mintedBlocks = View.allNodes[j].mintedBlocks
<1>1. View'.allNodes[id] = n /\ \A j \in Ids \ {id} : View'.allNodes[j] = View.allNodes[j]
  BY OneNodeChanged, Zenon
<1> QED BY <1>1, Zenon

\* ConnectBlock takes the counter of the block from the minter's node.
LEMMA MintConnectBlock ==
    ASSUME Inv, MintInv, NEW m \in Keys, NEW k \in Heights, ConnectBlock(m, k)
    PROVE  MintInv'
<1>1. /\ base' = base /\ chain' = chain /\ mnview' = mnview /\ pc = "idle"
      /\ ExistByOperator(base, m) /\ base.allNodes[MasternodeOf(base, m)].mintedBlocks + 1 = k
      /\ block' = [minter |-> m, mintedBlocks |-> k, txs |-> <<>>]
  BY Zenon DEF ConnectBlock, ContextualCheckProofOfStake, Inv, PhaseOK
<1>2. View' = View
  BY <1>1, Zenon DEF View, ApplyCache
<1>3. \A x : MintedBy(x)' = MintedBy(x)
  BY <1>1, Zenon DEF MintedBy
<1>4. CountsOK(base.allNodes)' /\ MintedCountersMatch' /\ CountsOK(View.allNodes)'
  BY <1>1, <1>2, <1>3, Zenon DEF MintInv, CountsOK, MintedCountersMatch
<1>5. k = Cardinality(MintedBy(m)) + 1
  <2> DEFINE id == MasternodeOf(base, m)
  <2>1. id \in Ids /\ IsNode(base.allNodes[id]) /\ OperatorOf[id] = m
    <3>1. base.nodesByOperator[m] \in Ids
      BY <1>1, Zenon DEF Inv, TypeOK, Views, ExistByOperator
    <3> QED BY <3>1, Zenon DEF MasternodeOf, Inv, BaseOK, IndexOK
  <2>2. base.allNodes[id].mintedBlocks = Cardinality(MintedBy(OperatorOf[id]))
    BY <2>1, Zenon DEF MintInv, CountsOK
  <2> QED BY <1>1, <2>1, <2>2, Zenon
<1>6. block'.minter = m /\ block'.mintedBlocks = k
  BY <1>1, Zenon
<1>7. MintedBy(block.minter)' = MintedBy(m)
  BY <1>1, <1>6, Zenon DEF MintedBy
<1> QED BY <1>4, <1>5, <1>6, <1>7, Zenon DEF MintInv

\* The transactions of a block set no counter but that of a new node.
LEMMA MintConnectTx ==
    ASSUME Inv, MintInv, NEW tx \in TxPool,
           ConnectCreate(tx) \/ ConnectResign(tx) \/ ConnectCriminal(tx) \/ ConnectSpend(tx)
    PROVE  MintInv'
<1> DEFINE id == tx.id
           N  == View.allNodes
<1>1. ConnectTx(tx)
  BY Zenon DEF ConnectCreate, ConnectResign, ConnectCriminal, ConnectSpend
<1>2. /\ base' = base /\ chain' = chain /\ pc = "connect" /\ id \in Ids
  BY <1>1, ConnectTxFacts, Zenon
<1>3. block'.minter = block.minter /\ block'.mintedBlocks = block.mintedBlocks
  BY <1>1, Zenon DEF ConnectTx, Inv, TypeOK, Blocks
<1>4. ASSUME N' = N PROVE MintInv'
  BY <1>2, <1>3, <1>4, MintKept, Zenon
<1>5. CASE ConnectCreate(tx)
  <2>1. CASE ~ExistByOperator(View, OperatorOf[id]) /\ Changed(id, FromTx(id, nHeight))
    <3>1. N'[id] = FromTx(id, nHeight) /\ \A j \in Ids \ {id} : N'[j] = N[j]
      BY <1>2, <2>1, OneNodeChanged, Zenon
    <3>2. N'[id].mintedBlocks = 0
      BY <3>1 DEF FromTx
    <3>3. \A j \in Ids : IsNode(N'[j]) =>
            \/ IsNode(N[j]) /\ N'[j].mintedBlocks = N[j].mintedBlocks
            \/ N'[j].mintedBlocks = 0 /\ ~ExistByOperator(View, OperatorOf[j])
      BY <2>1, <3>1, <3>2, Zenon
    <3> QED BY <1>2, <1>3, <3>3, MintKept, Zenon
  <2>2. N' = N \/ (~ExistByOperator(View, OperatorOf[id]) /\ Changed(id, FromTx(id, nHeight)))
    BY <1>5, CreateEffect, Zenon
  <2> QED BY <1>4, <2>1, <2>2, Zenon
<1>6. CASE ConnectResign(tx)
  <2> DEFINE n == [N[id] EXCEPT !.resignHeight = nHeight]
  <2>1. N' = N \/ (IsNode(N[id]) /\ N[id] \in CMasternode /\ Changed(id, n))
    BY <1>6, ResignEffect, Zenon
  <2>2. N[id] \in CMasternode => n.mintedBlocks = N[id].mintedBlocks
    <3> HIDE DEF N
    <3> QED BY Zenon DEF CMasternode
  <2> HIDE DEF n
  <2>3. CASE IsNode(N[id]) /\ N[id] \in CMasternode /\ Changed(id, n)
    BY <1>2, <1>3, <2>2, <2>3, MintSame, MintKept, Zenon
  <2> QED BY <1>4, <2>1, <2>3, Zenon
<1>7. CASE ConnectCriminal(tx)
  <2> DEFINE n == [N[id] EXCEPT !.banHeight = nHeight, !.banTx = <<nHeight, id>>]
  <2>1. N' = N \/ (IsNode(N[id]) /\ N[id] \in CMasternode /\ Changed(id, n))
    BY <1>7, CriminalEffect, Zenon
  <2>2. N[id] \in CMasternode => n.mintedBlocks = N[id].mintedBlocks
    <3> HIDE DEF N
    <3> QED BY Zenon DEF CMasternode
  <2> HIDE DEF n
  <2>3. CASE IsNode(N[id]) /\ N[id] \in CMasternode /\ Changed(id, n)
    BY <1>2, <1>3, <2>2, <2>3, MintSame, MintKept, Zenon
  <2> QED BY <1>4, <2>1, <2>3, Zenon
<1>8. CASE ConnectSpend(tx)
  <2>1. mnview' = mnview
    BY <1>8, Zenon DEF ConnectSpend
  <2>2. N' = N
    BY <1>2, <2>1, Zenon DEF View, ApplyCache
  <2> QED BY <1>4, <2>2, Zenon
<1> QED BY <1>5, <1>6, <1>7, <1>8, Zenon

\* Rolling the transactions of a block back sets no counter.
LEMMA MintDisconnectTx == ASSUME Inv, MintInv, DisconnectTx PROVE MintInv'
<1> DEFINE N  == View.allNodes
           id == block.txs[cursor].id
           n  == [N[id] EXCEPT !.banHeight = NoHeight, !.banTx = NullTx]
<1>1. base' = base /\ chain' = chain /\ pc' = "disconnect"
  BY ZenonT(60) DEF DisconnectTx
<1>2. block.txs[cursor] \in Txs /\ (N' = N \/ (IsNode(N[id]) /\ N[id] \in CMasternode /\ Changed(id, n)))
  BY UnbanEffect, Zenon
<1>3. id \in Ids
  BY <1>2, Zenon DEF Txs
<1>4. N[id] \in CMasternode => n.mintedBlocks = N[id].mintedBlocks
  <2> HIDE DEF N, id
  <2> QED BY Zenon DEF CMasternode
<1> HIDE DEF n, id
<1>5. CASE N' = N
  BY <1>1, <1>5, MintKept, Zenon
<1>6. CASE IsNode(N[id]) /\ N[id] \in CMasternode /\ Changed(id, n)
  BY <1>1, <1>3, <1>4, <1>6, MintSame, MintKept, Zenon
<1> QED BY <1>2, <1>5, <1>6

\* Nor do the undo records.
LEMMA MintUndoTx == ASSUME Inv, MintInv, UndoTx PROVE MintInv'
<1> DEFINE N  == View.allNodes
<1>1. base' = base /\ chain' = chain /\ pc' = "undo"
  BY Zenon DEF UndoTx
<1>2. CASE N' = N
  BY <1>1, <1>2, MintKept, Zenon
<1>3. ASSUME NEW id \in Ids, IsNode(N[id]), Changed(id, EmptyNode) PROVE MintInv'
  <2>1. ~IsNode(EmptyNode)
    BY Zenon DEF IsNode
  <2> QED BY <1>1, <1>3, <2>1, MintSame, MintKept, Zenon
<1>4. ASSUME NEW id \in Ids, IsNode(N[id]), N[id] \in CMasternode,
             Changed(id, [N[id] EXCEPT !.resignHeight = NoHeight])
      PROVE  MintInv'
  <2> DEFINE n == [N[id] EXCEPT !.resignHeight = NoHeight]
  <2>1. n.mintedBlocks = N[id].mintedBlocks
    <3> HIDE DEF N
    <3> QED BY <1>4, Zenon DEF CMasternode
  <2>2. Changed(id, n)
    BY <1>4, Zenon
  <2> HIDE DEF n
  <2> QED BY <1>1, <1>4, <2>1, <2>2, MintSame, MintKept, Zenon
<1>5. \/ N' = N
      \/ \E id \in Ids : IsNode(N[id]) /\ Changed(id, EmptyNode)
      \/ \E id \in Ids : /\ IsNode(N[id]) /\ N[id] \in CMasternode
                         /\ Changed(id, [N[id] EXCEPT !.resignHeight = NoHeight])
  BY UndoEffect, Zenon
<1> QED BY <1>2, <1>3, <1>4, <1>5, Zenon

\* Two nodes never share an operator.
LEMMA OneNodePerOperator ==
    ASSUME Inv, NEW i \in Ids, NEW j \in Ids, IsNode(View.allNodes[i]), IsNode(View.allNodes[j]),
           OperatorOf[i] = OperatorOf[j]
    PROVE  i = j
BY Zenon DEF Inv, ViewOK, IndexConsistent, IndexOK

\* ConnectTip appends one block of the minter and adds one to its counter.
LEMMA MintConnectDone == ASSUME Inv, MintInv, ConnectTipDone PROVE MintInv'
<1> DEFINE N == View.allNodes
           h == nHeight
<1>1. pc = "connect" /\ pc' = "idle" /\ chain' = Append(chain, block)
  BY Zenon DEF ConnectTipDone
<1>2. PICK id \in Ids :
        LET n == [N[id] EXCEPT !.mintedBlocks = @ + 1]
        IN  /\ IsNode(N[id]) /\ N[id] \in CMasternode /\ OperatorOf[id] = block.minter
            /\ base'.allNodes = [N EXCEPT ![id] = n] /\ View' = base'
  BY ConnectTipEffect, Zenon
<1>3. N \in NodeMaps
  BY ViewTypes, Zenon DEF Inv
<1>4. CountsOK(N) /\ block.mintedBlocks = Cardinality(MintedBy(block.minter)) + 1
  BY <1>1, Zenon DEF MintInv
<1>5. /\ Len(chain) \in Nat /\ Len(chain') = h /\ h = Len(chain) + 1
      /\ \A j \in 1 .. Len(chain) : chain'[j] = chain[j]
      /\ chain'[h] = block
  BY <1>1 DEF Inv, TypeOK, nHeight
<1>6. \A j \in Ids : IsNode(N[j]) /\ OperatorOf[j] = OperatorOf[id] => j = id
  BY <1>2, OneNodePerOperator, Zenon
<1> HIDE DEF N, h
<1>7. /\ \A j \in 1 .. h : j \in 1 .. Len(chain) \/ j = h
      /\ \A j \in 1 .. Len(chain) : j \in 1 .. h
      /\ h \in 1 .. h /\ h \notin 1 .. Len(chain)
  BY <1>5
<1>9. \A k : {j \in 1 .. Len(chain') : chain'[j].minter = k}
               = IF k = block.minter THEN MintedBy(k) \cup {h} ELSE MintedBy(k)
  BY <1>5, <1>7, Zenon DEF MintedBy
<1>10. \A k : h \notin MintedBy(k)
  BY <1>7, Zenon DEF MintedBy
<1>11. Cardinality({j \in 1 .. Len(chain') : chain'[j].minter = block.minter})
         = Cardinality(MintedBy(block.minter)) + 1
  BY <1>9, <1>10, MintedFinite, FS_AddElement, ZenonT(60)
<1>12. \A j \in Ids : IsNode(base'.allNodes[j]) =>
         /\ IsNode(N[j])
         /\ base'.allNodes[j].mintedBlocks = N[j].mintedBlocks + (IF j = id THEN 1 ELSE 0)
  <2>1. N[id].mintedBlocks \in Int /\ [N[id] EXCEPT !.mintedBlocks = @ + 1].mintedBlocks = N[id].mintedBlocks + 1
    BY <1>2, Zenon DEF CMasternode
  <2>2. \A j \in Ids : IsNode(N[j]) => N[j].mintedBlocks \in Int
    BY <1>4, MintedFinite DEF CountsOK
  <2>3. base'.allNodes[id].mintedBlocks = N[id].mintedBlocks + 1 /\ \A j \in Ids \ {id} : base'.allNodes[j] = N[j]
    BY <1>2, <1>3, <2>1, Zenon DEF NodeMaps
  <2> QED BY <1>2, <2>1, <2>2, <2>3
<1>13. ASSUME NEW j \in Ids, IsNode(base'.allNodes[j])
       PROVE  base'.allNodes[j].mintedBlocks
                = Cardinality({i \in 1 .. Len(chain') : chain'[i].minter = OperatorOf[j]})
  <2>1. N[j].mintedBlocks = Cardinality(MintedBy(OperatorOf[j])) /\ N[j].mintedBlocks \in Nat
    BY <1>4, <1>12, <1>13, MintedFinite, Zenon DEF CountsOK
  <2>2. CASE j = id
    BY <1>2, <1>11, <1>12, <1>13, <2>1, <2>2, ZenonT(60)
  <2>3. CASE j # id
    <3>1. OperatorOf[j] # block.minter
      BY <1>2, <1>6, <1>12, <1>13, <2>3, Zenon
    <3>2. {i \in 1 .. Len(chain') : chain'[i].minter = OperatorOf[j]} = MintedBy(OperatorOf[j])
      BY <1>9, <3>1, Zenon
    <3>3. base'.allNodes[j].mintedBlocks = N[j].mintedBlocks
      BY <1>12, <1>13, <2>1, <2>3
    <3> QED BY <2>1, <3>2, <3>3, ZenonT(60)
  <2> QED BY <2>2, <2>3, Zenon
<1>14. CountsOK(base.allNodes)'
  BY <1>13, Zenon DEF CountsOK, MintedBy
<1>15. CountsOK(View.allNodes)'
  BY <1>2, <1>14, Zenon
<1>16. MintedCountersMatch'
  <2> SUFFICES ASSUME NEW i \in 1 .. Len(chain')
               PROVE  chain'[i].mintedBlocks = Cardinality({j \in 1 .. i : chain'[j].minter = chain'[i].minter})
    BY Zenon DEF MintedCountersMatch
  <2>1. CASE i = h
    BY <1>4, <1>5, <1>11, <2>1, ZenonT(60)
  <2>2. CASE i \in 1 .. Len(chain)
    <3>1. 1 .. i \subseteq 1 .. Len(chain)
      BY <1>5, <2>2
    <3>2. {j \in 1 .. i : chain'[j].minter = chain'[i].minter} = {j \in 1 .. i : chain[j].minter = chain[i].minter}
      BY <1>5, <2>2, <3>1, Zenon
    <3> QED BY <1>5, <2>2, <3>2, Zenon DEF MintInv, MintedCountersMatch
  <2> QED BY <1>5, <1>7, <2>1, <2>2, ZenonT(60)
<1> QED BY <1>1, <1>14, <1>15, <1>16, Zenon DEF MintInv

\* DisconnectTip removes that block and takes one off the counter.
LEMMA MintDisconnectDone == ASSUME Inv, MintInv, DisconnectTipDone PROVE MintInv'
<1> DEFINE N == View.allNodes
           h == Len(chain)
<1>1. pc = "undo" /\ pc' = "idle" /\ chain' = [j \in 1 .. h - 1 |-> chain[j]]
  BY Zenon DEF DisconnectTipDone
<1>2. PICK id \in Ids :
        LET n == [N[id] EXCEPT !.mintedBlocks = @ - 1]
        IN  /\ IsNode(N[id]) /\ N[id] \in CMasternode /\ OperatorOf[id] = block.minter
            /\ base'.allNodes = [N EXCEPT ![id] = n] /\ View' = base'
  BY DisconnectTipEffect, Zenon
<1>3. N \in NodeMaps
  BY ViewTypes, Zenon DEF Inv
<1>4. CountsOK(N)
  BY Zenon DEF MintInv
<1>5. /\ h \in Nat /\ h > 0 /\ Len(chain') = h - 1 /\ block = chain[h]
      /\ \A j \in 1 .. h - 1 : chain'[j] = chain[j]
  BY <1>1 DEF Inv, TypeOK, PhaseOK
<1>6. \A j \in Ids : IsNode(N[j]) /\ OperatorOf[j] = OperatorOf[id] => j = id
  BY <1>2, OneNodePerOperator, Zenon
<1>7. /\ \A j \in 1 .. h : j \in 1 .. h - 1 \/ j = h
      /\ \A j \in 1 .. h - 1 : j \in 1 .. h
      /\ h \in 1 .. h /\ h \notin 1 .. h - 1
  BY <1>5
<1>9. \A k : MintedBy(k) = IF k = block.minter THEN {j \in 1 .. Len(chain') : chain'[j].minter = k} \cup {h}
                           ELSE {j \in 1 .. Len(chain') : chain'[j].minter = k}
  <2> HIDE DEF N
  <2> QED BY <1>5, <1>7, Zenon DEF MintedBy
<1> HIDE DEF N
<1>10. \A k : /\ {j \in 1 .. Len(chain') : chain'[j].minter = k} \subseteq MintedBy(k)
              /\ h \notin {j \in 1 .. Len(chain') : chain'[j].minter = k}
  BY <1>5, <1>7, <1>9, Zenon
<1> HIDE DEF h
<1>11. Cardinality(MintedBy(block.minter))
         = Cardinality({j \in 1 .. Len(chain') : chain'[j].minter = block.minter}) + 1
  <2> DEFINE S == {j \in 1 .. Len(chain') : chain'[j].minter = block.minter}
  <2>1. IsFiniteSet(S)
    BY <1>10, MintedFinite, FS_Subset, ZenonT(60)
  <2>2. MintedBy(block.minter) = S \cup {h} /\ h \notin S
    BY <1>9, <1>10, Zenon
  <2> HIDE DEF S
  <2>3. Cardinality(S \cup {h}) = Cardinality(S) + 1
    BY <2>1, <2>2, FS_AddElement, Zenon
  <2> QED BY <2>2, <2>3, Zenon DEF S
<1>12. \A j \in Ids : IsNode(base'.allNodes[j]) =>
         /\ IsNode(N[j])
         /\ base'.allNodes[j].mintedBlocks = N[j].mintedBlocks - (IF j = id THEN 1 ELSE 0)
  <2>1. N[id].mintedBlocks \in Int /\ [N[id] EXCEPT !.mintedBlocks = @ - 1].mintedBlocks = N[id].mintedBlocks - 1
    BY <1>2, Zenon DEF CMasternode
  <2>2. \A j \in Ids : IsNode(N[j]) => N[j].mintedBlocks \in Int
    BY <1>4, MintedFinite DEF CountsOK
  <2>3. base'.allNodes[id].mintedBlocks = N[id].mintedBlocks - 1 /\ \A j \in Ids \ {id} : base'.allNodes[j] = N[j]
    BY <1>2, <1>3, <2>1, Zenon DEF NodeMaps
  <2> QED BY <1>2, <2>1, <2>2, <2>3
<1>13. ASSUME NEW j \in Ids, IsNode(base'.allNodes[j])
       PROVE  base'.allNodes[j].mintedBlocks
                = Cardinality({i \in 1 .. Len(chain') : chain'[i].minter = OperatorOf[j]})
  <2>1. N[j].mintedBlocks = Cardinality(MintedBy(OperatorOf[j])) /\ N[j].mintedBlocks \in Nat
    BY <1>4, <1>12, <1>13, MintedFinite, Zenon DEF CountsOK
  <2>2. CASE j = id
    <3> DEFINE S == {i \in 1 .. Len(chain') : chain'[i].minter = OperatorOf[j]}
    <3>1. IsFiniteSet(S)
      BY <1>10, MintedFinite, FS_Subset, ZenonT(60)
    <3>2. Cardinality(S) \in Nat
      BY <3>1, FS_CardinalityType, Zenon
    <3>3. Cardinality(MintedBy(OperatorOf[j])) = Cardinality(S) + 1
      BY <1>2, <1>11, <2>2, ZenonT(60)
    <3> HIDE DEF S
    <3>4. base'.allNodes[j].mintedBlocks = Cardinality(S)
      BY <1>12, <1>13, <2>1, <2>2, <3>2, <3>3
    <3> QED BY <3>4, Zenon DEF S
  <2>3. CASE j # id
    <3>1. OperatorOf[j] # block.minter
      BY <1>2, <1>6, <1>12, <1>13, <2>3, Zenon
    <3>2. {i \in 1 .. Len(chain') : chain'[i].minter = OperatorOf[j]} = MintedBy(OperatorOf[j])
      BY <1>9, <3>1, Zenon
    <3>3. base'.allNodes[j].mintedBlocks = N[j].mintedBlocks
      BY <1>12, <1>13, <2>1, <2>3
    <3> QED BY <2>1, <3>2, <3>3, ZenonT(60)
  <2> QED BY <2>2, <2>3, Zenon
<1>14. CountsOK(base.allNodes)'
  BY <1>13, Zenon DEF CountsOK, MintedBy
<1>15. CountsOK(View.allNodes)'
  BY <1>2, <1>14, Zenon
<1>16. MintedCountersMatch'
  <2> SUFFICES ASSUME NEW i \in 1 .. Len(chain')
               PROVE  chain'[i].mintedBlocks = Cardinality({j \in 1 .. i : chain'[j].minter = chain'[i].minter})
    BY Zenon DEF MintedCountersMatch
  <2>1. i \in 1 .. h - 1 /\ i \in 1 .. h /\ 1 .. i \subseteq 1 .. h - 1
    BY <1>5
  <2>2. {j \in 1 .. i : chain'[j].minter = chain'[i].minter} = {j \in 1 .. i : chain[j].minter = chain[i].minter}
    BY <1>5, <2>1, Zenon
  <2> QED BY <1>5, <2>1, <2>2, Zenon DEF MintInv, MintedCountersMatch, h
<1> QED BY <1>1, <1>14, <1>15, <1>16, Zenon DEF MintInv

\* At genesis no block is counted.
LEMMA MintInit == Init => MintInv
<1> SUFFICES ASSUME Init PROVE MintInv
  BY Zenon
<1>1. Inv /\ pc = "idle" /\ chain = <<>> /\ base = GenesisView
  BY InitInv, Zenon DEF Init
<1>2. View = base
  BY <1>1, IdleView, Zenon DEF Inv
<1>3. \A k : Cardinality(MintedBy(k)) = 0
  <2>1. 1 .. Len(chain) = {}
    BY <1>1
  <2>2. \A k : MintedBy(k) = {}
    BY <2>1, Zenon DEF MintedBy
  <2> QED BY <2>2, FS_EmptySet, Zenon
<1>4. ASSUME NEW id \in Ids, IsNode(base.allNodes[id]) PROVE base.allNodes[id].mintedBlocks = 0
  <2>1. base.allNodes[id] = FromTx(id, 0)
    BY <1>1, <1>4, Zenon DEF GenesisView, IsNode
  <2> QED BY <2>1 DEF FromTx
<1>5. MintedCountersMatch
  BY <1>1 DEF MintedCountersMatch
<1> QED BY <1>1, <1>2, <1>3, <1>4, <1>5, Zenon DEF MintInv, CountsOK

\* Every step keeps counters and chain together.
LEMMA MintStep == Inv /\ MintInv /\ [Next]_vars => MintInv'
<1> SUFFICES ASSUME Inv, MintInv, [Next]_vars PROVE MintInv'
  BY Zenon
<1>1. CASE ConnectBlockFails
  <2>1. base' = base /\ chain' = chain /\ pc' = "idle"
    BY <1>1, Zenon DEF ConnectBlockFails
  <2>2. View' = base' /\ \A k : MintedBy(k)' = MintedBy(k)
    BY <2>1, NextInv, IdleNodes, Zenon DEF MintedBy
  <2> QED BY <2>1, <2>2, Zenon DEF MintInv, CountsOK, MintedCountersMatch
<1>2. CASE DisconnectBlock
  <2>1. base' = base /\ chain' = chain /\ mnview' = mnview /\ pc' = "disconnect"
    BY <1>2, Zenon DEF DisconnectBlock, Inv, PhaseOK
  <2>2. View' = View
    BY <2>1, Zenon DEF View, ApplyCache
  <2> QED BY <2>1, <2>2, MintKept, Zenon
<1>3. CASE OnUndoBlock
  <2>1. base' = base /\ chain' = chain /\ mnview' = mnview /\ pc' = "undo"
    BY <1>3, Zenon DEF OnUndoBlock
  <2>2. View' = View
    BY <2>1, Zenon DEF View, ApplyCache
  <2> QED BY <2>1, <2>2, MintKept, Zenon
<1>4. CASE \/ \E minter \in Keys, height \in Heights : AddCriminalProof(minter, height)
           \/ AssertFails \/ UNCHANGED vars
  <2>1. base' = base /\ chain' = chain /\ mnview' = mnview /\ pc' = pc /\ block' = block
    BY <1>4, ZenonT(60) DEF AddCriminalProof, AssertFails, vars
  <2>2. View' = View
    BY <2>1, Zenon DEF View, ApplyCache
  <2> QED BY <2>1, <2>2, MintKept, Zenon
<1> QED
  BY <1>1, <1>2, <1>3, <1>4, MintConnectBlock, MintConnectTx, MintConnectDone,
     MintDisconnectTx, MintUndoTx, MintDisconnectDone, Zenon DEF Next

(***************************************************************************)
(* The k-th block of a minter on the active chain carries counter k,       *)
(* whatever was connected and rolled back before.                          *)
(***************************************************************************)
THEOREM CountersMatch == Spec => []MintedCountersMatch
<1>1. Spec => [](Inv /\ MintInv)
  BY InitInv, NextInv, MintInit, MintStep, PTL DEF Spec
<1>2. MintInv => MintedCountersMatch
  BY Zenon DEF MintInv
<1> QED BY <1>1, <1>2, PTL
=============================================================================
