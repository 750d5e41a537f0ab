--------------------------- MODULE MasternodesView ---------------------------
(***************************************************************************)
(* The masternode registry of one node while its active chain grows and    *)
(* is rolled back: the in-memory maps of CMasternodesView, the layered     *)
(* CMasternodesViewCache that ConnectTip and DisconnectTip put over it for *)
(* the time of one block, and the per-block undo records.                  *)
(*                                                                         *)
(* The transactions of a block are chosen one by one while the block is    *)
(* being connected, and every transaction is a step, so that a block may   *)
(* turn out to be invalid after any number of them.  Only what the         *)
(* registry tells apart is kept of a transaction: its type, the masternode *)
(* it names and whether the condition on its own content holds (`ok`: the  *)
(* owner's signature on a resignation, a genuine double-sign proof on a    *)
(* ban).  Ids holds the well-formed creations only: one with a wrong fee,  *)
(* collateral or address never reaches the registry.                       *)
(***************************************************************************)
EXTENDS Masternode, Sequences, FiniteSets

CONSTANTS
    GenesisIds,   \* masternodes created by the genesis block
    GenesisTxn,   \* position of each genesis creation in the genesis block
    NoEntry,      \* "this map has no such key"
    NullId,       \* the null uint256: a deleted index entry
    TxPool,       \* the transactions that wallets and double-sign proofs give rise to
    MaxHeight,    \* bound: height of the active chain
    MaxTxs,       \* bound: transactions of a block after the coinbase
    MaxChainTxs   \* bound: such transactions on the whole chain

Heights == 0 .. MaxHeight
Txns    == 1 .. MaxTxs

TxTypes == {"create", "resign", "criminal", "spend"}
Txs     == [type : TxTypes, id : Ids, ok : BOOLEAN]
Blocks  == [minter : Keys \cup {NullKey}, mintedBlocks : Int, txs : Seq(Txs)]
NoBlock == [minter |-> NullKey, mintedBlocks |-> 0, txs |-> <<>>]

\* CMnTxsUndo: what each transaction of a block did to the registry.
UndoRecords == [id : Ids, type : {"create", "resign"}]
TxsUndo     == [Txns -> UndoRecords \cup {NoEntry}]
CreateRecord(id) == [id |-> id, type |-> "create"]
ResignRecord(id) == [id |-> id, type |-> "resign"]
EmptyUndo   == [t \in Txns |-> NoEntry]

Views ==
    [allNodes        : [Ids -> CMasternode \cup {NoEntry}],
     nodesByOwner    : [Keys -> Ids \cup {NullId, NoEntry}],
     nodesByOperator : [Keys -> Ids \cup {NullId, NoEntry}],
     blocksUndo      : [Heights -> TxsUndo \cup {NoEntry}],
     lastHeight      : Nat]

ASSUME GenesisAssumption ==
    /\ GenesisIds \subseteq Ids
    /\ GenesisTxn \in [GenesisIds -> Txns]
    /\ \A i, j \in GenesisIds :
          i # j => /\ GenesisTxn[i] # GenesisTxn[j]
                   /\ OwnerOf[i] # OwnerOf[j]
                   /\ OperatorOf[i] # OperatorOf[j]

ASSUME NullAssumption ==
    /\ NoEntry \notin CMasternode /\ NoEntry \notin UndoRecords /\ NoEntry \notin TxsUndo
    /\ NoEntry \notin Ids /\ NullId \notin Ids /\ NullId # NoEntry

ASSUME TxPoolAssumption == TxPool \subseteq Txs

ASSUME BoundAssumption == MaxHeight \in Nat /\ MaxTxs \in Nat /\ MaxChainTxs \in Nat

VARIABLES
    base,       \* *pmasternodesview, the registry of the active chain
    mnview,     \* the CMasternodesViewCache of the block at hand
    criminals,  \* ids with a known and unpunished double-sign proof
    chain,      \* blocks of the active chain above genesis
    pc,         \* what the validation thread (holding cs_main) is doing
    block,      \* the block being connected or disconnected
    cursor,     \* next transaction or undo record to roll back
    touched,    \* bannedCriminals, respectively disconnectedCriminals
    running     \* FALSE after a failed assertion

vars == <<base, mnview, criminals, chain, pc, block, cursor, touched, running>>

-----------------------------------------------------------------------------
(* The maps: lookups through the cache, and the flush of a cache.          *)

Overlay(below, above) ==
    [k \in DOMAIN below |-> IF above[k] = NoEntry THEN below[k] ELSE above[k]]

ApplyCache(v, c) ==
    [allNodes        |-> Overlay(v.allNodes, c.allNodes),
     nodesByOwner    |-> Overlay(v.nodesByOwner, c.nodesByOwner),
     nodesByOperator |-> Overlay(v.nodesByOperator, c.nodesByOperator),
     blocksUndo      |-> Overlay(v.blocksUndo, c.blocksUndo),
     lastHeight      |-> c.lastHeight]

EmptyCache(height) ==
    [allNodes        |-> [i \in Ids |-> NoEntry],
     nodesByOwner    |-> [k \in Keys |-> NoEntry],
     nodesByOperator |-> [k \in Keys |-> NoEntry],
     blocksUndo      |-> [h \in Heights |-> NoEntry],
     lastHeight      |-> height]

\* What a lookup through the cache sees.
View == ApplyCache(base, mnview)

IsNode(entry)               == entry \notin {NoEntry, EmptyNode}
ExistMasternode(v, id)      == IsNode(v.allNodes[id])
ExistByOwner(v, k)          == v.nodesByOwner[k] \notin {NoEntry, NullId}
ExistByOperator(v, k)       == v.nodesByOperator[k] \notin {NoEntry, NullId}
\* Mutant: the undo record of the previous block.
GetBlockUndoOfParent(v, h)  == IF h = 0 \/ v.blocksUndo[h - 1] = NoEntry THEN EmptyUndo ELSE v.blocksUndo[h - 1]
GetBlockUndo(v, h)          == IF v.blocksUndo[h] = NoEntry THEN EmptyUndo ELSE v.blocksUndo[h]
MasternodeOf(v, operator)   == v.nodesByOperator[operator]

\* Mutant: the resignation delay is not waited for.
CanSpendEarly(v, id, h) ==
    ExistMasternode(v, id) => GetState(v.allNodes[id], h) \in {"PRE_RESIGNED", "RESIGNED", "BANNED"}

CanSpend(v, id, h) ==
    ExistMasternode(v, id) => GetState(v.allNodes[id], h) \in {"RESIGNED", "BANNED"}

(***************************************************************************)
(* Writes go to the maps of c itself, also when what is read comes from    *)
(* below ("cause may be cached!").                                         *)
(***************************************************************************)
SetNode(c, id, node) == [c EXCEPT !.allNodes[id] = node]

SetIndex(c, owner, operator, id) ==
    [c EXCEPT !.nodesByOwner[owner] = id, !.nodesByOperator[operator] = id]

\* Mutant: the entry of the block is started anew for every record.
AddUndoAnew(c, h, t, rec) == [c EXCEPT !.blocksUndo[h] = [EmptyUndo EXCEPT ![t] = rec]]

\* blocksUndo[h][t] = rec: operator[] starts an empty entry.
AddUndo(c, h, t, rec) ==
    [c EXCEPT !.blocksUndo[h] = [(IF @ = NoEntry THEN EmptyUndo ELSE @) EXCEPT ![t] = rec]]

OnMasternodeCreate(c, id, h, t) ==
    AddUndo(SetIndex(SetNode(c, id, FromTx(id, h)), OwnerOf[id], OperatorOf[id], id),
            h, t, CreateRecord(id))

OnMasternodeResign(c, node, id, h, t) ==
    AddUndo(SetNode(c, id, [node EXCEPT !.resignHeight = h]), h, t, ResignRecord(id))

\* Mutant: the id of the node is stored for the hash of the ban.
BanCriminalById(c, node, id, h, txid) ==
    SetNode(c, id, [node EXCEPT !.banHeight = h, !.banTx = id])

BanCriminal(c, node, id, h, txid) ==
    SetNode(c, id, [node EXCEPT !.banHeight = h, !.banTx = txid])

UnbanCriminal(c, node, id) ==
    SetNode(c, id, [node EXCEPT !.banHeight = NoHeight, !.banTx = NullTx])

\* Mutant: the operator index is forgotten.
UndoCreateHalf(c, node, id) ==
    [SetNode(c, id, EmptyNode) EXCEPT !.nodesByOwner[node.ownerAuthAddress] = NullId]

UndoCreate(c, node, id) ==
    SetIndex(SetNode(c, id, EmptyNode), node.ownerAuthAddress, node.operatorAuthAddress, NullId)

\* Mutant: the resignation stays.
UndoResignNot(c, node, id) == c

UndoResign(c, node, id) == SetNode(c, id, [node EXCEPT !.resignHeight = NoHeight])

IncrementMintedBy(c, node, id) == SetNode(c, id, [node EXCEPT !.mintedBlocks = @ + 1])

\* Mutant: the block stays counted.
DecrementMintedByNot(c, node, id) == c

DecrementMintedBy(c, node, id) == SetNode(c, id, [node EXCEPT !.mintedBlocks = @ - 1])

-----------------------------------------------------------------------------
(* ConnectTip: CheckBlock, ConnectBlock on a fresh cache, flush or drop.   *)

nHeight == Len(chain) + 1          \* of the block being connected
txn     == Len(block.txs) + 1      \* of the next transaction

ChainTxs == Cardinality({t \in (1 .. Len(chain)) \X Txns : t[2] <= Len(chain[t[1]].txs)})
                + Len(block.txs)

InBlock(b, type, id) == \E t \in 1 .. Len(b.txs) : b.txs[t].type = type /\ b.txs[t].id = id
OnChain(type, id)    == \/ InBlock(block, type, id)
                        \/ \E h \in 1 .. Len(chain) : InBlock(chain[h], type, id)

\* The coin database has the collateral output (index 1) of creation id.
HaveCollateral(id) == (id \in GenesisIds \/ OnChain("create", id)) /\ ~OnChain("spend", id)

\* The block's minter may stake: checked against *pmasternodesview, not the cache.
ContextualCheckProofOfStake(minter, height) ==
    /\ ExistByOperator(base, minter)
    /\ BanXorResign(base.allNodes[MasternodeOf(base, minter)])
    /\ IsActive(base.allNodes[MasternodeOf(base, minter)], height)

ConnectBlock(minter, mintedBlocks) ==
    /\ running /\ pc = "idle"
    /\ Len(chain) < MaxHeight
    /\ ContextualCheckProofOfStake(minter, nHeight)
    /\ base.lastHeight = nHeight - 1
    /\ base.allNodes[MasternodeOf(base, minter)].mintedBlocks + 1 = mintedBlocks
    /\ pc' = "connect"
    /\ mnview' = EmptyCache(base.lastHeight)
    /\ block' = [minter |-> minter, mintedBlocks |-> mintedBlocks, txs |-> <<>>]
    /\ UNCHANGED <<base, criminals, chain, cursor, touched, running>>

ConnectTx(tx) ==
    /\ running /\ pc = "connect"
    /\ txn <= MaxTxs /\ ChainTxs < MaxChainTxs
    /\ block' = [block EXCEPT !.txs = Append(@, tx)]
    /\ UNCHANGED <<base, criminals, chain, pc, cursor, running>>

\* A creation spends its inputs, so it is on the chain at most once.
ConnectCreate(tx) ==
    LET id == tx.id IN
    /\ tx.type = "create" /\ ConnectTx(tx)
    /\ id \notin GenesisIds /\ ~OnChain("create", id)
    /\ mnview' = IF \/ ExistMasternode(View, id)
                    \/ ExistByOwner(View, OwnerOf[id])
                    \/ ExistByOperator(View, OperatorOf[id])
                 THEN mnview
                 ELSE OnMasternodeCreate(mnview, id, nHeight, txn)
    /\ UNCHANGED touched

ConnectResign(tx) ==
    LET node == View.allNodes[tx.id]
        auth == ExistMasternode(View, tx.id) /\ tx.ok
    IN
    /\ tx.type = "resign" /\ ConnectTx(tx)
    /\ auth => BanXorResign(node)
    /\ mnview' = IF auth /\ GetState(node, nHeight) \in {"PRE_ENABLED", "ENABLED"}
                 THEN OnMasternodeResign(mnview, node, tx.id, nHeight, txn)
                 ELSE mnview
    /\ UNCHANGED touched

\* Mutant: the proof is erased also when nobody is banned.
ConnectCriminalErases(tx) ==
    LET node == View.allNodes[tx.id]
        bans == tx.ok /\ ExistMasternode(View, tx.id) /\ node.banTx = NullTx
    IN
    /\ tx.type = "criminal" /\ ConnectTx(tx)
    /\ ~InBlock(block, "criminal", tx.id)
    /\ mnview' = IF bans THEN BanCriminal(mnview, node, tx.id, nHeight, <<nHeight, tx.id>>)
                         ELSE mnview
    /\ touched' = touched \cup {tx.id}

ConnectCriminal(tx) ==
    LET node == View.allNodes[tx.id]
        bans == tx.ok /\ ExistMasternode(View, tx.id) /\ node.banTx = NullTx
    IN
    /\ tx.type = "criminal" /\ ConnectTx(tx)
    /\ ~InBlock(block, "criminal", tx.id)
    /\ mnview' = IF bans THEN BanCriminal(mnview, node, tx.id, nHeight, <<nHeight, tx.id>>)
                         ELSE mnview
    /\ touched' = IF bans THEN touched \cup {tx.id} ELSE touched

ConnectSpend(tx) ==
    /\ tx.type = "spend" /\ ConnectTx(tx)
    /\ HaveCollateral(tx.id)
    /\ ExistMasternode(View, tx.id) => BanXorResign(View.allNodes[tx.id])
    /\ CanSpend(View, tx.id, nHeight)
    /\ UNCHANGED <<mnview, touched>>

\* A locked collateral is spent, or any other rule of ConnectBlock fails.
ConnectBlockFails ==
    /\ running /\ pc = "connect"
    /\ pc' = "idle"
    /\ mnview' = EmptyCache(base.lastHeight)
    /\ block' = NoBlock /\ touched' = {}
    /\ UNCHANGED <<base, criminals, chain, cursor, running>>

ConnectTipDone ==
    LET id == MasternodeOf(View, block.minter)
        c  == [IncrementMintedBy(mnview, View.allNodes[id], id) EXCEPT !.lastHeight = nHeight]
    IN
    /\ running /\ pc = "connect"
    /\ pc' = "idle"
    /\ base' = ApplyCache(base, c)
    /\ mnview' = EmptyCache(nHeight)
    /\ criminals' = criminals \ touched
    /\ chain' = Append(chain, block)
    /\ block' = NoBlock /\ touched' = {}
    /\ UNCHANGED <<cursor, running>>

-----------------------------------------------------------------------------
(* DisconnectTip: transactions in reverse, then the undo records in        *)
(* reverse, then the minter's counter.                                     *)

DisconnectBlock ==
    /\ running /\ pc = "idle"
    /\ chain # <<>> /\ base.lastHeight = Len(chain)
    /\ pc' = "disconnect"
    /\ mnview' = EmptyCache(base.lastHeight)
    /\ block' = chain[Len(chain)]
    /\ cursor' = Len(chain[Len(chain)].txs)
    /\ UNCHANGED <<base, criminals, chain, touched, running>>

DisconnectTx ==
    LET tx     == block.txs[cursor]
        node   == View.allNodes[tx.id]
        unbans == /\ tx.type = "criminal"
                  /\ ExistMasternode(View, tx.id)
                  /\ node.banTx = <<Len(chain), tx.id>>
    IN
    /\ running /\ pc = "disconnect" /\ cursor > 0
    /\ mnview' = IF unbans THEN UnbanCriminal(mnview, node, tx.id) ELSE mnview
    /\ touched' = IF unbans THEN touched \cup {tx.id} ELSE touched
    /\ cursor' = cursor - 1
    /\ UNCHANGED <<base, criminals, chain, pc, block, running>>

OnUndoBlock ==
    /\ running /\ pc = "disconnect" /\ cursor = 0
    /\ pc' = "undo" /\ cursor' = MaxTxs
    /\ UNCHANGED <<base, mnview, criminals, chain, block, touched, running>>

\* The node of the record is dereferenced unchecked: see UndoRecordsApply.
UndoTx ==
    LET rec  == GetBlockUndo(View, Len(chain))[cursor]
        node == View.allNodes[rec.id]
    IN
    /\ running /\ pc = "undo" /\ cursor > 0
    /\ mnview' = IF rec = NoEntry THEN mnview
                 ELSE IF rec.type = "create" THEN UndoCreate(mnview, node, rec.id)
                 ELSE UndoResign(mnview, node, rec.id)
    /\ cursor' = cursor - 1
    /\ UNCHANGED <<base, criminals, chain, pc, block, touched, running>>

DisconnectTipDone ==
    LET h  == Len(chain)
        id == MasternodeOf(View, block.minter)
        c1 == IF GetBlockUndo(View, h) = EmptyUndo THEN mnview
              ELSE [mnview EXCEPT !.blocksUndo[h] = EmptyUndo]
        c2 == [DecrementMintedBy(c1, View.allNodes[id], id) EXCEPT !.lastHeight = h - 1]
    IN
    /\ running /\ pc = "undo" /\ cursor = 0
    /\ pc' = "idle"
    /\ base' = ApplyCache(base, c2)
    /\ mnview' = EmptyCache(h - 1)
    /\ criminals' = criminals \cup touched
    /\ chain' = [j \in 1 .. h - 1 |-> chain[j]]
    /\ block' = NoBlock /\ touched' = {}
    /\ UNCHANGED <<cursor, running>>

-----------------------------------------------------------------------------
\* AcceptBlockHeader finds a second header of the same minter and counter.
AddCriminalProof(minter, height) ==
    /\ running /\ pc = "idle"
    /\ ExistByOperator(base, minter)
    /\ LET id == MasternodeOf(base, minter) IN
          /\ [type |-> "criminal", id |-> id, ok |-> TRUE] \in TxPool
          /\ BanXorResign(base.allNodes[id])
          /\ GetState(base.allNodes[id], height) \notin {"PRE_BANNED", "BANNED"}
          /\ criminals' = criminals \cup {id}
    /\ UNCHANGED <<base, mnview, chain, pc, block, cursor, touched, running>>

\* Any of the callers of GetState meets a node that is both banned and resigned.
AssertFails ==
    /\ running
    /\ \E id \in Ids : ExistMasternode(View, id) /\ ~BanXorResign(View.allNodes[id])
    /\ running' = FALSE
    /\ UNCHANGED <<base, mnview, criminals, chain, pc, block, cursor, touched>>

-----------------------------------------------------------------------------
\* The registry after ConnectTip has connected the genesis block.
GenesisView ==
    [allNodes        |-> [i \in Ids |-> IF i \in GenesisIds THEN FromTx(i, 0) ELSE NoEntry],
     nodesByOwner    |-> [k \in Keys |-> IF \E i \in GenesisIds : OwnerOf[i] = k
                                        THEN CHOOSE i \in GenesisIds : OwnerOf[i] = k
                                        ELSE NoEntry],
     nodesByOperator |-> [k \in Keys |-> IF \E i \in GenesisIds : OperatorOf[i] = k
                                        THEN CHOOSE i \in GenesisIds : OperatorOf[i] = k
                                        ELSE NoEntry],
     blocksUndo      |-> [h \in Heights |-> IF h # 0 \/ GenesisIds = {} THEN NoEntry ELSE
                             [t \in Txns |-> IF \E i \in GenesisIds : GenesisTxn[i] = t
                                 THEN CreateRecord(CHOOSE i \in GenesisIds : GenesisTxn[i] = t)
                                 ELSE NoEntry]],
     lastHeight      |-> 0]

Init ==
    /\ base = GenesisView
    /\ mnview = EmptyCache(0)
    /\ criminals = {}
    /\ chain = <<>>
    /\ pc = "idle" /\ block = NoBlock /\ cursor = 0 /\ touched = {}
    /\ running = TRUE

Next ==
    \/ \E minter \in Keys, mintedBlocks \in Heights : ConnectBlock(minter, mintedBlocks)
    \/ \E tx \in TxPool : \/ ConnectCreate(tx) \/ ConnectResign(tx)
                         \/ ConnectCriminal(tx) \/ ConnectSpend(tx)
    \/ ConnectBlockFails \/ ConnectTipDone
    \/ DisconnectBlock \/ DisconnectTx \/ OnUndoBlock \/ UndoTx \/ DisconnectTipDone
    \/ \E minter \in Keys, height \in Heights : AddCriminalProof(minter, height)
    \/ AssertFails

Spec == Init /\ [][Next]_vars

-----------------------------------------------------------------------------
(* Properties.                                                             *)

TypeOK ==
    /\ base \in Views /\ mnview \in Views
    /\ criminals \subseteq Ids /\ touched \subseteq Ids
    /\ chain \in Seq(Blocks) /\ Len(chain) <= MaxHeight
    /\ pc \in {"idle", "connect", "disconnect", "undo"}
    /\ block \in Blocks /\ Len(block.txs) <= MaxTxs
    /\ cursor \in 0 .. MaxTxs
    /\ running \in BOOLEAN

(***************************************************************************)
(* The two indexes and the node map agree, through every step of           *)
(* connecting and of rolling back a block: a node is found under both its  *)
(* keys, and an index entry leads to an existing node that has that key.   *)
(* So owner and operator keys are unique, and the assertions of            *)
(* IncrementMintedBy and DecrementMintedBy hold for a node in the index.   *)
(***************************************************************************)
IndexOK(nodes, byOwner, byOperator) ==
    /\ \A id \in Ids : IsNode(nodes[id]) =>
          /\ nodes[id].ownerAuthAddress = OwnerOf[id]
          /\ nodes[id].operatorAuthAddress = OperatorOf[id]
          /\ byOwner[OwnerOf[id]] = id
          /\ byOperator[OperatorOf[id]] = id
    /\ \A k \in Keys : byOwner[k] \in Ids =>
          IsNode(nodes[byOwner[k]]) /\ OwnerOf[byOwner[k]] = k
    /\ \A k \in Keys : byOperator[k] \in Ids =>
          IsNode(nodes[byOperator[k]]) /\ OperatorOf[byOperator[k]] = k

IndexConsistent == IndexOK(View.allNodes, View.nodesByOwner, View.nodesByOperator)

\* The undo records that have not been rolled back yet.
PendingUndo ==
    [h \in Heights |-> [t \in Txns |->
        IF pc = "undo" /\ h = Len(chain) /\ t > cursor THEN NoEntry ELSE GetBlockUndo(View, h)[t]]]

(***************************************************************************)
(* The undo records and the nodes describe the same history: a pending     *)
(* record names an existing node and the height at which its transaction   *)
(* changed that node; the creation and the resignation of every node have  *)
(* exactly one record, the creation's before the resignation's.  So        *)
(* OnUndoBlock, which dereferences the node of a record unchecked and goes *)
(* through the records backwards, finds what it needs.                     *)
(***************************************************************************)
UndoOK(nodes, undo) ==
    /\ \A h \in Heights, t \in Txns : undo[h][t] # NoEntry =>
          /\ IsNode(nodes[undo[h][t].id])
          /\ undo[h][t].type = "create" => nodes[undo[h][t].id].creationHeight = h
          /\ undo[h][t].type = "resign" => nodes[undo[h][t].id].resignHeight = h
    /\ \A id \in Ids : IsNode(nodes[id]) =>
          /\ nodes[id].creationHeight \in Heights
          /\ \E t \in Txns : undo[nodes[id].creationHeight][t] = CreateRecord(id)
          /\ nodes[id].resignHeight # NoHeight =>
                /\ nodes[id].resignHeight \in Heights
                /\ \E t \in Txns : undo[nodes[id].resignHeight][t] = ResignRecord(id)
    /\ \A h \in Heights, t, u \in Txns :
          undo[h][t] # NoEntry /\ undo[h][t] = undo[h][u] => t = u
    /\ \A h \in Heights, t \in Txns : undo[h][t] # NoEntry /\ undo[h][t].type = "create" =>
          \A i \in Heights, u \in Txns :
             undo[i][u] = ResignRecord(undo[h][t].id) => h < i \/ (h = i /\ t < u)

UndoRecordsApply == UndoOK(View.allNodes, PendingUndo)

(***************************************************************************)
(* The minter of every block of the active chain is registered, and was    *)
(* created before that block: DecrementMintedBy, which asserts it after    *)
(* the creations of the block have been undone, never aborts.              *)
(***************************************************************************)
Registered(v, minter, height) ==
    /\ minter \in Keys /\ ExistByOperator(v, minter)
    /\ v.allNodes[MasternodeOf(v, minter)].creationHeight < height

MintersRegistered ==
    /\ \A j \in 1 .. Len(chain) : Registered(View, chain[j].minter, j)
    /\ pc = "connect" => Registered(View, block.minter, nHeight)

(***************************************************************************)
(* Along the active chain the k-th block of a minter carries counter k.    *)
(* Double-sign detection rests on it: two blocks of one minter with one    *)
(* counter are never both on a valid chain, whatever was reorganised.      *)
(***************************************************************************)
MintedCountersMatch ==
    \A i \in 1 .. Len(chain) :
        chain[i].mintedBlocks = Cardinality({j \in 1 .. i : chain[j].minter = chain[i].minter})

(***************************************************************************)
(* Once the collateral of a masternode is spent on the active chain, no    *)
(* later block (and not that block) is minted by it: CanSpend and the      *)
(* proof-of-stake check exclude each other at every height.                *)
(***************************************************************************)
NoStakeWithoutCollateral ==
    pc = "idle" =>
        \A i \in 1 .. Len(chain), j \in 1 .. Len(chain), id \in Ids :
            /\ InBlock(chain[i], "spend", id)
            /\ ExistMasternode(base, id)
            /\ i <= j
            => chain[j].minter # OperatorOf[id]

(***************************************************************************)
(* A masternode caught at double signing stays caught: its proof leaves    *)
(* the criminals map only when the node is banned, and comes back when the *)
(* ban is rolled back.                                                     *)
(***************************************************************************)
Caught(id) == id \in criminals \/ (ExistMasternode(base, id) /\ base.allNodes[id].banTx # NullTx)
CaughtStaysCaught == [][\A id \in Ids : Caught(id) => Caught(id)']_vars

(***************************************************************************)
(* The comment at the assertion of GetState: a node is never both banned   *)
(* and resigned ("mutually exclusive!: ban XOR resign").                   *)
(***************************************************************************)
BanAndResignExclude ==
    \A id \in Ids : ExistMasternode(View, id) => BanXorResign(View.allNodes[id])
=============================================================================
