----------------------------- MODULE Masternode -----------------------------
(***************************************************************************)
(* One masternode record (class CMasternode, src/masternodes/masternodes.h *)
(* and .cpp): its fields, the state it is in at a block height, and what   *)
(* that state allows.                                                      *)
(*                                                                         *)
(* A masternode is identified by the hash of the transaction that creates  *)
(* it, and the hash fixes the owner and operator keys written in that      *)
(* transaction: OwnerOf and OperatorOf are therefore constants.  The field *)
(* resignTx is left out: it is written and cleared together with           *)
(* resignHeight and is read by the RPC listing only.                       *)
(***************************************************************************)
EXTENDS Integers

CONSTANTS
    Ids,              \* hashes of masternode creation transactions (nodeId)
    Keys,             \* owner and operator key ids (CKeyID)
    OwnerOf,          \* the owner key in each creation transaction
    OperatorOf,       \* the operator key in each creation transaction
    NullKey,          \* the null CKeyID
    NullTx,           \* the null transaction hash
    ActivationDelay,  \* GetMnActivationDelay()
    ResignDelay       \* GetMnResignDelay()

ASSUME KeysAssumption ==
    /\ OwnerOf \in [Ids -> Keys]
    /\ OperatorOf \in [Ids -> Keys]
    /\ NullKey \notin Keys

ASSUME DelayAssumption ==
    /\ ActivationDelay \in Nat \ {0}
    /\ ResignDelay \in Nat \ {0}

(***************************************************************************)
(* The hash of the transaction that bans a masternode.  CreateNewBlock     *)
(* puts the block height in its input, so the height and the banned node   *)
(* identify it.                                                            *)
(***************************************************************************)
BanTxs == Nat \X Ids

ASSUME NullTxAssumption == NullTx \notin BanTxs

NoHeight == -1

CMasternode ==
    [ownerAuthAddress    : Keys \cup {NullKey},
     operatorAuthAddress : Keys \cup {NullKey},
     mintedBlocks        : Int,
     creationHeight      : Nat,
     resignHeight        : Nat \cup {NoHeight},
     banHeight           : Nat \cup {NoHeight},
     banTx               : BanTxs \cup {NullTx}]

\* The default-constructed record.  In the maps it marks a deleted node.
EmptyNode ==
    [ownerAuthAddress    |-> NullKey,
     operatorAuthAddress |-> NullKey,
     mintedBlocks        |-> 0,
     creationHeight      |-> 0,
     resignHeight        |-> NoHeight,
     banHeight           |-> NoHeight,
     banTx               |-> NullTx]

FromTx(id, height) ==
    [ownerAuthAddress    |-> OwnerOf[id],
     operatorAuthAddress |-> OperatorOf[id],
     mintedBlocks        |-> 0,
     creationHeight      |-> height,
     resignHeight        |-> NoHeight,
     banHeight           |-> NoHeight,
     banTx               |-> NullTx]

-----------------------------------------------------------------------------
\* The assertion every GetState starts with: the program aborts where it fails.
BanXorResign(node) == node.banHeight = NoHeight \/ node.resignHeight = NoHeight

GetState(node, h) ==
    CASE node.resignHeight = NoHeight /\ node.banHeight = NoHeight ->
            IF node.creationHeight = 0 \/ h >= node.creationHeight + ActivationDelay
            THEN "ENABLED" ELSE "PRE_ENABLED"
      [] node.resignHeight # NoHeight ->
            IF h < node.resignHeight + ResignDelay THEN "PRE_RESIGNED" ELSE "RESIGNED"
      [] OTHER ->
            IF h < node.banHeight + ResignDelay THEN "PRE_BANNED" ELSE "BANNED"

IsActive(node, h) == GetState(node, h) \in {"ENABLED", "PRE_RESIGNED", "PRE_BANNED"}

=============================================================================
