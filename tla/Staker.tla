------------------------------- MODULE Staker --------------------------------
(***************************************************************************)
(* The staking thread of one masternode (ThreadStaker, Staker::stake),     *)
(* interleaved with the message-handling threads of module Criminals.  The *)
(* thread takes cs_main for each of its steps and releases it in between,  *)
(* so what it read in one step may be stale in the next.                   *)
(***************************************************************************)
EXTENDS Criminals

CONSTANTS
    Me,         \* the masternode that this node operates
    OwnHashes   \* bound: hashes of the blocks it signs, in this order

ASSUME StakerAssumption ==
    /\ Me \in Nodes
    /\ OwnHashes \in Seq(Nat \ {0})
    /\ \A b \in Blocks : b.header.minter # Me
    /\ \A b \in Blocks, i \in 1 .. Len(OwnHashes) : OwnHashes[i] # b.header.hash

VARIABLES
    at,            \* where the thread is in Staker::stake
    tip,           \* local: the tip, by hash and height
    mintedBlocks,  \* local: the masternode's counter
    pblock,        \* local: the block that is signed, <<>> when none
    published      \* history: blocks the thread handed to ProcessNewBlock

svars   == <<at, tip, mintedBlocks, pblock, published>>
allvars == <<index, minted, criminals, chain, disk, running, at, tip, mintedBlocks, pblock, published>>

Genesis == [hash |-> 0, height |-> 0]

\* Mutant: the block outlives the call.
ReturnKeepsBlock == at' = "idle" /\ tip' = Genesis /\ mintedBlocks' = 0 /\ UNCHANGED pblock

\* stake() returns; the thread calls it again.
Return == at' = "idle" /\ tip' = Genesis /\ mintedBlocks' = 0 /\ pblock' = <<>>

-----------------------------------------------------------------------------
GetTip ==
    /\ running /\ at = "idle"
    /\ at' = "tip"
    /\ tip' = [hash |-> TipHash, height |-> Height]
    /\ UNCHANGED <<vars, mintedBlocks, pblock, published>>

\* The masternode must be active at the tip's height (else initWaiting).
ReadCounter ==
    /\ running /\ at = "tip"
    /\ IF IsActive(Me, tip.height)
       THEN at' = "counter" /\ mintedBlocks' = MintedBlocks(Me) /\ UNCHANGED <<tip, pblock>>
       ELSE Return
    /\ UNCHANGED <<vars, published>>

\* Mutant: the counter that was used last is looked up.
CheckCriminalLast ==
    /\ running /\ at = "counter"
    /\ IF \E x \in FetchMintedHeaders(Me, mintedBlocks) : IsDoubleSignRestricted(x.height, tip.height + 1)
       THEN Return
       ELSE at' = "checked" /\ UNCHANGED <<tip, mintedBlocks, pblock>>
    /\ UNCHANGED <<vars, published>>

\* A block that would double-sign is not made (criminalWaiting).
CheckCriminal ==
    /\ running /\ at = "counter"
    /\ IF \E x \in FetchMintedHeaders(Me, mintedBlocks + 1) : IsDoubleSignRestricted(x.height, tip.height + 1)
       THEN Return
       ELSE at' = "checked" /\ UNCHANGED <<tip, mintedBlocks, pblock>>
    /\ UNCHANGED <<vars, published>>

(***************************************************************************)
(* CreateNewBlock builds on the tip of the moment, and the header gets the *)
(* height and counter that were read before; the kernel search succeeds or *)
(* not.  A masternode that is not active any more makes CreateNewBlock     *)
(* return null and ends the thread.                                        *)
(***************************************************************************)
CreateAndSign ==
    /\ running /\ at = "checked"
    /\ \/ /\ ~IsActive(Me, Height)
          /\ at' = "dead" /\ UNCHANGED <<tip, mintedBlocks, pblock>>
       \/ IsActive(Me, Height) /\ CriminalTxOK /\ Return
       \/ /\ IsActive(Me, Height) /\ CriminalTxOK /\ Cardinality(published) < Len(OwnHashes)
          /\ pblock' = [header  |-> [minter |-> Me, mintedBlocks |-> mintedBlocks + 1,
                                     height |-> tip.height + 1, prev |-> TipHash,
                                     hash   |-> OwnHashes[Cardinality(published) + 1]],
                        creates |-> {},
                        proof   |-> CriminalTx]
          /\ at' = "signed" /\ UNCHANGED <<tip, mintedBlocks>>
    /\ UNCHANGED <<vars, published>>

\* Mutant: a block on another parent is not stale.
CheckSignedBlockAnyParent ==
    /\ running /\ at = "signed"
    /\ IF IsActive(Me, pblock.header.height)
       THEN at' = "final" /\ UNCHANGED <<tip, mintedBlocks, pblock>>
       ELSE Return
    /\ UNCHANGED <<vars, published>>

CheckSignedBlock ==
    /\ running /\ at = "signed"
    /\ IF IsActive(Me, pblock.header.height) /\ pblock.header.prev = tip.hash
       THEN at' = "final" /\ UNCHANGED <<tip, mintedBlocks, pblock>>
       ELSE Return
    /\ UNCHANGED <<vars, published>>

\* The header is accepted here as any other; the block is connected later.
ProcessNewBlock(valid) ==
    /\ at = "final"
    /\ AcceptBlockHeader(pblock, valid)
    /\ published' = published \cup {pblock}
    /\ Return

StakerRestart == Restart /\ Return /\ UNCHANGED published

-----------------------------------------------------------------------------
StakerInit ==
    /\ Init
    /\ at = "idle" /\ tip = Genesis /\ mintedBlocks = 0 /\ pblock = <<>> /\ published = {}

\* Steps of the other threads; blocks of this node come back to it, too.
NodeStep ==
    /\ \/ Step
       \/ \E b \in published, valid \in BOOLEAN : AcceptBlockHeader(b, valid)
       \/ \E b \in published : ConnectTip(b)
    /\ UNCHANGED svars

StakerNext ==
    \/ GetTip \/ ReadCounter \/ CheckCriminal \/ CreateAndSign \/ CheckSignedBlock
    \/ \E valid \in BOOLEAN : ProcessNewBlock(valid)
    \/ NodeStep
    \/ StakerRestart

StakerSpec == StakerInit /\ [][StakerNext]_allvars

-----------------------------------------------------------------------------
StakerTypeOK ==
    /\ TypeOK
    /\ at \in {"idle", "tip", "counter", "checked", "signed", "final", "dead"}
    /\ tip \in [hash : Nat, height : Nat] /\ mintedBlocks \in Nat
    /\ pblock # <<>> <=> at \in {"signed", "final"}
    /\ published \subseteq BlockType

(***************************************************************************)
(* A node never double-signs, whatever happens between the steps of its    *)
(* staking thread: no two headers that it hands to ProcessNewBlock have    *)
(* one counter within the interval, across reorganizations, lost blocks    *)
(* and restarts.  The thread is the only one that stakes for the           *)
(* masternode, and the masternode is registered on every chain.            *)
(***************************************************************************)
NeverDoubleSigns == \A b, c \in published : ~IsDoubleSigned(b.header, c.header)

(***************************************************************************)
(* A block that is published extends the block its height and stake        *)
(* modifier were computed from, although the tip may change between        *)
(* getTip, CreateNewBlock and CheckSignedBlock.                            *)
(***************************************************************************)
PublishedOnItsTip ==
    \A b \in published :
        b.header.height = IF b.header.prev = 0 THEN 1
                          ELSE 1 + (CHOOSE c \in Blocks \cup published :
                                        c.header.hash = b.header.prev).header.height
=============================================================================
