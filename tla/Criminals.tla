------------------------------ MODULE Criminals ------------------------------
(***************************************************************************)
(* Double signing: how a node finds two headers of one masternode with one *)
(* mintedBlocks counter (AcceptBlockHeader), keeps the proof (criminals),  *)
(* puts it in a block (CreateNewBlock), and bans or unbans the masternode  *)
(* as blocks are connected and disconnected.  -criminals is on.            *)
(*                                                                         *)
(* Every step holds cs_main.  The registry is a function of the active     *)
(* chain (module Registry), so which masternodes are registered, active    *)
(* and banned is read off the chain.  Resignations are left to module      *)
(* MasternodesView.                                                        *)
(***************************************************************************)
EXTENDS Integers, Sequences, FiniteSets

CONSTANTS
    Nodes,            \* masternode ids; a node stands for its operator key, too
    GenesisNodes,     \* masternodes of the genesis block
    Blocks,           \* the blocks that other masternodes sign
    NoProof,          \* no double-sign proof
    Rank,             \* order of the ids in the map of criminals
    Interval,         \* DOUBLE_SIGN_MINIMUM_PROOF_INTERVAL
    ActivationDelay,  \* mn.activationDelay
    ResignDelay,      \* mn.resignDelay
    MaxHeight         \* bound: height of the active chain

\* Hash 0 is that of the genesis block.
HeaderType == [minter : Nodes, mintedBlocks : Nat, height : Nat, prev : Nat, hash : Nat \ {0}]
ProofType  == (HeaderType \X HeaderType) \cup {NoProof}
BlockType  == [header : HeaderType, creates : SUBSET Nodes, proof : ProofType]
EntryType  == [header : HeaderType, creates : SUBSET Nodes, ban : ProofType]

ASSUME BlocksAssumption ==
    /\ Blocks \subseteq BlockType /\ NoProof \notin HeaderType \X HeaderType
    /\ \A b, c \in Blocks : b.header.hash = c.header.hash => b = c
ASSUME NodesAssumption ==
    /\ GenesisNodes \subseteq Nodes /\ Rank \in [Nodes -> Nat]
    /\ \A m, n \in Nodes : Rank[m] = Rank[n] => m = n
    /\ {Interval, ActivationDelay, ResignDelay, MaxHeight} \subseteq Nat

VARIABLES
    index,      \* m_block_index: the blocks whose headers are accepted
    minted,     \* headers in the minted-headers table of the masternodes database
    criminals,  \* the proof that is known for each masternode
    chain,      \* active chain above genesis, with what each block executed
    disk,       \* index, criminals and chain as last written
    running     \* FALSE after a failed assertion

vars == <<index, minted, criminals, chain, disk, running>>

-----------------------------------------------------------------------------
IsDoubleSignRestricted(h1, h2) == h1 - h2 \in -Interval .. Interval

\* Mutant: a header conflicts with itself.
IsDoubleSignedBySame(one, two) ==
    /\ IsDoubleSignRestricted(one.height, two.height)
    /\ one.minter = two.minter
    /\ one.mintedBlocks = two.mintedBlocks

IsDoubleSigned(one, two) ==
    /\ IsDoubleSignRestricted(one.height, two.height)
    /\ one.minter = two.minter
    /\ one.mintedBlocks = two.mintedBlocks
    /\ one.hash # two.hash

Height  == Len(chain)
TipHash == IF chain = <<>> THEN 0 ELSE chain[Len(chain)].header.hash

CreatedAt(n) == {i \in 1 .. Height : n \in chain[i].creates}
BannedAt(n)  == {i \in 1 .. Height : chain[i].ban # NoProof /\ chain[i].ban[1].minter = n}

Registered(n) == n \in GenesisNodes \/ CreatedAt(n) # {}
Banned(n)     == BannedAt(n) # {}

\* CMasternode::IsActive of a masternode that has not resigned.
IsActive(n, h) ==
    /\ Registered(n)
    /\ \A i \in BannedAt(n) : h < i + ResignDelay
    /\ Banned(n) \/ \A i \in CreatedAt(n) : h >= i + ActivationDelay

\* mintedBlocks of the masternode's record.
MintedBlocks(n) == Cardinality({i \in 1 .. Height : chain[i].header.minter = n})

FetchMintedHeaders(n, counter) == {x \in minted : x.minter = n /\ x.mintedBlocks = counter}

\* AddCriminalProof: map::emplace keeps the entry that is there.
AddCriminalProof(n, proof) == [criminals EXCEPT ![n] = IF @ = NoProof THEN proof ELSE @]

-----------------------------------------------------------------------------
(***************************************************************************)
(* AcceptBlockHeader: the header is compared with those stored, and stored *)
(* itself, before anything is asked of its parent.  `valid` says whether   *)
(* the checks that need the parent (timestamp, difficulty, stake modifier) *)
(* pass.  The first of the proofs found is kept, in the order of hashes.   *)
(***************************************************************************)
AcceptBlockHeader(b, valid) ==
    LET h       == b.header
        n       == h.minter
        against == {x \in FetchMintedHeaders(n, h.mintedBlocks) :
                        IsDoubleSignRestricted(h.height, x.height)}
        parents == {0} \cup {c.header.hash : c \in index}
    IN
    /\ running /\ b \notin index
    /\ minted' = IF Registered(n) THEN minted \cup {h} ELSE minted
    /\ IF Registered(n) /\ ~Banned(n) /\ against # {}
       THEN \E x \in against : /\ \A y \in against : x.hash <= y.hash
                               /\ criminals' = AddCriminalProof(n, <<h, x>>)
       ELSE UNCHANGED criminals
    /\ index' = IF valid /\ h.prev \in parents THEN index \cup {b} ELSE index
    /\ UNCHANGED <<chain, disk, running>>

GetUnpunishedCriminals == {n \in Nodes : criminals[n] # NoProof /\ Registered(n) /\ ~Banned(n)}

FirstCriminal == CHOOSE n \in GetUnpunishedCriminals :
                     \A m \in GetUnpunishedCriminals : Rank[n] <= Rank[m]

\* The proof that CreateNewBlock includes, and its assertion on it.
CriminalTx   == IF GetUnpunishedCriminals = {} THEN NoProof ELSE criminals[FirstCriminal]
CriminalTxOK == CriminalTx # NoProof => IsDoubleSigned(CriminalTx[1], CriminalTx[2])

\* CreateNewBlock stops the node when its assertion fails.
CreateNewBlockAborts ==
    /\ running /\ ~CriminalTxOK
    /\ running' = FALSE
    /\ UNCHANGED <<index, minted, criminals, chain, disk>>

\* BanCriminal, on the proof carried by block b.
BanCriminal(b) ==
    /\ b.proof # NoProof
    /\ IsDoubleSigned(b.proof[1], b.proof[2])
    /\ Registered(b.proof[1].minter) /\ ~Banned(b.proof[1].minter)

\* ConnectTip: a proof that does not ban is ignored, one that does is forgotten.
ConnectTip(b) ==
    LET n == b.header.minter IN
    /\ running /\ Height < MaxHeight
    /\ b \in index /\ b.header.prev = TipHash
    /\ IsActive(n, b.header.height) /\ b.header.mintedBlocks = MintedBlocks(n) + 1
    /\ chain' = Append(chain, [header  |-> b.header,
                               creates |-> {m \in b.creates : ~Registered(m)},
                               ban     |-> IF BanCriminal(b) THEN b.proof ELSE NoProof])
    /\ criminals' = IF BanCriminal(b)
                    THEN [criminals EXCEPT ![b.proof[1].minter] = NoProof] ELSE criminals
    /\ UNCHANGED <<index, minted, disk, running>>

\* Mutant: the proof of an undone ban is not kept.
DisconnectTipForgets ==
    /\ running /\ chain # <<>>
    /\ chain' = SubSeq(chain, 1, Height - 1)
    /\ UNCHANGED <<index, minted, criminals, disk, running>>

\* DisconnectTip: an unbanned masternode's proof is kept again.
DisconnectTip ==
    LET proof == chain[Height].ban IN
    /\ running /\ chain # <<>>
    /\ chain' = SubSeq(chain, 1, Height - 1)
    /\ criminals' = IF proof = NoProof THEN criminals
                    ELSE AddCriminalProof(proof[1].minter, proof)
    /\ UNCHANGED <<index, minted, disk, running>>

\* FlushStateToDisk, the periodic write: the block index only.
WriteBlockIndex ==
    /\ running
    /\ disk' = [disk EXCEPT !.index = index]
    /\ UNCHANGED <<index, minted, criminals, chain, running>>

\* FlushStateToDisk, in full: the proofs known are written, none is erased.
Flush ==
    /\ running
    /\ disk' = [index     |-> index,
                chain     |-> chain,
                criminals |-> [n \in Nodes |-> IF criminals[n] = NoProof
                                               THEN disk.criminals[n] ELSE criminals[n]]]
    /\ UNCHANGED <<index, minted, criminals, chain, running>>

\* The process ends at any moment and is started again; minted headers are
\* written to the database directly.
Restart ==
    /\ index' = disk.index /\ chain' = disk.chain /\ criminals' = disk.criminals
    /\ running' = TRUE
    /\ UNCHANGED <<minted, disk>>

-----------------------------------------------------------------------------
Init ==
    /\ index = {} /\ minted = {} /\ chain = <<>>
    /\ criminals = [n \in Nodes |-> NoProof]
    /\ disk = [index |-> index, chain |-> chain, criminals |-> criminals]
    /\ running = TRUE

\* The steps of a process.
Step ==
    \/ \E b \in Blocks, valid \in BOOLEAN : AcceptBlockHeader(b, valid)
    \/ \E b \in Blocks : ConnectTip(b)
    \/ DisconnectTip
    \/ CreateNewBlockAborts
    \/ WriteBlockIndex
    \/ Flush

Next == Step \/ Restart

Spec == Init /\ [][Next]_vars
-----------------------------------------------------------------------------
TypeOK ==
    /\ index \in SUBSET BlockType /\ minted \in SUBSET HeaderType
    /\ criminals \in [Nodes -> ProofType] /\ chain \in Seq(EntryType)
    /\ disk \in [index : SUBSET BlockType, chain : Seq(EntryType), criminals : [Nodes -> ProofType]]
    /\ running \in BOOLEAN

(***************************************************************************)
(* A masternode that never signed two headers with one counter within the  *)
(* interval is not banned on any chain, however often its headers are      *)
(* offered, stored, lost in a crash and offered again, and whatever proofs *)
(* the blocks carry (BanCriminal accepts only what IsDoubleSigned does).   *)
(* What it signed are the headers of blocks and those shown in proofs.     *)
(***************************************************************************)
Shown(b)  == {b.header} \cup (IF b.proof = NoProof THEN {} ELSE {b.proof[1], b.proof[2]})
Signed(n) == {x \in UNION {Shown(b) : b \in Blocks} : x.minter = n}
Honest(n) == \A x, y \in Signed(n) :
                 x = y \/ x.mintedBlocks # y.mintedBlocks \/ ~IsDoubleSignRestricted(x.height, y.height)
HonestNeverBanned == \A n \in Nodes : Honest(n) => ~Banned(n)

(***************************************************************************)
(* CreateNewBlock asserts that the proof it includes is one: every proof   *)
(* that is kept passes IsDoubleSigned.                                     *)
(***************************************************************************)
ProofsAreDoubleSigns ==
    \A n \in Nodes : criminals[n] # NoProof => IsDoubleSigned(criminals[n][1], criminals[n][2])
=============================================================================
