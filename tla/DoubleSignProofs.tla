-------------------------- MODULE DoubleSignProofs ---------------------------
(***************************************************************************)
(* Proofs about double signing: what the headers, proofs and bans of a     *)
(* node say about its masternodes (module Criminals), and that the staking *)
(* thread never signs twice (module Staker).                               *)
(*                                                                         *)
(* The lemmas are about the actions, so they serve both modules, and about *)
(* any block b that is offered, so they serve the blocks of others and     *)
(* those of the thread.                                                    *)
(***************************************************************************)
EXTENDS Staker, CriminalsHistory, FiniteSetTheorems, SequenceTheorems, WellFoundedInduction, TLAPS

-----------------------------------------------------------------------------
\* A set of natural numbers has a smallest one.
LEMMA SmallestExists ==
    ASSUME NEW S \in SUBSET Nat, S # {}
    PROVE  \E m \in S : \A k \in S : m <= k
<1> DEFINE R == {p \in Nat \X Nat : p[1] < p[2]}
<1>1. IsWellFoundedOn(R, Nat)
  BY NatLessThanWellFounded DEF OpToRel
<1> HIDE DEF R
<1>2. PICK x \in S : \A y \in S : <<y, x>> \notin R
  BY <1>1, WFMin
<1>3. \A y \in S : ~(y < x)
  BY <1>2 DEF R
<1>4. \A y \in S : x <= y
  BY <1>3
<1> QED
  BY <1>4

\* The restriction to an interval of heights is symmetric.
LEMMA RestrictedSymmetric ==
    ASSUME NEW a \in Nat, NEW b \in Nat, IsDoubleSignRestricted(a, b)
    PROVE  IsDoubleSignRestricted(b, a)
BY NodesAssumption DEF IsDoubleSignRestricted

\* A proof is two headers.
LEMMA ProofParts ==
    ASSUME NEW p \in ProofType, p # NoProof
    PROVE  p \in HeaderType \X HeaderType /\ p[1] \in HeaderType /\ p[2] \in HeaderType /\ p[1].minter \in Nodes
BY DEF ProofType, HeaderType

\* The parts of a block.
LEMMA BlockParts ==
    ASSUME NEW b \in BlockType
    PROVE  /\ b.header \in HeaderType /\ b.header.minter \in Nodes /\ b.header.mintedBlocks \in Nat
           /\ b.header.height \in Nat /\ b.proof \in ProofType /\ b.creates \in SUBSET Nodes
BY DEF BlockType, HeaderType

\* CreateNewBlock includes a proof that is kept, or none.
LEMMA CriminalTxKept ==
    ASSUME TypeOK
    PROVE  CriminalTx = NoProof \/ \E n \in Nodes : CriminalTx = criminals[n] /\ criminals[n] # NoProof
<1> SUFFICES ASSUME GetUnpunishedCriminals # {}
             PROVE  \E n \in Nodes : CriminalTx = criminals[n] /\ criminals[n] # NoProof
  BY DEF CriminalTx
<1> DEFINE S == {Rank[n] : n \in GetUnpunishedCriminals}
<1>1. GetUnpunishedCriminals \subseteq Nodes
  BY DEF GetUnpunishedCriminals
<1>2. S \in SUBSET Nat /\ S # {}
  BY <1>1, NodesAssumption
<1>3. PICK m \in S : \A k \in S : m <= k
  <2> HIDE DEF S
  <2> QED BY <1>2, SmallestExists
<1>4. \E n \in GetUnpunishedCriminals : \A o \in GetUnpunishedCriminals : Rank[n] <= Rank[o]
  BY <1>3
<1>5. FirstCriminal \in GetUnpunishedCriminals
  BY <1>4 DEF FirstCriminal
<1>6. criminals[FirstCriminal] # NoProof /\ FirstCriminal \in Nodes
  BY <1>5 DEF GetUnpunishedCriminals
<1> QED
  BY <1>6 DEF CriminalTx

-----------------------------------------------------------------------------
\* The types survive a header (AcceptBlockHeader).
LEMMA AcceptTypes ==
    ASSUME TypeOK, NEW b \in BlockType, NEW valid \in BOOLEAN, AcceptBlockHeader(b, valid)
    PROVE  TypeOK'
<1>1. b.header \in HeaderType /\ b.header.minter \in Nodes
  BY BlockParts
<1>2. minted' \in SUBSET HeaderType
  BY <1>1 DEF TypeOK, AcceptBlockHeader
<1>3. index' \in SUBSET BlockType
  BY DEF TypeOK, AcceptBlockHeader
<1>4. criminals' \in [Nodes -> ProofType]
  <2>1. CASE UNCHANGED criminals
    BY <2>1 DEF TypeOK
  <2>2. CASE \E x \in minted : criminals' = AddCriminalProof(b.header.minter, <<b.header, x>>)
    <3>1. PICK x \in minted : criminals' = AddCriminalProof(b.header.minter, <<b.header, x>>)
      BY <2>2
    <3>2. <<b.header, x>> \in ProofType
      BY <1>1 DEF TypeOK, ProofType
    <3> QED BY <3>1, <3>2, <1>1 DEF AddCriminalProof, TypeOK
  <2> QED BY <2>1, <2>2 DEF AcceptBlockHeader, FetchMintedHeaders
<1> QED
  BY <1>2, <1>3, <1>4 DEF TypeOK, AcceptBlockHeader

\* What a block executes is an entry of the chain.
LEMMA EntryOf ==
    ASSUME NEW b \in BlockType
    PROVE  [header  |-> b.header,
            creates |-> {m \in b.creates : ~Registered(m)},
            ban     |-> IF BanCriminal(b) THEN b.proof ELSE NoProof] \in EntryType
<1>1. (IF BanCriminal(b) THEN b.proof ELSE NoProof) \in ProofType
  BY BlockParts DEF ProofType
<1>2. {m \in b.creates : ~Registered(m)} \in SUBSET Nodes
  BY BlockParts
<1> QED
  BY <1>1, <1>2, BlockParts DEF EntryType

\* The types survive a connected block.
LEMMA ConnectTypes ==
    ASSUME TypeOK, NEW b \in BlockType, ConnectTip(b)
    PROVE  TypeOK'
<1>1. chain' \in Seq(EntryType)
  BY EntryOf, AppendProperties DEF TypeOK, ConnectTip
<1>2. criminals' \in [Nodes -> ProofType]
  BY DEF TypeOK, ConnectTip, ProofType
<1> QED
  BY <1>1, <1>2 DEF TypeOK, ConnectTip

\* The chain without its last block.
LEMMA Shortened ==
    ASSUME NEW c \in Seq(EntryType), c # <<>>
    PROVE  LET d == SubSeq(c, 1, Len(c) - 1) IN
           /\ d \in Seq(EntryType) /\ Len(d) = Len(c) - 1 /\ Len(c) \in Nat \ {0}
           /\ \A i \in 1 .. Len(d) : d[i] = c[i]
<1>1. Len(c) \in Nat \ {0}
  BY EmptySeq, LenProperties
<1> DEFINE n == Len(c) - 1
<1>2. 1 \in Int /\ n \in Int /\ n \in 0 .. Len(c) /\ n \in Nat
  BY <1>1
<1>3. n = Len(c) - 1
  OBVIOUS
<1> HIDE DEF n
<1>4. \A i \in 1 .. n : c[i] \in EntryType
  BY <1>2, ElementOfSeq
<1>5. SubSeq(c, 1, n) \in Seq(EntryType)
  BY <1>2, <1>4, SubSeqProperties
<1>6. Len(SubSeq(c, 1, n)) = n /\ \A i \in 1 .. n : SubSeq(c, 1, n)[i] = c[i]
  BY <1>2, <1>4, SubSeqProperties
<1> QED
  BY <1>1, <1>3, <1>5, <1>6

\* The types survive a disconnected block.
LEMMA DisconnectTypes ==
    ASSUME TypeOK, DisconnectTip
    PROVE  TypeOK'
<1>1. chain' \in Seq(EntryType)
  BY Shortened DEF TypeOK, DisconnectTip, Height
<1>2. chain[Height] \in EntryType
  BY Shortened, ElementOfSeq DEF TypeOK, DisconnectTip, Height
<1>3. chain[Height].ban \in ProofType
  BY <1>2 DEF EntryType
<1>4. criminals' \in [Nodes -> ProofType]
  BY <1>3, ProofParts DEF TypeOK, DisconnectTip, AddCriminalProof
<1> QED
  BY <1>1, <1>4 DEF TypeOK, DisconnectTip

\* The types survive what a process does besides.
LEMMA OtherTypes ==
    ASSUME TypeOK, CreateNewBlockAborts \/ WriteBlockIndex \/ Flush \/ Restart
    PROVE  TypeOK'
<1>1. CASE CreateNewBlockAborts
  BY <1>1 DEF TypeOK, CreateNewBlockAborts
<1>2. CASE WriteBlockIndex
  BY <1>2 DEF TypeOK, WriteBlockIndex
<1>3. CASE Flush
  <2>1. disk'.index \in SUBSET BlockType /\ disk'.chain \in Seq(EntryType)
    BY <1>3 DEF TypeOK, Flush
  <2>2. disk'.criminals \in [Nodes -> ProofType]
    BY <1>3 DEF TypeOK, Flush
  <2> QED BY <1>3, <2>1, <2>2 DEF TypeOK, Flush
<1>4. CASE Restart
  BY <1>4 DEF TypeOK, Restart
<1> QED
  BY <1>1, <1>2, <1>3, <1>4

-----------------------------------------------------------------------------
(***************************************************************************)
(* A ban on chain c was executed for a block of B, on a proof that passes  *)
(* IsDoubleSigned.                                                         *)
(***************************************************************************)
Founded(c, B) ==
    \A i \in 1 .. Len(c) : c[i].ban # NoProof =>
        IsDoubleSigned(c[i].ban[1], c[i].ban[2]) /\ \E b \in B : b.proof = c[i].ban

\* The blocks are those of B, in memory and on disk, and the bans come from them.
From(B) ==
    /\ index \subseteq B /\ disk.index \subseteq B
    /\ Founded(chain, B) /\ Founded(disk.chain, B)

\* A connected block bans on its own proof, if BanCriminal accepts it.
LEMMA ConnectFounded ==
    ASSUME TypeOK, NEW b \in BlockType, NEW B, b \in B, Founded(chain, B), ConnectTip(b)
    PROVE  Founded(chain', B)
<1> DEFINE e == [header  |-> b.header,
                 creates |-> {m \in b.creates : ~Registered(m)},
                 ban     |-> IF BanCriminal(b) THEN b.proof ELSE NoProof]
<1>1. e \in EntryType /\ chain \in Seq(EntryType) /\ chain' = Append(chain, e)
  BY EntryOf DEF ConnectTip, TypeOK
<1>2. e.ban # NoProof => IsDoubleSigned(e.ban[1], e.ban[2]) /\ b.proof = e.ban
  BY DEF BanCriminal
<1> HIDE DEF e
<1>3. /\ Len(chain') = Len(chain) + 1 /\ Len(chain) \in Nat
      /\ chain'[Len(chain) + 1] = e
      /\ \A i \in 1 .. Len(chain) : chain'[i] = chain[i]
  BY <1>1, AppendProperties, LenProperties
<1> SUFFICES ASSUME NEW i \in 1 .. Len(chain'), chain'[i].ban # NoProof
             PROVE  /\ IsDoubleSigned(chain'[i].ban[1], chain'[i].ban[2])
                    /\ \E c \in B : c.proof = chain'[i].ban
  BY DEF Founded
<1>4. CASE i = Len(chain) + 1
  BY <1>2, <1>3, <1>4
<1>5. CASE i # Len(chain) + 1
  <2>1. i \in 1 .. Len(chain)
    BY <1>3, <1>5
  <2>2. chain'[i] = chain[i]
    BY <1>3, <2>1
  <2> QED BY <2>1, <2>2 DEF Founded
<1> QED
  BY <1>4, <1>5

\* Every step of a process leaves the bans founded; those of Restart, too.
LEMMA FromPreserved ==
    ASSUME TypeOK, NEW B \in SUBSET BlockType, From(B),
           \/ \E b \in B, valid \in BOOLEAN : AcceptBlockHeader(b, valid)
           \/ \E b \in B : ConnectTip(b)
           \/ DisconnectTip \/ CreateNewBlockAborts \/ WriteBlockIndex \/ Flush \/ Restart
    PROVE  TypeOK' /\ From(B)'
<1>1. ASSUME NEW b \in B, NEW valid \in BOOLEAN, AcceptBlockHeader(b, valid)
      PROVE  TypeOK' /\ From(B)'
  BY <1>1, AcceptTypes DEF From, Founded, AcceptBlockHeader
<1>2. ASSUME NEW b \in B, ConnectTip(b)
      PROVE  TypeOK' /\ From(B)'
  <2>1. Founded(chain', B)
    BY <1>2, ConnectFounded DEF From
  <2> QED BY <1>2, <2>1, ConnectTypes DEF From, Founded, ConnectTip
<1>3. ASSUME DisconnectTip
      PROVE  TypeOK' /\ From(B)'
  <2>1. Len(chain') = Len(chain) - 1 /\ Len(chain) \in Nat /\ \A i \in 1 .. Len(chain') : chain'[i] = chain[i]
    BY <1>3, Shortened DEF DisconnectTip, TypeOK, Height
  <2>2. 1 .. Len(chain') \subseteq 1 .. Len(chain)
    BY <2>1
  <2>3. Founded(chain', B)
    BY <2>1, <2>2 DEF From, Founded
  <2> QED BY <1>3, <2>3, DisconnectTypes DEF From, Founded, DisconnectTip
<1>4. CASE CreateNewBlockAborts
  BY <1>4, OtherTypes DEF From, Founded, CreateNewBlockAborts
<1>5. CASE WriteBlockIndex
  <2>1. disk'.index = index /\ disk'.chain = disk.chain /\ UNCHANGED <<index, chain>>
    BY <1>5 DEF WriteBlockIndex, TypeOK
  <2> QED BY <1>5, <2>1, OtherTypes DEF From, Founded
<1>6. CASE Flush
  <2>1. disk'.index = index /\ disk'.chain = chain /\ UNCHANGED <<index, chain>>
    BY <1>6 DEF Flush
  <2> QED BY <1>6, <2>1, OtherTypes DEF From, Founded
<1>7. CASE Restart
  <2>1. index' = disk.index /\ chain' = disk.chain /\ UNCHANGED disk
    BY <1>7 DEF Restart
  <2> QED BY <1>7, <2>1, OtherTypes DEF From, Founded
<1> QED
  BY <1>1, <1>2, <1>3, <1>4, <1>5, <1>6, <1>7

\* The first state of a process.
LEMMA InitFrom ==
    ASSUME Init, NEW B
    PROVE  TypeOK /\ From(B)
<1>1. <<>> \in Seq(EntryType) /\ Len(<<>>) = 0
  BY EmptySeq
<1>2. TypeOK
  BY <1>1 DEF Init, TypeOK, ProofType
<1> QED
  BY <1>1, <1>2 DEF Init, From, Founded

\* The steps of module Criminals are of the form of FromPreserved.
LEMMA NextFrom ==
    ASSUME TypeOK, From(Blocks), [Next]_vars
    PROVE  TypeOK' /\ From(Blocks)'
<1>1. CASE UNCHANGED vars
  BY <1>1 DEF vars, TypeOK, From, Founded
<1>2. CASE Next
  <2>1. Blocks \in SUBSET BlockType
    BY BlocksAssumption
  <2> QED BY <1>2, <2>1, FromPreserved DEF Next, Step
<1> QED
  BY <1>1, <1>2

(***************************************************************************)
(* Types, for every set of masternodes and blocks, through crashes and     *)
(* restarts: what is read back is what was written.                        *)
(***************************************************************************)
THEOREM CriminalsTypeCorrect == Spec => []TypeOK
<1>1. Init => TypeOK /\ From(Blocks)
  BY InitFrom
<1>2. TypeOK /\ From(Blocks) /\ [Next]_vars => TypeOK' /\ From(Blocks)'
  BY NextFrom
<1> QED
  BY <1>1, <1>2, PTL DEF Spec

(***************************************************************************)
(* No masternode that kept to one header per counter is ever banned, by    *)
(* whatever blocks and proofs, in whatever order, across reorganizations   *)
(* and restarts: BanCriminal bans on pairs that IsDoubleSigned accepts,    *)
(* and the pair is in a block.                                             *)
(***************************************************************************)
THEOREM HonestNotPunished == Spec => []HonestNeverBanned
<1>1. Init => TypeOK /\ From(Blocks)
  BY InitFrom
<1>2. TypeOK /\ From(Blocks) /\ [Next]_vars => TypeOK' /\ From(Blocks)'
  BY NextFrom
<1>3. TypeOK /\ From(Blocks) => HonestNeverBanned
  <2> SUFFICES ASSUME TypeOK, From(Blocks), NEW n \in Nodes, Honest(n), Banned(n)
               PROVE  FALSE
    BY DEF HonestNeverBanned
  <2>1. PICK i \in 1 .. Len(chain) : chain[i].ban # NoProof /\ chain[i].ban[1].minter = n
    BY DEF Banned, BannedAt, Height
  <2>2. PICK b \in Blocks : b.proof = chain[i].ban
    BY <2>1 DEF From, Founded
  <2> DEFINE x == b.proof[1]
             y == b.proof[2]
  <2>3. IsDoubleSigned(x, y) /\ x.minter = n
    BY <2>1, <2>2 DEF From, Founded
  <2>4. {x, y} \subseteq Shown(b)
    BY <2>1, <2>2 DEF Shown
  <2> HIDE DEF x, y
  <2>5. x \in Signed(n) /\ y \in Signed(n)
    BY <2>3, <2>4 DEF Signed, IsDoubleSigned
  <2> QED BY <2>3, <2>5 DEF Honest, IsDoubleSigned
<1> QED
  BY <1>1, <1>2, <1>3, PTL DEF Spec

-----------------------------------------------------------------------------
\* A genesis masternode is registered on every chain.
LEMMA GenesisRegistered ==
    ASSUME NEW n \in GenesisNodes
    PROVE  Registered(n)
BY DEF Registered

(***************************************************************************)
(* The headers of genesis masternodes that are in the index, or were       *)
(* written with it, are in the table of minted headers: that is what a new *)
(* header is compared with, also after a crash.                            *)
(***************************************************************************)
MintedKept == \A b \in index \cup disk.index : b.header.minter \in GenesisNodes => b.header \in minted

NoticeInv == TypeOK /\ From(Blocks) /\ MintedKept /\ DoubleSignIsNoticed

\* Whom DoubleSignIsNoticed wants banned or in the map of criminals.
Noticed(n) == criminals[n] # NoProof \/ Banned(n)

\* A header that conflicts with one of the index gives a proof (AcceptBlockHeader).
LEMMA AcceptNotices ==
    ASSUME TypeOK, NEW b \in BlockType, NEW c \in BlockType, NEW valid \in BOOLEAN,
           AcceptBlockHeader(b, valid), c.header \in minted, b.header.minter \in GenesisNodes,
           IsDoubleSigned(b.header, c.header)
    PROVE  Noticed(b.header.minter)'
<1> DEFINE n       == b.header.minter
           against == {x \in FetchMintedHeaders(n, b.header.mintedBlocks) :
                           IsDoubleSignRestricted(b.header.height, x.height)}
<1>1. n \in Nodes /\ b.header \in HeaderType
  BY BlockParts
<1>2. c.header \in against
  BY DEF IsDoubleSigned, FetchMintedHeaders
<1>3. Registered(n)
  BY GenesisRegistered
<1>4. CASE Banned(n)
  BY <1>4 DEF Noticed, Banned, BannedAt, Height, AcceptBlockHeader
<1>5. CASE ~Banned(n)
  <2>1. PICK x \in against : criminals' = AddCriminalProof(n, <<b.header, x>>)
    BY <1>2, <1>3, <1>5 DEF AcceptBlockHeader
  <2>2. <<b.header, x>> # NoProof
    BY <1>1, <2>1, BlocksAssumption DEF FetchMintedHeaders, TypeOK
  <2>3. criminals'[n] # NoProof
    <3> HIDE DEF n
    <3> QED BY <1>1, <2>1, <2>2 DEF AddCriminalProof, TypeOK
  <2> QED BY <2>3 DEF Noticed
<1> QED
  BY <1>4, <1>5

\* A header takes no proof and no ban away.
LEMMA AcceptKeepsNoticed ==
    ASSUME TypeOK, NEW b \in BlockType, NEW valid \in BOOLEAN, AcceptBlockHeader(b, valid),
           NEW n \in Nodes, Noticed(n)
    PROVE  Noticed(n)'
<1>1. CASE Banned(n)
  BY <1>1 DEF Noticed, Banned, BannedAt, Height, AcceptBlockHeader
<1>2. CASE criminals[n] # NoProof
  <2>1. CASE UNCHANGED criminals
    BY <1>2, <2>1 DEF Noticed
  <2>2. CASE \E x \in minted : criminals' = AddCriminalProof(b.header.minter, <<b.header, x>>)
    BY <1>2, <2>2 DEF Noticed, AddCriminalProof, TypeOK
  <2> QED BY <2>1, <2>2 DEF AcceptBlockHeader, FetchMintedHeaders
<1> QED
  BY <1>1, <1>2 DEF Noticed

\* A block forgets the proof of a masternode that it bans, and of no other (ConnectTip).
LEMMA ConnectKeepsNoticed ==
    ASSUME TypeOK, NEW b \in BlockType, ConnectTip(b), NEW n \in Nodes, Noticed(n)
    PROVE  Noticed(n)'
<1> DEFINE e == [header  |-> b.header,
                 creates |-> {m \in b.creates : ~Registered(m)},
                 ban     |-> IF BanCriminal(b) THEN b.proof ELSE NoProof]
<1>1. e \in EntryType /\ chain \in Seq(EntryType) /\ chain' = Append(chain, e)
  BY EntryOf DEF ConnectTip, TypeOK
<1>2. BanCriminal(b) => e.ban = b.proof /\ e.ban # NoProof
  BY DEF BanCriminal
<1> HIDE DEF e
<1>3. /\ Len(chain') = Len(chain) + 1 /\ Len(chain) \in Nat
      /\ chain'[Len(chain) + 1] = e
      /\ \A i \in 1 .. Len(chain) : chain'[i] = chain[i]
  BY <1>1, AppendProperties, LenProperties
<1>4. 1 .. Len(chain) \subseteq 1 .. Len(chain') /\ Len(chain) + 1 \in 1 .. Len(chain')
  BY <1>3
<1>5. CASE Banned(n)
  <2>1. PICK i \in 1 .. Len(chain) : chain[i].ban # NoProof /\ chain[i].ban[1].minter = n
    BY <1>5 DEF Banned, BannedAt, Height
  <2>2. i \in BannedAt(n)'
    BY <1>3, <1>4, <2>1 DEF BannedAt, Height
  <2> QED BY <2>2 DEF Noticed, Banned
<1>6. CASE BanCriminal(b) /\ b.proof[1].minter = n
  <2>1. Len(chain) + 1 \in BannedAt(n)'
    BY <1>2, <1>3, <1>4, <1>6 DEF BannedAt, Height
  <2> QED BY <2>1 DEF Noticed, Banned
<1>7. CASE ~Banned(n) /\ ~(BanCriminal(b) /\ b.proof[1].minter = n)
  <2>1. criminals'[n] = criminals[n]
    BY <1>7 DEF ConnectTip, TypeOK
  <2> QED BY <1>7, <2>1 DEF Noticed
<1> QED
  BY <1>5, <1>6, <1>7

\* A ban that is undone leaves its proof (DisconnectTip).
LEMMA DisconnectKeepsNoticed ==
    ASSUME TypeOK, DisconnectTip, NEW n \in Nodes, Noticed(n)
    PROVE  Noticed(n)'
<1>1. /\ Len(chain') = Len(chain) - 1 /\ Len(chain) \in Nat \ {0}
      /\ \A i \in 1 .. Len(chain') : chain'[i] = chain[i]
  BY Shortened DEF DisconnectTip, TypeOK, Height
<1>2. chain[Len(chain)] \in EntryType
  BY <1>1, ElementOfSeq DEF TypeOK
<1>3. chain[Len(chain)].ban \in ProofType
  BY <1>2 DEF EntryType
<1>4. CASE criminals[n] # NoProof
  <2>1. criminals'[n] # NoProof
    BY <1>4 DEF DisconnectTip, AddCriminalProof, TypeOK
  <2> QED BY <2>1 DEF Noticed
<1>5. CASE Banned(n) /\ criminals[n] = NoProof
  <2>1. PICK i \in 1 .. Len(chain) : chain[i].ban # NoProof /\ chain[i].ban[1].minter = n
    BY <1>5 DEF Banned, BannedAt, Height
  <2>2. CASE i = Len(chain)
    <3>1. criminals' = AddCriminalProof(n, chain[i].ban)
      BY <2>1, <2>2 DEF DisconnectTip, Height
    <3>2. criminals'[n] # NoProof
      BY <1>5, <2>1, <3>1 DEF AddCriminalProof, TypeOK
    <3> QED BY <3>2 DEF Noticed
  <2>3. CASE i # Len(chain)
    <3>1. i \in 1 .. Len(chain')
      BY <1>1, <2>3
    <3>2. chain'[i] = chain[i]
      BY <1>1, <3>1
    <3>3. i \in BannedAt(n)'
      BY <2>1, <3>1, <3>2 DEF BannedAt, Height
    <3> QED BY <3>3 DEF Noticed, Banned
  <2> QED BY <2>2, <2>3
<1> QED
  BY <1>4, <1>5 DEF Noticed

\* The table of minted headers loses nothing, and gets what the index gets.
LEMMA MintedKeptPreserved ==
    ASSUME TypeOK, From(Blocks), MintedKept, Next
    PROVE  MintedKept'
<1>1. ASSUME NEW b \in Blocks, NEW valid \in BOOLEAN, AcceptBlockHeader(b, valid)
      PROVE  MintedKept'
  <2>1. b.header.minter \in GenesisNodes => b.header \in minted'
    BY <1>1, GenesisRegistered DEF AcceptBlockHeader
  <2>2. index' \subseteq index \cup {b} /\ UNCHANGED disk /\ minted \subseteq minted'
    BY <1>1 DEF AcceptBlockHeader
  <2> QED BY <2>1, <2>2 DEF MintedKept
<1>2. ASSUME NEW b \in Blocks, ConnectTip(b)
      PROVE  MintedKept'
  BY <1>2 DEF MintedKept, ConnectTip
<1>3. CASE DisconnectTip
  BY <1>3 DEF MintedKept, DisconnectTip
<1>4. CASE CreateNewBlockAborts
  BY <1>4 DEF MintedKept, CreateNewBlockAborts
<1>5. CASE WriteBlockIndex
  <2>1. disk'.index = index /\ UNCHANGED <<index, minted>>
    BY <1>5 DEF WriteBlockIndex, TypeOK
  <2> QED BY <2>1 DEF MintedKept
<1>6. CASE Flush
  <2>1. disk'.index = index /\ UNCHANGED <<index, minted>>
    BY <1>6 DEF Flush
  <2> QED BY <2>1 DEF MintedKept
<1>7. CASE Restart
  BY <1>7 DEF MintedKept, Restart
<1> QED
  BY <1>1, <1>2, <1>3, <1>4, <1>5, <1>6, <1>7 DEF Next, Step

\* Nothing that a process does makes it forget a double signer.
LEMMA NoticePreserved ==
    ASSUME NoticeInv, [HistoryNext]_<<vars, loaded>>
    PROVE  NoticeInv'
<1> USE DEF NoticeInv
<1>1. CASE UNCHANGED <<vars, loaded>>
  BY <1>1, NextFrom
     DEF vars, MintedKept, DoubleSignIsNoticed, Banned, BannedAt, Height
<1>2. CASE HistoryNext
  <2>1. Next
    BY <1>2 DEF HistoryNext, Next
  <2>2. TypeOK' /\ From(Blocks)' /\ MintedKept'
    BY <2>1, NextFrom, MintedKeptPreserved
  <2>3. index \subseteq BlockType /\ index' \subseteq BlockType
    BY <2>2 DEF TypeOK
  <2>4. ASSUME index' = index, loaded' = loaded, \A n \in Nodes : Noticed(n) => Noticed(n)'
        PROVE  DoubleSignIsNoticed'
    BY <2>3, <2>4, BlockParts DEF DoubleSignIsNoticed, Noticed
  <2>5. ASSUME NEW b \in Blocks, NEW valid \in BOOLEAN, AcceptBlockHeader(b, valid), loaded' = loaded
        PROVE  DoubleSignIsNoticed'
    <3>1. b \in BlockType
      BY BlocksAssumption
    <3> SUFFICES ASSUME NEW x \in index' \ loaded', NEW y \in index',
                        x.header.minter \in GenesisNodes, IsDoubleSigned(x.header, y.header)
                 PROVE  Noticed(x.header.minter)'
      BY DEF DoubleSignIsNoticed, Noticed
    <3>2. index' \subseteq index \cup {b}
      BY <2>5 DEF AcceptBlockHeader
    <3>3. x \in BlockType /\ y \in BlockType /\ x.header.minter \in Nodes
      BY <2>3, BlockParts
    <3>4. x.header.minter = y.header.minter /\ x.header.hash # y.header.hash
      BY DEF IsDoubleSigned
    <3>5. CASE x = b
      <4>1. y \in index
        BY <3>2, <3>4, <3>5
      <4>2. y.header \in minted
        BY <3>4, <4>1 DEF MintedKept
      <4> QED BY <2>5, <3>1, <3>3, <3>5, <4>2, AcceptNotices
    <3>6. CASE y = b
      <4>1. x \in index
        BY <3>2, <3>4, <3>6
      <4>2. x.header \in minted
        BY <4>1 DEF MintedKept
      <4>3. IsDoubleSigned(y.header, x.header)
        BY <3>3, BlockParts, RestrictedSymmetric DEF IsDoubleSigned
      <4> QED BY <2>5, <3>1, <3>3, <3>4, <3>6, <4>2, <4>3, AcceptNotices
    <3>7. CASE x # b /\ y # b
      <4>1. x \in index \ loaded /\ y \in index
        BY <2>5, <3>2, <3>7
      <4>2. Noticed(x.header.minter)
        BY <4>1 DEF DoubleSignIsNoticed, Noticed
      <4> QED BY <2>5, <3>1, <3>3, <4>2, AcceptKeepsNoticed
    <3> QED BY <3>5, <3>6, <3>7
  <2>6. ASSUME NEW b \in Blocks, ConnectTip(b), loaded' = loaded
        PROVE  DoubleSignIsNoticed'
    <3>1. b \in BlockType /\ index' = index
      BY <2>6, BlocksAssumption DEF ConnectTip
    <3>2. \A n \in Nodes : Noticed(n) => Noticed(n)'
      BY <2>6, <3>1, ConnectKeepsNoticed
    <3> QED BY <2>4, <2>6, <3>1, <3>2
  <2>7. ASSUME DisconnectTip, loaded' = loaded
        PROVE  DoubleSignIsNoticed'
    <3>1. index' = index
      BY <2>7 DEF DisconnectTip
    <3>2. \A n \in Nodes : Noticed(n) => Noticed(n)'
      BY <2>7, DisconnectKeepsNoticed
    <3> QED BY <2>4, <2>7, <3>1, <3>2
  <2>8. ASSUME CreateNewBlockAborts \/ WriteBlockIndex \/ Flush, loaded' = loaded
        PROVE  DoubleSignIsNoticed'
    <3>1. UNCHANGED <<index, chain, criminals>>
      BY <2>8 DEF CreateNewBlockAborts, WriteBlockIndex, Flush
    <3> QED BY <2>8, <3>1 DEF DoubleSignIsNoticed, Banned, BannedAt, Height
  <2>9. ASSUME Restart, loaded' = disk.index
        PROVE  DoubleSignIsNoticed'
    BY <2>9 DEF DoubleSignIsNoticed, Restart
  <2>10. DoubleSignIsNoticed'
    BY <1>2, <2>5, <2>6, <2>7, <2>8, <2>9 DEF HistoryNext, Step
  <2> QED BY <2>2, <2>10
<1> QED
  BY <1>1, <1>2

(***************************************************************************)
(* AcceptBlockHeader notices every conflict of a new header with one of    *)
(* the index, and bans, unbans and the writing of files lose none, however *)
(* the steps of the process interleave with crashes.                       *)
(***************************************************************************)
THEOREM DoubleSignersAreNoticed == HistorySpec => []DoubleSignIsNoticed
<1>1. HistoryInit => NoticeInv
  <2> SUFFICES ASSUME HistoryInit PROVE NoticeInv
    OBVIOUS
  <2>1. TypeOK /\ From(Blocks)
    BY InitFrom DEF HistoryInit
  <2>2. index = {} /\ disk.index = {}
    BY DEF HistoryInit, Init
  <2> QED BY <2>1, <2>2 DEF NoticeInv, MintedKept, DoubleSignIsNoticed
<1>2. NoticeInv /\ [HistoryNext]_<<vars, loaded>> => NoticeInv'
  BY NoticePreserved
<1>3. NoticeInv => DoubleSignIsNoticed
  BY DEF NoticeInv
<1> QED
  BY <1>1, <1>2, <1>3, PTL DEF HistorySpec

-----------------------------------------------------------------------------
(***************************************************************************)
(* The staking thread.  The block that it holds is of its masternode, with *)
(* the counter and the height that it read before.                         *)
(***************************************************************************)
HeldBlock ==
    at \in {"signed", "final"} =>
        /\ pblock \in BlockType
        /\ pblock.header.minter = Me
        /\ pblock.header.mintedBlocks = mintedBlocks + 1
        /\ pblock.header.height = tip.height + 1

StakerInv ==
    /\ StakerTypeOK /\ HeldBlock /\ From(Blocks \cup published)
    /\ IsFiniteSet(published) /\ \A b \in published : b.header.minter = Me

\* The counter of a masternode is a number, the number of its blocks on the chain.
LEMMA MintedBlocksType ==
    ASSUME TypeOK, NEW n
    PROVE  MintedBlocks(n) \in Nat
<1>1. Height \in Nat
  BY LenProperties DEF TypeOK, Height
<1>2. IsFiniteSet(1 .. Height)
  BY <1>1, FS_Interval
<1>3. {i \in 1 .. Height : chain[i].header.minter = n} \subseteq 1 .. Height
  OBVIOUS
<1> QED
  BY <1>2, <1>3, FS_Subset, FS_CardinalityType DEF MintedBlocks

\* So is the hash of the tip.
LEMMA TipHashType ==
    ASSUME TypeOK
    PROVE  TipHash \in Nat /\ Height \in Nat
<1>1. Height \in Nat
  BY LenProperties DEF TypeOK, Height
<1>2. ASSUME chain # <<>>
      PROVE  chain[Len(chain)].header.hash \in Nat
  <2>1. Len(chain) \in 1 .. Len(chain)
    BY <1>2, Shortened DEF TypeOK
  <2>2. chain[Len(chain)] \in EntryType
    BY <2>1, ElementOfSeq DEF TypeOK
  <2> QED BY <2>2 DEF EntryType, HeaderType
<1> QED
  BY <1>1, <1>2 DEF TipHash

\* A record is not the empty tuple.
LEMMA BlockNotEmpty ==
    ASSUME NEW b \in BlockType
    PROVE  b # <<>>
<1>1. DOMAIN b = {"header", "creates", "proof"}
  BY DEF BlockType
<1>2. DOMAIN <<>> = {}
  OBVIOUS
<1> QED
  BY <1>1, <1>2

\* The block that CreateNewBlock and the signing make.
LEMMA SignedBlock ==
    ASSUME StakerInv, CreateAndSign, at' = "signed"
    PROVE  /\ pblock' \in BlockType /\ pblock'.header.minter = Me
           /\ pblock'.header.mintedBlocks = mintedBlocks + 1
           /\ pblock'.header.height = tip.height + 1
           /\ pblock'.proof = CriminalTx
           /\ UNCHANGED <<tip, mintedBlocks>>
<1> DEFINE k == Cardinality(published) + 1
           h == [minter |-> Me, mintedBlocks |-> mintedBlocks + 1,
                 height |-> tip.height + 1, prev |-> TipHash, hash |-> OwnHashes[k]]
<1>1. /\ Cardinality(published) < Len(OwnHashes) /\ UNCHANGED <<tip, mintedBlocks>>
      /\ pblock' = [header |-> h, creates |-> {}, proof |-> CriminalTx]
  BY DEF CreateAndSign, Return
<1>2. k \in 1 .. Len(OwnHashes)
  <2>1. Cardinality(published) \in Nat /\ Len(OwnHashes) \in Nat
    BY FS_CardinalityType, StakerAssumption, LenProperties DEF StakerInv
  <2> QED BY <1>1, <2>1
<1> HIDE DEF k
<1>3. OwnHashes[k] \in Nat \ {0}
  BY <1>2, StakerAssumption, ElementOfSeq
<1>4. tip.height + 1 \in Nat /\ mintedBlocks + 1 \in Nat /\ TipHash \in Nat
  BY TipHashType DEF StakerInv, StakerTypeOK
<1>5. h \in HeaderType
  BY <1>3, <1>4, StakerAssumption DEF HeaderType
<1>6. CriminalTx \in ProofType
  <2>1. CASE CriminalTx = NoProof
    BY <2>1 DEF ProofType
  <2>2. CASE \E n \in Nodes : CriminalTx = criminals[n] /\ criminals[n] # NoProof
    BY <2>2 DEF StakerInv, StakerTypeOK, TypeOK
  <2> QED BY <2>1, <2>2, CriminalTxKept DEF StakerInv, StakerTypeOK
<1>7. h.minter = Me /\ h.mintedBlocks = mintedBlocks + 1 /\ h.height = tip.height + 1
  OBVIOUS
<1> HIDE DEF h
<1>8. pblock' \in BlockType
  BY <1>1, <1>5, <1>6 DEF BlockType
<1> QED
  BY <1>1, <1>7, <1>8

\* The blocks of this node count as blocks that its peers may offer.
LEMMA FromGrows ==
    ASSUME NEW B, NEW C, B \subseteq C, From(B)
    PROVE  From(C)
BY DEF From, Founded

\* Steps of the thread that leave the node alone.
LEMMA ThreadStep ==
    ASSUME StakerInv, UNCHANGED <<vars, published>>,
           GetTip \/ ReadCounter \/ CheckCriminal \/ CreateAndSign \/ CheckSignedBlock
    PROVE  StakerInv'
<1>1. TypeOK /\ TypeOK' /\ From(Blocks \cup published)' /\ Genesis \in [hash : Nat, height : Nat]
  BY DEF StakerInv, StakerTypeOK, TypeOK, vars, From, Founded, Genesis
<1>2. ASSUME Return PROVE StakerInv'
  BY <1>1, <1>2 DEF StakerInv, StakerTypeOK, HeldBlock, Return
<1>3. CASE GetTip
  BY <1>1, <1>3, TipHashType DEF GetTip, StakerInv, StakerTypeOK, HeldBlock
<1>4. CASE ReadCounter
  BY <1>1, <1>2, <1>4, MintedBlocksType DEF ReadCounter, StakerInv, StakerTypeOK, HeldBlock
<1>5. CASE CheckCriminal
  BY <1>1, <1>2, <1>5 DEF CheckCriminal, StakerInv, StakerTypeOK, HeldBlock
<1>6. CASE CreateAndSign
  <2>1. CASE at' = "dead" /\ UNCHANGED <<tip, mintedBlocks, pblock>>
    BY <1>1, <1>6, <2>1 DEF CreateAndSign, StakerInv, StakerTypeOK, HeldBlock
  <2>2. CASE at' = "signed"
    <3>1. HeldBlock' /\ pblock' # <<>>
      BY <1>6, <2>2, SignedBlock, BlockNotEmpty DEF HeldBlock
    <3>2. UNCHANGED <<tip, mintedBlocks>>
      BY <1>6, <2>2, SignedBlock
    <3> QED BY <1>1, <2>2, <3>1, <3>2 DEF StakerInv, StakerTypeOK
  <2> QED BY <1>2, <1>6, <2>1, <2>2 DEF CreateAndSign
<1>7. CASE CheckSignedBlock
  BY <1>1, <1>2, <1>7 DEF CheckSignedBlock, StakerInv, StakerTypeOK, HeldBlock
<1> QED
  BY <1>3, <1>4, <1>5, <1>6, <1>7

\* Steps of the node between two of the thread.
LEMMA NodeStepForm ==
    ASSUME NodeStep
    PROVE  \/ \E b \in Blocks \cup published, valid \in BOOLEAN : AcceptBlockHeader(b, valid)
           \/ \E b \in Blocks \cup published : ConnectTip(b)
           \/ DisconnectTip \/ CreateNewBlockAborts \/ WriteBlockIndex \/ Flush \/ Restart
BY DEF NodeStep, Step

\* The thread's step that hands its block to ProcessNewBlock.
LEMMA PublishStep ==
    ASSUME StakerInv, NEW valid \in BOOLEAN, ProcessNewBlock(valid)
    PROVE  StakerInv'
<1>0. PICK B : B = Blocks \cup published \cup {pblock}
  OBVIOUS
<1>1. pblock \in BlockType /\ pblock.header.minter = Me /\ AcceptBlockHeader(pblock, valid)
  BY DEF ProcessNewBlock, StakerInv, HeldBlock
<1>2. B \in SUBSET BlockType /\ TypeOK /\ Genesis \in [hash : Nat, height : Nat]
  BY <1>0, <1>1, BlocksAssumption DEF StakerInv, StakerTypeOK, Genesis
<1>3. published' = published \cup {pblock} /\ Blocks \cup published' = B
  BY <1>0 DEF ProcessNewBlock
<1>4. From(B)
  BY <1>0, FromGrows DEF StakerInv
<1>5. pblock \in B
  BY <1>0
<1>6. TypeOK' /\ From(B)'
  BY <1>1, <1>2, <1>4, <1>5, FromPreserved
<1>7. From(Blocks \cup published)'
  BY <1>3, <1>6 DEF From
<1>8. IsFiniteSet(published')
  BY <1>3, FS_AddElement DEF StakerInv
<1>9. (\A b \in published : b.header.minter = Me)' /\ published' \subseteq BlockType
  BY <1>1, <1>3 DEF StakerInv, StakerTypeOK
<1>10. /\ at' = "idle" /\ tip' = Genesis /\ mintedBlocks' = 0 /\ pblock' = <<>>
  BY DEF ProcessNewBlock, Return
<1> QED
  BY <1>2, <1>6, <1>7, <1>8, <1>9, <1>10 DEF StakerInv, StakerTypeOK, HeldBlock

\* The invariant of the thread's locals holds after every step.
LEMMA StakerPreserved ==
    ASSUME StakerInv, [StakerNext]_allvars
    PROVE  StakerInv'
<1>1. CASE UNCHANGED allvars
  BY <1>1 DEF allvars, StakerInv, StakerTypeOK, TypeOK, HeldBlock, From, Founded
<1>2. CASE GetTip \/ ReadCounter \/ CheckCriminal \/ CreateAndSign \/ CheckSignedBlock
  <2>1. UNCHANGED <<vars, published>>
    BY <1>2 DEF GetTip, ReadCounter, CheckCriminal, CreateAndSign, CheckSignedBlock
  <2> QED BY <1>2, <2>1, ThreadStep
<1>3. ASSUME NEW valid \in BOOLEAN, ProcessNewBlock(valid)
      PROVE  StakerInv'
  BY <1>3, PublishStep
<1>4. Blocks \cup published \in SUBSET BlockType /\ TypeOK /\ From(Blocks \cup published)
  BY BlocksAssumption DEF StakerInv, StakerTypeOK
<1>5. CASE NodeStep
  <2>1. UNCHANGED svars
    BY <1>5 DEF NodeStep
  <2>0. PICK B : B = Blocks \cup published
    OBVIOUS
  <2>2. B \in SUBSET BlockType /\ From(B)
    BY <1>4, <2>0
  <2>3. \/ \E b \in B, valid \in BOOLEAN : AcceptBlockHeader(b, valid)
        \/ \E b \in B : ConnectTip(b)
        \/ DisconnectTip \/ CreateNewBlockAborts \/ WriteBlockIndex \/ Flush \/ Restart
    BY <1>5, <2>0, NodeStepForm
  <2>4. Blocks \cup published' = B
    BY <2>0, <2>1 DEF svars
  <2>5. TypeOK' /\ From(B)'
    BY <1>4, <2>2, <2>3, FromPreserved
  <2>6. From(Blocks \cup published)'
    BY <2>4, <2>5 DEF From
  <2> QED BY <2>1, <2>5, <2>6 DEF svars, StakerInv, StakerTypeOK, HeldBlock
<1>6. CASE StakerRestart
  <2>1. Restart /\ Return /\ UNCHANGED published
    BY <1>6 DEF StakerRestart
  <2>2. TypeOK' /\ From(Blocks \cup published)'
    <3>1. index' = disk.index /\ chain' = disk.chain /\ UNCHANGED disk
      BY <2>1 DEF Restart
    <3> QED BY <1>4, <2>1, <3>1, OtherTypes DEF From, Founded
  <2>3. Genesis \in [hash : Nat, height : Nat]
    BY DEF Genesis
  <2> QED BY <2>1, <2>2, <2>3 DEF Return, StakerInv, StakerTypeOK, HeldBlock
<1> QED
  BY <1>1, <1>2, <1>3, <1>5, <1>6 DEF StakerNext

\* The thread starts without a block.
LEMMA StakerStarts ==
    ASSUME StakerInit
    PROVE  StakerInv
<1>1. TypeOK /\ From(Blocks \cup published)
  BY InitFrom DEF StakerInit
<1>2. IsFiniteSet(published)
  BY FS_EmptySet DEF StakerInit
<1> QED
  BY <1>1, <1>2 DEF StakerInit, StakerInv, StakerTypeOK, HeldBlock, Genesis

(***************************************************************************)
(* Types of the node and of the thread's locals; the thread holds a block  *)
(* exactly between signing it and handing it over.                         *)
(***************************************************************************)
THEOREM StakerTypeCorrect == StakerSpec => []StakerTypeOK
<1>1. StakerInit => StakerInv
  BY StakerStarts
<1>2. StakerInv /\ [StakerNext]_allvars => StakerInv'
  BY StakerPreserved
<1>3. StakerInv => StakerTypeOK
  BY DEF StakerInv
<1> QED
  BY <1>1, <1>2, <1>3, PTL DEF StakerSpec

-----------------------------------------------------------------------------
(***************************************************************************)
(* Why the thread never double-signs: the headers of its masternode in the *)
(* table of minted headers are those that it published, and from           *)
(* CheckCriminal on none of them conflicts with the one it is about to     *)
(* publish, whatever the node does in between.                             *)
(***************************************************************************)
TableIsOwn ==
    /\ \A b \in published : b.header \in minted
    /\ \A x \in minted : x.minter = Me => \E b \in published : b.header = x

NoConflictAhead ==
    at \in {"checked", "signed", "final"} =>
        \A x \in minted : x.minter = Me /\ x.mintedBlocks = mintedBlocks + 1
            => ~IsDoubleSignRestricted(x.height, tip.height + 1)

OwnInv == StakerInv /\ TableIsOwn /\ NoConflictAhead /\ NeverDoubleSigns

\* A header that comes from others, or comes back, is not a new one of Me.
LEMMA OthersNotMine ==
    ASSUME StakerInv, TableIsOwn, NodeStep
    PROVE  TableIsOwn' /\ \A x \in minted' : x.minter = Me => x \in minted
<1>1. published' = published
  BY DEF NodeStep, svars
<1>2. CASE UNCHANGED minted
  BY <1>1, <1>2 DEF TableIsOwn
<1>3. ASSUME NEW b \in Blocks, NEW valid \in BOOLEAN, AcceptBlockHeader(b, valid)
      PROVE  TableIsOwn' /\ \A x \in minted' : x.minter = Me => x \in minted
  <2>1. b.header.minter # Me
    BY StakerAssumption
  <2>2. minted \subseteq minted' /\ minted' \subseteq minted \cup {b.header}
    BY <1>3 DEF AcceptBlockHeader
  <2> QED BY <1>1, <2>1, <2>2 DEF TableIsOwn
<1>4. ASSUME NEW b \in published, NEW valid \in BOOLEAN, AcceptBlockHeader(b, valid)
      PROVE  TableIsOwn' /\ \A x \in minted' : x.minter = Me => x \in minted
  <2>1. b.header \in minted
    BY DEF TableIsOwn
  <2>2. minted' = minted
    BY <1>4, <2>1 DEF AcceptBlockHeader
  <2> QED BY <1>1, <2>2 DEF TableIsOwn
<1>5. ASSUME NEW b, ConnectTip(b)
      PROVE  UNCHANGED minted
  BY <1>5 DEF ConnectTip
<1>6. ASSUME DisconnectTip \/ CreateNewBlockAborts \/ WriteBlockIndex \/ Flush
      PROVE  UNCHANGED minted
  BY <1>6 DEF DisconnectTip, CreateNewBlockAborts, WriteBlockIndex, Flush
<1> QED
  BY <1>2, <1>3, <1>4, <1>5, <1>6 DEF NodeStep, Step

\* The header that is published is the one that was checked.
LEMMA PublishKeepsOwn ==
    ASSUME OwnInv, Me \in GenesisNodes, NEW valid \in BOOLEAN, ProcessNewBlock(valid)
    PROVE  TableIsOwn' /\ NoConflictAhead' /\ NeverDoubleSigns'
<1> DEFINE h == pblock.header
<1>1. /\ at = "final" /\ at' = "idle" /\ published' = published \cup {pblock}
      /\ h.minter = Me /\ h.mintedBlocks = mintedBlocks + 1 /\ h.height = tip.height + 1
  BY DEF ProcessNewBlock, Return, OwnInv, StakerInv, HeldBlock
<1>2. minted' = minted \cup {h}
  BY <1>1, GenesisRegistered DEF ProcessNewBlock, AcceptBlockHeader
<1>3. TableIsOwn'
  BY <1>1, <1>2 DEF OwnInv, TableIsOwn
<1>4. ASSUME NEW b \in published
      PROVE  ~IsDoubleSigned(b.header, h) /\ ~IsDoubleSigned(h, b.header)
  <2>1. b.header \in minted /\ b.header.minter = Me /\ b \in BlockType /\ pblock \in BlockType
    BY <1>1 DEF OwnInv, TableIsOwn, StakerInv, StakerTypeOK, HeldBlock
  <2>2. b.header.mintedBlocks = h.mintedBlocks => ~IsDoubleSignRestricted(b.header.height, h.height)
    BY <1>1, <2>1 DEF OwnInv, NoConflictAhead
  <2>3. b.header.height \in Nat /\ h.height \in Nat
    BY <2>1, BlockParts
  <2> QED BY <2>2, <2>3, RestrictedSymmetric DEF IsDoubleSigned
<1>5. ~IsDoubleSigned(h, h)
  BY DEF IsDoubleSigned
<1>6. NeverDoubleSigns'
  BY <1>1, <1>4, <1>5 DEF OwnInv, NeverDoubleSigns
<1> QED
  BY <1>1, <1>3, <1>6 DEF NoConflictAhead

\* The other steps publish nothing.
LEMMA OwnPreserved ==
    ASSUME OwnInv, Me \in GenesisNodes, [StakerNext]_allvars
    PROVE  OwnInv'
<1>1. StakerInv'
  BY StakerPreserved DEF OwnInv
<1>2. ASSUME UNCHANGED <<minted, published>>
      PROVE  TableIsOwn' /\ NeverDoubleSigns'
  BY <1>2 DEF OwnInv, TableIsOwn, NeverDoubleSigns
<1>3. CASE UNCHANGED allvars
  BY <1>1, <1>2, <1>3 DEF allvars, OwnInv, NoConflictAhead
<1>4. CASE CheckCriminal
  <2>1. UNCHANGED <<minted, published>>
    BY <1>4 DEF CheckCriminal, vars
  <2>2. NoConflictAhead'
    BY <1>4, <2>1 DEF CheckCriminal, Return, NoConflictAhead, FetchMintedHeaders
  <2> QED BY <1>1, <1>2, <2>1, <2>2 DEF OwnInv
<1>5. CASE GetTip \/ ReadCounter \/ CreateAndSign \/ CheckSignedBlock \/ StakerRestart
  <2>1. UNCHANGED <<minted, published>>
    BY <1>5 DEF GetTip, ReadCounter, CreateAndSign, CheckSignedBlock, StakerRestart, Restart, vars
  <2>2. \/ at' \notin {"checked", "signed", "final"}
        \/ at \in {"checked", "signed"} /\ UNCHANGED <<tip, mintedBlocks>>
    BY <1>5 DEF GetTip, ReadCounter, CreateAndSign, CheckSignedBlock, StakerRestart, Return
  <2>3. NoConflictAhead'
    BY <2>1, <2>2 DEF OwnInv, NoConflictAhead
  <2> QED BY <1>1, <1>2, <2>1, <2>3 DEF OwnInv
<1>6. ASSUME NEW valid \in BOOLEAN, ProcessNewBlock(valid)
      PROVE  OwnInv'
  BY <1>1, <1>6, PublishKeepsOwn DEF OwnInv
<1>7. CASE NodeStep
  <2>1. UNCHANGED <<at, tip, mintedBlocks, published>>
    BY <1>7 DEF NodeStep, svars
  <2>2. TableIsOwn' /\ \A x \in minted' : x.minter = Me => x \in minted
    BY <1>7, OthersNotMine DEF OwnInv
  <2>3. NoConflictAhead' /\ NeverDoubleSigns'
    BY <2>1, <2>2 DEF OwnInv, NoConflictAhead, NeverDoubleSigns
  <2> QED BY <1>1, <2>2, <2>3 DEF OwnInv
<1> QED
  BY <1>3, <1>4, <1>5, <1>6, <1>7 DEF StakerNext

\* Nothing is published at first.
LEMMA OwnStarts ==
    ASSUME StakerInit
    PROVE  OwnInv
BY StakerStarts DEF StakerInit, Init, OwnInv, TableIsOwn, NoConflictAhead, NeverDoubleSigns

(***************************************************************************)
(* The staking thread of a masternode that is registered on every chain    *)
(* never signs two headers with one counter within the interval, although  *)
(* it lets go of cs_main between reading the tip, the counter and the      *)
(* table of minted headers, and publishing; and across restarts.           *)
(***************************************************************************)
THEOREM StakerNeverDoubleSigns ==
    ASSUME Me \in GenesisNodes
    PROVE  StakerSpec => []NeverDoubleSigns
<1>1. StakerInit => OwnInv
  BY OwnStarts
<1>2. OwnInv /\ [StakerNext]_allvars => OwnInv'
  BY OwnPreserved
<1>3. OwnInv => NeverDoubleSigns
  BY DEF OwnInv
<1> QED
  BY <1>1, <1>2, <1>3, PTL DEF StakerSpec

-----------------------------------------------------------------------------
(***************************************************************************)
(* A proof against Me is two headers that Me published, if no block of     *)
(* others carries one: that is, if nobody else holds the operator's key.   *)
(* Such a proof may be kept (of a header with itself), but it passes no    *)
(* IsDoubleSigned.                                                         *)
(***************************************************************************)
KeyIsOwn == \A b \in Blocks : b.proof # NoProof => b.proof[1].minter # Me

Evidence(p) ==
    p # NoProof /\ p[1].minter = Me =>
        \E b, c \in published : p[1] = b.header /\ p[2] = c.header

EvidenceInv ==
    /\ \A n \in Nodes : Evidence(criminals[n]) /\ Evidence(disk.criminals[n])
    /\ \A b \in published : Evidence(b.proof)
    /\ at \in {"signed", "final"} => Evidence(pblock.proof)

\* The staking masternode is not banned on the active chain.
NeverBanned == ~Banned(Me)

\* The proofs that blocks carry.
LEMMA CarriedEvidence ==
    ASSUME EvidenceInv, KeyIsOwn, NEW b \in Blocks \cup published
    PROVE  Evidence(b.proof)
BY DEF EvidenceInv, KeyIsOwn, Evidence

\* AcceptBlockHeader keeps pairs of minted headers of one masternode.
LEMMA AcceptEvidence ==
    ASSUME StakerInv, TableIsOwn, EvidenceInv, published \subseteq published',
           NEW b \in BlockType, NEW valid \in BOOLEAN, AcceptBlockHeader(b, valid),
           b.header.minter = Me => b \in published'
    PROVE  \A n \in Nodes : Evidence(criminals[n])' /\ Evidence(disk.criminals[n])'
<1> SUFFICES ASSUME NEW n \in Nodes
             PROVE  Evidence(criminals[n])' /\ Evidence(disk.criminals[n])'
  OBVIOUS
<1>1. Evidence(disk.criminals[n])'
  <2>1. disk' = disk /\ Evidence(disk.criminals[n])
    BY DEF AcceptBlockHeader, EvidenceInv
  <2> QED BY <2>1 DEF Evidence
<1>2. CASE criminals'[n] = criminals[n]
  <2>1. Evidence(criminals[n])
    BY DEF EvidenceInv
  <2>2. Evidence(criminals[n])'
    BY <1>2, <2>1 DEF Evidence
  <2> QED BY <1>1, <2>2
<1>3. ASSUME NEW x \in minted, x.minter = b.header.minter, criminals'[n] = <<b.header, x>>
      PROVE  Evidence(criminals[n])'
  <2>1. b.header.minter = Me => \E c \in published : c.header = x
    BY <1>3 DEF TableIsOwn
  <2> QED BY <1>3, <2>1 DEF Evidence
<1>4. \/ criminals'[n] = criminals[n]
      \/ \E x \in minted : x.minter = b.header.minter /\ criminals'[n] = <<b.header, x>>
  <2>1. criminals \in [Nodes -> ProofType]
    BY DEF StakerInv, StakerTypeOK, TypeOK
  <2>2. CASE UNCHANGED criminals
    BY <2>2
  <2>3. ASSUME NEW x \in minted, x.minter = b.header.minter,
               criminals' = AddCriminalProof(b.header.minter, <<b.header, x>>)
        PROVE  \/ criminals'[n] = criminals[n]
               \/ criminals'[n] = <<b.header, x>>
    BY <2>1, <2>3 DEF AddCriminalProof
  <2> QED BY <2>2, <2>3 DEF AcceptBlockHeader, FetchMintedHeaders
<1> QED
  BY <1>1, <1>2, <1>3, <1>4

\* Evidence comes only from published headers, in every step.
LEMMA EvidencePreserved ==
    ASSUME OwnInv, OwnInv', EvidenceInv, KeyIsOwn, [StakerNext]_allvars
    PROVE  EvidenceInv'
<1>0. StakerInv /\ TableIsOwn /\ TypeOK /\ From(Blocks \cup published)
  BY DEF OwnInv, StakerInv, StakerTypeOK
<1>1. ASSUME UNCHANGED <<published, at, pblock>>,
             \A n \in Nodes : Evidence(criminals[n])' /\ Evidence(disk.criminals[n])'
      PROVE  EvidenceInv'
  BY <1>1 DEF EvidenceInv, Evidence
<1>2. ASSUME UNCHANGED <<criminals, disk, published>>,
             at' \in {"signed", "final"} => Evidence(pblock.proof)'
      PROVE  EvidenceInv'
  BY <1>2 DEF EvidenceInv, Evidence
<1>3. CASE UNCHANGED allvars
  BY <1>3 DEF allvars, EvidenceInv, Evidence
<1>4. CASE GetTip \/ ReadCounter \/ CheckCriminal \/ CheckSignedBlock
  <2>1. /\ UNCHANGED <<criminals, disk, published>>
        /\ at' \in {"signed", "final"} => at \in {"signed", "final"} /\ UNCHANGED pblock
    BY <1>4 DEF GetTip, ReadCounter, CheckCriminal, CheckSignedBlock, Return, vars
  <2>2. at' \in {"signed", "final"} => Evidence(pblock.proof)'
    BY <2>1 DEF EvidenceInv, Evidence
  <2> QED BY <1>2, <2>1, <2>2
<1>5. CASE CreateAndSign
  <2>1. UNCHANGED <<criminals, disk, published>> /\ (at' \in {"signed", "final"} => at' = "signed")
    BY <1>5 DEF CreateAndSign, Return, vars
  <2>2. ASSUME at' = "signed" PROVE Evidence(pblock.proof)'
    <3>1. pblock'.proof = CriminalTx
      BY <1>0, <1>5, <2>2, SignedBlock
    <3>2. Evidence(CriminalTx)
      BY <1>0, CriminalTxKept DEF EvidenceInv, Evidence
    <3> QED BY <2>1, <3>1, <3>2 DEF Evidence
  <2> QED BY <1>2, <2>1, <2>2
<1>6. ASSUME NEW valid \in BOOLEAN, ProcessNewBlock(valid)
      PROVE  EvidenceInv'
  <2>1. /\ pblock \in BlockType /\ AcceptBlockHeader(pblock, valid) /\ at = "final" /\ at' = "idle"
        /\ published' = published \cup {pblock}
    BY <1>0, <1>6 DEF ProcessNewBlock, Return, StakerInv, HeldBlock
  <2>2. \A n \in Nodes : Evidence(criminals[n])' /\ Evidence(disk.criminals[n])'
    BY <1>0, <2>1, AcceptEvidence
  <2>3. ASSUME NEW b \in published' PROVE Evidence(b.proof)'
    <3>1. Evidence(b.proof)
      BY <2>1, <2>3 DEF EvidenceInv
    <3> QED BY <2>1, <3>1 DEF Evidence
  <2> QED BY <2>1, <2>2, <2>3 DEF EvidenceInv
<1>7. ASSUME NEW b \in Blocks \cup published, NEW valid \in BOOLEAN,
             AcceptBlockHeader(b, valid), UNCHANGED svars
      PROVE  EvidenceInv'
  <2>1. b \in BlockType /\ UNCHANGED <<published, at, pblock>> /\ (b.header.minter = Me => b \in published')
    BY <1>0, <1>7, BlocksAssumption, StakerAssumption DEF svars, StakerInv, StakerTypeOK
  <2>2. \A n \in Nodes : Evidence(criminals[n])' /\ Evidence(disk.criminals[n])'
    BY <1>0, <1>7, <2>1, AcceptEvidence
  <2> QED BY <1>1, <2>1, <2>2
<1>8. ASSUME NEW b, ConnectTip(b), UNCHANGED svars
      PROVE  EvidenceInv'
  <2>1. UNCHANGED <<published, at, pblock, disk>>
    BY <1>8 DEF svars, ConnectTip
  <2>2. \A n \in Nodes : criminals'[n] = criminals[n] \/ criminals'[n] = NoProof
    BY <1>0, <1>8 DEF ConnectTip, TypeOK
  <2>3. \A n \in Nodes : Evidence(criminals[n])' /\ Evidence(disk.criminals[n])'
    BY <2>1, <2>2 DEF EvidenceInv, Evidence
  <2> QED BY <1>1, <2>1, <2>3
<1>9. ASSUME DisconnectTip, UNCHANGED svars
      PROVE  EvidenceInv'
  <2> DEFINE p == chain[Height].ban
  <2>1. UNCHANGED <<published, at, pblock, disk>>
    BY <1>9 DEF svars, DisconnectTip
  <2>2. Evidence(p)
    <3>1. Height \in 1 .. Len(chain)
      BY <1>0, <1>9, Shortened DEF DisconnectTip, TypeOK, Height
    <3>2. p # NoProof => \E b \in Blocks \cup published : b.proof = p
      BY <1>0, <3>1 DEF From, Founded
    <3>3. CASE p = NoProof
      BY <3>3 DEF Evidence
    <3>4. CASE p # NoProof
      BY <3>2, <3>4, CarriedEvidence
    <3> QED BY <3>3, <3>4
  <2>3. \A n \in Nodes : criminals'[n] = criminals[n] \/ criminals'[n] = p
    <3>1. \/ criminals' = criminals
          \/ criminals' = AddCriminalProof(p[1].minter, p)
      BY <1>9 DEF DisconnectTip
    <3> HIDE DEF p
    <3> QED BY <1>0, <3>1 DEF AddCriminalProof, TypeOK
  <2> HIDE DEF p
  <2>4. \A n \in Nodes : Evidence(criminals[n])' /\ Evidence(disk.criminals[n])'
    BY <2>1, <2>2, <2>3 DEF EvidenceInv, Evidence
  <2> QED BY <1>1, <2>1, <2>4
<1>10. ASSUME CreateNewBlockAborts \/ WriteBlockIndex, UNCHANGED svars
       PROVE  EvidenceInv'
  <2>1. UNCHANGED <<published, at, pblock, criminals>> /\ disk'.criminals = disk.criminals
    BY <1>0, <1>10 DEF svars, CreateNewBlockAborts, WriteBlockIndex, TypeOK
  <2>2. \A n \in Nodes : Evidence(criminals[n])' /\ Evidence(disk.criminals[n])'
    BY <2>1 DEF EvidenceInv, Evidence
  <2> QED BY <1>1, <2>1, <2>2
<1>11. ASSUME Flush, UNCHANGED svars
       PROVE  EvidenceInv'
  <2>1. UNCHANGED <<published, at, pblock, criminals>>
    BY <1>11 DEF svars, Flush
  <2>2. \A n \in Nodes : disk'.criminals[n] \in {disk.criminals[n], criminals[n]}
    BY <1>11 DEF Flush
  <2>3. \A n \in Nodes : Evidence(criminals[n])' /\ Evidence(disk.criminals[n])'
    BY <2>1, <2>2 DEF EvidenceInv, Evidence
  <2> QED BY <1>1, <2>1, <2>3
<1>12. CASE StakerRestart
  <2>1. criminals' = disk.criminals /\ UNCHANGED <<disk, published>> /\ at' = "idle"
    BY <1>12 DEF StakerRestart, Restart, Return
  <2> QED BY <2>1 DEF EvidenceInv, Evidence
<1> QED
  BY <1>3, <1>4, <1>5, <1>6, <1>7, <1>8, <1>9, <1>10, <1>11, <1>12 DEF StakerNext, NodeStep, Step

(***************************************************************************)
(* The two parts together: a masternode whose key only this staking thread *)
(* uses is never banned on the node's chain, through reorganizations and   *)
(* restarts, although headers that come back after a crash are kept as     *)
(* proofs against themselves.                                              *)
(***************************************************************************)
THEOREM StakerNeverBanned ==
    ASSUME Me \in GenesisNodes, KeyIsOwn
    PROVE  StakerSpec => []NeverBanned
<1>1. StakerInit => OwnInv /\ EvidenceInv
  BY OwnStarts DEF StakerInit, Init, EvidenceInv, Evidence
<1>2. OwnInv /\ EvidenceInv /\ [StakerNext]_allvars => OwnInv' /\ EvidenceInv'
  BY OwnPreserved, EvidencePreserved
<1>3. OwnInv /\ EvidenceInv => NeverBanned
  <2> SUFFICES ASSUME OwnInv, EvidenceInv, Banned(Me) PROVE FALSE
    BY DEF NeverBanned
  <2>1. PICK i \in 1 .. Len(chain) : chain[i].ban # NoProof /\ chain[i].ban[1].minter = Me
    BY DEF Banned, BannedAt, Height
  <2>2. Founded(chain, Blocks \cup published)
    BY DEF OwnInv, StakerInv, From
  <2>3. PICK b \in Blocks \cup published : b.proof = chain[i].ban
    BY <2>1, <2>2 DEF Founded
  <2>4. IsDoubleSigned(b.proof[1], b.proof[2])
    BY <2>1, <2>2, <2>3 DEF Founded
  <2>5. PICK x, y \in published : b.proof[1] = x.header /\ b.proof[2] = y.header
    BY <2>1, <2>3, CarriedEvidence DEF Evidence
  <2> QED BY <2>4, <2>5 DEF OwnInv, NeverDoubleSigns
<1> QED
  BY <1>1, <1>2, <1>3, PTL DEF StakerSpec
=============================================================================
