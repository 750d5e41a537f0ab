----------------------------- MODULE AnchorIndex -----------------------------
(***************************************************************************)
(* The index of anchors (class CAnchorIndex, src/masternodes/anchors.cpp)  *)
(* and the callbacks of the SPV client that feed it.  An anchor is a       *)
(* Bitcoin transaction that names a block of this chain and the anchor     *)
(* before it.  The index keeps every anchor it was told of with the height *)
(* of its Bitcoin block, and a pointer "top" to the active anchor.         *)
(*                                                                         *)
(* The SPV client is free here: transactions come in any order, at any     *)
(* height, come again at another height, or go, and the last Bitcoin       *)
(* height moves up and down.  Module AnchorFeed restricts it to what the   *)
(* client does.  Every action holds cs_main for the whole step.            *)
(*                                                                         *)
(* The hash of a transaction fixes its contents: Prev, Height and Signed   *)
(* are constants.  The database is written with every change of the index, *)
(* so "btcHeight" is the contents of both.                                 *)
(***************************************************************************)
EXTENDS Integers, FiniteSets

CONSTANTS
    Txs,               \* hashes of the Bitcoin transactions with an anchor
    NullTx,            \* the null hash
    Prev,              \* anchor.previousAnchor
    Height,            \* anchor.height, a height of this chain
    Signed,            \* the anchors that the team of the previous one signed
    Rank,              \* the order of the hashes
    MinConfirmations,  \* consensus.spv.minConfirmations
    MaxBtcHeight       \* bound: the highest Bitcoin block

ASSUME TxAssumption ==
    /\ NullTx \notin Txs
    /\ Prev \in [Txs -> Txs \cup {NullTx}]
    /\ Height \in [Txs -> Nat]
    /\ Signed \subseteq Txs
    /\ Rank \in [Txs -> Nat]
    /\ \A t, u \in Txs : Rank[t] = Rank[u] => t = u

ASSUME BtcAssumption == MinConfirmations \in Nat \ {0} /\ MaxBtcHeight \in Nat

VARIABLES
    btcHeight,             \* anchors: the Bitcoin height of each, or Absent
    top,                   \* the active anchor, or NullTx
    possibleReActivation,
    spvLastHeight          \* the Bitcoin height the index works with

vars == <<btcHeight, top, possibleReActivation, spvLastHeight>>

Absent      == -1
Unconfirmed == MaxBtcHeight + 1    \* TX_UNCONFIRMED, above every height
BtcHeights  == 1 .. MaxBtcHeight

Indexed(b) == {t \in Txs : b[t] # Absent}

-----------------------------------------------------------------------------
(***************************************************************************)
(* The anchors that a loop over previousAnchor visits, from "from" on,     *)
(* when it goes on only from those in "via": the least set that has "from" *)
(* and the previous anchor of every member of "via" in it.                 *)
(***************************************************************************)
Follow(b, from, via) ==
    {t \in Txs : \A S \in SUBSET Txs :
        /\ from \in S
        /\ \A u \in S \cap via : Prev[u] \in Indexed(b) => Prev[u] \in S
        => t \in S}

ActiveChain(b, t) == IF t = NullTx THEN {} ELSE Follow(b, t, Txs)

GetAnchorConfirmations(b, h, t) == IF h < b[t] THEN 0 ELSE h - b[t] + 1

GetAnchorByBtcTx(b, t) == IF t \in Indexed(b) THEN t ELSE NullTx

-----------------------------------------------------------------------------
(***************************************************************************)
(* ActivateBestAnchor first goes back from the top to an anchor with       *)
(* enough confirmations ...                                                *)
(***************************************************************************)
RollBack(b, h, t) ==
    LET few     == {u \in Txs : GetAnchorConfirmations(b, h, u) < MinConfirmations}
        visited == IF t = NullTx THEN {} ELSE Follow(b, t, few)
    IN  IF visited \subseteq few THEN NullTx ELSE CHOOSE u \in visited : u \notin few

\* BestOfTwo: the higher anchor, then the smaller hash.
Better(t, u) == Height[t] > Height[u] \/ (Height[t] = Height[u] /\ Rank[t] < Rank[u])

\* x is the anchor of S in the highest Bitcoin block below l, or "start".
LastBelow(b, S, l, start, x) ==
    \/ x \in S /\ b[x] < l /\ \A u \in S : b[u] < l => b[u] <= b[x]
    \/ x = start /\ \A u \in S : b[u] >= l

(***************************************************************************)
(* ... and then up, one Bitcoin height after the other: S is the set of    *)
(* the anchors that it chooses in "level".  One is chosen when it is the   *)
(* best of its height among those that follow the last one chosen.         *)
(***************************************************************************)
Chosen(b, S, level, start) ==
    \A t \in level : t \in S <=>
        /\ LastBelow(b, S, b[t], start, Prev[t])
        /\ \A u \in level : b[u] = b[t] /\ Prev[u] = Prev[t] => t = u \/ Better(t, u)

\* Mutant: one confirmation too few is enough.
LevelsTooEarly(b, h, t) ==
    {u \in Indexed(b) : /\ t # NullTx => b[u] >= b[t]
                        /\ GetAnchorConfirmations(b, h, u) >= MinConfirmations - 1}

(***************************************************************************)
(* The levels start at the height of the top, whose place another anchor   *)
(* of that height may take, and end at the first that is still pending.    *)
(***************************************************************************)
Levels(b, h, t) ==
    {u \in Indexed(b) : /\ t # NullTx => b[u] >= b[t]
                        /\ GetAnchorConfirmations(b, h, u) >= MinConfirmations}

Pending(b, h, t) ==
    \E u \in Indexed(b) : /\ t # NullTx => b[u] >= b[t]
                          /\ GetAnchorConfirmations(b, h, u) < MinConfirmations

\* The anchor that becomes active, from t up.
NewTop(b, h, t, n) ==
    LET start == IF t = NullTx THEN NullTx ELSE Prev[t]
    IN  \E S \in SUBSET Levels(b, h, t) :
            /\ Chosen(b, S, Levels(b, h, t), start)
            /\ LastBelow(b, S, Unconfirmed, t, n)

Candidates == Txs \cup {NullTx}

ActivateBestAnchor(b, h, t, flag, forced) ==
    IF ~flag /\ ~forced
    THEN top' = t /\ possibleReActivation' = flag
    ELSE LET r == RollBack(b, h, t)
         IN  /\ \E n \in Candidates : NewTop(b, h, r, n) /\ top' = n
             /\ possibleReActivation' = Pending(b, h, r)

-----------------------------------------------------------------------------
\* Mutant: the loop stops before it compares the anchor itself.
DeletedStrict(b, t) ==
    IF top # NullTx /\ t \in Follow(b, top, {u \in Txs : b[u] > b[t]}) \ {top}
    THEN [top |-> GetAnchorByBtcTx(b, Prev[t]), flag |-> TRUE]
    ELSE [top |-> top, flag |-> possibleReActivation]

\* Mutant: only the top itself is looked at, not the anchors below.
DeletedTopOnly(b, t) ==
    IF t = top
    THEN [top |-> GetAnchorByBtcTx(b, Prev[t]), flag |-> TRUE]
    ELSE [top |-> top, flag |-> possibleReActivation]

(***************************************************************************)
(* DeleteAnchorByBtcTx looks for the anchor from the top down, as long as  *)
(* the Bitcoin heights are not below its own; if it is found, the anchor   *)
(* before it becomes active.                                               *)
(***************************************************************************)
Deleted(b, t) ==
    IF top # NullTx /\ t \in Follow(b, top, {u \in Txs : b[u] >= b[t]}) /\ b[top] >= b[t]
    THEN [top |-> GetAnchorByBtcTx(b, Prev[t]), flag |-> TRUE]
    ELSE [top |-> top, flag |-> possibleReActivation]

ValidateAnchor(t) ==
    /\ Prev[t] # NullTx => Prev[t] \in Indexed(btcHeight) /\ Height[t] > Height[Prev[t]]
    /\ t \in Signed

\* A transaction that is new to the SPV wallet; an anchor that is not valid
\* now, or is indexed already, changes nothing.
OnTxAdded(t, h) ==
    /\ ValidateAnchor(t) /\ t \notin Indexed(btcHeight)
    /\ btcHeight' = [btcHeight EXCEPT ![t] = h]
    /\ possibleReActivation' = TRUE
    /\ UNCHANGED <<top, spvLastHeight>>

\* Mutant: an updated anchor does not ask for a new choice.
OnTxUpdatedQuietly(t, h) ==
    /\ t \in Indexed(btcHeight)
    /\ btcHeight' = [btcHeight EXCEPT ![t] = h]
    /\ LET del == Deleted(btcHeight, t) IN top' = del.top /\ possibleReActivation' = del.flag
    /\ UNCHANGED spvLastHeight

\* Mutant: the height is changed in place, and the top stays.
OnTxUpdatedInPlace(t, h) ==
    /\ t \in Indexed(btcHeight)
    /\ btcHeight' = [btcHeight EXCEPT ![t] = h]
    /\ possibleReActivation' = TRUE
    /\ UNCHANGED <<top, spvLastHeight>>

\* An indexed anchor is deleted and added with its new height.
OnTxUpdated(t, h) ==
    /\ t \in Indexed(btcHeight)
    /\ btcHeight' = [btcHeight EXCEPT ![t] = h]
    /\ top' = Deleted(btcHeight, t).top /\ possibleReActivation' = TRUE
    /\ UNCHANGED spvLastHeight

OnTxDeleted(t) ==
    /\ t \in Indexed(btcHeight)
    /\ btcHeight' = [btcHeight EXCEPT ![t] = Absent]
    /\ LET del == Deleted(btcHeight, t) IN top' = del.top /\ possibleReActivation' = del.flag
    /\ UNCHANGED spvLastHeight

(***************************************************************************)
(* CheckActiveAnchor with a Bitcoin height h that was read before cs_main  *)
(* was taken.  It also prunes authorizations, votes for rewards and        *)
(* activates the best chain: modules AnchorAuths, AnchorRewards and        *)
(* ChainSelection.                                                         *)
(***************************************************************************)
CheckActiveAnchor(h, forced) ==
    /\ spvLastHeight' = h
    /\ ActivateBestAnchor(btcHeight, h, top, possibleReActivation, forced)
    /\ UNCHANGED btcHeight

\* The RPC spv_listanchors moves the height and nothing else.
UpdateLastHeight(h) ==
    /\ spvLastHeight' = h
    /\ UNCHANGED <<btcHeight, top, possibleReActivation>>

\* The RPC spv_rescan chooses again, by the height of the last check.
Rescan ==
    /\ ActivateBestAnchor(btcHeight, spvLastHeight, top, possibleReActivation, TRUE)
    /\ UNCHANGED <<btcHeight, spvLastHeight>>

\* The process stops and starts: what is on disk is loaded and a top chosen.
Load(b, h) ==
    /\ btcHeight' = b
    /\ spvLastHeight' = h
    /\ ActivateBestAnchor(b, h, NullTx, FALSE, TRUE)

Restart(h) == Load(btcHeight, h)

\* It stops inside OnTxUpdated, with the old record erased, the new not written.
CrashInUpdate(t, h) == t \in Indexed(btcHeight) /\ Load([btcHeight EXCEPT ![t] = Absent], h)

-----------------------------------------------------------------------------
Init ==
    /\ btcHeight = [t \in Txs |-> Absent]
    /\ top = NullTx
    /\ possibleReActivation = FALSE
    /\ spvLastHeight = 0

Next ==
    \/ \E t \in Txs, h \in BtcHeights \cup {Unconfirmed} : OnTxAdded(t, h) \/ OnTxUpdated(t, h)
    \/ \E t \in Txs : OnTxDeleted(t)
    \/ \E h \in 0 .. MaxBtcHeight, forced \in BOOLEAN : CheckActiveAnchor(h, forced)
    \/ \E h \in 0 .. MaxBtcHeight : UpdateLastHeight(h) \/ Restart(h)
    \/ \E t \in Txs, h \in 0 .. MaxBtcHeight : CrashInUpdate(t, h)
    \/ Rescan

Spec == Init /\ [][Next]_vars

-----------------------------------------------------------------------------
TypeOK ==
    /\ btcHeight \in [Txs -> BtcHeights \cup {Unconfirmed, Absent}]
    /\ top \in Indexed(btcHeight) \cup {NullTx}
    /\ possibleReActivation \in BOOLEAN
    /\ spvLastHeight \in 0 .. MaxBtcHeight

(***************************************************************************)
(* The chain of the active anchor is whole: every anchor below the top is  *)
(* in the index, lies in an earlier Bitcoin block and names a lower block  *)
(* of this chain, down to an anchor without a previous one.  All loops     *)
(* over previousAnchor rely on it, and DeleteAnchorByBtcTx, whose loop     *)
(* stops at the first lower Bitcoin height, keeps it whatever the order in *)
(* which the SPV client reports transactions and reorganizations.          *)
(***************************************************************************)
TopChainIntact ==
    \A t \in ActiveChain(btcHeight, top) :
        Prev[t] # NullTx => /\ Prev[t] \in Indexed(btcHeight)
                            /\ btcHeight[Prev[t]] < btcHeight[t]
                            /\ Height[Prev[t]] < Height[t]

(***************************************************************************)
(* The flag that lets ActivateBestAnchor return at once is clear only when *)
(* there is nothing to do: no anchor in a later Bitcoin block follows the  *)
(* top, and none in the same block would be preferred to it.  An anchor    *)
(* that was pending at one check is not forgotten at a later one.          *)
(***************************************************************************)
PendingNotForgotten ==
    ~possibleReActivation =>
        \A t \in Indexed(btcHeight) :
            /\ ~(Prev[t] = top /\ (top # NullTx => btcHeight[t] > btcHeight[top]))
            /\ top # NullTx /\ Prev[t] = Prev[top] /\ btcHeight[t] = btcHeight[top] => ~Better(t, top)

(***************************************************************************)
(* The top moves to an anchor that was not below it only when that anchor  *)
(* has the confirmations the network asks for; deletions and new heights   *)
(* of transactions only cut the chain.                                     *)
(***************************************************************************)
NewTopIsConfirmed ==
    [][top' # top /\ top' # NullTx /\ top' \notin ActiveChain(btcHeight, top)
       => GetAnchorConfirmations(btcHeight', spvLastHeight', top') >= MinConfirmations]_vars
=============================================================================
