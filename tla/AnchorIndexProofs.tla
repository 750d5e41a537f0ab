-------------------------- MODULE AnchorIndexProofs --------------------------
(***************************************************************************)
(* The chain of the active anchor stays whole, for any set of anchors and  *)
(* any order of the callbacks of the SPV client.  The inductive invariant  *)
(* names the chain by a set K that is closed under previousAnchor; how     *)
(* each step changes the chain is shown by giving the new K.               *)
(***************************************************************************)
EXTENDS AnchorIndex, NaturalsInduction, WellFoundedInduction, TLAPS

\* K is closed under previousAnchor, and Bitcoin heights fall along it.
Closed(b, K) ==
    /\ K \subseteq Indexed(b)
    /\ \A u \in K : Prev[u] # NullTx => Prev[u] \in K /\ b[Prev[u]] < b[u]

Whole(b, t) == t = NullTx \/ \E K \in SUBSET Txs : t \in K /\ Closed(b, K)

\* Every anchor passed ValidateAnchor when it was added.
Rising == \A t \in Indexed(btcHeight) : Prev[t] # NullTx => Height[Prev[t]] < Height[t]

Inv == TypeOK /\ Rising /\ Whole(btcHeight, top)

Heights == BtcHeights \cup {Unconfirmed, Absent}

-----------------------------------------------------------------------------
\* A loop over previousAnchor that starts in a closed set stays in it.
LEMMA FollowStays ==
    ASSUME NEW b, NEW from \in Txs, NEW via, NEW K \in SUBSET Txs, from \in K, Closed(b, K)
    PROVE  Follow(b, from, via) \subseteq K
<1>1. \A u \in K \cap via : Prev[u] \in Indexed(b) => Prev[u] \in K
  BY TxAssumption DEF Closed, Indexed
<1> QED
  BY <1>1 DEF Follow

\* It visits its start and the previous anchor of every anchor it goes on from.
LEMMA FollowClosed ==
    ASSUME NEW b, NEW from \in Txs, NEW via
    PROVE  /\ from \in Follow(b, from, via)
           /\ \A u \in Follow(b, from, via) \cap via :
                 Prev[u] \in Indexed(b) => Prev[u] \in Follow(b, from, via)
<1>1. from \in Follow(b, from, via)
  BY DEF Follow
<1>2. ASSUME NEW u \in Follow(b, from, via) \cap via, Prev[u] \in Indexed(b)
      PROVE  Prev[u] \in Follow(b, from, via)
  BY <1>2 DEF Follow, Indexed
<1> QED
  BY <1>1, <1>2

\* A loop that goes on from fewer anchors visits fewer: all are on the chain.
LEMMA FollowOnChain ==
    ASSUME NEW b, NEW from \in Txs, NEW via
    PROVE  Follow(b, from, via) \subseteq ActiveChain(b, from)
  BY TxAssumption DEF Follow, ActiveChain

\* The anchors below a member of a whole chain are whole themselves.
LEMMA WholeBelow ==
    ASSUME NEW b, NEW K \in SUBSET Txs, Closed(b, K), NEW t \in K
    PROVE  Whole(b, t) /\ Whole(b, Prev[t])
  BY DEF Whole, Closed

\* Going back to an anchor with enough confirmations keeps to the chain.
LEMMA RollBackOnChain ==
    ASSUME NEW b, NEW h, NEW t \in Candidates
    PROVE  RollBack(b, h, t) \in ActiveChain(b, t) \cup {NullTx}
<1> DEFINE few == {u \in Txs : GetAnchorConfirmations(b, h, u) < MinConfirmations}
<1>1. CASE t = NullTx
  BY <1>1 DEF RollBack
<1>2. CASE t # NullTx
  <2>1. t \in Txs
    BY <1>2 DEF Candidates
  <2>2. RollBack(b, h, t) \in Follow(b, t, few) \cup {NullTx}
    BY <1>2 DEF RollBack
  <2> QED
    BY <2>1, <2>2, FollowOnChain
<1> QED
  BY <1>1, <1>2

\* ... and so the anchor it ends at is whole.
LEMMA RollBackWhole ==
    ASSUME NEW b, NEW h, NEW t \in Candidates, Whole(b, t)
    PROVE  RollBack(b, h, t) \in Candidates /\ Whole(b, RollBack(b, h, t))
<1>1. RollBack(b, h, t) \in ActiveChain(b, t) \cup {NullTx}
  BY RollBackOnChain
<1>2. CASE RollBack(b, h, t) = NullTx
  BY <1>2 DEF Whole, Candidates
<1>3. CASE RollBack(b, h, t) # NullTx
  <2>1. RollBack(b, h, t) \in Follow(b, t, Txs) /\ t # NullTx
    BY <1>1, <1>3 DEF ActiveChain
  <2>2. PICK K \in SUBSET Txs : t \in K /\ Closed(b, K)
    BY <2>1 DEF Whole
  <2>3. Follow(b, t, Txs) \subseteq K
    BY <2>2, FollowStays
  <2> QED
    BY <2>1, <2>2, <2>3, WholeBelow DEF Candidates
<1> QED
  BY <1>2, <1>3

-----------------------------------------------------------------------------
(***************************************************************************)
(* ActivateBestAnchor: what it chooses, level by level, goes on top of the *)
(* chain below the old top.                                                *)
(***************************************************************************)
LEMMA NewTopWhole ==
    ASSUME NEW b \in [Txs -> Heights], NEW h, NEW t \in Candidates, Whole(b, t),
           NEW n \in Candidates, NewTop(b, h, t, n)
    PROVE  Whole(b, n)
<1> DEFINE start == IF t = NullTx THEN NullTx ELSE Prev[t]
           L     == Levels(b, h, t)
<1>1. PICK S \in SUBSET L : Chosen(b, S, L, start) /\ LastBelow(b, S, Unconfirmed, t, n)
  BY DEF NewTop
<1>2. S \subseteq Indexed(b) /\ S \subseteq Txs
  BY DEF Levels, Indexed
<1>3. \A u \in S : LastBelow(b, S, b[u], start, Prev[u])
  BY <1>1 DEF Chosen
<1>4. \A u \in S : \/ Prev[u] \in S /\ b[Prev[u]] < b[u]
                   \/ Prev[u] = start
  BY <1>3 DEF LastBelow
<1>5. n \in S \/ n = t
  BY <1>1 DEF LastBelow
<1>6. CASE t = NullTx
  <2>1. Closed(b, S)
    BY <1>2, <1>4, <1>6 DEF Closed
  <2> QED
    BY <1>2, <1>5, <1>6, <2>1 DEF Whole
<1>7. CASE t # NullTx
  <2>1. PICK K \in SUBSET Txs : t \in K /\ Closed(b, K)
    BY <1>7 DEF Whole
  <2> DEFINE J == {k \in K : b[k] < b[t]} \cup S
  <2>2. \A u \in K : u \in Txs /\ b[u] \in Int /\ (Prev[u] # NullTx => Prev[u] \in K /\ b[Prev[u]] < b[u] /\ b[Prev[u]] \in Int)
    BY <2>1, BtcAssumption DEF Closed, Heights, BtcHeights, Unconfirmed, Absent
  <2>3. \A u \in S : b[u] \in Int /\ b[u] >= b[t]
    BY <1>2, <1>7, BtcAssumption DEF Levels, Heights, BtcHeights, Unconfirmed, Absent
  <2>4. \A u \in {k \in K : b[k] < b[t]} : Prev[u] # NullTx => Prev[u] \in J /\ b[Prev[u]] < b[u]
    BY <2>1, <2>2
  <2>5. \A u \in S : Prev[u] # NullTx => Prev[u] \in J /\ b[Prev[u]] < b[u]
    BY <1>4, <1>7, <2>1, <2>2, <2>3
  <2>6. J \subseteq Indexed(b) /\ J \in SUBSET Txs
    BY <1>2, <2>1 DEF Closed
  <2>7. Closed(b, J)
    BY <2>4, <2>5, <2>6 DEF Closed
  <2>8. CASE n \in S
    BY <2>6, <2>7, <2>8 DEF Whole
  <2>9. CASE n = t
    BY <2>9
  <2> QED
    BY <1>5, <2>8, <2>9
<1> QED
  BY <1>6, <1>7

\* The step of the top that ActivateBestAnchor makes.
LEMMA ActivateWhole ==
    ASSUME NEW b \in [Txs -> Heights], NEW h, NEW t \in Candidates, Whole(b, t),
           NEW flag \in BOOLEAN, NEW forced \in BOOLEAN,
           ActivateBestAnchor(b, h, t, flag, forced)
    PROVE  Whole(b, top') /\ top' \in Candidates /\ possibleReActivation' \in BOOLEAN
<1>1. CASE ~flag /\ ~forced
  BY <1>1 DEF ActivateBestAnchor
<1>2. CASE flag \/ forced
  <2> DEFINE r == RollBack(b, h, t)
  <2>1. r \in Candidates /\ Whole(b, r)
    BY RollBackWhole
  <2>2. /\ \E n \in Candidates : NewTop(b, h, r, n) /\ top' = n
        /\ possibleReActivation' = Pending(b, h, r)
    BY <1>2 DEF ActivateBestAnchor
  <2> HIDE DEF r
  <2>3. Whole(b, top') /\ top' \in Candidates
    BY <2>1, <2>2, NewTopWhole
  <2>4. Pending(b, h, r) \in BOOLEAN
    BY DEF Pending
  <2> QED
    BY <2>2, <2>3, <2>4
<1> QED
  BY <1>1, <1>2

-----------------------------------------------------------------------------
(***************************************************************************)
(* DeleteAnchorByBtcTx: its loop stops at the first Bitcoin height below   *)
(* that of the anchor, and yet finds it if it is on the chain.  So the top *)
(* afterwards has a whole chain without the anchor, wherever that goes.    *)
(***************************************************************************)
LEMMA DeletedWhole ==
    ASSUME btcHeight \in [Txs -> Heights], top \in Candidates, Whole(btcHeight, top),
           NEW t \in Indexed(btcHeight), NEW h \in Heights
    PROVE  Whole([btcHeight EXCEPT ![t] = h], Deleted(btcHeight, t).top)
<1> DEFINE b == btcHeight
           c == [btcHeight EXCEPT ![t] = h]
<1>t. t \in Txs /\ b[t] \in Int /\ \A u \in Txs : b[u] \in Int
  BY BtcAssumption DEF Indexed, Heights, BtcHeights, Unconfirmed, Absent
<1>1. ASSUME NEW K \in SUBSET Txs, Closed(b, K), t \notin K
      PROVE  Closed(c, K)
  BY <1>1, TxAssumption DEF Closed, Indexed
<1>2. ASSUME NEW K \in SUBSET Txs, Closed(b, K)
      PROVE  Closed(b, {k \in K : b[k] < b[t]})
  <2>1. \A u \in K : Prev[u] # NullTx => Prev[u] \in K /\ b[Prev[u]] < b[u] /\ Prev[u] \in Txs
    BY <1>2 DEF Closed
  <2>2. \A u \in {k \in K : b[k] < b[t]} : Prev[u] # NullTx => Prev[u] \in {k \in K : b[k] < b[t]} /\ b[Prev[u]] < b[u]
    BY <1>t, <2>1
  <2> QED
    BY <1>2, <2>2 DEF Closed
<1>3. CASE top = NullTx
  BY <1>3 DEF Deleted, Whole
<1>4. CASE top # NullTx
  <2>1. PICK K \in SUBSET Txs : top \in K /\ Closed(b, K)
    BY <1>4 DEF Whole
  <2> DEFINE via == {u \in Txs : b[u] >= b[t]}
             F   == Follow(b, top, via)
             low == {k \in K : b[k] < b[t]}
  <2>2. top \in Txs /\ F \subseteq K
    BY <2>1, FollowStays
  <2>3. Closed(b, low) /\ t \notin low /\ low \in SUBSET Txs
    BY <1>2, <1>t, <2>1
  <2>4. Closed(c, low)
    BY <1>1, <2>3
  <2>5. CASE t \in F /\ b[top] >= b[t]
    <3>1. Deleted(b, t).top = GetAnchorByBtcTx(b, Prev[t])
      BY <1>4, <2>5 DEF Deleted
    <3>2. Prev[t] # NullTx => Prev[t] \in low
      BY <1>t, <2>1, <2>2, <2>5 DEF Closed
    <3>3. GetAnchorByBtcTx(b, Prev[t]) \in low \cup {NullTx}
      BY <3>2 DEF GetAnchorByBtcTx
    <3> QED
      BY <2>3, <2>4, <3>1, <3>3 DEF Whole
  <2>6. CASE t \notin F
    <3> DEFINE A == F \cup low
    <3>1. Deleted(b, t).top = top
      BY <2>6 DEF Deleted
    <3>2. top \in F /\ \A u \in F \cap via : Prev[u] \in Indexed(b) => Prev[u] \in F
      BY <2>2, FollowClosed
    <3>3. \A u \in K : Prev[u] # NullTx => Prev[u] \in K /\ b[Prev[u]] < b[u] /\ Prev[u] \in Indexed(b)
      BY <2>1 DEF Closed
    <3>4. \A u \in F : u \in via \/ u \in low
      BY <1>t, <2>2
    <3>5. \A u \in A : Prev[u] # NullTx => Prev[u] \in A /\ b[Prev[u]] < b[u]
      <4>1. ASSUME NEW u \in low, Prev[u] # NullTx PROVE Prev[u] \in A /\ b[Prev[u]] < b[u]
        BY <2>3, <4>1 DEF Closed
      <4>2. ASSUME NEW u \in F, u \in via, Prev[u] # NullTx PROVE Prev[u] \in A /\ b[Prev[u]] < b[u]
        BY <2>2, <3>2, <3>3, <4>2
      <4> QED
        BY <3>4, <4>1, <4>2
    <3>6. A \in SUBSET Txs /\ A \subseteq Indexed(b) /\ t \notin A /\ top \in A
      BY <2>1, <2>2, <2>3, <2>6, <3>2 DEF Closed
    <3>7. Closed(b, A)
      BY <3>5, <3>6 DEF Closed
    <3>8. Closed(c, A)
      BY <1>1, <3>6, <3>7
    <3> QED
      BY <3>1, <3>6, <3>8 DEF Whole
  <2>7. CASE ~(b[top] >= b[t])
    <3>1. Deleted(b, t).top = top
      BY <2>7 DEF Deleted
    <3>2. top \in low
      BY <1>t, <2>1, <2>2, <2>7
    <3> QED
      BY <2>3, <2>4, <3>1, <3>2 DEF Whole
  <2> QED
    BY <2>5, <2>6, <2>7
<1> QED
  BY <1>3, <1>4
-----------------------------------------------------------------------------
\* A change of the height of one anchor keeps the types and the order of heights.
LEMMA IndexStep ==
    ASSUME TypeOK, Rising, NEW t \in Txs, NEW h \in Heights,
           t \in Indexed(btcHeight) \/ ValidateAnchor(t),
           btcHeight' = [btcHeight EXCEPT ![t] = h]
    PROVE  btcHeight' \in [Txs -> Heights] /\ Rising'
<1>1. btcHeight' \in [Txs -> Heights]
  BY DEF TypeOK, Heights
<1>2. \A u \in Indexed(btcHeight') : u \in Indexed(btcHeight) \/ u = t
  BY DEF TypeOK, Indexed
<1>3. Prev[t] # NullTx => Height[Prev[t]] < Height[t]
  <2>1. ASSUME Prev[t] # NullTx, ValidateAnchor(t) PROVE Height[Prev[t]] < Height[t]
    BY <2>1, TxAssumption DEF ValidateAnchor
  <2> QED
    BY <2>1 DEF Rising
<1> QED
  BY <1>1, <1>2, <1>3 DEF Rising

\* The top of a whole chain is in the index.
LEMMA TopIndexed ==
    ASSUME NEW b, NEW t, Whole(b, t)
    PROVE  t \in Indexed(b) \cup {NullTx}
  BY DEF Whole, Closed

\* What ActivateBestAnchor does from a whole chain keeps the invariant.
LEMMA ActivateInv ==
    ASSUME NEW t \in Candidates, NEW flag \in BOOLEAN, NEW forced \in BOOLEAN,
           btcHeight' \in [Txs -> Heights], Rising', spvLastHeight' \in 0 .. MaxBtcHeight,
           Whole(btcHeight', t), ActivateBestAnchor(btcHeight', spvLastHeight', t, flag, forced)
    PROVE  Inv'
<1>1. Whole(btcHeight', top') /\ top' \in Candidates /\ possibleReActivation' \in BOOLEAN
  BY ActivateWhole
<1>2. top' \in Indexed(btcHeight') \cup {NullTx}
  BY <1>1, TopIndexed
<1> QED
  BY <1>1, <1>2 DEF Inv, TypeOK, Heights

\* The invariant holds at the start.
LEMMA InvInit == Init => Inv
<1> SUFFICES ASSUME Init PROVE Inv
  OBVIOUS
<1>1. btcHeight \in [Txs -> Heights] /\ Indexed(btcHeight) = {}
  BY DEF Init, Heights, Indexed
<1>2. 0 \in 0 .. MaxBtcHeight
  BY BtcAssumption
<1> QED
  BY <1>1, <1>2 DEF Init, Inv, TypeOK, Rising, Whole, Heights

\* It is kept by every callback, check, rescan and restart.
LEMMA InvNext == Inv /\ [Next]_vars => Inv'
<1> SUFFICES ASSUME Inv, [Next]_vars PROVE Inv'
  OBVIOUS
<1> USE DEF Inv
<1>a. /\ btcHeight \in [Txs -> Heights] /\ top \in Candidates /\ Whole(btcHeight, top)
      /\ possibleReActivation \in BOOLEAN /\ spvLastHeight \in 0 .. MaxBtcHeight /\ Absent \in Heights
  BY DEF TypeOK, Heights, Candidates, Indexed
<1>n. Whole(btcHeight', NullTx) /\ NullTx \in Candidates
  BY DEF Whole, Candidates
<1>d. ASSUME NEW t \in Indexed(btcHeight) PROVE Deleted(btcHeight, t).flag \in BOOLEAN
  BY <1>a DEF Deleted
<1>1. ASSUME NEW t \in Txs, NEW h \in BtcHeights \cup {Unconfirmed}, OnTxAdded(t, h) PROVE Inv'
  <2>1. btcHeight' = [btcHeight EXCEPT ![t] = h] /\ h \in Heights /\ top' = top /\ t \notin Indexed(btcHeight)
    BY <1>1 DEF OnTxAdded, Heights
  <2>2. btcHeight' \in [Txs -> Heights] /\ Rising'
    BY <1>1, <2>1, IndexStep DEF OnTxAdded
  <2>3. ASSUME NEW K \in SUBSET Txs, Closed(btcHeight, K) PROVE Closed(btcHeight', K)
    <3>1. t \notin K
      BY <2>1, <2>3 DEF Closed
    <3> QED
      BY <1>a, <2>1, <2>3, <3>1, TxAssumption DEF Closed, Indexed
  <2>4. Whole(btcHeight', top')
    BY <1>a, <2>1, <2>3 DEF Whole
  <2>5. top' \in Indexed(btcHeight') \cup {NullTx}
    BY <2>4, TopIndexed
  <2> QED
    BY <1>1, <1>a, <2>2, <2>4, <2>5 DEF OnTxAdded, TypeOK, Heights
<1>2. ASSUME NEW t \in Txs, NEW h \in BtcHeights \cup {Unconfirmed}, OnTxUpdated(t, h) PROVE Inv'
  <2>1. /\ btcHeight' = [btcHeight EXCEPT ![t] = h] /\ h \in Heights /\ t \in Indexed(btcHeight)
        /\ top' = Deleted(btcHeight, t).top
    BY <1>2 DEF OnTxUpdated, Heights
  <2>2. btcHeight' \in [Txs -> Heights] /\ Rising'
    BY <2>1, IndexStep
  <2>4. Whole(btcHeight', top')
    BY <1>a, <2>1, DeletedWhole
  <2>5. top' \in Indexed(btcHeight') \cup {NullTx}
    BY <2>4, TopIndexed
  <2> QED
    BY <1>2, <1>a, <2>2, <2>4, <2>5 DEF OnTxUpdated, TypeOK, Heights
<1>3. ASSUME NEW t \in Txs, OnTxDeleted(t) PROVE Inv'
  <2>1. /\ btcHeight' = [btcHeight EXCEPT ![t] = Absent] /\ t \in Indexed(btcHeight)
        /\ top' = Deleted(btcHeight, t).top /\ possibleReActivation' \in BOOLEAN
    BY <1>3, <1>d DEF OnTxDeleted
  <2>2. btcHeight' \in [Txs -> Heights] /\ Rising'
    BY <1>a, <2>1, IndexStep
  <2>4. Whole(btcHeight', top')
    BY <1>a, <2>1, DeletedWhole
  <2>5. top' \in Indexed(btcHeight') \cup {NullTx}
    BY <2>4, TopIndexed
  <2> QED
    BY <1>3, <1>a, <2>1, <2>2, <2>4, <2>5 DEF OnTxDeleted, TypeOK, Heights
<1>4. ASSUME NEW h \in 0 .. MaxBtcHeight, NEW forced \in BOOLEAN, CheckActiveAnchor(h, forced) PROVE Inv'
  <2>1. btcHeight' = btcHeight /\ spvLastHeight' = h /\ Rising'
    BY <1>4 DEF CheckActiveAnchor, Rising
  <2> QED
    BY <1>4, <1>a, <2>1, ActivateInv DEF CheckActiveAnchor
<1>5. ASSUME NEW h \in 0 .. MaxBtcHeight, UpdateLastHeight(h) PROVE Inv'
  BY <1>5, <1>a DEF UpdateLastHeight, TypeOK, Rising
<1>6. ASSUME NEW h \in 0 .. MaxBtcHeight, Restart(h) PROVE Inv'
  <2>1. btcHeight' = btcHeight /\ spvLastHeight' = h /\ Rising'
    BY <1>6 DEF Restart, Load, Rising
  <2> QED
    BY <1>6, <1>a, <1>n, <2>1, ActivateInv DEF Restart, Load
<1>7. ASSUME NEW t \in Txs, NEW h \in 0 .. MaxBtcHeight, CrashInUpdate(t, h) PROVE Inv'
  <2>1. btcHeight' = [btcHeight EXCEPT ![t] = Absent] /\ spvLastHeight' = h /\ t \in Indexed(btcHeight)
    BY <1>7 DEF CrashInUpdate, Load
  <2>2. btcHeight' \in [Txs -> Heights] /\ Rising'
    BY <1>a, <2>1, IndexStep
  <2>3. ActivateBestAnchor(btcHeight', spvLastHeight', NullTx, FALSE, TRUE)
    BY <1>7, <2>1 DEF CrashInUpdate, Load
  <2> QED
    BY <1>n, <2>1, <2>2, <2>3, ActivateInv
<1>8. CASE Rescan
  <2>1. btcHeight' = btcHeight /\ spvLastHeight' = spvLastHeight /\ Rising'
    BY <1>8 DEF Rescan, Rising
  <2> QED
    BY <1>8, <1>a, <2>1, ActivateInv DEF Rescan
<1>9. CASE UNCHANGED vars
  BY <1>9 DEF vars, TypeOK, Rising
<1> QED
  BY <1>1, <1>2, <1>3, <1>4, <1>5, <1>6, <1>7, <1>8, <1>9 DEF Next

\* The invariant says what TopChainIntact does.
LEMMA InvIntact == Inv => TopChainIntact
<1> SUFFICES ASSUME Inv, NEW t \in ActiveChain(btcHeight, top), Prev[t] # NullTx
             PROVE  /\ Prev[t] \in Indexed(btcHeight)
                    /\ btcHeight[Prev[t]] < btcHeight[t]
                    /\ Height[Prev[t]] < Height[t]
  BY DEF TopChainIntact
<1>1. top # NullTx /\ t \in Follow(btcHeight, top, Txs)
  BY DEF ActiveChain
<1>2. PICK K \in SUBSET Txs : top \in K /\ Closed(btcHeight, K)
  BY <1>1 DEF Inv, Whole
<1>3. t \in K
  BY <1>1, <1>2, FollowStays
<1> QED
  BY <1>2, <1>3 DEF Closed, Inv, Rising

(***************************************************************************)
(* The index and its pointer to the active anchor keep their types: the    *)
(* top is never an anchor that DeleteAnchorByBtcTx has erased.             *)
(***************************************************************************)
THEOREM TypeCorrect == Spec => []TypeOK
<1>1. Inv => TypeOK
  BY DEF Inv
<1> QED
  BY InvInit, InvNext, <1>1, PTL DEF Spec

(***************************************************************************)
(* The chain of the active anchor is whole in every state, for any anchors *)
(* and any order of callbacks, checks, restarts and crashes.               *)
(***************************************************************************)
THEOREM ChainStaysWhole == Spec => []TopChainIntact
  BY InvInit, InvNext, InvIntact, PTL DEF Spec
-----------------------------------------------------------------------------
\* ActivateBestAnchor goes to an anchor with enough confirmations or stays on the chain.
LEMMA ActivateConfirmed ==
    ASSUME NEW b, NEW h, NEW t \in Candidates, NEW flag, NEW forced,
           ActivateBestAnchor(b, h, t, flag, forced)
    PROVE  \/ top' \in ActiveChain(b, t) \cup {t, NullTx}
           \/ GetAnchorConfirmations(b, h, top') >= MinConfirmations
<1>1. CASE ~flag /\ ~forced
  BY <1>1 DEF ActivateBestAnchor
<1>2. CASE ~(~flag /\ ~forced)
  <2> DEFINE r == RollBack(b, h, t)
  <2>1. r \in ActiveChain(b, t) \cup {NullTx}
    BY RollBackOnChain
  <2>2. \E n \in Candidates : NewTop(b, h, r, n) /\ top' = n
    BY <1>2 DEF ActivateBestAnchor
  <2> HIDE DEF r
  <2>3. top' = r \/ top' \in Levels(b, h, r)
    BY <2>2 DEF NewTop, LastBelow
  <2> QED
    BY <2>1, <2>3 DEF Levels
<1> QED
  BY <1>1, <1>2

\* DeleteAnchorByBtcTx leaves the top on the chain.
LEMMA DeletedOnChain ==
    ASSUME top \in Candidates, NEW t
    PROVE  Deleted(btcHeight, t).top \in ActiveChain(btcHeight, top) \cup {top, NullTx}
<1> DEFINE b   == btcHeight
           via == {u \in Txs : b[u] >= b[t]}
<1>1. CASE top # NullTx /\ t \in Follow(b, top, via) /\ b[top] >= b[t]
  <2>1. Deleted(b, t).top = GetAnchorByBtcTx(b, Prev[t])
    BY <1>1 DEF Deleted
  <2>2. top \in Txs /\ ActiveChain(b, top) = Follow(b, top, Txs)
    BY <1>1 DEF Candidates, ActiveChain
  <2>3. t \in Follow(b, top, Txs) /\ t \in Txs
    BY <1>1, <2>2, FollowOnChain DEF Follow
  <2>4. Prev[t] \in Indexed(b) => Prev[t] \in Follow(b, top, Txs)
    BY <2>2, <2>3, FollowClosed
  <2> QED
    BY <2>1, <2>2, <2>4 DEF GetAnchorByBtcTx
<1>2. CASE ~(top # NullTx /\ t \in Follow(b, top, via) /\ b[top] >= b[t])
  BY <1>2 DEF Deleted
<1> QED
  BY <1>1, <1>2

(***************************************************************************)
(* ActivateBestAnchor is the only way to an anchor that was not on the     *)
(* active chain, and that anchor has the confirmations it needs.           *)
(***************************************************************************)
THEOREM NewTopConfirmed == Spec => NewTopIsConfirmed
<1> DEFINE New == top' # top /\ top' # NullTx /\ top' \notin ActiveChain(btcHeight, top)
           OK  == New => GetAnchorConfirmations(btcHeight', spvLastHeight', top') >= MinConfirmations
<1>1. TypeOK /\ [Next]_vars => [OK]_vars
  <2> SUFFICES ASSUME TypeOK, Next, New
               PROVE  GetAnchorConfirmations(btcHeight', spvLastHeight', top') >= MinConfirmations
    OBVIOUS
  <2>a. top \in Candidates /\ NullTx \in Candidates
    BY DEF TypeOK, Candidates, Indexed
  <2>n. ActiveChain(btcHeight', NullTx) = {}
    BY DEF ActiveChain
  <2>1. ASSUME NEW t \in Txs, NEW h \in BtcHeights \cup {Unconfirmed}, OnTxAdded(t, h) \/ OnTxUpdated(t, h)
        PROVE  FALSE
    BY <2>1, <2>a, DeletedOnChain DEF OnTxAdded, OnTxUpdated
  <2>2. ASSUME NEW t \in Txs, OnTxDeleted(t) PROVE FALSE
    BY <2>2, <2>a, DeletedOnChain DEF OnTxDeleted
  <2>3. ASSUME NEW h \in 0 .. MaxBtcHeight, NEW forced \in BOOLEAN, CheckActiveAnchor(h, forced)
        PROVE  GetAnchorConfirmations(btcHeight', spvLastHeight', top') >= MinConfirmations
    BY <2>3, <2>a, ActivateConfirmed DEF CheckActiveAnchor
  <2>4. ASSUME NEW h \in 0 .. MaxBtcHeight, UpdateLastHeight(h) PROVE FALSE
    BY <2>4 DEF UpdateLastHeight
  <2>5. ASSUME NEW b, NEW h, Load(b, h)
        PROVE  GetAnchorConfirmations(btcHeight', spvLastHeight', top') >= MinConfirmations
    <3>1. btcHeight' = b /\ spvLastHeight' = h /\ ActivateBestAnchor(b, h, NullTx, FALSE, TRUE)
      BY <2>5 DEF Load
    <3>2. ActiveChain(b, NullTx) = {}
      BY DEF ActiveChain
    <3>3. \/ top' \in ActiveChain(b, NullTx) \cup {NullTx, NullTx}
          \/ GetAnchorConfirmations(b, h, top') >= MinConfirmations
      BY <2>a, <3>1, ActivateConfirmed
    <3> QED
      BY <3>1, <3>2, <3>3
  <2>6. ASSUME Rescan
        PROVE  GetAnchorConfirmations(btcHeight', spvLastHeight', top') >= MinConfirmations
    BY <2>6, <2>a, ActivateConfirmed DEF Rescan
  <2> QED
    BY <2>1, <2>2, <2>3, <2>4, <2>5, <2>6 DEF Next, Restart, CrashInUpdate
<1>2. Spec => []TypeOK
  BY TypeCorrect
<1>3. Spec => [][OK]_vars
  BY <1>1, <1>2, PTL DEF Spec
<1> QED
  BY <1>3 DEF NewTopIsConfirmed

-----------------------------------------------------------------------------
\* A set of natural numbers that is not empty has a least member.
LEMMA LeastExists ==
    ASSUME NEW S \in SUBSET Nat, S # {}
    PROVE  \E m \in S : \A k \in S : m <= k
<1> DEFINE R == {p \in Nat \X Nat : p[1] < p[2]}
<1>1. IsWellFoundedOn(R, Nat)
  BY NatLessThanWellFounded DEF OpToRel
<1> HIDE DEF R
<1>2. PICK x \in S : \A y \in S : <<y, x>> \notin R
  BY <1>1, WFMin
<1>3. \A y \in S : ~(y < x)
  BY <1>2 DEF R
<1>4. \A y \in S : x <= y
  BY <1>3
<1> QED
  BY <1>4

\* The heights that the indexed anchors name are bounded: the index is finite.
HeightsBounded(b) == \E m \in Nat : \A t \in Indexed(b) : Height[t] <= m

\* BestOfTwo finds a best anchor in every set of indexed anchors.
LEMMA BestExists ==
    ASSUME NEW b, HeightsBounded(b), NEW C \in SUBSET Indexed(b), C # {}
    PROVE  \E t \in C : \A u \in C : t = u \/ Better(t, u)
<1>a. C \subseteq Txs /\ \A t \in C : Height[t] \in Nat /\ Rank[t] \in Nat
  BY TxAssumption DEF Indexed
<1>1. PICK m \in Nat : \A t \in C : Height[t] <= m
  BY DEF HeightsBounded
<1> DEFINE D == {m - Height[t] : t \in C}
<1>2. D \in SUBSET Nat /\ D # {}
  BY <1>a, <1>1
<1>3. PICK d \in D : \A k \in D : d <= k
  <2> HIDE DEF D
  <2> QED BY <1>2, LeastExists
<1>4. PICK x \in C : d = m - Height[x]
  OBVIOUS
<1>5. \A u \in C : Height[u] <= Height[x]
  <2> SUFFICES ASSUME NEW u \in C PROVE Height[u] <= Height[x]
    OBVIOUS
  <2>1. d <= m - Height[u]
    BY <1>3
  <2> HIDE DEF D
  <2> QED BY <1>a, <1>1, <1>4, <2>1
<1> DEFINE E == {u \in C : Height[u] = Height[x]}
           R == {Rank[u] : u \in E}
<1>6. R \in SUBSET Nat /\ R # {}
  BY <1>a
<1>7. PICK r \in R : \A k \in R : r <= k
  <2> HIDE DEF R
  <2> QED BY <1>6, LeastExists
<1>8. PICK t \in E : r = Rank[t]
  OBVIOUS
<1>9. ASSUME NEW u \in C, t # u PROVE Better(t, u)
  <2>1. CASE Height[u] = Height[x]
    <3>1. r <= Rank[u]
      BY <1>7, <2>1
    <3>2. Rank[t] # Rank[u]
      BY <1>a, <1>9, TxAssumption
    <3>3. Rank[t] < Rank[u] /\ Height[t] = Height[u]
      <4> HIDE DEF R
      <4> QED BY <1>a, <1>8, <2>1, <3>1, <3>2
    <3> QED BY <3>3 DEF Better
  <2>2. CASE Height[u] # Height[x]
    <3>1. Height[t] = Height[x] /\ t \in C
      BY <1>8
    <3>2. Height[t] > Height[u]
      <4> HIDE DEF E, R
      <4> QED BY <1>a, <1>5, <2>2, <3>1
    <3> QED BY <3>2 DEF Better
  <2> QED BY <2>1, <2>2
<1> QED
  BY <1>8, <1>9

\* What the flag may promise when it is clear.
Settled(b, n) ==
    \A t \in Indexed(b) :
        /\ ~(Prev[t] = n /\ (n # NullTx => b[t] > b[n]))
        /\ n # NullTx /\ Prev[t] = Prev[n] /\ b[t] = b[n] => ~Better(t, n)

(***************************************************************************)
(* When no anchor is pending, the way up in ActivateBestAnchor ends at an  *)
(* anchor with nothing to choose above it.                                 *)
(***************************************************************************)
LEMMA NewTopSettled ==
    ASSUME NEW b \in [Txs -> Heights], NEW h \in 0 .. MaxBtcHeight, HeightsBounded(b),
           NEW t \in Indexed(b) \cup {NullTx}, NEW n \in Candidates,
           NewTop(b, h, t, n), ~Pending(b, h, t)
    PROVE  Settled(b, n)
<1> DEFINE start == IF t = NullTx THEN NullTx ELSE Prev[t]
           L     == Levels(b, h, t)
<1>1. PICK S \in SUBSET L : Chosen(b, S, L, start) /\ LastBelow(b, S, Unconfirmed, t, n)
  BY DEF NewTop
<1>a. \A u \in Txs : b[u] \in Int
  BY BtcAssumption DEF Heights, BtcHeights, Unconfirmed, Absent
<1>b. h \in Int /\ MinConfirmations \in Int /\ MinConfirmations > 0 /\ h < Unconfirmed /\ Unconfirmed \in Int
  BY BtcAssumption DEF Unconfirmed
<1>2. L \subseteq Indexed(b) /\ Indexed(b) \subseteq Txs
  BY DEF Levels, Indexed
<1>3. ASSUME NEW u \in Indexed(b), t # NullTx => b[u] >= b[t]
      PROVE  u \in L
  <2>1. ~(GetAnchorConfirmations(b, h, u) < MinConfirmations)
    BY <1>3 DEF Pending
  <2>2. GetAnchorConfirmations(b, h, u) \in Int
    BY <1>a, <1>b, <1>2 DEF GetAnchorConfirmations
  <2>3. GetAnchorConfirmations(b, h, u) >= MinConfirmations
    BY <1>b, <2>1, <2>2
  <2> QED BY <1>3, <2>3 DEF Levels
<1>4. ASSUME NEW u \in L PROVE b[u] < Unconfirmed
  <2>1. GetAnchorConfirmations(b, h, u) >= MinConfirmations /\ u \in Txs
    BY <1>2 DEF Levels
  <2>2. ~(h < b[u])
    BY <1>a, <1>b, <2>1 DEF GetAnchorConfirmations
  <2> QED BY <1>a, <1>b, <2>1, <2>2
<1> HIDE DEF L, start
<1>5. ASSUME NEW u \in L, LastBelow(b, S, b[u], start, Prev[u])
      PROVE  \E w \in S : b[w] = b[u]
  <2> DEFINE C == {w \in L : b[w] = b[u] /\ Prev[w] = Prev[u]}
  <2>1. C \in SUBSET Indexed(b) /\ C # {}
    BY <1>2
  <2>2. PICK w \in C : \A x \in C : w = x \/ Better(w, x)
    <3> HIDE DEF C
    <3> QED BY <2>1, BestExists
  <2>3. w \in S
    BY <1>1, <1>5, <2>2 DEF Chosen
  <2> QED BY <2>3
<1>6. ASSUME NEW u \in S PROVE b[u] < Unconfirmed /\ b[u] \in Int
  BY <1>4, <1>a, <1>2
<1>7. CASE n \in S
  <2>1. \A u \in S : b[u] <= b[n]
    BY <1>1, <1>6, <1>7, <1>b DEF LastBelow
  <2>2. n \in L /\ b[n] \in Int /\ n # NullTx /\ n \in Txs /\ (t # NullTx => b[n] >= b[t])
    BY <1>2, <1>7, <1>a, TxAssumption DEF L, Levels
  <2>3. ASSUME NEW u \in Indexed(b), Prev[u] = n, b[u] > b[n] PROVE FALSE
    <3>1. u \in Txs /\ b[u] \in Int
      BY <1>2, <1>a
    <3>2. t # NullTx => b[t] \in Int
      BY <1>2, <1>a
    <3>3. u \in L
      BY <1>3, <2>2, <2>3, <3>1, <3>2
    <3>4. LastBelow(b, S, b[u], start, Prev[u])
      BY <1>7, <2>1, <2>2, <2>3, <3>1 DEF LastBelow
    <3>5. PICK w \in S : b[w] = b[u]
      BY <1>5, <3>3, <3>4
    <3> QED BY <2>1, <2>2, <2>3, <3>1, <3>5
  <2>4. ASSUME NEW u \in Indexed(b), Prev[u] = Prev[n], b[u] = b[n], Better(u, n) PROVE FALSE
    <3>1. u \in L /\ u \in Txs
      BY <1>2, <1>3, <2>2, <2>4
    <3>2. n = u \/ Better(n, u)
      BY <1>1, <1>7, <2>2, <2>4, <3>1 DEF Chosen
    <3>3. /\ Height[u] \in Nat /\ Rank[u] \in Nat /\ Height[n] \in Nat /\ Rank[n] \in Nat
      BY <2>2, <3>1, TxAssumption
    <3> QED BY <2>4, <3>2, <3>3 DEF Better
  <2> QED BY <2>2, <2>3, <2>4 DEF Settled
<1>8. CASE n \notin S
  <2>1. n = t /\ S = {}
    BY <1>1, <1>6, <1>8, <1>b DEF LastBelow
  <2>2. \A u \in L : ~LastBelow(b, S, b[u], start, Prev[u])
    BY <1>5, <2>1
  <2>3. t = NullTx
    <3> SUFFICES ASSUME t # NullTx PROVE FALSE
      OBVIOUS
    <3>1. t \in L /\ b[t] \in Int
      BY <1>2, <1>3, <1>a
    <3>2. start = Prev[t]
      BY DEF start
    <3> QED BY <2>1, <2>2, <3>1, <3>2 DEF LastBelow
  <2>4. start = NullTx
    BY <2>3 DEF start
  <2>5. ASSUME NEW u \in Indexed(b), Prev[u] = NullTx PROVE FALSE
    <3>1. u \in L
      BY <1>3, <2>3
    <3> QED BY <2>1, <2>2, <2>4, <2>5, <3>1 DEF LastBelow
  <2> QED BY <2>1, <2>3, <2>5 DEF Settled
<1> QED BY <1>7, <1>8

\* ActivateBestAnchor clears the flag only when there is nothing to choose.
LEMMA ActivateSettled ==
    ASSUME NEW b \in [Txs -> Heights], NEW h \in 0 .. MaxBtcHeight, HeightsBounded(b),
           NEW t \in Candidates, Whole(b, t), NEW flag \in BOOLEAN, NEW forced \in BOOLEAN,
           ~flag /\ ~forced => Settled(b, t),
           ActivateBestAnchor(b, h, t, flag, forced)
    PROVE  ~possibleReActivation' => Settled(b, top')
<1>1. CASE ~flag /\ ~forced
  BY <1>1 DEF ActivateBestAnchor
<1>2. CASE ~(~flag /\ ~forced)
  <2> DEFINE r == RollBack(b, h, t)
  <2>1. r \in Candidates /\ Whole(b, r)
    BY RollBackWhole
  <2>2. /\ \E n \in Candidates : NewTop(b, h, r, n) /\ top' = n
        /\ possibleReActivation' = Pending(b, h, r)
    BY <1>2 DEF ActivateBestAnchor
  <2> HIDE DEF r
  <2>3. r \in Indexed(b) \cup {NullTx}
    BY <2>1, TopIndexed
  <2> QED
    BY <2>2, <2>3, NewTopSettled
<1> QED
  BY <1>1, <1>2

\* With the flag, the inductive invariant says what the flag promises.
FlagInv ==
    /\ HeightsBounded(btcHeight)
    /\ ~possibleReActivation => Settled(btcHeight, top)

\* The index holds one more anchor at most after a step.
LEMMA BoundedStep ==
    ASSUME NEW b \in [Txs -> Heights], NEW t \in Txs, NEW h \in Heights, HeightsBounded(b)
    PROVE  HeightsBounded([b EXCEPT ![t] = h])
<1>1. PICK m \in Nat : \A u \in Indexed(b) : Height[u] <= m
  BY DEF HeightsBounded
<1>2. PICK k \in Nat : k >= m /\ k >= Height[t]
  <2>1. Height[t] \in Nat
    BY TxAssumption
  <2>2. m + Height[t] \in Nat /\ m + Height[t] >= m /\ m + Height[t] >= Height[t]
    BY <2>1
  <2> QED BY <2>2
<1>3. ASSUME NEW u \in Indexed([b EXCEPT ![t] = h]) PROVE Height[u] <= k
  <2>1. (u = t \/ u \in Indexed(b)) /\ u \in Txs /\ Height[u] \in Nat
    BY TxAssumption DEF Indexed
  <2> QED BY <1>1, <1>2, <2>1
<1> QED BY <1>2, <1>3 DEF HeightsBounded

\* Every callback, check, rescan and restart keeps it.
LEMMA FlagStep == Inv /\ FlagInv /\ [Next]_vars => FlagInv'
<1> SUFFICES ASSUME Inv, FlagInv, [Next]_vars PROVE FlagInv'
  OBVIOUS
<1>a. /\ btcHeight \in [Txs -> Heights] /\ top \in Candidates /\ Whole(btcHeight, top)
      /\ possibleReActivation \in BOOLEAN /\ spvLastHeight \in 0 .. MaxBtcHeight /\ Absent \in Heights
      /\ HeightsBounded(btcHeight) /\ (~possibleReActivation => Settled(btcHeight, top))
  BY DEF Inv, FlagInv, TypeOK, Heights, Candidates, Indexed
<1>n. NullTx \in Candidates /\ \A b : Whole(b, NullTx)
  BY DEF Whole, Candidates
<1>1. ASSUME NEW t \in Txs, NEW h \in BtcHeights \cup {Unconfirmed}, OnTxAdded(t, h) \/ OnTxUpdated(t, h)
      PROVE  FlagInv'
  <2>1. h \in Heights /\ btcHeight' = [btcHeight EXCEPT ![t] = h] /\ possibleReActivation' = TRUE
    BY <1>1 DEF OnTxAdded, OnTxUpdated, Heights
  <2>2. HeightsBounded(btcHeight')
    BY <1>a, <2>1, BoundedStep
  <2> QED BY <2>1, <2>2 DEF FlagInv
<1>2. ASSUME NEW t \in Txs, OnTxDeleted(t) PROVE FlagInv'
  <2>1. /\ btcHeight' = [btcHeight EXCEPT ![t] = Absent] /\ t \in Indexed(btcHeight)
        /\ top' = Deleted(btcHeight, t).top /\ possibleReActivation' = Deleted(btcHeight, t).flag
    BY <1>2 DEF OnTxDeleted
  <2>2. HeightsBounded(btcHeight')
    BY <1>a, <2>1, BoundedStep
  <2>3. ASSUME ~possibleReActivation' PROVE Settled(btcHeight', top')
    <3>1. ~(top # NullTx /\ t \in Follow(btcHeight, top, {u \in Txs : btcHeight[u] >= btcHeight[t]}) /\ btcHeight[top] >= btcHeight[t])
      BY <2>1, <2>3 DEF Deleted
    <3>2. top' = top /\ possibleReActivation' = possibleReActivation
      BY <2>1, <3>1 DEF Deleted
    <3>3. t # top
      <4> SUFFICES ASSUME t = top PROVE FALSE
        OBVIOUS
      <4>1. top # NullTx /\ top \in Txs
        BY TxAssumption
      <4>2. top \in Follow(btcHeight, top, {u \in Txs : btcHeight[u] >= btcHeight[t]})
        BY <4>1, FollowClosed
      <4>3. btcHeight[t] \in Int
        BY <1>a, BtcAssumption DEF Heights, BtcHeights, Unconfirmed, Absent
      <4>4. btcHeight[top] >= btcHeight[t]
        BY <4>3
      <4> QED BY <3>1, <4>1, <4>2, <4>4
    <3>4. \A u \in Indexed(btcHeight') : u \in Indexed(btcHeight) /\ btcHeight'[u] = btcHeight[u]
      BY <1>a, <2>1 DEF Indexed
    <3>5. top # NullTx => btcHeight'[top] = btcHeight[top]
      BY <1>a, <2>1, <3>3 DEF Candidates
    <3>6. Settled(btcHeight, top)
      BY <1>a, <2>3, <3>2
    <3> QED BY <3>2, <3>4, <3>5, <3>6 DEF Settled
  <2> QED BY <2>2, <2>3 DEF FlagInv
<1>3. ASSUME NEW h \in 0 .. MaxBtcHeight, NEW forced \in BOOLEAN, CheckActiveAnchor(h, forced) PROVE FlagInv'
  <2>1. btcHeight' = btcHeight /\ ActivateBestAnchor(btcHeight, h, top, possibleReActivation, forced)
    BY <1>3 DEF CheckActiveAnchor
  <2> QED BY <1>a, <2>1, ActivateSettled DEF FlagInv
<1>4. ASSUME NEW h \in 0 .. MaxBtcHeight, UpdateLastHeight(h) PROVE FlagInv'
  BY <1>4, <1>a DEF UpdateLastHeight, FlagInv
<1>5. ASSUME NEW b \in [Txs -> Heights], HeightsBounded(b), NEW h \in 0 .. MaxBtcHeight, Load(b, h)
      PROVE  FlagInv'
  <2>1. btcHeight' = b /\ ActivateBestAnchor(b, h, NullTx, FALSE, TRUE)
    BY <1>5 DEF Load
  <2>2. ~possibleReActivation' => Settled(b, top')
    BY <1>5, <1>n, <2>1, ActivateSettled
  <2> QED BY <1>5, <2>1, <2>2 DEF FlagInv
<1>6. ASSUME NEW h \in 0 .. MaxBtcHeight, Restart(h) PROVE FlagInv'
  BY <1>5, <1>6, <1>a DEF Restart
<1>7. ASSUME NEW t \in Txs, NEW h \in 0 .. MaxBtcHeight, CrashInUpdate(t, h) PROVE FlagInv'
  <2>1. Load([btcHeight EXCEPT ![t] = Absent], h)
    BY <1>7 DEF CrashInUpdate
  <2>2. [btcHeight EXCEPT ![t] = Absent] \in [Txs -> Heights] /\ HeightsBounded([btcHeight EXCEPT ![t] = Absent])
    BY <1>a, BoundedStep
  <2> QED BY <1>5, <2>1, <2>2
<1>8. CASE Rescan
  <2>1. btcHeight' = btcHeight /\ ActivateBestAnchor(btcHeight, spvLastHeight, top, possibleReActivation, TRUE)
    BY <1>8 DEF Rescan
  <2> QED BY <1>a, <2>1, ActivateSettled DEF FlagInv
<1>9. CASE UNCHANGED vars
  BY <1>9, <1>a DEF vars, FlagInv
<1> QED
  BY <1>1, <1>2, <1>3, <1>4, <1>6, <1>7, <1>8, <1>9 DEF Next

(***************************************************************************)
(* possibleReActivation, which lets ActivateBestAnchor return at once, is  *)
(* clear only when no indexed anchor could be chosen above or instead of   *)
(* the top, whatever the order of callbacks, checks and restarts.          *)
(***************************************************************************)
THEOREM FlagIsNeverLost == Spec => []PendingNotForgotten
<1>1. Init => FlagInv
  <2> SUFFICES ASSUME Init PROVE FlagInv
    OBVIOUS
  <2>1. Indexed(btcHeight) = {}
    BY DEF Init, Indexed
  <2>2. HeightsBounded(btcHeight)
    BY <2>1 DEF HeightsBounded
  <2> QED BY <2>1, <2>2 DEF FlagInv, Settled
<1>2. FlagInv => PendingNotForgotten
  BY DEF FlagInv, Settled, PendingNotForgotten
<1> QED
  BY InvInit, InvNext, FlagStep, <1>1, <1>2, PTL DEF Spec

=============================================================================
