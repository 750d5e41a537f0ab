-------------------------- MODULE AnchorAuthsProofs --------------------------
(***************************************************************************)
(* Proofs about the votes for anchors, for every tree of blocks, all teams *)
(* and all heights, lags and frequencies.                                  *)
(***************************************************************************)
EXTENDS AnchorAuths, BlockTreeLemmas, SequenceTheorems

-----------------------------------------------------------------------------
(* Numbers, and the fork of two chains.                                    *)

\* A multiple is the one number below the divisor that it can be.
LEMMA SmallMultiple ==
    ASSUME NEW F \in Nat \ {0}, NEW k \in Int, NEW r \in 0 .. (F - 1), F * k = r
    PROVE  r = 0
<1>1. k >= 1 => F * k >= F
  OBVIOUS
<1>2. k <= 0 => F * k <= 0
  OBVIOUS
<1> QED
  BY <1>1, <1>2

\* A frequency after a height that is due, another one is.
LEMMA NextMultiple ==
    ASSUME NEW F \in Nat \ {0}, NEW h \in Nat, h % F = 0
    PROVE  (h + F) % F = 0
<1>1. ASSUME NEW n \in Nat
      PROVE  n = F * (n \div F) + (n % F) /\ n % F \in 0 .. (F - 1) /\ n \div F \in Int
  OBVIOUS
<1> DEFINE q == h \div F
           p == (h + F) \div F
           r == (h + F) % F
<1>2. h = F * q /\ q \in Int
  BY <1>1
<1>3. h + F = F * p + r /\ r \in 0 .. (F - 1) /\ p \in Int
  BY <1>1, h + F \in Nat
<1> HIDE DEF q, p, r
<1>4. F * (q + 1 - p) = r
  <2>1. F * (q + 1 - p) = F * q + F - F * p
    BY <1>2, <1>3
  <2> QED BY <1>2, <1>3, <2>1
<1>5. r = 0
  BY <1>2, <1>3, <1>4, SmallMultiple
<1> QED
  BY <1>5 DEF r

\* FindFork: the highest block of both chains.
LEMMA ForkFacts ==
    ASSUME NEW b \in Blocks, NEW c \in Blocks
    PROVE  ForkHeight(b, c) \in Nat /\ ForkHeight(b, c) <= Height[b]
<1> DEFINE S == Chain[b] \cap Chain[c]
<1>1. S \in SUBSET Blocks /\ Genesis \in S
  BY ChainOf, ChainEnds
<1>2. IsFiniteSet(S)
  BY ChainFinite, FS_Subset
<1>3. PICK f \in S : \A g \in S : Height[g] <= Height[f]
  <2> HIDE DEF S
  <2> QED BY <1>1, <1>2, HighestExists
<1>4. ForkHeight(b, c) \in {Height[g] : g \in S}
  BY <1>3 DEF ForkHeight
<1>5. \A g \in S : Height[g] \in Nat /\ Height[g] <= Height[b]
  BY ChainBelow
<1> QED
  BY <1>4, <1>5

-----------------------------------------------------------------------------
(* The invariant.                                                          *)

\* The anchors of the index are the active one and those before it, by height.
IndexInv ==
    /\ top \in Seq(Blocks)
    /\ indexed = {SubSeq(top, 1, n) : n \in 1 .. Len(top)}
    /\ \A i, j \in 1 .. Len(top) : i < j => Height[top[i]] < Height[top[j]]

\* The threads were given blocks that are not higher than the tip.
CallsInv ==
    /\ tip \in Blocks /\ calls \in SUBSET (Blocks \X Blocks)
    /\ \A c \in calls : Height[c[2]] <= Height[tip]

\* The teams, once the anchors are there.
Named(p)    == IF p = <<>> THEN GenesisTeam ELSE NextTeam[p[Len(p)]]
SignedBy(p) == IF p = <<>> \/ Len(p) = 1 THEN GenesisTeam ELSE NextTeam[p[Len(p) - 1]]

\* A vote is from a member of the team that the anchor before it names, or
\* from this node, if it was in the team that signed that anchor.
VotesInv ==
    \A v \in auths :
        /\ v.block \in Blocks \ {Genesis} /\ v.signer \in Operators
        /\ v.prev \in Seq(Blocks)
        /\ v.signer \in Named(v.prev) \/ v.signer \in SignedBy(v.prev)

AuthInv == IndexInv /\ CallsInv /\ VotesInv

\* What the index has of the active anchor.
LEMMA TopFacts ==
    ASSUME IndexInv
    PROVE  /\ Len(top) \in Nat /\ \A i \in 1 .. Len(top) : top[i] \in Blocks /\ Height[top[i]] \in Nat
           /\ top = <<>> \/ (Len(top) > 0 /\ top \in indexed)
           /\ \A a \in indexed : a \in Seq(Blocks) /\ a # <<>>
           /\ AnchorHeight(top) \in Nat
<1>1. Len(top) \in Nat /\ \A i \in 1 .. Len(top) : top[i] \in Blocks
  BY LenProperties, ElementOfSeq DEF IndexInv
<1>2. \A i \in 1 .. Len(top) : Height[top[i]] \in Nat
  BY <1>1, TreeAssumption
<1>3. ASSUME NEW n \in 1 .. Len(top)
      PROVE  SubSeq(top, 1, n) \in Seq(Blocks) /\ SubSeq(top, 1, n) # <<>> /\ Len(SubSeq(top, 1, n)) = n
  BY <1>1 DEF IndexInv
<1>4. top # <<>> => Len(top) > 0 /\ top \in indexed
  <2> SUFFICES ASSUME top # <<>> PROVE Len(top) > 0 /\ top \in indexed
    OBVIOUS
  <2>1. Len(top) > 0
    BY <1>1, EmptySeq DEF IndexInv
  <2>2. SubSeq(top, 1, Len(top)) = top
    BY <1>1 DEF IndexInv
  <2> QED BY <1>1, <2>1, <2>2 DEF IndexInv
<1>5. AnchorHeight(top) \in Nat
  BY <1>1, <1>2, <1>4 DEF AnchorHeight, BlockHash
<1> QED
  BY <1>1, <1>2, <1>3, <1>4, <1>5 DEF IndexInv

\* The teams of the active anchor.
LEMMA TeamFacts ==
    ASSUME IndexInv
    PROVE  /\ \A p \in indexed \cup {<<>>} : GetNextTeam(p) = Named(p)
           /\ GetCurrentTeam(top) = SignedBy(top)
<1>1. \A p \in indexed \cup {<<>>} : GetNextTeam(p) = Named(p)
  BY DEF GetNextTeam, Named, BlockHash
<1>2. CASE top = <<>>
  BY <1>1, <1>2 DEF GetCurrentTeam, SignedBy
<1>3. CASE top # <<>>
  <2>1. Len(top) \in Nat /\ Len(top) > 0 /\ top \in Seq(Blocks)
    BY <1>3, TopFacts DEF IndexInv
  <2>2. CASE Len(top) = 1
    <3>1. PreviousAnchor(top) = <<>>
      BY <2>1, <2>2 DEF PreviousAnchor
    <3> QED BY <1>1, <1>3, <2>2, <3>1 DEF GetCurrentTeam, SignedBy, Named
  <2>3. CASE Len(top) > 1
    <3> DEFINE n == Len(top) - 1
    <3>1. n \in 1 .. Len(top) /\ PreviousAnchor(top) = SubSeq(top, 1, n)
      BY <2>1, <2>3 DEF PreviousAnchor
    <3>2. PreviousAnchor(top) \in indexed
      BY <3>1 DEF IndexInv
    <3>3. Len(PreviousAnchor(top)) = n /\ PreviousAnchor(top)[n] = top[n] /\ PreviousAnchor(top) # <<>>
      <4> HIDE DEF n
      <4>1. Len(SubSeq(top, 1, n)) = n /\ SubSeq(top, 1, n)[n] = top[n]
        BY <2>1, <3>1
      <4>2. PreviousAnchor(top) # <<>>
        BY <3>2, TopFacts
      <4> QED BY <3>1, <4>1, <4>2
    <3>4. GetCurrentTeam(top) = Named(PreviousAnchor(top))
      BY <1>1, <1>3, <3>2 DEF GetCurrentTeam
    <3>5. Named(PreviousAnchor(top)) = NextTeam[top[n]]
      BY <3>3 DEF Named
    <3>6. SignedBy(top) = NextTeam[top[n]]
      <4>1. Len(top) # 1
        BY <2>3, TopFacts
      <4> QED BY <1>3, <4>1, Zenon DEF SignedBy
    <3> QED BY <1>1, <3>4, <3>5, <3>6
  <2>4. Len(top) = 1 \/ Len(top) > 1
    <3>1. \A n \in Nat : n > 0 => n = 1 \/ n > 1
      OBVIOUS
    <3> QED BY <2>1, <3>1, Zenon
  <2> QED BY <2>2, <2>3, <2>4
<1> QED
  BY <1>1, <1>2, <1>3

-----------------------------------------------------------------------------
(* The steps.                                                              *)

\* The blocks for which this node votes.
LEMMA MyVotes ==
    ASSUME IndexInv, CallsInv, NEW c \in calls, NEW v \in MyAuths(c[1], c[2])
    PROVE  /\ v.prev = top /\ v.signer = Me /\ v.block \in Blocks \ {Genesis}
           /\ Me \in GetCurrentTeam(top)
<1>1. /\ AnchorHeight(top) \in Nat /\ tip \in Blocks /\ Height[tip] \in Nat
      /\ c[1] \in Blocks /\ c[2] \in Blocks /\ Height[c[2]] <= Height[tip] /\ Height[c[2]] \in Nat
  BY TopFacts, TreeAssumption DEF CallsInv
<1>2. PICK h \in Visited(c[1], c[2]) :
        Eligible(h) /\ v = [prev |-> top, block |-> At(tip, h - AnchoringLag), signer |-> Me]
  BY DEF MyAuths
<1>3. Me \in GetCurrentTeam(top)
  BY DEF MyAuths
<1>4. PICK d \in Chain[c[2]] : h = Height[d]
  BY <1>2 DEF Visited
<1>5. h \in Nat /\ h <= Height[tip]
  <2>1. h \in Nat /\ h <= Height[c[2]]
    BY <1>1, <1>4, ChainBelow
  <2> QED BY <1>1, <2>1
<1>6. h - AnchoringLag > AnchorHeight(top) /\ AnchoringLag \in Nat
  BY <1>2, AuthAssumption DEF Eligible
<1>7. h - AnchoringLag \in 0 .. Height[tip] /\ h - AnchoringLag # 0
  BY <1>1, <1>5, <1>6
<1>8. At(tip, h - AnchoringLag) \in Blocks /\ Height[At(tip, h - AnchoringLag)] = h - AnchoringLag
  <2> DEFINE k == h - AnchoringLag
  <2>1. k \in 0 .. Height[tip]
    BY <1>7
  <2> HIDE DEF k
  <2>2. At(tip, k) \in Blocks /\ Height[At(tip, k)] = k
    BY <1>1, <2>1, ChainAt
  <2> QED BY <2>2 DEF k
<1>9. At(tip, h - AnchoringLag) # Genesis
  BY <1>7, <1>8, TreeAssumption
<1> QED
  BY <1>2, <1>3, <1>8, <1>9

\* An anchor that is made is for a block, on top of the active one.
LEMMA MadeFacts ==
    ASSUME AuthInv, SendAnchor \/ OthersAnchor
    PROVE  \E x \in Blocks : Activate(top, x)
<1>1. CASE SendAnchor
  <2>1. PICK a \in CreateBestAnchor : Activate(a.prev, a.block)
    BY <1>1 DEF SendAnchor
  <2>2. PICK g \in Groups : a.prev = g[1] /\ a.block = g[2]
    BY DEF CreateBestAnchor, BestAnchors
  <2>3. g[2] \in Blocks
    BY DEF Groups, AuthInv, VotesInv
  <2>4. a.prev = top
    BY <2>1 DEF Activate
  <2> QED BY <2>1, <2>2, <2>3, <2>4
<1>2. CASE OthersAnchor
  BY <1>2, ChainOf DEF OthersAnchor, AuthInv, CallsInv
<1> QED
  BY <1>1, <1>2

\* ActivateAnchor puts a confirmed anchor, higher than the top, on top of it.
LEMMA ActivateStep ==
    ASSUME IndexInv, NEW b \in Blocks, Activate(top, b)
    PROVE  IndexInv'
<1> DEFINE n == Len(top)
           t == Append(top, b)
<1>1. /\ n \in Nat /\ top \in Seq(Blocks) /\ indexed = {SubSeq(top, 1, i) : i \in 1 .. n}
      /\ \A i \in 1 .. n : top[i] \in Blocks /\ Height[top[i]] \in Nat
  BY TopFacts DEF IndexInv
<1>2. /\ t \in Seq(Blocks) /\ Len(t) = n + 1 /\ t[n + 1] = b /\ \A i \in 1 .. n : t[i] = top[i]
  BY <1>1, AppendProperties
<1>3. top' = t /\ indexed' = indexed \cup {t} /\ Height[b] > AnchorHeight(top)
  BY DEF Activate
<1>4. ASSUME NEW i \in 1 .. n
      PROVE  SubSeq(t, 1, i) = SubSeq(top, 1, i)
  <2> HIDE DEF t
  <2> QED BY <1>1, <1>2
<1>5. SubSeq(t, 1, n + 1) = t
  <2> HIDE DEF t
  <2> QED BY <1>1, <1>2
<1>6. indexed \cup {t} = {SubSeq(t, 1, i) : i \in 1 .. (n + 1)}
  <2> HIDE DEF t
  <2>1. \A i \in 1 .. (n + 1) : i \in 1 .. n \/ i = n + 1
    BY <1>1
  <2>2. \A i \in 1 .. n : i \in 1 .. (n + 1)
    BY <1>1
  <2>3. n + 1 \in 1 .. (n + 1)
    BY <1>1
  <2> HIDE DEF n
  <2> QED BY <1>1, <1>4, <1>5, <2>1, <2>2, <2>3
<1>7. ASSUME NEW i \in 1 .. (n + 1), NEW j \in 1 .. (n + 1), i < j
      PROVE  Height[t[i]] < Height[t[j]]
  <2>1. i \in 1 .. n
    BY <1>1, <1>7
  <2>2. CASE j \in 1 .. n
    BY <1>2, <1>7, <2>1, <2>2 DEF IndexInv
  <2>3. CASE j = n + 1
    <3>1. n > 0 /\ top # <<>> /\ AnchorHeight(top) = Height[top[n]] /\ n \in 1 .. n
      BY <1>1, <2>1, EmptySeq DEF AnchorHeight, BlockHash
    <3>2. i = n \/ Height[top[i]] < Height[top[n]]
      BY <1>1, <2>1, <3>1 DEF IndexInv
    <3>3. Height[b] \in Nat
      BY TreeAssumption
    <3>4. Height[top[i]] < Height[b]
      BY <1>1, <1>3, <2>1, <3>1, <3>2, <3>3
    <3> QED BY <1>2, <2>1, <2>3, <3>4
  <2> QED BY <1>1, <2>2, <2>3
<1> HIDE DEF t, n
<1> QED
  BY <1>2, <1>3, <1>6, <1>7 DEF IndexInv

\* CheckActiveAnchor takes the deepest confirmed anchor off when it is disconnected.
LEMMA DeleteStep ==
    ASSUME IndexInv, DeleteAnchor
    PROVE  IndexInv'
<1> DEFINE n == Len(top)
           t == SubSeq(top, 1, n - 1)
<1>1. /\ n \in Nat /\ top \in Seq(Blocks) /\ indexed = {SubSeq(top, 1, i) : i \in 1 .. n}
  BY TopFacts DEF IndexInv
<1>2. n > 0
  BY <1>1 DEF DeleteAnchor
<1>3. n - 1 \in 0 .. n
  BY <1>1, <1>2
<1>4. t \in Seq(Blocks) /\ Len(t) = n - 1 /\ \A i \in 1 .. (n - 1) : t[i] = top[i]
  <2> DEFINE m == n - 1
  <2>1. m \in Nat /\ m <= n /\ m \in Int /\ 1 \in Int
    BY <1>1, <1>2
  <2> HIDE DEF m, n
  <2>2. SubSeq(top, 1, m) \in Seq(Blocks) /\ Len(SubSeq(top, 1, m)) = m /\ \A i \in 1 .. m : SubSeq(top, 1, m)[i] = top[i]
    BY <1>1, <2>1 DEF n
  <2> QED BY <2>2 DEF m
<1>5. top' = t /\ indexed' = indexed \ {top}
  BY DEF DeleteAnchor, PreviousAnchor
<1>6. ASSUME NEW i \in 1 .. (n - 1)
      PROVE  SubSeq(t, 1, i) = SubSeq(top, 1, i) /\ SubSeq(top, 1, i) # top
  <2>1. SubSeq(t, 1, i) = SubSeq(top, 1, i)
    <3> HIDE DEF t
    <3> QED BY <1>1, <1>4
  <2>2. Len(SubSeq(top, 1, i)) = i /\ i # n
    BY <1>1, <1>2
  <2> QED BY <2>1, <2>2
<1>7. SubSeq(top, 1, n) = top
  BY <1>1
<1>8. indexed \ {top} = {SubSeq(t, 1, i) : i \in 1 .. (n - 1)}
  <2> HIDE DEF t
  <2>1. \A i \in 1 .. n : i \in 1 .. (n - 1) \/ i = n
    BY <1>1
  <2>2. \A i \in 1 .. (n - 1) : i \in 1 .. n
    BY <1>1
  <2> HIDE DEF n
  <2> QED BY <1>1, <1>6, <1>7, <2>1, <2>2
<1>9. \A i, j \in 1 .. (n - 1) : i < j => Height[t[i]] < Height[t[j]]
  <2>1. \A i \in 1 .. (n - 1) : i \in 1 .. n
    BY <1>1
  <2> HIDE DEF t
  <2> QED BY <1>4, <2>1 DEF IndexInv
<1> HIDE DEF t, n
<1> QED
  BY <1>4, <1>5, <1>8, <1>9 DEF IndexInv

\* Index, announcements under way and votes stay in order, whatever the threads do next.
LEMMA AuthStep ==
    ASSUME AuthInv, [Next]_vars
    PROVE  AuthInv'
<1>0. IndexInv /\ CallsInv /\ VotesInv
  BY DEF AuthInv
<1>1. ASSUME NEW t \in Blocks, NewTip(t)
      PROVE  AuthInv'
  <2>1. tip' = t /\ calls' = calls \cup {<<tip, t>>} /\ UNCHANGED <<auths, indexed, top>> /\ Height[t] > Height[tip]
    BY <1>1 DEF NewTip
  <2>2. \A b \in Blocks : Height[b] \in Nat
    BY TreeAssumption
  <2>3. tip \in Blocks /\ calls \in SUBSET (Blocks \X Blocks)
    BY <1>0 DEF CallsInv
  <2>4. \A c \in calls : Height[c[2]] <= Height[t]
    <3> SUFFICES ASSUME NEW c \in calls PROVE Height[c[2]] <= Height[t]
      OBVIOUS
    <3>1. Height[c[2]] <= Height[tip] /\ c[2] \in Blocks
      BY <1>0 DEF CallsInv
    <3> QED BY <2>1, <2>2, <2>3, <3>1
  <2>5. \A c \in calls \cup {<<tip, t>>} : Height[c[2]] <= Height[t]
    BY <2>2, <2>4
  <2>6. CallsInv'
    BY <2>1, <2>3, <2>5 DEF CallsInv
  <2> QED BY <1>0, <2>1, <2>6 DEF AuthInv, IndexInv, VotesInv
<1>2. ASSUME NEW c \in calls, ProcessAuthsIfTipChanged(c[1], c[2])
      PROVE  AuthInv'
  <2>1. calls' \subseteq calls /\ auths' = auths \cup MyAuths(c[1], c[2]) /\ UNCHANGED <<tip, indexed, top>>
    BY <1>2 DEF ProcessAuthsIfTipChanged
  <2>2. ASSUME NEW v \in MyAuths(c[1], c[2])
        PROVE  /\ v.block \in Blocks \ {Genesis} /\ v.signer \in Operators /\ v.prev \in Seq(Blocks)
               /\ v.signer \in SignedBy(v.prev)
    BY <1>0, MyVotes, TeamFacts, AuthAssumption DEF IndexInv
  <2>3. VotesInv'
    BY <1>0, <2>1, <2>2 DEF VotesInv
  <2> QED BY <1>0, <2>1, <2>3 DEF AuthInv, IndexInv, CallsInv
<1>3. ASSUME NEW v \in [prev : indexed \cup {<<>>}, block : Aligned, signer : Operators \ {Me}], RecvAuth(v)
      PROVE  AuthInv'
  <2>1. auths' = auths \cup {v} /\ UNCHANGED <<tip, calls, indexed, top>> /\ v.signer \in GetNextTeam(v.prev)
    BY <1>3 DEF RecvAuth, ValidateAuth
  <2>2. v.prev \in indexed \cup {<<>>} /\ v.block \in Blocks \ {Genesis} /\ v.signer \in Operators
    BY DEF Aligned
  <2>3. v.prev \in Seq(Blocks) /\ v.signer \in Named(v.prev)
    <3>1. <<>> \in Seq(Blocks)
      BY EmptySeq
    <3>2. GetNextTeam(v.prev) = Named(v.prev)
      BY <1>0, <2>2, TeamFacts
    <3>3. v.prev \in Seq(Blocks)
      BY <1>0, <2>2, <3>1, TopFacts
    <3> QED BY <2>1, <3>2, <3>3
  <2>4. VotesInv'
    BY <1>0, <2>1, <2>2, <2>3 DEF VotesInv
  <2> QED BY <1>0, <2>1, <2>4 DEF AuthInv, IndexInv, CallsInv
<1>4. CASE SendAnchor \/ OthersAnchor
  <2>1. PICK b \in Blocks : Activate(top, b)
    BY <1>4, MadeFacts
  <2>2. IndexInv' /\ UNCHANGED <<tip, calls, auths>>
    BY <1>0, <2>1, ActivateStep DEF Activate
  <2> QED BY <1>0, <2>2 DEF AuthInv, CallsInv, VotesInv
<1>5. CASE DeleteAnchor
  <2>1. IndexInv' /\ UNCHANGED <<tip, calls, auths>>
    BY <1>0, <1>5, DeleteStep DEF DeleteAnchor
  <2> QED BY <1>0, <2>1 DEF AuthInv, CallsInv, VotesInv
<1>6. ASSUME NEW c \in indexed, Prune(c)
      PROVE  AuthInv'
  <2>1. auths' \subseteq auths /\ UNCHANGED <<tip, calls, indexed, top>>
    BY <1>6 DEF Prune
  <2> QED BY <1>0, <2>1 DEF AuthInv, IndexInv, CallsInv, VotesInv
<1>7. CASE UNCHANGED vars
  BY <1>0, <1>7 DEF vars, AuthInv, IndexInv, CallsInv, VotesInv
<1> QED
  BY <1>1, <1>2, <1>3, <1>4, <1>5, <1>6, <1>7 DEF Next

-----------------------------------------------------------------------------
(* The theorems.                                                           *)

\* So they are in order in every reachable state.
LEMMA AuthInvariant == Spec => []AuthInv
<1>1. Init => AuthInv
  <2> SUFFICES ASSUME Init PROVE AuthInv
    OBVIOUS
  <2>1. top \in Seq(Blocks) /\ Len(top) = 0
    BY EmptySeq DEF Init
  <2>2. 1 .. Len(top) = {}
    BY <2>1
  <2>3. IndexInv
    BY <2>1, <2>2 DEF Init, IndexInv
  <2> QED BY <2>3, TreeAssumption DEF Init, AuthInv, CallsInv, VotesInv
<1>2. AuthInv /\ [Next]_vars => AuthInv'
  BY AuthStep
<1> QED
  BY <1>1, <1>2, PTL DEF Spec

(***************************************************************************)
(* Votes are for blocks after the first and from operators, also those     *)
(* that a thread makes which read the tip before it was replaced, and the  *)
(* active anchor is in the index whatever Bitcoin drops.                   *)
(***************************************************************************)
THEOREM AuthsTypeCorrect == Spec => []TypeOK
<1>1. AuthInv => TypeOK
  <2> SUFFICES ASSUME AuthInv PROVE TypeOK
    OBVIOUS
  <2>1. top = <<>> \/ top \in indexed
    BY TopFacts DEF AuthInv
  <2> QED BY <2>1 DEF AuthInv, CallsInv, VotesInv, TypeOK
<1> QED
  BY <1>1, AuthInvariant, PTL

\* Before the first anchor, no vote is on top of one.
FirstInv == top = <<>> => \A v \in auths : v.prev = <<>>

\* With a first anchor that stays, there is no vote on top of an anchor before it.
LEMMA FirstStep ==
    ASSUME FirstStays, AuthInv, FirstInv, [Next]_vars
    PROVE  FirstInv'
<1>0. IndexInv /\ CallsInv
  BY DEF AuthInv
<1>1. ASSUME NEW c \in calls, ProcessAuthsIfTipChanged(c[1], c[2])
      PROVE  FirstInv'
  <2>1. auths' = auths \cup MyAuths(c[1], c[2]) /\ top' = top
    BY <1>1 DEF ProcessAuthsIfTipChanged
  <2>2. \A v \in MyAuths(c[1], c[2]) : v.prev = top
    BY <1>0, MyVotes
  <2> QED BY <2>1, <2>2 DEF FirstInv
<1>2. ASSUME NEW v \in [prev : indexed \cup {<<>>}, block : Aligned, signer : Operators \ {Me}], RecvAuth(v)
      PROVE  FirstInv'
  <2>1. auths' = auths \cup {v} /\ top' = top
    BY <1>2 DEF RecvAuth
  <2>2. top = <<>> => indexed = {}
    <3> SUFFICES ASSUME top = <<>> PROVE indexed = {}
      OBVIOUS
    <3>1. Len(top) = 0
      BY EmptySeq
    <3>2. 1 .. Len(top) = {}
      BY <3>1
    <3> QED BY <1>0, <3>2 DEF IndexInv
  <2>3. top = <<>> => v.prev = <<>>
    BY <2>2
  <2> QED BY <2>1, <2>3 DEF FirstInv
<1>3. CASE SendAnchor \/ OthersAnchor
  <2>1. PICK b \in Blocks : Activate(top, b)
    BY <1>3, MadeFacts
  <2>2. top' # <<>>
    BY <1>0, <2>1, AppendProperties DEF Activate, IndexInv
  <2> QED BY <2>2 DEF FirstInv
<1>4. CASE DeleteAnchor
  <2>1. Len(top) \in Nat /\ Len(top) > 1 /\ top' = SubSeq(top, 1, Len(top) - 1)
    BY <1>0, <1>4, TopFacts DEF DeleteAnchor, PreviousAnchor
  <2>2. Len(top) - 1 \in 1 .. Len(top)
    <3>1. \A n \in Nat : n > 1 => n - 1 \in 1 .. n
      OBVIOUS
    <3> QED BY <2>1, <3>1, Zenon
  <2>3. top' # <<>>
    <3>1. top' \in indexed
      BY <1>0, <2>1, <2>2 DEF IndexInv
    <3> QED BY <1>0, <3>1, TopFacts
  <2> QED BY <2>3 DEF FirstInv
<1>5. CASE top' = top /\ auths' \subseteq auths
  BY <1>5 DEF FirstInv
<1> QED
  BY <1>1, <1>2, <1>3, <1>4, <1>5 DEF Next, NewTip, Prune, vars

\* What CreateBestAnchor makes of the votes passes ValidateAnchor.
LEMMA BestIsValid ==
    ASSUME AuthInv, FirstInv, GetCurrentTeam(top) = GetNextTeam(top), NEW a \in CreateBestAnchor
    PROVE  ValidateAnchor(a)
<1>1. PICK g \in Groups : a.prev = g[1] /\ a.block = g[2]
  BY DEF CreateBestAnchor, BestAnchors
<1>2. PICK w \in auths : g = <<w.prev, w.block>>
  BY DEF Groups
<1>3. a.prev = top
  BY <1>1, <1>2 DEF Groups, FirstInv
<1>4. Height[a.block] > AnchorHeight(top)
  BY <1>1 DEF Groups
<1>5. IndexInv /\ VotesInv
  BY DEF AuthInv
<1>6. top \in indexed \cup {<<>>} /\ GetNextTeam(top) = Named(top) /\ GetCurrentTeam(top) = SignedBy(top)
  BY <1>5, TopFacts, TeamFacts
<1>7. ASSUME NEW v \in Group(a.prev, a.block)
      PROVE  v.signer \in GetNextTeam(top)
  <2>1. v \in auths /\ v.prev = top
    BY <1>3 DEF Group
  <2> QED BY <1>5, <1>6, <2>1 DEF VotesInv
<1>8. a.sigs \subseteq GetNextTeam(top)
  BY <1>7 DEF CreateBestAnchor
<1> QED
  BY <1>3, <1>4, <1>6, <1>8 DEF ValidateAnchor

(***************************************************************************)
(* If Bitcoin keeps the first anchor, what CreateBestAnchor makes of the   *)
(* votes passes ValidateAnchor whenever the active anchor names the team   *)
(* that signed it, although votes are not checked again: a vote is bound   *)
(* to the anchor before it, and the teams of this anchor do not change.    *)
(***************************************************************************)
THEOREM MadeAnchorsAreValid == ASSUME FirstStays PROVE Spec => []BestAnchorIsValid
<1>1. Init => FirstInv
  BY DEF Init, FirstInv
<1>2. AuthInv /\ FirstInv /\ [Next]_vars => FirstInv'
  BY FirstStep
<1>3. AuthInv /\ FirstInv => BestAnchorIsValid
  BY BestIsValid DEF BestAnchorIsValid
<1> QED
  BY <1>1, <1>2, <1>3, AuthInvariant, PTL DEF Spec

-----------------------------------------------------------------------------
\* PruneOlderThan takes no vote of a group that CreateBestAnchor could pick.
LEMMA PruneStep ==
    ASSUME AuthInv, NEW c \in indexed, Prune(c)
    PROVE  CreateBestAnchor' = CreateBestAnchor
<1>1. IndexInv /\ VotesInv
  BY DEF AuthInv
<1>2. auths' = {v \in auths : ~(Height[v.block] < AnchorHeight(c) + 1)} /\ UNCHANGED <<indexed, top>>
  BY DEF Prune, OlderThan
<1>3. AnchorHeight(c) \in Nat /\ AnchorHeight(c) <= AnchorHeight(top) /\ AnchorHeight(top) \in Nat
  <2>1. PICK n \in 1 .. Len(top) : c = SubSeq(top, 1, n)
    BY <1>1 DEF IndexInv
  <2>2. /\ Len(top) \in Nat /\ top \in Seq(Blocks) /\ AnchorHeight(top) \in Nat
        /\ \A i \in 1 .. Len(top) : Height[top[i]] \in Nat
    BY <1>1, TopFacts DEF IndexInv
  <2>3. Len(c) = n /\ c[n] = top[n] /\ c # <<>>
    BY <2>1, <2>2
  <2>4. AnchorHeight(c) = Height[top[n]]
    BY <2>3 DEF AnchorHeight, BlockHash
  <2>5. Len(top) \in 1 .. Len(top) /\ top # <<>>
    BY <2>1, <2>2, EmptySeq
  <2>6. AnchorHeight(top) = Height[top[Len(top)]]
    BY <2>5 DEF AnchorHeight, BlockHash
  <2>7. n = Len(top) \/ n < Len(top)
    BY <2>1, <2>2
  <2>8. n < Len(top) => Height[top[n]] < Height[top[Len(top)]]
    BY <1>1, <2>1, <2>5 DEF IndexInv
  <2>9. Height[top[n]] \in Nat /\ Height[top[Len(top)]] \in Nat
    BY <2>1, <2>2, <2>5
  <2>10. Height[top[n]] <= Height[top[Len(top)]]
    <3>1. CASE n = Len(top)
      BY <2>9, <3>1
    <3>2. CASE Height[top[n]] < Height[top[Len(top)]]
      BY <2>9, <3>2
    <3> QED BY <2>7, <2>8, <3>1, <3>2
  <2> QED BY <2>4, <2>6, <2>9, <2>10
<1>4. ASSUME NEW v \in auths, Height[v.block] > AnchorHeight(top)
      PROVE  v \in auths'
  <2>1. Height[v.block] \in Nat
    BY <1>1, TreeAssumption DEF VotesInv
  <2>2. ~(Height[v.block] < AnchorHeight(c) + 1)
    BY <1>3, <1>4, <2>1
  <2> QED BY <1>2, <2>2
<1>5. ASSUME NEW p, NEW b, Height[b] > AnchorHeight(top)
      PROVE  Group(p, b)' = Group(p, b)
  BY <1>2, <1>4, <1>5 DEF Group
<1>6. GetCurrentTeam(top)' = GetCurrentTeam(top)
  BY <1>2 DEF GetCurrentTeam, GetNextTeam
<1>7. Groups' = Groups
  <2> DEFINE G(A) == {<<v.prev, v.block>> : v \in A}
  <2>1. \A g : Height[g[2]] > AnchorHeight(top) => (g \in G(auths') <=> g \in G(auths))
    BY <1>2, <1>4
  <2> HIDE DEF G
  <2>2. Groups = {g \in G(auths) : /\ top # <<>> => g[1] = top
                                   /\ Height[g[2]] > AnchorHeight(top)
                                   /\ Cardinality(Group(g[1], g[2])) >= GetMinAnchorQuorum(GetCurrentTeam(top))}
    BY DEF Groups, G
  <2>3. Groups' = {g \in G(auths') : /\ top # <<>> => g[1] = top
                                     /\ Height[g[2]] > AnchorHeight(top)
                                     /\ Cardinality(Group(g[1], g[2])') >= GetMinAnchorQuorum(GetCurrentTeam(top))}
    BY <1>2, <1>6 DEF Groups, G, AnchorHeight, GetMinAnchorQuorum
  <2> QED BY <1>5, <2>1, <2>2, <2>3
<1>8. BestAnchors' = BestAnchors
  BY <1>7 DEF BestAnchors
<1>9. ASSUME NEW a \in BestAnchors
      PROVE  Group(a.prev, a.block)' = Group(a.prev, a.block)
  <2>1. PICK g \in Groups : a.prev = g[1] /\ a.block = g[2]
    BY DEF BestAnchors
  <2>2. Height[a.block] > AnchorHeight(top)
    BY <2>1 DEF Groups
  <2> QED BY <1>5, <2>2
<1>10. GetMinAnchorQuorum(GetCurrentTeam(top))' = GetMinAnchorQuorum(GetCurrentTeam(top))
  BY <1>6 DEF GetMinAnchorQuorum
<1>11. CreateBestAnchor' =
         {a \in BestAnchors : /\ a.sigs \subseteq {v.signer : v \in Group(a.prev, a.block)'}
                              /\ Cardinality(a.sigs) = GetMinAnchorQuorum(GetCurrentTeam(top))}
  BY <1>8, <1>10 DEF CreateBestAnchor
<1> QED
  BY <1>9, <1>11 DEF CreateBestAnchor

(***************************************************************************)
(* Pruning below a confirmed anchor never takes a vote that                *)
(* CreateBestAnchor would have used: the anchors of a chain grow in height.*)
(***************************************************************************)
THEOREM PruningIsHarmless == Spec => PruneKeepsBest
<1>1. AuthInv /\ [Next]_vars => [(\E c \in indexed : Prune(c)) => CreateBestAnchor' = CreateBestAnchor]_vars
  BY PruneStep
<1> QED
  BY <1>1, AuthInvariant, PTL DEF Spec, PruneKeepsBest

-----------------------------------------------------------------------------
\* The loop reaches the newest height that is due: if it stopped above it, a
\* lag below the fork, another height would be due in between.
LEMMA NewestStep ==
    ASSUME AuthInv, NEW o, <<o, tip>> \in calls, ProcessAuthsIfTipChanged(o, tip), Me \in GetCurrentTeam(top),
           NEW h \in Due, \A i \in Due : i <= h
    PROVE  [prev |-> top, block |-> At(tip, h - AnchoringLag), signer |-> Me] \in auths'
<1> DEFINE A    == AnchorHeight(top)
           fork == ForkHeight(tip, o) - AnchoringLag
           stop == IF fork > A THEN fork ELSE A
<1>1. IndexInv /\ CallsInv
  BY DEF AuthInv
<1>2. tip \in Blocks /\ o \in Blocks /\ Height[tip] \in Nat /\ A \in Nat
  BY <1>1, TreeAssumption, TopFacts DEF CallsInv
<1>3. ForkHeight(tip, o) \in Nat /\ ForkHeight(tip, o) <= Height[tip]
  BY <1>2, ForkFacts
<1>4. AnchoringLag \in Nat /\ AnchoringFrequency \in Nat \ {0} /\ AnchoringFrequency <= AnchoringLag
  BY AuthAssumption
<1>5. h \in Nat /\ h \in 1 .. Height[tip] /\ h - AnchoringLag > A /\ h % AnchoringFrequency = 0
  BY DEF Due, Eligible
<1> HIDE DEF A
<1>6. stop < h
  <2>1. CASE ~(fork > A)
    <3>1. stop = A
      BY <2>1
    <3> QED BY <1>2, <1>4, <1>5, <3>1
  <2>2. CASE fork > A
    <3> SUFFICES ASSUME ~(fork < h) PROVE FALSE
      BY <2>2
    <3> DEFINE g == h + AnchoringFrequency
    <3>1. g \in 1 .. Height[tip] /\ g - AnchoringLag > A /\ g > h
      BY <1>2, <1>3, <1>4, <1>5
    <3>2. g % AnchoringFrequency = 0
      BY <1>4, <1>5, NextMultiple
    <3> HIDE DEF g
    <3>3. g \in Due
      BY <3>1, <3>2 DEF Due, Eligible, A
    <3>4. g <= h
      BY <3>3
    <3> QED BY <1>5, <3>1, <3>4
  <2> QED BY <2>1, <2>2
<1>7. stop \in Nat
  BY <1>2, <1>3, <1>4
<1> HIDE DEF stop
<1>8. At(tip, h) \in Chain[tip] /\ Height[At(tip, h)] = h
  BY <1>2, <1>5, ChainAt
<1>9. h \in Visited(o, tip)
  <2>1. Height[At(tip, h)] > stop
    BY <1>5, <1>6, <1>7, <1>8
  <2>2. \E c \in Chain[tip] : Height[c] > stop /\ Height[c] = h
    BY <1>8, <2>1
  <2> QED BY <2>2 DEF Visited, stop, A
<1>10. Height[tip] > AnchorHeight(top)
  BY <1>2, <1>4, <1>5 DEF A
<1>11. [prev |-> top, block |-> At(tip, h - AnchoringLag), signer |-> Me] \in MyAuths(o, tip)
  BY <1>9, <1>10 DEF MyAuths, Due
<1> QED
  BY <1>11 DEF ProcessAuthsIfTipChanged

(***************************************************************************)
(* A member of the team that goes through its votes for the present tip    *)
(* has then voted for the newest block that is due, on top of the active   *)
(* anchor, whatever forks, anchors and calls came before: the loop of      *)
(* ProcessAuthsIfTipChanged looks a lag below the fork, and the frequency  *)
(* is not larger than the lag.                                             *)
(***************************************************************************)
THEOREM NewestBlockIsVoted == Spec => NewestIsVoted
<1>1. ASSUME AuthInv, NEW c \in calls, ProcessAuthsIfTipChanged(c[1], c[2]), c[2] = tip, Me \in GetCurrentTeam(top),
             NEW h \in Due, \A i \in Due : i <= h
      PROVE  [prev |-> top, block |-> At(tip, h - AnchoringLag), signer |-> Me] \in auths'
  <2>1. <<c[1], tip>> \in calls /\ ProcessAuthsIfTipChanged(c[1], tip)
    BY <1>1 DEF ProcessAuthsIfTipChanged
  <2> QED BY <1>1, <2>1, NewestStep
<1>2. AuthInv /\ [Next]_vars =>
        [\A c \in calls : ProcessAuthsIfTipChanged(c[1], c[2]) /\ c[2] = tip /\ Me \in GetCurrentTeam(top)
            => \A h \in Due : (\A i \in Due : i <= h) =>
                  [prev |-> top, block |-> At(tip, h - AnchoringLag), signer |-> Me] \in auths']_vars
  BY <1>1
<1> QED
  BY <1>2, AuthInvariant, PTL DEF Spec, NewestIsVoted
=============================================================================
