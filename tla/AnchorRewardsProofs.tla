------------------------- MODULE AnchorRewardsProofs -------------------------
(***************************************************************************)
(* Rewards and teams follow the chain, for any anchors, masternodes and    *)
(* choice of teams, and any number of undone blocks and restarts.  The     *)
(* inductive invariant says of the registry and of what is on disk that    *)
(* each is the result of its chain: every reward is signed by a quorum of  *)
(* the team that the one before names, so the transaction alone is enough  *)
(* for DisconnectBlock to find the team before it.                         *)
(***************************************************************************)
EXTENDS AnchorRewards, FiniteSetTheorems, SequenceTheorems, TLAPS

Teams  == (SUBSET Operators) \ {{}}
Reward == [anchor : Anchors, sigs : SUBSET Operators, cur : SUBSET Operators, next : Teams]
States == {Missing, NullHash, Paid}

\* The team in office after the first i rewards of a chain.
InOffice(c, i) == IF i = 0 THEN GenesisTeam ELSE c[i].next

\* Reward b is signed by a quorum of the team t.
SignedBy(b, t) == b.cur = t /\ b.sigs \subseteq t /\ Cardinality(b.sigs) >= GetMinAnchorQuorum(t)

Follows(c, r, t) ==
    /\ c \in Seq(Reward) /\ r \in [Anchors -> States] /\ t \in SUBSET Operators
    /\ \A a \in Anchors : r[a] = Paid <=> \E i \in 1 .. Len(c) : c[i].anchor = a
    /\ \A i, j \in 1 .. Len(c) : c[i].anchor = c[j].anchor => i = j
    /\ \A i \in 1 .. Len(c) : SignedBy(c[i], InOffice(c, i - 1))
    /\ GetCurrentTeam(t) = InOffice(c, Len(c))

Inv ==
    /\ Follows(chain, rewards, team) /\ debt \in Nat
    /\ Follows(disk.chain, disk.rewards, disk.team) /\ disk.debt \in Nat
    /\ confirms \subseteq Anchors \X Operators /\ confirmed \subseteq Anchors

-----------------------------------------------------------------------------
\* Each team that was ever in office has members.
LEMMA InOfficeTeams ==
    ASSUME NEW c \in Seq(Reward), NEW i \in 0 .. Len(c)
    PROVE  InOffice(c, i) \in Teams
<1>1. CASE i = 0
  BY <1>1, TeamAssumption DEF InOffice, Teams
<1>2. CASE i # 0
  <2>1. c[i] \in Reward
    BY <1>2, LenProperties, ElementOfSeq
  <2> QED
    BY <1>2, <2>1 DEF InOffice, Reward
<1> QED
  BY <1>1, <1>2

\* ConnectBlock: a reward that the team in office signed, for an anchor that
\* has none, and the team it names.
LEMMA FollowsAppend ==
    ASSUME NEW c, NEW r, NEW t, Follows(c, r, t),
           NEW b \in Reward, r[b.anchor] # Paid, SignedBy(b, GetCurrentTeam(t))
    PROVE  Follows(Append(c, b), [r EXCEPT ![b.anchor] = Paid], b.next)
<1> DEFINE n == Len(c)
           d == Append(c, b)
           q == [r EXCEPT ![b.anchor] = Paid]
<1>1. c \in Seq(Reward) /\ n \in Nat /\ r \in [Anchors -> States] /\ b.anchor \in Anchors
  BY LenProperties DEF Follows, Reward
<1>2. d \in Seq(Reward) /\ Len(d) = n + 1 /\ d[n + 1] = b /\ \A i \in 1 .. n : d[i] = c[i]
  BY <1>1, AppendProperties
<1> HIDE DEF n, d
<1>3. q \in [Anchors -> States] /\ \A a \in Anchors : q[a] = IF a = b.anchor THEN Paid ELSE r[a]
  BY <1>1 DEF States
<1>4. ~ \E i \in 1 .. n : c[i].anchor = b.anchor
  BY <1>1 DEF Follows, n
<1>5. \A a \in Anchors : q[a] = Paid <=> \E i \in 1 .. n + 1 : d[i].anchor = a
  <2> SUFFICES ASSUME NEW a \in Anchors
               PROVE  q[a] = Paid <=> \E i \in 1 .. n + 1 : d[i].anchor = a
    OBVIOUS
  <2>1. r[a] = Paid <=> \E i \in 1 .. n : c[i].anchor = a
    BY DEF Follows, n
  <2>2. (\E i \in 1 .. n + 1 : d[i].anchor = a) <=> (a = b.anchor \/ \E i \in 1 .. n : c[i].anchor = a)
    BY <1>1, <1>2
  <2> QED
    BY <1>3, <2>1, <2>2
<1>6. \A i, j \in 1 .. n + 1 : d[i].anchor = d[j].anchor => i = j
  <2>1. \A i, j \in 1 .. n : c[i].anchor = c[j].anchor => i = j
    BY DEF Follows, n
  <2> QED
    BY <1>1, <1>2, <1>4, <2>1
<1>7. \A i \in 0 .. n : InOffice(d, i) = InOffice(c, i)
  BY <1>1, <1>2 DEF InOffice
<1>8. \A i \in 1 .. n + 1 : SignedBy(d[i], InOffice(d, i - 1))
  <2>1. \A i \in 1 .. n : SignedBy(c[i], InOffice(c, i - 1))
    BY DEF Follows, n
  <2>2. SignedBy(b, InOffice(c, n))
    BY DEF Follows, n
  <2>3. ASSUME NEW i \in 1 .. n + 1 PROVE SignedBy(d[i], InOffice(d, i - 1))
    <3>1. i - 1 \in 0 .. n /\ InOffice(d, i - 1) = InOffice(c, i - 1)
      BY <1>1, <1>7
    <3>2. CASE i = n + 1
      BY <1>1, <1>2, <2>2, <3>1, <3>2
    <3>3. CASE i # n + 1
      BY <1>1, <1>2, <2>1, <3>1, <3>3
    <3> QED
      BY <3>2, <3>3
  <2> QED
    BY <2>3
<1>9. b.next \in SUBSET Operators /\ GetCurrentTeam(b.next) = InOffice(d, n + 1)
  BY <1>1, <1>2 DEF Reward, Teams, GetCurrentTeam, InOffice
<1> QED
  BY <1>2, <1>3, <1>5, <1>6, <1>8, <1>9 DEF Follows, d

\* DisconnectBlock: without the last reward, and with the team it names as its own.
LEMMA FollowsFront ==
    ASSUME NEW c, NEW r, NEW t, Follows(c, r, t), c # <<>>
    PROVE  /\ Last(c) \in Reward /\ SignedBy(Last(c), Last(c).cur) /\ Last(c).cur \in Teams
           /\ Follows(Front(c), [r EXCEPT ![Last(c).anchor] = NullHash], Last(c).cur)
<1> DEFINE n == Len(c) - 1
           d == Front(c)
           b == Last(c)
           q == [r EXCEPT ![b.anchor] = NullHash]
<1>1. c \in Seq(Reward) /\ n \in Nat /\ Len(c) = n + 1 /\ r \in [Anchors -> States]
  BY LenProperties, EmptySeq DEF Follows
<1>2. b = c[n + 1] /\ b \in Reward /\ b.anchor \in Anchors
  <2>1. b = c[n + 1]
    BY <1>1 DEF Last
  <2>2. c[n + 1] \in Reward
    BY <1>1, ElementOfSeq
  <2> QED
    BY <2>1, <2>2 DEF Reward
<1>3. d \in Seq(Reward) /\ Len(d) = n /\ \A i \in 1 .. n : d[i] = c[i]
  <2>1. \A i \in 1 .. n : c[i] \in Reward
    BY <1>1, ElementOfSeq
  <2>2. /\ SubSeq(c, 1, n) \in Seq(Reward)
        /\ Len(SubSeq(c, 1, n)) = IF 1 <= n THEN n - 1 + 1 ELSE 0
        /\ \A i \in 1 .. n - 1 + 1 : SubSeq(c, 1, n)[i] = c[1 + i - 1]
    <3>1. 1 \in Int /\ n \in Int
      BY <1>1
    <3> HIDE DEF n
    <3> QED
      BY <2>1, <3>1, SubSeqProperties
  <2> QED
    BY <1>1, <2>2 DEF Front
<1>4. /\ \A a \in Anchors : r[a] = Paid <=> \E i \in 1 .. n + 1 : c[i].anchor = a
      /\ \A i, j \in 1 .. n + 1 : c[i].anchor = c[j].anchor => i = j
      /\ \A i \in 1 .. n + 1 : SignedBy(c[i], InOffice(c, i - 1))
  BY <1>1 DEF Follows
<1> HIDE DEF n, d, b
<1>5. q \in [Anchors -> States] /\ \A a \in Anchors : q[a] = IF a = b.anchor THEN NullHash ELSE r[a]
  BY <1>1, <1>2 DEF States
<1>6. \A a \in Anchors : q[a] = Paid <=> \E i \in 1 .. n : d[i].anchor = a
  <2> SUFFICES ASSUME NEW a \in Anchors
               PROVE  q[a] = Paid <=> \E i \in 1 .. n : d[i].anchor = a
    OBVIOUS
  <2>1. CASE a = b.anchor
    BY <1>1, <1>2, <1>3, <1>4, <1>5, <2>1 DEF NullHash, Paid
  <2>2. CASE a # b.anchor
    BY <1>1, <1>2, <1>3, <1>4, <1>5, <2>2
  <2> QED
    BY <2>1, <2>2
<1>7. \A i, j \in 1 .. n : d[i].anchor = d[j].anchor => i = j
  BY <1>1, <1>3, <1>4
<1>8. \A i \in 0 .. n : InOffice(d, i) = InOffice(c, i)
  BY <1>1, <1>3 DEF InOffice
<1>9. \A i \in 1 .. n : SignedBy(d[i], InOffice(d, i - 1))
  <2>1. ASSUME NEW i \in 1 .. n PROVE SignedBy(d[i], InOffice(d, i - 1))
    <3>1. i \in 1 .. n + 1 /\ i - 1 \in 0 .. n
      BY <1>1
    <3> QED
      BY <1>3, <1>4, <1>8, <3>1
  <2> QED
    BY <2>1
<1>10. SignedBy(b, InOffice(c, n)) /\ b.cur = InOffice(d, n) /\ b.cur \in Teams
  <2>1. n + 1 \in 1 .. n + 1 /\ n + 1 - 1 = n /\ n \in 0 .. n /\ n \in 0 .. Len(d)
    BY <1>1, <1>3
  <2>2. SignedBy(b, InOffice(c, n))
    BY <1>2, <1>4, <2>1
  <2>3. InOffice(d, n) \in Teams
    BY <1>3, <2>1, InOfficeTeams
  <2> QED
    BY <1>8, <2>1, <2>2, <2>3 DEF SignedBy
<1>11. SignedBy(b, b.cur) /\ b.cur \in SUBSET Operators /\ GetCurrentTeam(b.cur) = InOffice(d, n)
  BY <1>10 DEF SignedBy, Teams, GetCurrentTeam
<1> QED
  BY <1>2, <1>3, <1>5, <1>6, <1>7, <1>9, <1>10, <1>11 DEF Follows, d, b

\* Flush: null entries are no rewards.
LEMMA FollowsFlush ==
    ASSUME NEW c, NEW r, NEW t, Follows(c, r, t)
    PROVE  Follows(c, [a \in Anchors |-> IF r[a] = NullHash THEN Missing ELSE r[a]], t)
  BY DEF Follows, States, Missing, NullHash, Paid

\* ReVote adds votes of this node for anchors.
LEMMA ReVoteType ==
    ASSUME NEW v \in SUBSET (Anchors \X Operators), NEW r, NEW t, NEW c \in SUBSET Anchors
    PROVE  ReVote(v, r, t, c) \in SUBSET (Anchors \X Operators) /\ v \subseteq ReVote(v, r, t, c)
  BY TeamAssumption DEF ReVote, GetUnrewarded

-----------------------------------------------------------------------------
\* A block with a reward, minted here or elsewhere.
LEMMA ConnectRewardKeeps ==
    ASSUME Inv, NEW a \in Anchors, NEW S \in SUBSET Operators, NEW s \in Salts, ConnectReward(a, S, s)
    PROVE  Inv'
<1> DEFINE cur == GetCurrentTeam(team)
           b   == [anchor |-> a, sigs |-> S, cur |-> cur, next |-> NextTeam[s]]
<1>1. cur \in SUBSET Operators
  BY TeamAssumption DEF Inv, Follows, GetCurrentTeam
<1>2. /\ rewards[a] # Paid /\ S \subseteq cur /\ Cardinality(S) >= GetMinAnchorQuorum(cur)
      /\ chain' = Append(chain, b) /\ rewards' = [rewards EXCEPT ![a] = Paid] /\ team' = NextTeam[s]
      /\ debt' = debt + Subsidy /\ confirms' = ReVote(EraseAnchor(confirms, a), rewards', team', confirmed)
      /\ UNCHANGED <<confirmed, disk>>
  BY DEF ConnectReward, PutReward, HasReward
<1>3. b \in Reward /\ b.anchor = a /\ b.next = NextTeam[s]
  BY <1>1, TeamAssumption DEF Reward, Teams
<1>4. SignedBy(b, cur)
  BY <1>2 DEF SignedBy
<1> HIDE DEF b
<1>5. Follows(chain, rewards, team)'
  BY <1>2, <1>3, <1>4, FollowsAppend DEF Inv
<1>6. EraseAnchor(confirms, a) \in SUBSET (Anchors \X Operators)
  BY DEF EraseAnchor, Inv
<1>7. confirms' \subseteq Anchors \X Operators
  BY <1>2, <1>6, ReVoteType DEF Inv
<1>8. debt' \in Nat
  BY <1>2, TeamAssumption DEF Inv
<1> QED
  BY <1>2, <1>5, <1>7, <1>8 DEF Inv

\* A block with a reward is undone; the quorum that signed it is there again.
LEMMA DisconnectKeeps ==
    ASSUME Inv, DisconnectTip
    PROVE  Inv' /\ Last(chain).anchor \in WithQuorum(confirms', GetCurrentTeam(team'))
<1> DEFINE b == Last(chain)
           v == confirms \cup Signed(b)
<1>1. /\ chain # <<>> /\ debt >= Subsidy
      /\ chain' = Front(chain) /\ rewards' = [rewards EXCEPT ![b.anchor] = NullHash] /\ team' = b.cur
      /\ debt' = debt - Subsidy /\ confirms' = ReVote(v, rewards', team', confirmed)
      /\ UNCHANGED <<confirmed, disk>>
  BY DEF DisconnectTip, UndoReward
<1>2. b \in Reward /\ SignedBy(b, b.cur) /\ b.cur \in Teams /\ Follows(chain, rewards, team)'
  BY <1>1, FollowsFront DEF Inv
<1> HIDE DEF b
<1>3. v \in SUBSET (Anchors \X Operators)
  BY <1>2 DEF Inv, Signed, Reward
<1>4. confirms' \in SUBSET (Anchors \X Operators) /\ v \subseteq confirms'
  BY <1>1, <1>3, ReVoteType DEF Inv
<1>5. Inv'
  <2>1. debt' \in Nat
    BY <1>1, TeamAssumption DEF Inv
  <2> QED
    BY <1>1, <1>2, <1>4, <2>1 DEF Inv
<1>6. GetCurrentTeam(team') = b.cur
  BY <1>1, <1>2 DEF GetCurrentTeam, Teams
<1>7. b.sigs \subseteq VotesFor(confirms', b.anchor, b.cur)
  BY <1>2, <1>4 DEF VotesFor, Signed, SignedBy
<1>8. Cardinality(VotesFor(confirms', b.anchor, b.cur)) >= GetMinAnchorQuorum(b.cur)
  <2> DEFINE V == VotesFor(confirms', b.anchor, b.cur)
  <2>1. IsFiniteSet(Operators) /\ b.cur \in SUBSET Operators /\ V \in SUBSET Operators
    BY <1>2, TeamAssumption DEF Teams, VotesFor
  <2>2. IsFiniteSet(V) /\ IsFiniteSet(b.cur)
    BY <2>1, FS_Subset
  <2>3. IsFiniteSet(b.sigs) /\ Cardinality(b.sigs) <= Cardinality(V)
    BY <1>7, <2>2, FS_Subset
  <2>4. Cardinality(V) \in Nat /\ Cardinality(b.sigs) \in Nat /\ Cardinality(b.cur) \in Nat
    BY <2>2, <2>3, FS_CardinalityType
  <2>5. Cardinality(b.sigs) >= GetMinAnchorQuorum(b.cur) /\ GetMinAnchorQuorum(b.cur) \in Int
    BY <1>2, <2>4 DEF SignedBy, GetMinAnchorQuorum
  <2> HIDE DEF V
  <2>6. Cardinality(V) >= GetMinAnchorQuorum(b.cur)
    BY <2>3, <2>4, <2>5
  <2> QED
    BY <2>6 DEF V
<1> QED
  BY <1>2, <1>5, <1>6, <1>8 DEF WithQuorum, Reward, b

-----------------------------------------------------------------------------
\* The registry and the disk are each the result of a chain, at every step.
THEOREM Invariance == Spec => []Inv
<1>1. Init => Inv
  <2> SUFFICES ASSUME Init PROVE Inv
    OBVIOUS
  <2>1. Follows(<<>>, [a \in Anchors |-> Missing], {})
    BY TeamAssumption, EmptySeq DEF Follows, States, Missing, Paid, GetCurrentTeam, InOffice
  <2> QED
    BY <2>1 DEF Init, Inv
<1>2. Inv /\ [Next]_vars => Inv'
  <2> SUFFICES ASSUME Inv, [Next]_vars PROVE Inv'
    OBVIOUS
  <2>1. CASE ConnectTip
    BY <2>1, ConnectRewardKeeps DEF ConnectTip
  <2>2. CASE Mint
    <3>1. PICK a \in QuorumAnchor(confirms, GetCurrentTeam(team)), s \in Salts :
             \E S \in SUBSET VotesFor(confirms, a, GetCurrentTeam(team)) : ConnectReward(a, S, s)
      BY <2>2 DEF Mint
    <3>2. a \in Anchors
      BY DEF QuorumAnchor, WithQuorum
    <3>3. VotesFor(confirms, a, GetCurrentTeam(team)) \subseteq Operators
      BY TeamAssumption DEF VotesFor, GetCurrentTeam, Inv, Follows
    <3> QED
      BY <3>1, <3>2, <3>3, ConnectRewardKeeps
  <2>3. CASE DisconnectTip
    BY <2>3, DisconnectKeeps
  <2>4. CASE CreateNewBlock
    BY <2>4, TeamAssumption DEF CreateNewBlock, Inv
  <2>5. CASE Flush
    BY <2>5, FollowsFlush DEF Flush, Inv
  <2>6. CASE Restart
    BY <2>6 DEF Restart, Inv
  <2>7. ASSUME NEW a \in Anchors, NEW s \in Operators, RecvConfirm(a, s) PROVE Inv'
    BY <2>7 DEF RecvConfirm, Inv, registry
  <2>8. ASSUME NEW c \in SUBSET Anchors, CheckActiveAnchor(c) PROVE Inv'
    BY <2>8, ReVoteType DEF CheckActiveAnchor, Inv, registry
  <2>9. CASE UNCHANGED vars
    BY <2>9 DEF vars, registry, Inv
  <2> QED
    BY <2>1, <2>2, <2>3, <2>4, <2>5, <2>6, <2>7, <2>8, <2>9 DEF Next
<1> QED
  BY <1>1, <1>2, PTL DEF Spec

(***************************************************************************)
(* The registry, the votes and the debt keep their types: in particular,   *)
(* the debt is never negative.                                             *)
(***************************************************************************)
THEOREM TypeCorrect == Spec => []TypeOK
<1>1. Inv => TypeOK
  BY DEF Inv, Follows, States, TypeOK
<1> QED
  BY <1>1, Invariance, PTL

(***************************************************************************)
(* The map of rewards is that of the active chain, over connected and      *)
(* undone blocks, flushes and restarts.                                    *)
(***************************************************************************)
THEOREM RewardsAreThoseOfChain == Spec => []RewardsFollowChain
<1>1. Inv => RewardsFollowChain
  BY LenProperties DEF Inv, Follows, RewardsFollowChain, HasReward
<1> QED
  BY <1>1, Invariance, PTL

(***************************************************************************)
(* No chain pays for an anchor twice.                                      *)
(***************************************************************************)
THEOREM RewardsAreUnique == Spec => []OneRewardPerAnchor
<1>1. Inv => OneRewardPerAnchor
  BY LenProperties DEF Inv, Follows, OneRewardPerAnchor
<1> QED
  BY <1>1, Invariance, PTL

(***************************************************************************)
(* The team in office is the one that the last reward names, also when     *)
(* DisconnectBlock took it from the reward it undid.                       *)
(***************************************************************************)
THEOREM TeamIsThatOfChain == Spec => []TeamFollowsChain
<1>1. Inv => TeamFollowsChain
  <2> SUFFICES ASSUME Inv PROVE TeamFollowsChain
    OBVIOUS
  <2>1. chain \in Seq(Reward) /\ GetCurrentTeam(team) = InOffice(chain, Len(chain))
    BY DEF Inv, Follows
  <2>2. Len(chain) \in Nat /\ (chain = <<>> <=> Len(chain) = 0)
    BY <2>1, EmptySeq, LenProperties
  <2> QED
    BY <2>1, <2>2 DEF TeamFollowsChain, InOffice, Last
<1> QED
  BY <1>1, Invariance, PTL

(***************************************************************************)
(* Each reward was signed by more than two thirds of the team that the     *)
(* reward before it names: what GetMinAnchorQuorum rounds to is enough for *)
(* every size of a team.                                                   *)
(***************************************************************************)
THEOREM TeamsAreSucceeded == Spec => []TeamsHandOver
<1>1. Inv => TeamsHandOver
  <2> SUFFICES ASSUME Inv, NEW i \in DOMAIN chain
               PROVE  LET cur == IF i = 1 THEN GenesisTeam ELSE chain[i - 1].next
                      IN  /\ chain[i].cur = cur /\ chain[i].sigs \subseteq cur
                          /\ 3 * Cardinality(chain[i].sigs) > 2 * Cardinality(cur)
    BY DEF TeamsHandOver
  <2> DEFINE cur == InOffice(chain, i - 1)
             b   == chain[i]
  <2>1. chain \in Seq(Reward) /\ Len(chain) \in Nat /\ i \in 1 .. Len(chain) /\ i - 1 \in 0 .. Len(chain)
    BY LenProperties DEF Inv, Follows
  <2>2. SignedBy(b, cur) /\ cur \in Teams
    BY <2>1, InOfficeTeams DEF Inv, Follows
  <2>3. cur = IF i = 1 THEN GenesisTeam ELSE chain[i - 1].next
    BY <2>1 DEF InOffice
  <2> HIDE DEF cur, b
  <2>4. IsFiniteSet(cur)
    BY <2>2, TeamAssumption, FS_Subset DEF Teams
  <2>5. IsFiniteSet(b.sigs)
    BY <2>2, <2>4, FS_Subset DEF SignedBy
  <2>6. Cardinality(cur) \in Nat /\ Cardinality(b.sigs) \in Nat
    BY <2>4, <2>5, FS_CardinalityType
  <2>7. Cardinality(b.sigs) >= 1 + (Cardinality(cur) * 2) \div 3
    BY <2>2 DEF SignedBy, GetMinAnchorQuorum
  <2>8. \A k, n \in Nat : k >= 1 + (n * 2) \div 3 => 3 * k > 2 * n
    OBVIOUS
  <2>9. 3 * Cardinality(b.sigs) > 2 * Cardinality(cur)
    BY <2>6, <2>7, <2>8
  <2> QED
    BY <2>2, <2>3, <2>9 DEF SignedBy, b
<1> QED
  BY <1>1, Invariance, PTL

(***************************************************************************)
(* Whenever DisconnectTip undoes a reward, its votes are a quorum of the   *)
(* team that is in office then.                                            *)
(***************************************************************************)
THEOREM UndoneIsMintable == Spec => UndoneRewardCanBeMinted
<1> DEFINE OK == DisconnectTip => Last(chain).anchor \in WithQuorum(confirms', GetCurrentTeam(team'))
<1>1. Inv /\ [Next]_vars => [OK]_vars
  BY DisconnectKeeps
<1>2. Spec => [][OK]_vars
  BY <1>1, Invariance, PTL DEF Spec
<1> QED
  BY <1>2 DEF UndoneRewardCanBeMinted
=============================================================================
