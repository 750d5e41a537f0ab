---------------------------- MODULE AnchorRewards ----------------------------
(***************************************************************************)
(* Rewards for anchors at one node: the votes of the anchoring team        *)
(* (CAnchorAwaitingConfirms), the reward transactions that ConnectBlock    *)
(* and DisconnectBlock apply to the registry, and what of it is on disk.   *)
(* Every reward names the next team, which has to vote for the anchors     *)
(* that are left.                                                          *)
(*                                                                         *)
(* "chain" has the blocks with a reward only; between two of them there    *)
(* may be any number of others, so the stake modifier that CalcNextTeam    *)
(* hashes is free (Salts).  The other nodes are an environment that sends  *)
(* votes and blocks.  All masternodes are active.  An anchor is the rank   *)
(* of its hash.                                                            *)
(***************************************************************************)
EXTENDS Integers, FiniteSets, Sequences, SequencesExt

CONSTANTS
    Anchors,           \* a set of numbers
    Operators, Me,     \* the keys of the masternodes, and that of this node
    GenesisTeam,
    Salts, NextTeam,   \* CalcNextTeam for each stake modifier
    Subsidy,           \* GetAnchorSubsidy
    FoundationReward,  \* what the foundation gets of a block
    MaxUndone          \* bound: blocks disconnected, and restarts

ASSUME TeamAssumption ==
    /\ Anchors \subseteq Nat /\ IsFiniteSet(Operators) /\ Me \in Operators
    /\ GenesisTeam \in (SUBSET Operators) \ {{}}
    /\ NextTeam \in [Salts -> (SUBSET Operators) \ {{}}]
    /\ Subsidy \in Nat /\ FoundationReward \in Nat \ {0}
    /\ MaxUndone \in Nat

VARIABLES
    chain,       \* the reward transactions of the active chain
    rewards,     \* per anchor: Missing, NullHash (an undone one) or Paid
    team,        \* currentTeam, empty before the first reward
    debt,        \* foundationsDebt
    confirms,    \* the votes <<anchor, signer>>
    confirmed,   \* the active anchors with 6 confirmations
    disk,        \* what FlushStateToDisk wrote
    undone       \* blocks disconnected and restarts so far

registry == <<chain, rewards, team, debt>>
vars     == <<registry, confirms, confirmed, disk, undone>>

Missing  == "missing"
NullHash == "null"
Paid     == "paid"

-----------------------------------------------------------------------------
GetCurrentTeam(t) == IF t = {} THEN GenesisTeam ELSE t

\* Mutant: two thirds, rounded down.
TwoThirds(t) == (Cardinality(t) * 2) \div 3

GetMinAnchorQuorum(t) == 1 + (Cardinality(t) * 2) \div 3

\* What GetRewardForAnchor finds is a reward; ListAnchorRewards has all entries.
HasReward(a)         == rewards[a] = Paid
GetUnrewarded(r, c)  == {a \in c : r[a] = Missing}

ReVote(v, r, t, c) ==
    IF Me \in GetCurrentTeam(t) THEN v \cup {<<a, Me>> : a \in GetUnrewarded(r, c)} ELSE v

EraseAnchor(v, a) == {w \in v : w[1] # a}

\* The signers of the first anchor, by hash, with a quorum of the team.
VotesFor(v, a, t) == {s \in t : <<a, s>> \in v}
WithQuorum(v, t)  == {a \in Anchors : Cardinality(VotesFor(v, a, t)) >= GetMinAnchorQuorum(t)}
QuorumAnchor(v, t) == {a \in WithQuorum(v, t) : \A o \in WithQuorum(v, t) : a <= o}

-----------------------------------------------------------------------------
(***************************************************************************)
(* ConnectTip of a block with a reward: ConnectBlock checks its signers    *)
(* and changes the registry, then the votes for it go, and new ones come.  *)
(* The signatures in a block are of different members, as those that       *)
(* GetQuorumFor picks.                                                     *)
(***************************************************************************)
PutReward(a, sigs, s) ==
    LET cur == GetCurrentTeam(team) IN
    /\ sigs \subseteq cur /\ Cardinality(sigs) >= GetMinAnchorQuorum(cur)
    /\ chain' = Append(chain, [anchor |-> a, sigs |-> sigs, cur |-> cur, next |-> NextTeam[s]])
    /\ rewards' = [rewards EXCEPT ![a] = Paid]
    /\ team' = NextTeam[s]
    /\ debt' = debt + Subsidy
    /\ confirms' = ReVote(EraseAnchor(confirms, a), rewards', team', confirmed)
    /\ UNCHANGED <<confirmed, disk, undone>>

\* Mutant: the entry of an earlier reward is not looked up.
ConnectRewardTwice(a, sigs, s) == PutReward(a, sigs, s)

ConnectReward(a, sigs, s) == ~HasReward(a) /\ PutReward(a, sigs, s)

ConnectTip == \E a \in Anchors, S \in SUBSET Operators, s \in Salts : ConnectReward(a, S, s)

\* A block that this node mints: CreateNewBlock takes the votes of a quorum.
Mint ==
    LET cur == GetCurrentTeam(team) IN
    \E a \in QuorumAnchor(confirms, cur), s \in Salts :
        \E S \in SUBSET VotesFor(confirms, a, cur) :
            Cardinality(S) = GetMinAnchorQuorum(cur) /\ ConnectReward(a, S, s)

(***************************************************************************)
(* DisconnectTip of the last reward.  Its entry becomes r, the team t, and *)
(* the votes v with those that ReVote adds.                                *)
(***************************************************************************)
UndoReward(r, t, v) ==
    /\ chain # <<>> /\ undone < MaxUndone
    /\ chain' = Front(chain)
    /\ rewards' = [rewards EXCEPT ![Last(chain).anchor] = r]
    /\ team' = t
    /\ debt' = debt - Subsidy
    /\ confirms' = ReVote(v, rewards', t, confirmed)
    /\ undone' = undone + 1
    /\ UNCHANGED <<confirmed, disk>>

Signed(b) == {<<b.anchor, s>> : s \in b.sigs}

\* Mutant: the debt is not looked at.
DisconnectTipUnchecked == UndoReward(NullHash, Last(chain).cur, confirms \cup Signed(Last(chain)))

\* Mutant: the entry of the reward stays.
DisconnectTipKeepsReward ==
    debt >= Subsidy /\ UndoReward(Paid, Last(chain).cur, confirms \cup Signed(Last(chain)))

\* Mutant: the team that follows stays in office.
DisconnectTipKeepsTeam ==
    debt >= Subsidy /\ UndoReward(NullHash, team, confirms \cup Signed(Last(chain)))

\* Mutant: the votes are not taken back.
DisconnectTipDropsVotes == debt >= Subsidy /\ UndoReward(NullHash, Last(chain).cur, confirms)

\* DisconnectBlock asserts that the debt covers the reward; it takes the team
\* and the votes from the transaction.
DisconnectTip ==
    debt >= Subsidy /\ UndoReward(NullHash, Last(chain).cur, confirms \cup Signed(Last(chain)))

\* CreateNewBlock lowers the debt of the registry, be the block minted or not.
CreateNewBlock ==
    /\ debt >= FoundationReward
    /\ debt' = debt - FoundationReward
    /\ UNCHANGED <<chain, rewards, team, confirms, confirmed, disk, undone>>

\* A vote that a peer sends: Validate asks for an active signer only.
RecvConfirm(a, s) ==
    /\ <<a, s>> \notin confirms
    /\ confirms' = confirms \cup {<<a, s>>}
    /\ UNCHANGED <<registry, confirmed, disk, undone>>

\* CheckActiveAnchor finds more anchors with six confirmations, or no new one.
CheckActiveAnchor(c) ==
    /\ confirmed \subseteq c
    /\ confirmed' = c
    /\ confirms' = ReVote(confirms, rewards, team, c)
    /\ UNCHANGED <<registry, disk, undone>>

\* Mutant: null entries stay in memory.
FlushKeepsNull ==
    /\ disk' = [chain |-> chain, rewards |-> rewards, team |-> team, debt |-> debt]
    /\ UNCHANGED <<registry, confirms, confirmed, undone>>

\* FlushStateToDisk: null entries are erased on disk and in memory.
Flush ==
    /\ rewards' = [a \in Anchors |-> IF rewards[a] = NullHash THEN Missing ELSE rewards[a]]
    /\ disk' = [chain |-> chain, rewards |-> rewards', team |-> team, debt |-> debt]
    /\ UNCHANGED <<chain, team, debt, confirms, confirmed, undone>>

\* The process stops and starts: the votes were in memory only.
Restart ==
    /\ undone < MaxUndone
    /\ chain' = disk.chain /\ rewards' = disk.rewards /\ team' = disk.team /\ debt' = disk.debt
    /\ confirms' = {}
    /\ undone' = undone + 1
    /\ UNCHANGED <<confirmed, disk>>

-----------------------------------------------------------------------------
Init ==
    /\ chain = <<>> /\ team = {} /\ debt = 0
    /\ rewards = [a \in Anchors |-> Missing]
    /\ confirms = {} /\ confirmed = {} /\ undone = 0
    /\ disk = [chain |-> chain, rewards |-> rewards, team |-> team, debt |-> debt]

Next ==
    \/ ConnectTip \/ Mint \/ DisconnectTip \/ CreateNewBlock \/ Flush \/ Restart
    \/ \E a \in Anchors, s \in Operators : RecvConfirm(a, s)
    \/ \E c \in SUBSET Anchors : CheckActiveAnchor(c)

(***************************************************************************)
(* The other members of the team vote as this node does, and connected     *)
(* peers get their votes.  Bitcoin blocks come and each is a check; a      *)
(* flush is due every hour at the latest; somebody mints.                  *)
(***************************************************************************)
TeamVote(a, s) ==
    s \in GetCurrentTeam(team) \ {Me} /\ a \in confirmed /\ ~HasReward(a) /\ RecvConfirm(a, s)

Fairness ==
    /\ WF_vars(Mint) /\ WF_vars(Flush) /\ WF_vars(CheckActiveAnchor(confirmed))
    /\ \A a \in Anchors, s \in Operators : WF_vars(TeamVote(a, s))

Spec     == Init /\ [][Next]_vars
FairSpec == Spec /\ Fairness

-----------------------------------------------------------------------------
TypeOK ==
    /\ rewards \in [Anchors -> {Missing, NullHash, Paid}]
    /\ team \in SUBSET Operators /\ debt \in Nat
    /\ confirms \subseteq Anchors \X Operators /\ confirmed \subseteq Anchors

(***************************************************************************)
(* The registry knows a reward exactly if its transaction is on the active *)
(* chain, whatever was connected, disconnected, flushed and loaded in      *)
(* between.                                                                *)
(***************************************************************************)
RewardsFollowChain == \A a \in Anchors : HasReward(a) <=> \E i \in DOMAIN chain : chain[i].anchor = a

(***************************************************************************)
(* No anchor is paid for twice on one chain.                               *)
(***************************************************************************)
OneRewardPerAnchor == \A i, j \in DOMAIN chain : chain[i].anchor = chain[j].anchor => i = j

(***************************************************************************)
(* The team in office is the one that the last reward of the chain names,  *)
(* also after rewards were undone: DisconnectBlock takes the old team from *)
(* the transaction, and has nothing else to take it from.                  *)
(***************************************************************************)
TeamFollowsChain == GetCurrentTeam(team) = IF chain = <<>> THEN GenesisTeam ELSE Last(chain).next

(***************************************************************************)
(* Each reward on the chain was signed by a quorum of the team in office   *)
(* before it, that is, by the team which the reward before it names: two   *)
(* rewards never disagree about who may vote.                              *)
(***************************************************************************)
TeamsHandOver ==
    \A i \in DOMAIN chain :
        LET cur == IF i = 1 THEN GenesisTeam ELSE chain[i - 1].next
        IN  chain[i].cur = cur /\ chain[i].sigs \subseteq cur /\ 3 * Cardinality(chain[i].sigs) > 2 * Cardinality(cur)

(***************************************************************************)
(* A reward that a reorganization undoes can be minted again at once:      *)
(* the votes are back, and the team is back for which they are a quorum.   *)
(* "while rollback, it should appear w/o wait"                             *)
(* (test/functional/feature_anchor_rewards.py:142).                        *)
(***************************************************************************)
UndoneRewardCanBeMinted ==
    [][DisconnectTip => Last(chain).anchor \in WithQuorum(confirms', GetCurrentTeam(team'))]_vars

(***************************************************************************)
(* "the rest of confirms should be revoted, but it is very hard to check   *)
(* in regtest due to the same team" (feature_anchor_rewards.py:203): with  *)
(* teams that change at every reward, and rewards that are undone, every   *)
(* confirmed anchor is paid for in the end.  It takes what                 *)
(* validation.cpp:2647 says of votes, "At least, they'll be deleted after  *)
(* their rewards", which is so unless a vote comes after the reward; then  *)
(* this node proposes the reward again, and its blocks are refused.        *)
(***************************************************************************)
RewardedVotesAreDeleted == \A w \in confirms : ~HasReward(w[1])

EveryAnchorIsRewarded ==
    []RewardedVotesAreDeleted => \A a \in Anchors : []<>(a \in confirmed => HasReward(a))
=============================================================================
