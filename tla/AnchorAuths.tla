----------------------------- MODULE AnchorAuths -----------------------------
(***************************************************************************)
(* The votes from which an anchor is made, at one masternode: it signs the *)
(* blocks of its chain when the tip changes (ProcessAuthsIfTipChanged),    *)
(* takes votes from peers (ValidateAuth), picks a quorum for a Bitcoin     *)
(* transaction (CreateBestAnchor) and prunes.                              *)
(*                                                                         *)
(* A vote is the anchor before it, a block and a signer; the next team is  *)
(* a function of the block.  An anchor is the sequence of the blocks that  *)
(* it and the anchors before it are for, which is its hash too.            *)
(*                                                                         *)
(* Several threads process blocks: each reads the old and the new tip      *)
(* without cs_main and then waits for it, so it may work with a tip that   *)
(* has been replaced.                                                      *)
(***************************************************************************)
EXTENDS BlockTree, FiniteSets, Sequences

CONSTANTS
    Operators, Me, GenesisTeam, NextTeam,
    AnchoringLag, AnchoringFrequency,
    FirstStays,                        \* whether Bitcoin keeps the first anchor
    MaxCalls, MaxAuths                 \* bounds: threads in ProcessNewBlock, and
                                       \* votes beyond which peers send no more

ASSUME AuthAssumption ==
    /\ Me \in Operators /\ GenesisTeam \subseteq Operators
    /\ NextTeam \in [Blocks -> (SUBSET Operators) \ {{}}]
    /\ AnchoringLag \in Nat /\ AnchoringFrequency \in 1 .. AnchoringLag

VARIABLES
    tip,       \* the tip of the active chain
    calls,     \* the threads between ActivateBestChain and the votes: <<oldTip, tip>>
    auths,     \* the votes
    indexed,   \* the anchors of the index
    top        \* the active one, <<>> if none

vars == <<tip, calls, auths, indexed, top>>

-----------------------------------------------------------------------------
ForkHeight(b, c) == CHOOSE h \in {Height[f] : f \in Chain[b] \cap Chain[c]} :
                        \A f \in Chain[b] \cap Chain[c] : Height[f] <= h

\* The block of an anchor, and the anchor before it.
BlockHash(a)      == a[Len(a)]
PreviousAnchor(a) == SubSeq(a, 1, Len(a) - 1)

AnchorHeight(a) == IF a = <<>> THEN 0 ELSE Height[BlockHash(a)]
Aligned         == {b \in Blocks \ {Genesis} : (Height[b] + AnchoringLag) % AnchoringFrequency = 0}

\* The team that the anchor names, and the one that signed it.
GetNextTeam(a)    == IF a = <<>> THEN GenesisTeam ELSE IF a \in indexed THEN NextTeam[BlockHash(a)] ELSE {}
GetCurrentTeam(a) == IF a = <<>> THEN GenesisTeam ELSE GetNextTeam(PreviousAnchor(a))

GetMinAnchorQuorum(t) == 1 + (Cardinality(t) * 2) \div 3

\* Mutant: whoever signed it.
ValidateUnsigned(v) ==
    /\ v.prev = <<>> \/ v.prev \in indexed
    /\ Height[v.block] > AnchorHeight(v.prev) /\ Height[v.block] > AnchorHeight(top)
    /\ Height[v.block] <= Height[tip] /\ NextTeam[v.block] = NextTeam[At(tip, Height[v.block])]

ValidateAuth(v) ==
    /\ v.prev = <<>> \/ v.prev \in indexed
    /\ Height[v.block] > AnchorHeight(v.prev) /\ Height[v.block] > AnchorHeight(top)
    /\ Height[v.block] <= Height[tip] /\ NextTeam[v.block] = NextTeam[At(tip, Height[v.block])]
    /\ v.signer \in GetNextTeam(v.prev)

-----------------------------------------------------------------------------
\* Mutant: votes for blocks above the fork only.
VotedAboveFork(o, t) ==
    {Height[b] : b \in {c \in Chain[t] : Height[c] > ForkHeight(tip, o)}}

(***************************************************************************)
(* The heights of the loop of ProcessAuthsIfTipChanged: from the tip t     *)
(* down to a lag below the fork with the old tip o, or to the top anchor.  *)
(***************************************************************************)
Visited(o, t) ==
    LET fork == ForkHeight(tip, o) - AnchoringLag
        stop == IF fork > AnchorHeight(top) THEN fork ELSE AnchorHeight(top)
    IN  {Height[b] : b \in {c \in Chain[t] : At(tip, stop) \in Chain[t] => Height[c] > stop}}

\* Mutant: the anchored block itself is due.
EligibleAtTop(h) == h - AnchoringLag >= AnchorHeight(top) /\ h % AnchoringFrequency = 0

Eligible(h) ==
    /\ h - AnchoringLag > AnchorHeight(top)
    /\ h % AnchoringFrequency = 0

MyAuths(o, t) ==
    IF Height[t] > AnchorHeight(top) /\ Me \in GetCurrentTeam(top)
    THEN {[prev |-> top, block |-> At(tip, h - AnchoringLag), signer |-> Me] :
             h \in {i \in Visited(o, t) : Eligible(i)}}
    ELSE {}

ProcessAuthsIfTipChanged(o, t) ==
    /\ <<o, t>> \in calls
    /\ calls' = calls \ {<<o, t>>}
    /\ auths' = auths \cup MyAuths(o, t)
    /\ UNCHANGED <<tip, indexed, top>>

\* ActivateBestChain goes to a better block.
NewTip(t) ==
    /\ Height[t] > Height[tip] /\ Cardinality(calls) < MaxCalls
    /\ tip' = t
    /\ calls' = calls \cup {<<tip, t>>}
    /\ UNCHANGED <<auths, indexed, top>>

\* ANCHORAUTH: a vote comes early, late, again, or never.
RecvAuth(v) ==
    /\ v \notin auths /\ ValidateAuth(v) /\ Cardinality(auths) < MaxAuths
    /\ auths' = auths \cup {v}
    /\ UNCHANGED <<tip, calls, indexed, top>>

-----------------------------------------------------------------------------
(***************************************************************************)
(* CreateBestAnchor goes from the highest votes down to the first group    *)
(* with a quorum, by number.  Of two groups of one height the hash         *)
(* decides.                                                                *)
(***************************************************************************)
Group(p, b) == {v \in auths : v.prev = p /\ v.block = b}
Groups == {g \in {<<v.prev, v.block>> : v \in auths} :
              /\ top # <<>> => g[1] = top
              /\ Height[g[2]] > AnchorHeight(top)
              /\ Cardinality(Group(g[1], g[2])) >= GetMinAnchorQuorum(GetCurrentTeam(top))}
BestAnchors == {[prev |-> g[1], block |-> g[2], sigs |-> S] :
                   g \in {h \in Groups : \A o \in Groups : Height[o[2]] <= Height[h[2]]},
                   S \in SUBSET Operators}
CreateBestAnchor ==
    {a \in BestAnchors : /\ a.sigs \subseteq {v.signer : v \in Group(a.prev, a.block)}
                         /\ Cardinality(a.sigs) = GetMinAnchorQuorum(GetCurrentTeam(top))}

ValidateAnchor(a) ==
    /\ a.prev = <<>> \/ a.prev \in indexed
    /\ Height[a.block] > AnchorHeight(a.prev)
    /\ a.sigs \subseteq GetNextTeam(a.prev)

\* An anchor, made here or elsewhere, is in Bitcoin and becomes active.
Activate(p, b) ==
    /\ p = top /\ Height[b] > AnchorHeight(p)
    /\ indexed' = indexed \cup {Append(p, b)}
    /\ top' = Append(p, b)
    /\ UNCHANGED <<tip, calls, auths>>

SendAnchor   == \E a \in CreateBestAnchor : ValidateAnchor(a) /\ Activate(a.prev, a.block)
OthersAnchor == \E b \in Chain[tip] \cap Aligned : Height[b] + AnchoringLag <= Height[tip] /\ Activate(top, b)

\* Bitcoin drops the block with the top anchor.
DeleteAnchor ==
    /\ Len(top) > (IF FirstStays THEN 1 ELSE 0)
    /\ indexed' = indexed \ {top} /\ top' = PreviousAnchor(top)
    /\ UNCHANGED <<tip, calls, auths>>

\* Mutant: the height at which it was voted for counts, not its own.
OlderThanVote(h) == {v \in auths : Height[v.block] < h + AnchoringLag}

\* upper_bound of the height and a null hash: the votes below the height.
OlderThan(h) == {v \in auths : Height[v.block] < h}

\* CheckActiveAnchor: anchor c has 6 confirmations; votes up to its height go.
Prune(c) ==
    /\ c # <<>> /\ SubSeq(top, 1, Len(c)) = c
    /\ auths' = auths \ OlderThan(AnchorHeight(c) + 1)
    /\ UNCHANGED <<tip, calls, indexed, top>>

Init ==
    /\ tip = Genesis /\ calls = {} /\ auths = {} /\ indexed = {} /\ top = <<>>

Next ==
    \/ \E t \in Blocks : NewTip(t)
    \/ \E c \in calls : ProcessAuthsIfTipChanged(c[1], c[2])
    \/ \E v \in [prev : indexed \cup {<<>>}, block : Aligned, signer : Operators \ {Me}] : RecvAuth(v)
    \/ SendAnchor \/ OthersAnchor \/ DeleteAnchor
    \/ \E c \in indexed : Prune(c)

Spec == Init /\ [][Next]_vars

-----------------------------------------------------------------------------
TypeOK ==
    /\ tip \in Blocks /\ calls \subseteq Blocks \X Blocks
    /\ \A v \in auths : v.block \in Blocks /\ v.signer \in Operators /\ v.block # Genesis
    /\ top = <<>> \/ top \in indexed

(***************************************************************************)
(* A member of the team that has gone through its votes for the tip has    *)
(* voted for the newest block that is due, on top of the anchor that is    *)
(* active: also if the chain was reorganized, several blocks came at once, *)
(* the anchor changed since the last block, or an earlier call comes later.*)
(***************************************************************************)
Due == {h \in 1 .. Height[tip] : Eligible(h)}
NewestIsVoted ==
    [][\A c \in calls : ProcessAuthsIfTipChanged(c[1], c[2]) /\ c[2] = tip /\ Me \in GetCurrentTeam(top)
        => \A h \in Due : (\A i \in Due : i <= h) =>
              [prev |-> top, block |-> At(tip, h - AnchoringLag), signer |-> Me] \in auths']_vars

(***************************************************************************)
(* Pruning takes nothing that an anchor could still be made of: what       *)
(* CreateBestAnchor returns is the same before and after.                  *)
(***************************************************************************)
PruneKeepsBest == [][(\E c \in indexed : Prune(c)) => CreateBestAnchor' = CreateBestAnchor]_vars

(***************************************************************************)
(* An anchor that this node makes is one that ValidateAnchor accepts:      *)
(* "current team for THIS message extracted from PREV anchor message"      *)
(* (anchors.cpp:601).  Votes are checked when they come, and not looked at *)
(* again when an anchor is made of them.  CreateBestAnchor counts with the *)
(* team that signed the top anchor, so this is so only if the top names    *)
(* that team again.                                                        *)
(***************************************************************************)
BestAnchorIsValid ==
    GetCurrentTeam(top) = GetNextTeam(top) => \A a \in CreateBestAnchor : ValidateAnchor(a)
=============================================================================
