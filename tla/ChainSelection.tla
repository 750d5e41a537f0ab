---------------------------- MODULE ChainSelection ----------------------------
(***************************************************************************)
(* The choice of the active chain (CChainState): blocks that come in any   *)
(* order, anchors that come and go, and the thread in ActivateBestChain,   *)
(* which lets go of cs_main between two steps and remembers the block it   *)
(* is working towards.                                                     *)
(*                                                                         *)
(* A block is given by its place in the tree.  Every block has the same    *)
(* proof, so the work of a chain is its height.  What ConnectBlock makes   *)
(* of a block is a constant (Bad).  An anchor stands for its height and    *)
(* hash, that is, for a block, which this node need not have.              *)
(***************************************************************************)
EXTENDS BlockTree, FiniteSets, FiniteSetsExt

CONSTANTS
    Bad,                               \* blocks that do not connect
    Anchors, AnchorBlock, Previous,    \* the anchors, each on top of Previous
    None,                              \* null pointers
    MaxTops                            \* bound: changes of the active anchor

ASSUME AnchorAssumption ==
    /\ None \notin Anchors \cup Blocks /\ Bad \subseteq Blocks \ {Genesis}
    /\ \A a \in Anchors : /\ AnchorBlock[a] \in Blocks \ {Genesis}
                          /\ Previous[a] \in Anchors \cup {None}
                          /\ Previous[a] # None => Height[AnchorBlock[Previous[a]]] < Height[AnchorBlock[a]]

VARIABLES
    known,        \* m_block_index
    data,         \* blocks with BLOCK_HAVE_DATA
    before,       \* the order of nSequenceId, of blocks of one height
    failed,       \* BLOCK_FAILED_MASK
    candidates,   \* setBlockIndexCandidates
    tip,          \* m_chain.Tip()
    top,          \* the active anchor
    tops,         \* changes of it so far
    wanted,       \* a thread is about to call ActivateBestChain
    lowered,      \* an anchor went and ActivateBestChain was not called since
    pc,           \* the thread in it; in "find" and "step" it holds cs_main
    pindexMostWork, startingTip, connected

tree     == <<known, data, before>>
anchors  == <<top, tops>>
locals   == <<pindexMostWork, startingTip, connected>>
vars     == <<tree, failed, candidates, tip, anchors, wanted, lowered, pc, locals>>

-----------------------------------------------------------------------------
\* HaveTxsDownloaded: the data of the block and of all before it.
Linked(D) == {b \in D : Chain[b] \subseteq D}

\* CBlockIndexWorkComparator
Worse(b, c) == Height[b] < Height[c] \/ <<c, b>> \in before
Best(S)     == {b \in S : \A c \in S : c = b \/ Worse(c, b)}

\* The anchors of the chain of a, and the highest of them that block b reaches.
Below[a \in Anchors] == {a} \cup (IF Previous[a] = None THEN {} ELSE Below[Previous[a]])
ActiveAnchors(t)  == IF t = None THEN {} ELSE Below[t]
AnchorHeight(a)   == Height[AnchorBlock[a]]
Reached(t, b)     == {a \in ActiveAnchors(t) : AnchorHeight(a) <= Height[b]}
GetHighestAnchorFor(t, b) ==
    CHOOSE a \in Reached(t, b) : \A o \in Reached(t, b) : AnchorHeight(o) <= AnchorHeight(a)

GoodChain(t, b) ==
    Reached(t, b) # {} => AnchorBlock[GetHighestAnchorFor(t, b)] \in Chain[b]

(***************************************************************************)
(* FilterAnchorSatisfying takes the best candidate and the candidates      *)
(* right below it, keeps or drops them all by the anchor of the best, and  *)
(* goes on with the rest.  The candidates so taken as first are those      *)
(* without a child among them; a block goes with the best that leads to    *)
(* it.                                                                     *)
(***************************************************************************)
Run(b, C)  == {c \in C \cap Chain[b] : \A d \in Chain[b] : Height[d] > Height[c] => d \in C}
Heads(C)   == {b \in C : \A c \in C : c = Genesis \/ Parent[c] # b}
HeadOf(b, C) == Best({h \in Heads(C) : b \in Run(h, C)})

FilterAnchorSatisfying(t, C) ==
    IF t = None THEN C ELSE {b \in C : \E h \in HeadOf(b, C) : GoodChain(t, h)}

\* Mutant: the tip goes too.
PruneNotBetter(C, t) == {b \in C : Worse(t, b)}

PruneBlockIndexCandidates(C, t) == {b \in C : ~Worse(b, t)}

-----------------------------------------------------------------------------
Unlocked == pc \in {"idle", "loop"}

ReceiveHeader(b) ==
    /\ Unlocked
    /\ b \notin known /\ Parent[b] \in known \ failed
    /\ known' = known \cup {b}
    /\ UNCHANGED <<data, before, failed, candidates, tip, anchors, wanted, lowered, pc, locals>>

\* Mutant: the blocks that waited for b are not looked at.
OnlyItself(b, new) == {c \in new : c = b /\ Height[c] > Height[tip]}

\* Of the blocks that b links, those that are better than the tip; one of the
\* height of the tip has a later number and is not.
NewCandidates(b, new) == {c \in new : Height[c] > Height[tip]}

(***************************************************************************)
(* ProcessNewBlock: AcceptBlock stores the block.                          *)
(* ReceivedBlockTransactions links it and all above it that waited for it, *)
(* numbers them, and those that are not worse than the tip become          *)
(* candidates.  Then ActivateBestChain is called.                          *)
(***************************************************************************)
ProcessNewBlock(b) ==
    LET new == Linked(data \cup {b}) \ Linked(data) IN
    /\ Unlocked
    /\ b \notin data
    /\ IF b \in known THEN b \notin failed ELSE Parent[b] \in known \ failed
    /\ known' = known \cup {b}
    /\ data' = data \cup {b}
    /\ \E n \in [new -> 1 .. Cardinality(new)] :
          /\ \A c, d \in new : c # d /\ Height[c] = Height[d] => n[c] # n[d]
          /\ before' = before \cup {p \in Linked(data') \X new :
                                       /\ Height[p[1]] = Height[p[2]] /\ p[1] # p[2]
                                       /\ p[1] \in new => n[p[1]] < n[p[2]]}
    /\ candidates' = candidates \cup NewCandidates(b, new)
    /\ wanted' = TRUE
    /\ UNCHANGED <<failed, tip, anchors, lowered, pc, locals>>

\* CheckActiveAnchor found another best anchor.
SetTop(a) ==
    /\ Unlocked /\ tops < MaxTops /\ a # top
    /\ top' = a /\ tops' = tops + 1
    /\ wanted' = TRUE
    /\ UNCHANGED <<tree, failed, candidates, tip, lowered, pc, locals>>

\* DeleteAnchorByBtcTx takes back anchors; nobody calls ActivateBestChain.
DeleteAnchor(a) ==
    /\ Unlocked /\ tops < MaxTops
    /\ a \in (ActiveAnchors(top) \cup {None}) \ {top}
    /\ top' = a /\ tops' = tops + 1
    /\ lowered' = TRUE
    /\ UNCHANGED <<tree, failed, candidates, tip, wanted, pc, locals>>

-----------------------------------------------------------------------------
\* The conflicting anchors right below the highest that the tip reaches.
Conflicting ==
    {a \in Reached(top, tip) : \A o \in Reached(top, tip) :
        AnchorHeight(o) >= AnchorHeight(a) => AnchorBlock[o] \notin Chain[tip]}

\* Mutant: the chain stops at the conflicting block.
KeepConflicting(h) == At(tip, h)

RolledBackTo(h) == At(tip, h - 1)

\* Mutant: no candidate comes back.
RefillWithTip(t) == candidates \cup {t}

\* Leaves of the index off the chain of t, if they are high enough.
RefillCandidates(t) ==
    LET orphans == known \ Chain[t]
        leaves  == {b \in orphans : \A c \in orphans : Parent[c] # b}
    IN  candidates \cup {t} \cup {b \in leaves \cap Linked(data) : Height[b] >= Height[t]}

(***************************************************************************)
(* ActivateBestChain gets m_cs_chainstate and rolls back once              *)
(* (RollBackIfTipConflictsWithAnchors).                                    *)
(***************************************************************************)
ActivateBestChain ==
    /\ pc = "idle" /\ wanted
    /\ wanted' = FALSE /\ lowered' = FALSE
    /\ IF Conflicting = {} THEN UNCHANGED <<tip, candidates>>
       ELSE LET t == RolledBackTo(Min({AnchorHeight(a) : a \in Conflicting}))
            IN  tip' = t /\ candidates' = RefillCandidates(t)
    /\ pc' = "loop" /\ pindexMostWork' = None
    /\ UNCHANGED <<tree, failed, anchors, startingTip, connected>>

\* cs_main is taken for a turn of the outer loop.
Lock ==
    /\ pc = "loop"
    /\ startingTip' = tip /\ connected' = FALSE
    /\ pc' = "find"
    /\ UNCHANGED <<tree, failed, candidates, tip, anchors, wanted, lowered, pindexMostWork>>

(***************************************************************************)
(* FindMostWorkChain: the best of the filtered candidates, or, if a block  *)
(* on the way to it has failed, one candidate less.                        *)
(***************************************************************************)
FindMostWorkChain ==
    /\ pc = "find" /\ pindexMostWork = None
    /\ \/ /\ FilterAnchorSatisfying(top, candidates) = {}
          /\ pc' = "step"
          /\ UNCHANGED <<failed, candidates, pindexMostWork>>
       \/ \E new \in Best(FilterAnchorSatisfying(top, candidates)) :
              \/ /\ Chain[new] \cap failed \subseteq Chain[tip]
                 /\ pindexMostWork' = new /\ pc' = "step"
                 /\ UNCHANGED <<failed, candidates>>
              \/ \E f \in (Chain[new] \ Chain[tip]) \cap failed :
                 /\ \A o \in Chain[new] \cap failed : Height[o] <= Height[f]
                 /\ failed' = failed \cup (Chain[new] \ Chain[Parent[f]])
                 /\ candidates' = candidates \ (Chain[new] \ Chain[Parent[f]])
                 /\ UNCHANGED <<pc, pindexMostWork>>
    /\ UNCHANGED <<tree, tip, anchors, wanted, lowered, startingTip, connected>>

Remembered ==
    /\ pc = "find" /\ pindexMostWork # None
    /\ pc' = "step"
    /\ UNCHANGED <<tree, failed, candidates, tip, anchors, wanted, lowered, locals>>

\* Mutant: whether blocks were connected does not matter.
NothingToDoAgain ==
    /\ pc = "step" /\ pindexMostWork \in {None, tip}
    /\ pc' = IF pindexMostWork # tip THEN "loop" ELSE "idle"
    /\ UNCHANGED <<tree, failed, candidates, tip, anchors, wanted, lowered, locals>>

\* Nothing to do: the call returns, or goes round once more.
NothingToDo ==
    /\ pc = "step" /\ pindexMostWork \in {None, tip}
    /\ pc' = IF connected /\ pindexMostWork # tip THEN "loop" ELSE "idle"
    /\ UNCHANGED <<tree, failed, candidates, tip, anchors, wanted, lowered, locals>>

\* Mutant: one turn is enough.
OneTurn(t, most) == IF Worse(t, startingTip) THEN "find" ELSE "idle"

\* The loop under the lock goes on while the tip is worse than at its start,
\* the one around it until the tip is the block worked towards.
AfterStep(t, most) == IF Worse(t, startingTip) THEN "find" ELSE IF t = most THEN "idle" ELSE "loop"

(***************************************************************************)
(* ActivateBestChainStep: back to the fork, then forward until a block     *)
(* fails or the tip has more work than before.                             *)
(***************************************************************************)
ActivateBestChainStep ==
    /\ pc = "step" /\ pindexMostWork \notin {None, tip}
    /\ LET way   == Chain[pindexMostWork] \ Chain[tip]
           stops == {b \in way : b \in Bad \/ Height[b] > Height[tip] \/ b = pindexMostWork}
       IN
       \E last \in stops :
          /\ \A b \in stops : Height[last] <= Height[b]
          /\ \/ /\ last \notin Bad
                /\ tip' = last
                /\ candidates' = PruneBlockIndexCandidates(candidates, last)
                /\ UNCHANGED <<failed, pindexMostWork>>
             \/ /\ last \in Bad
                /\ tip' = Parent[last]
                /\ failed' = failed \cup {last}
                /\ candidates' = IF Parent[last] \in way
                                 THEN PruneBlockIndexCandidates(candidates \ {last}, Parent[last])
                                 ELSE candidates \ {last}
                /\ pindexMostWork' = None
    /\ connected' = TRUE
    /\ pc' = AfterStep(tip', pindexMostWork')
    /\ UNCHANGED <<tree, anchors, wanted, lowered, startingTip>>

-----------------------------------------------------------------------------
\* A block that is there already: the call of ActivateBestChain remains.
KnownBlock ==
    /\ Unlocked /\ ~wanted
    /\ wanted' = TRUE
    /\ UNCHANGED <<tree, failed, candidates, tip, anchors, lowered, pc, locals>>

Init ==
    /\ known = {Genesis} /\ data = {Genesis} /\ before = {} /\ failed = {}
    /\ candidates = {Genesis} /\ tip = Genesis
    /\ top = None /\ tops = 0 /\ wanted = FALSE /\ lowered = FALSE
    /\ pc = "idle" /\ pindexMostWork = None /\ startingTip = Genesis /\ connected = FALSE

Thread == ActivateBestChain \/ Lock \/ FindMostWorkChain \/ Remembered \/ NothingToDo \/ ActivateBestChainStep

Next ==
    \/ Thread
    \/ \E b \in Blocks \ {Genesis} : ReceiveHeader(b) \/ ProcessNewBlock(b)
    \/ \E a \in Anchors : SetTop(a)
    \/ \E a \in Anchors \cup {None} : DeleteAnchor(a)
    \/ KnownBlock

Spec == Init /\ [][Next]_vars /\ WF_vars(Thread)

-----------------------------------------------------------------------------
TypeOK ==
    /\ data \subseteq known /\ known \subseteq Blocks /\ failed \subseteq known
    /\ candidates \subseteq Linked(data) /\ tip \in Linked(data) /\ candidates # {}
    /\ top \in Anchors \cup {None} /\ pc \in {"idle", "loop", "find", "step"}
    /\ pindexMostWork \in Linked(data) \cup {None}

Quiet == pc = "idle" /\ ~wanted

(***************************************************************************)
(* When no call of ActivateBestChain is under way or about to be made, the *)
(* active chain goes through the block of every active anchor that it is   *)
(* high enough for.  In between it need not: the anchor may change while   *)
(* the thread works towards a block it chose before.  The code looks at    *)
(* the highest anchor that a chain reaches and takes it for granted that   *)
(* the anchors below it are on one chain with it (OneChain).               *)
(***************************************************************************)
OneChain == \A a \in Anchors : Previous[a] # None => AnchorBlock[Previous[a]] \in Chain[AnchorBlock[a]]
TipSatisfiesAnchors ==
    Quiet => \A a \in Reached(top, tip) : AnchorBlock[a] \in Chain[tip]

(***************************************************************************)
(* What ActivateBestChain leaves behind is the best of the candidates that *)
(* satisfy the anchors, unless there is none, or anchors went and nobody   *)
(* called it since.                                                        *)
(***************************************************************************)
BestCandidateIsActive ==
    LET filtered == FilterAnchorSatisfying(top, candidates)
    IN  Quiet /\ ~lowered => \A b \in filtered : b \in failed \/ Chain[b] \cap failed # {} \/ ~Worse(tip, b)

\* All that is known is there, and no block was found invalid so far.
Complete == failed = {} /\ known = data

(***************************************************************************)
(* If a node has all blocks up to the one of the active anchor, it ends on *)
(* a chain with this block, be it the longest or not.  It need not, if     *)
(* RefillCandidates met a header without its block, or a failed block, on  *)
(* top of the anchored one: it looks at leaves only.                       *)
(***************************************************************************)
AnchoredBlockIsActive ==
    Quiet /\ ~lowered /\ Complete /\ top # None /\ AnchorBlock[top] \in Linked(data)
        => AnchorBlock[top] \in Chain[tip]

(***************************************************************************)
(* "The result is either failure or an activated best chain"               *)
(* (validation.cpp:3011): no valid block with more work than the tip       *)
(* satisfies the anchors, once the block of the active anchor is there.    *)
(* Before, FilterAnchorSatisfying may drop good blocks together with one   *)
(* above them that conflicts with the anchor.                              *)
(***************************************************************************)
BestChainIsActive ==
    Quiet /\ ~lowered /\ Complete /\ (top # None => AnchorBlock[top] \in Linked(data))
        => \A b \in Linked(data) : Height[b] > Height[tip] /\ GoodChain(top, b) => Chain[b] \cap Bad # {}

(***************************************************************************)
(* ActivateBestChain comes to its end whatever anchors and blocks come     *)
(* while it runs: each call is over after finitely many turns.             *)
(***************************************************************************)
ActivationEnds == pc # "idle" ~> pc = "idle"
=============================================================================
