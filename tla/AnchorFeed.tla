------------------------------ MODULE AnchorFeed ------------------------------
(***************************************************************************)
(* The anchor index with the SPV client that feeds it: the wallet and the  *)
(* peer manager of src/spv/bitcoin, their callbacks in spv_wrapper.cpp,    *)
(* and the two threads that read the last Bitcoin height first and take    *)
(* cs_main afterwards.                                                     *)
(*                                                                         *)
(* A Bitcoin block is taken with the lock of the peer manager held; its    *)
(* callbacks take cs_main for each transaction, so other threads run       *)
(* between two of them.  "queue" is what is left of the callbacks, and the *)
(* lock is held while it is not empty.                                     *)
(***************************************************************************)
EXTENDS AnchorIndex, SequencesExt

CONSTANT MaxRewinds   \* bound: restarts and rescans

VARIABLES
    where,     \* Bitcoin: the block of each transaction on the best chain
    len,       \* Bitcoin: the length of the best chain
    last,      \* height of manager->lastBlock
    common,    \* the client's blocks up to here are on the best chain, and done with
    wallet,    \* height of each transaction in the wallet and in its table
    seen,      \* wallet->allTx
    queue,     \* sets of callbacks <<transaction, height>> still to be made
    tmp,       \* the height that CheckActiveAnchor has read, or NoHeight
    rewinds,   \* how often the client went back
    torn,      \* history: a check ran with a height that callbacks still moved
    orphaned   \* history: recorded above lastBlock, in a block Bitcoin dropped

spvVars  == <<where, len, last, common, wallet, seen, queue>>
history  == <<rewinds, torn, orphaned>>
feedVars == <<vars, spvVars, tmp, history>>

NoHeight == -1
Heights(w) == {t \in Txs : w[t] \in BtcHeights}

-----------------------------------------------------------------------------
(***************************************************************************)
(* Bitcoin.  A transaction with a previous anchor is made on top of an     *)
(* active anchor, which has its confirmations.  The client looks at        *)
(* Bitcoin for each block, so nothing happens there during its callbacks.  *)
(***************************************************************************)
Made(t) == Prev[t] # NullTx => /\ where[Prev[t]] \in BtcHeights
                               /\ len - where[Prev[t]] + 1 >= MinConfirmations

Orphans(w, l) == {t \in Heights(wallet) : wallet[t] > l /\ w[t] # wallet[t]}

BtcExtend ==
    /\ len < MaxBtcHeight /\ queue = <<>>
    /\ \E S \in SUBSET {t \in Txs : where[t] = Unconfirmed /\ Made(t)} :
          where' = [t \in Txs |-> IF t \in S THEN len + 1 ELSE where[t]]
    /\ len' = len + 1
    /\ UNCHANGED <<vars, last, common, wallet, seen, queue, tmp, history>>

\* The blocks above j give way to a branch that is longer by one.
BtcReorg ==
    /\ len < MaxBtcHeight /\ queue = <<>>
    /\ \E j \in 0 .. len - 1 :
          /\ \E n \in [{t \in Heights(where) : where[t] > j} -> (j + 1 .. len + 1) \cup {Unconfirmed}] :
                where' = [t \in Txs |-> IF t \in DOMAIN n THEN n[t] ELSE where[t]]
          /\ common' = IF common < j THEN common ELSE j
    /\ len' = len + 1
    /\ orphaned' = orphaned \cup Orphans(where', last)
    /\ UNCHANGED <<vars, last, wallet, seen, queue, tmp, rewinds, torn>>

-----------------------------------------------------------------------------
(***************************************************************************)
(* The client.  BRWalletRegisterTransaction reports a transaction once; no *)
(* peer sends one from a block that the client has passed.                 *)
(***************************************************************************)
RegisterTransaction(t) ==
    /\ queue = <<>> /\ t \notin seen /\ where[t] > common
    /\ where[t] \in BtcHeights \/ Made(t)
    /\ seen' = seen \cup {t}
    /\ wallet' = [wallet EXCEPT ![t] = Unconfirmed]
    /\ IF ValidateAnchor(t) /\ t \notin Indexed(btcHeight)
       THEN OnTxAdded(t, Unconfirmed) ELSE UNCHANGED vars
    /\ UNCHANGED <<where, len, last, common, queue, tmp, history>>

\* An unconfirmed transaction that no peer relays any more; allTx keeps it.
RemoveTransaction(t) ==
    /\ queue = <<>> /\ wallet[t] = Unconfirmed
    /\ wallet' = [wallet EXCEPT ![t] = Absent]
    /\ IF t \in Indexed(btcHeight) THEN OnTxDeleted(t) ELSE UNCHANGED vars
    /\ UNCHANGED <<where, len, last, common, seen, queue, tmp, history>>

\* BRWalletUpdateTransactions: the transactions of block h that move.
UpdateTransactions(w, h) == {<<t, h>> : t \in {u \in Txs : where[u] = h /\ w[u] \notin {h, Absent}}}

\* The transactions of the blocks came before the blocks.
Relayed(lo, hi) == {t \in Txs : where[t] \in lo .. hi} \subseteq seen

NonEmpty(s) == SelectSeq(s, LAMBDA c : c # {})

\* A block that extends the chain of the client.
ExtendChain ==
    /\ queue = <<>> /\ common = last /\ last < len /\ Relayed(last + 1, last + 1)
    /\ last' = last + 1
    /\ queue' = NonEmpty(<<UpdateTransactions(wallet, last + 1)>>)
    /\ common' = IF queue' = <<>> THEN last' ELSE common
    /\ UNCHANGED <<vars, where, len, wallet, seen, tmp, history>>

\* Mutant: the wallet is not told which transactions a fork takes back.
ForkWithoutUnconfirm ==
    NonEmpty([i \in 1 .. last + 1 - common |-> UpdateTransactions(wallet, last + 2 - i)])

(***************************************************************************)
(* A fork that is now longer: what was confirmed after the join point is   *)
(* unconfirmed, then the new heights are set from the new tip downwards.   *)
(***************************************************************************)
ForkCallbacks ==
    LET undone == {t \in Txs : wallet[t] > common}
        w      == [t \in Txs |-> IF t \in undone THEN Unconfirmed ELSE wallet[t]]
    IN  NonEmpty(<<{<<t, Unconfirmed>> : t \in undone}>> \o
                 [i \in 1 .. last + 1 - common |-> UpdateTransactions(w, last + 2 - i)])

ReorganizeChain ==
    /\ queue = <<>> /\ common < last /\ last < len /\ Relayed(common + 1, last + 1)
    /\ last' = last + 1
    /\ queue' = ForkCallbacks
    /\ common' = IF queue' = <<>> THEN last' ELSE common
    /\ UNCHANGED <<vars, where, len, wallet, seen, tmp, history>>

\* One transaction of CSpvWrapper::OnTxUpdated.
TxUpdated ==
    /\ queue # <<>>
    /\ \E c \in Head(queue) :
          /\ wallet' = [wallet EXCEPT ![c[1]] = c[2]]
          /\ IF c[1] \in Indexed(btcHeight) THEN OnTxUpdated(c[1], c[2]) ELSE UNCHANGED vars
          /\ queue' = NonEmpty(<<Head(queue) \ {c}>> \o Tail(queue))
    /\ common' = IF queue' = <<>> THEN last ELSE common
    /\ UNCHANGED <<where, len, last, seen, tmp, history>>

-----------------------------------------------------------------------------
\* Mutant: only the blocks before the tip end with txStatusUpdate.
ReadHeightBeforeTip ==
    /\ queue = <<>> /\ tmp = NoHeight /\ last < len
    /\ tmp' = last
    /\ UNCHANGED <<vars, spvVars, history>>

(***************************************************************************)
(* CheckActiveAnchor: GetLastBlockHeight waits for the lock of the peer    *)
(* manager, the rest for cs_main.  cs_spvcallback lets one thread in.      *)
(***************************************************************************)
ReadHeight ==
    /\ queue = <<>> /\ tmp = NoHeight
    /\ tmp' = last
    /\ UNCHANGED <<vars, spvVars, history>>

TxStatusUpdate ==
    /\ tmp # NoHeight
    /\ CheckActiveAnchor(tmp, FALSE)
    /\ torn' = (torn \/ \E i \in DOMAIN queue : \E c \in queue[i] : c[2] <= tmp)
    /\ tmp' = NoHeight
    /\ UNCHANGED <<spvVars, rewinds, orphaned>>

\* The RPC spv_listanchors.
ListAnchors ==
    /\ queue = <<>>
    /\ UpdateLastHeight(last)
    /\ UNCHANGED <<spvVars, tmp, history>>

Rewind(h) ==
    /\ rewinds < MaxRewinds /\ h <= last
    /\ rewinds' = rewinds + 1
    /\ last' = h
    /\ common' = IF common < h THEN common ELSE h
    /\ orphaned' = orphaned \cup Orphans(where, h)

\* CSpvWrapper::Rescan; nothing but a check can fall between its two steps.
RescanFrom(h) ==
    /\ queue = <<>>
    /\ Rewind(h)
    /\ Rescan
    /\ UNCHANGED <<where, len, wallet, seen, queue, tmp, torn>>

(***************************************************************************)
(* The process ends at any moment between two steps and starts from the    *)
(* blocks it saved last, at or below h: callbacks that were not made are   *)
(* lost, as is what the block they belong to was.                          *)
(***************************************************************************)
RestartFrom(h) ==
    /\ Rewind(h)
    /\ queue # <<>> => h < last
    /\ Restart(h)
    /\ seen' = {t \in Txs : wallet[t] # Absent}
    /\ queue' = <<>>
    /\ tmp' = NoHeight
    /\ torn' = FALSE
    /\ UNCHANGED <<where, len, wallet>>

-----------------------------------------------------------------------------
FeedInit ==
    /\ Init
    /\ where = [t \in Txs |-> Unconfirmed] /\ wallet = [t \in Txs |-> Absent]
    /\ len = 0 /\ last = 0 /\ common = 0 /\ rewinds = 0
    /\ seen = {} /\ orphaned = {} /\ queue = <<>> /\ torn = FALSE
    /\ tmp = NoHeight

FeedNext ==
    \/ BtcExtend \/ BtcReorg
    \/ \E t \in Txs : RegisterTransaction(t) \/ RemoveTransaction(t)
    \/ ExtendChain \/ ReorganizeChain \/ TxUpdated
    \/ ReadHeight \/ TxStatusUpdate \/ ListAnchors
    \/ \E h \in 0 .. MaxBtcHeight : RescanFrom(h) \/ RestartFrom(h)

(***************************************************************************)
(* Peers send the transactions of a block and the block; every callback    *)
(* that is under way returns; and a block at the tip of a peer ends with   *)
(* txStatusUpdate, which gets its two locks at some time.                  *)
(***************************************************************************)
Fairness ==
    /\ WF_feedVars(ExtendChain) /\ WF_feedVars(ReorganizeChain) /\ WF_feedVars(TxUpdated)
    /\ \A t \in Txs : WF_feedVars(where[t] \in BtcHeights /\ RegisterTransaction(t))
    /\ WF_feedVars(ReadHeight) /\ WF_feedVars(TxStatusUpdate)

FeedSpec == FeedInit /\ [][FeedNext]_feedVars /\ Fairness

-----------------------------------------------------------------------------
InSync == queue = <<>> /\ common = last /\ last = len

(***************************************************************************)
(* Once the client has all blocks, each anchor is indexed at the height of *)
(* its Bitcoin block, or as unconfirmed: no reorganization, restart amidst *)
(* the callbacks of a block or rescan leaves it elsewhere.  The exception  *)
(* is an anchor whose block Bitcoin dropped while the client was below it: *)
(* it restarts from lastBlock and never unconfirms what lies above.        *)
(***************************************************************************)
AnchorHeightsAreReal ==
    InSync => \A t \in Indexed(btcHeight) \ orphaned :
                 btcHeight[t] = IF t \in seen THEN where[t] ELSE Unconfirmed

(***************************************************************************)
(* A check with the height of a client in sync leaves the anchor on top    *)
(* that a choice from the very first Bitcoin block would: it does not      *)
(* matter in what order transactions were reported, nor that the search    *)
(* begins at the old top, unless a check fell amidst the callbacks of a    *)
(* reorganization, or a block was dropped behind the back of the client.   *)
(***************************************************************************)
TopIsBest ==
    [][TxStatusUpdate /\ ~torn' /\ orphaned = {} /\ InSync /\ spvLastHeight' = len
       => NewTop(btcHeight', len, NullTx, top')]_feedVars

(***************************************************************************)
(* When Bitcoin is quiet, the index settles on the best anchor there is.   *)
(***************************************************************************)
BestAnchorInTheEnd == <>[](torn \/ orphaned # {} \/ NewTop(btcHeight, len, NullTx, top))
=============================================================================
