---------------------------- MODULE MasternodesDB ----------------------------
(***************************************************************************)
(* The masternode registry with its database (CMasternodesViewDB), the     *)
(* coin database beside it, crashes of the process and restarts.           *)
(*                                                                         *)
(* FlushStateToDisk writes two databases one after the other: the coins in *)
(* one or more batches, then the registry in one batch and the double-sign *)
(* proofs one by one.  A restart takes the active chain from the coin      *)
(* database and the registry from its own.  Only the best block of the     *)
(* coin database is kept here; block files are complete for every block of *)
(* either database, because they are written first.  A crash is a crash of *)
(* the process: what has been handed to LevelDB stays.                     *)
(***************************************************************************)
EXTENDS MasternodesView

CONSTANTS
    NoChain,      \* the coin database has no best block
    CrashPoints   \* the stages of a flush at which the process may crash

Stages == {"none", "coins", "mndb", "criminals"}

ASSUME CrashAssumption == CrashPoints \subseteq Stages

VARIABLES
    disk,       \* the masternodes database
    coinsTip,   \* chain that ends with DB_BEST_BLOCK of the coin database
    heads,      \* DB_HEAD_BLOCKS is present: the coins are between two tips
    stage       \* how far FlushStateToDisk is

dbvars  == <<disk, coinsTip, heads, stage>>
allvars == <<vars, dbvars>>

EmptyTables ==
    [allNodes   |-> [i \in Ids |-> NoEntry],
     blocksUndo |-> [h \in Heights |-> NoEntry],
     lastHeight |-> 0,
     criminals  |-> {}]

-----------------------------------------------------------------------------
(* FlushStateToDisk, called between two blocks and at shutdown.            *)

\* CCoinsViewDB::BatchWrite: partial batches if there is much to write, then the
\* batch that sets the tip.
FlushCoins ==
    /\ running /\ pc = "idle" /\ stage = "none"
    /\ stage' = "coins" /\ heads' = TRUE
    /\ UNCHANGED <<vars, disk, coinsTip>>

FlushCoinsDone ==
    /\ running /\ pc = "idle" /\ stage \in {"none", "coins"}
    /\ stage' = "mndb" /\ heads' = FALSE /\ coinsTip' = chain
    /\ UNCHANGED <<vars, disk>>

\* Mutant: deleted entries are only dropped from memory.
WriteTableOnly(table, map, deleted) ==
    [k \in DOMAIN map |-> IF map[k] \in {NoEntry, deleted} THEN table[k] ELSE map[k]]

\* An entry that marks a deletion leaves the table, any other is written.
WriteTable(table, map, deleted) ==
    [k \in DOMAIN map |-> IF map[k] = NoEntry THEN table[k]
                          ELSE IF map[k] = deleted THEN NoEntry ELSE map[k]]

\* Deletion marks leave the memory, too.
Purge(map, deleted) == [k \in DOMAIN map |-> IF map[k] = deleted THEN NoEntry ELSE map[k]]

\* Mutant: the height is left out of the batch.
FlushNoHeight ==
    /\ running /\ stage = "mndb"
    /\ stage' = "criminals"
    /\ disk' = [disk EXCEPT !.allNodes = WriteTable(@, base.allNodes, EmptyNode),
                            !.blocksUndo = WriteTable(@, base.blocksUndo, EmptyUndo)]
    /\ base' = [base EXCEPT !.allNodes = Purge(@, EmptyNode), !.blocksUndo = Purge(@, EmptyUndo)]
    /\ UNCHANGED <<mnview, criminals, chain, pc, block, cursor, touched, running, coinsTip, heads>>

Flush ==
    /\ running /\ stage = "mndb"
    /\ stage' = "criminals"
    /\ disk' = [allNodes   |-> WriteTable(disk.allNodes, base.allNodes, EmptyNode),
                blocksUndo |-> WriteTable(disk.blocksUndo, base.blocksUndo, EmptyUndo),
                lastHeight |-> base.lastHeight,
                criminals  |-> disk.criminals]
    /\ base' = [base EXCEPT !.allNodes = Purge(@, EmptyNode), !.blocksUndo = Purge(@, EmptyUndo)]
    /\ UNCHANGED <<mnview, criminals, chain, pc, block, cursor, touched, running, coinsTip, heads>>

\* Written directly, outside the batch.  Flush would erase a null proof from the table,
\* but there is none: RemoveCriminalProofs erases the entry from the map in memory.
WriteCriminal(id) ==
    /\ running /\ stage = "criminals"
    /\ id \in criminals \ disk.criminals
    /\ disk' = [disk EXCEPT !.criminals = @ \cup {id}]
    /\ UNCHANGED <<vars, coinsTip, heads, stage>>

FlushDone ==
    /\ running /\ stage = "criminals" /\ criminals \subseteq disk.criminals
    /\ stage' = "none"
    /\ UNCHANGED <<vars, disk, coinsTip, heads>>

-----------------------------------------------------------------------------
(* The process ends, at any time, and is started again.                    *)

Crash ==
    /\ running /\ stage \in CrashPoints
    /\ running' = FALSE
    /\ UNCHANGED <<base, mnview, criminals, chain, pc, block, cursor, touched, dbvars>>

\* The table is read in the order of its keys, and map::insert keeps the first.
IndexOf(nodes, field) ==
    [k \in Keys |-> IF \E i \in Ids : IsNode(nodes[i]) /\ nodes[i][field] = k
                    THEN CHOOSE i \in Ids : IsNode(nodes[i]) /\ nodes[i][field] = k
                    ELSE NoEntry]

Load(tables) ==
    [allNodes        |-> tables.allNodes,
     nodesByOwner    |-> IndexOf(tables.allNodes, "ownerAuthAddress"),
     nodesByOperator |-> IndexOf(tables.allNodes, "operatorAuthAddress"),
     blocksUndo      |-> tables.blocksUndo,
     lastHeight      |-> tables.lastHeight]

\* VerifyDB, at its default level, disconnects the last blocks in memory and stops at
\* the height check of DisconnectBlock; it has nothing to do at genesis.
VerifyDB(view, active) == active # <<>> => view.lastHeight = Len(active)

\* Mutant: the table of criminals is not read.
LoadNoCriminals == {}

LoadCriminals == disk.criminals

\* With an empty coin database the genesis block is connected again.
RestartView  == IF coinsTip = NoChain THEN GenesisView ELSE Load(disk)
RestartChain == IF coinsTip = NoChain THEN <<>> ELSE coinsTip

Restart ==
    /\ ~running
    /\ ~heads                                 \* else ReplayBlocks: "Make reindex!"
    /\ VerifyDB(RestartView, RestartChain)    \* else "Corrupted block database detected"
    /\ base' = RestartView /\ mnview' = EmptyCache(RestartView.lastHeight)
    /\ criminals' = LoadCriminals
    /\ chain' = RestartChain
    /\ pc' = "idle" /\ block' = NoBlock /\ cursor' = 0 /\ touched' = {}
    /\ running' = TRUE /\ stage' = "none"
    /\ UNCHANGED <<disk, coinsTip, heads>>

\* -reindex-chainstate: both databases are wiped and the chain is built anew.
Reindex ==
    /\ ~running
    /\ disk' = EmptyTables /\ coinsTip' = NoChain /\ heads' = FALSE
    /\ UNCHANGED <<vars, stage>>

-----------------------------------------------------------------------------
DBInit ==
    /\ Init
    /\ disk = EmptyTables /\ coinsTip = NoChain /\ heads = FALSE /\ stage = "none"

DBNext ==
    \/ stage = "none" /\ Next /\ UNCHANGED dbvars
    \/ FlushCoins \/ FlushCoinsDone \/ Flush \/ FlushDone
    \/ \E id \in Ids : WriteCriminal(id)
    \/ Crash \/ Restart \/ Reindex

DBSpec == DBInit /\ [][DBNext]_allvars

-----------------------------------------------------------------------------
(* Properties.                                                             *)

(***************************************************************************)
(* The two databases fit each other whenever the process is down and the   *)
(* coin database is whole: the height check of VerifyDB does not refuse    *)
(* the restart ("Corrupted block database detected").  This is claimed for *)
(* CrashPoints without "mndb": a crash between the two flushes leaves the  *)
(* databases at different tips, and the restart may well be refused.       *)
(***************************************************************************)
RestartIsPossible == ~running /\ ~heads => VerifyDB(RestartView, RestartChain)

(***************************************************************************)
(* A double-sign proof that Flush has stored is not lost by roll-backs,    *)
(* crashes and restarts: its masternode is listed in criminals or banned.  *)
(***************************************************************************)
StoredProofsCount == running /\ pc = "idle" => \A id \in disk.criminals : Caught(id)
=============================================================================
