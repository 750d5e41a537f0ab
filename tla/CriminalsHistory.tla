--------------------------- MODULE CriminalsHistory ---------------------------
(***************************************************************************)
(* Module Criminals with a history variable: the block index that the      *)
(* process started with (LoadBlockIndex).  Headers in it are not compared  *)
(* with each other.                                                        *)
(***************************************************************************)
EXTENDS Criminals

VARIABLE loaded     \* history: the block index that the process started with

HistoryInit == Init /\ loaded = {}
HistoryNext == \/ Step /\ UNCHANGED loaded
               \/ Restart /\ loaded' = disk.index
HistorySpec == HistoryInit /\ [][HistoryNext]_<<vars, loaded>>

(***************************************************************************)
(* A double signer is noticed and stays so while the process runs: when a  *)
(* header that was accepted since the start conflicts with one that is in  *)
(* the block index, the masternode is banned or a proof against it is      *)
(* kept, across roll-backs of its ban; headers from before a crash count,  *)
(* too.  The masternode is one that is registered on every chain:          *)
(* AcceptBlockHeader does not check a header whose masternode is unknown   *)
(* on the active chain when the header arrives.                            *)
(***************************************************************************)
DoubleSignIsNoticed ==
    \A b \in index \ loaded, c \in index :
        b.header.minter \in GenesisNodes /\ IsDoubleSigned(b.header, c.header)
            => criminals[b.header.minter] # NoProof \/ Banned(b.header.minter)
=============================================================================
