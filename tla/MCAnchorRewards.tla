--------------------------- MODULE MCAnchorRewards ---------------------------
(***************************************************************************)
(* Three masternodes, teams of two of them or of all, two anchors.         *)
(***************************************************************************)
EXTENDS AnchorRewards

MCOperators == {"me", "p", "q"}
MCGenesis   == {"me", "p"}
MCNextTeam  == <<{"me", "q"}, {"p", "q"}, MCOperators>>
=============================================================================
