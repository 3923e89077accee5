--------------------- MODULE MCChampCheckpointCopies ---------------------
(***************************************************************************)
(* ChampCheckpointCopies with the keys of the structure run: k1 (000) and *)
(* k2 (100) both sit in the root at first, so each one-key map is one     *)
(* node and one entry, allocated at the same arena positions.             *)
(***************************************************************************)
EXTENDS ChampCheckpointCopies, TLC

CONSTANTS k1, k2, k3, v1

MCKeys      == {k1, k2, k3}
MCValues    == {v1}
MCKeyHash   == k1 :> 0 @@ k2 :> 4 @@ k3 :> 4
MCValueHash == v1 :> 3
MCSeed1     == 21    \* 0x15
MCSeed2     == 149   \* 0x95
=============================================================================
