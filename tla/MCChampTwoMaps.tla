--------------------------- MODULE MCChampTwoMaps ---------------------------
(***************************************************************************)
(* Two maps for TLC, with the key hashes of MCChampMap: k2 and k3 share   *)
(* their full hash, so they meet in a Collision node.                     *)
(***************************************************************************)
EXTENDS ChampTwoMaps, TLC

CONSTANTS k1, k2, k3, v1

MCKeys      == {k1, k2, k3}
MCValues    == {v1}
MCKeyHash   == k1 :> 0 @@ k2 :> 4 @@ k3 :> 4
MCValueHash == v1 :> 3
MCSeed1     == 21    \* 0x15
MCSeed2     == 149   \* 0x95
=============================================================================
