---------------------------- MODULE MCChampMap ----------------------------
(***************************************************************************)
(* ChampMapSync instantiated for TLC.  Key hashes are 3 bits, 2 bits per  *)
(* level, MAX_SHIFT 2: the root routes on bits 0-1, the second level on   *)
(* bit 2 alone (as the code's shift-60 level sees 4 of 5 bits), and       *)
(* Collision nodes sit at shift 4.  The hashes are chosen so that:        *)
(*   k1 (000) and k2 (100) share the root fragment and split at shift 2,  *)
(*   and the shift-2 node of k1 keeps an empty slot for InnerAdd;        *)
(*   k2 and k3 (100) share the whole hash and need a Collision node.      *)
(* AdHash arithmetic keeps 8 bits; the seeds are the low bytes of the     *)
(* code's SEED_1 = 0x9E3779B97F4A7C15 and SEED_2 = 0x517CC1B727220A95.    *)
(***************************************************************************)
EXTENDS ChampMap, TLC

CONSTANTS k1, k2, k3, v1, v2

MCKeys      == {k1, k2, k3}
MCValues    == {v1, v2}
MCKeyHash   == k1 :> 0 @@ k2 :> 4 @@ k3 :> 4
(* All three keys under one full hash: a Collision node of three entries. *)
MCCollidingKeyHash == k1 :> 1 @@ k2 :> 1 @@ k3 :> 1
MCValueHash == v1 :> 3 @@ v2 :> 200
MCOneValue     == {v1}
MCOneValueHash == v1 :> 3
MCSeed1     == 21    \* 0x15
MCSeed2     == 149   \* 0x95
=============================================================================
