------------------------- MODULE MCChampReadersFour -------------------------
(***************************************************************************)
(* ChampReaders over four keys in two pairs of equal hashes, with the     *)
(* root the only Inner level (MAX_SHIFT 0, 2-bit hashes): k1 and k4 hash  *)
(* to 1, k2 and k3 to 2.  The root can hold two Collision children at    *)
(* once, the iterator walks both, and a Collision node shrinking to one  *)
(* entry is promoted and inlined into a root that keeps its other child. *)
(* One reader thread iterates between the writer's calls.                 *)
(***************************************************************************)
EXTENDS ChampReaders, TLC

CONSTANTS k1, k2, k3, k4, v1, r1

MCKeys      == {k1, k2, k3, k4}
MCValues    == {v1}
MCKeyHash   == k1 :> 1 @@ k2 :> 2 @@ k3 :> 2 @@ k4 :> 1
MCValueHash == v1 :> 3
MCReaders   == {r1}
(* Keys of equal hash are interchangeable: no operator orders keys. *)
MCSymmetry  == Permutations({k1, k4}) \cup Permutations({k2, k3})
MCSeed1     == 21    \* 0x15
MCSeed2     == 149   \* 0x95
=============================================================================
