---------------------------- MODULE ChampTwoMaps ----------------------------
(***************************************************************************)
(* Two independent ChampMapSync values over the same hasher, each with its *)
(* own store, driven by interleaved calls.  The maps never share state;    *)
(* the composition exists to relate them: spec.md section 5 promises that  *)
(* iteration order is a pure function of the entry set, so two maps that  *)
(* hold the same entries iterate identically.                              *)
(***************************************************************************)
EXTENDS ChampOps

CONSTANTS ARENA_BOUND, CHECKPOINT_BOUND

VARIABLES storeA, rootA, sizeA, adhashA, cpsA,
          storeB, rootB, sizeB, adhashB, cpsB

varsA == <<storeA, rootA, sizeA, adhashA, cpsA>>
varsB == <<storeB, rootB, sizeB, adhashB, cpsB>>
vars  == <<varsA, varsB>>

A == INSTANCE ChampMap WITH store <- storeA, root <- rootA, size <- sizeA,
                            adhash <- adhashA, cps <- cpsA
B == INSTANCE ChampMap WITH store <- storeB, root <- rootB, size <- sizeB,
                            adhash <- adhashB, cps <- cpsB

Init == A!Init /\ B!Init

(* A call on one map leaves the other alone. *)
Next == \/ A!Next /\ UNCHANGED varsB
        \/ B!Next /\ UNCHANGED varsA

Spec == Init /\ [][Next]_vars

TypeOK == A!TypeOK /\ B!TypeOK

(* spec.md sections 4.8 and 5: iteration order is a pure function of the  *)
(* entry set, identical between any two maps with identical entries.       *)
(* iter.rs collect yields a Collision node's entries in storage order,     *)
(* which insert_into_collision (insert.rs) makes the order of insertion.   *)
IterationOrderCanonical ==
    A!DictOf(A!Items) = B!DictOf(B!Items) => A!Items = B!Items

=============================================================================
