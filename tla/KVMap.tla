------------------------------- MODULE KVMap -------------------------------
(***************************************************************************)
(* What a map promises (spec.md sections 4.9, 6): a dictionary from keys  *)
(* to values with insert, remove, get, and snapshots that checkpoint      *)
(* saves and rollback restores.  Checkpoints are a stack: rolling back to *)
(* one discards the ones taken after it and keeps it for reuse.  A       *)
(* discarded checkpoint is never used again here; ChampCheckpointCopies  *)
(* shows what the code does when a caller reuses one.                    *)
(* get changes nothing and is no step.                                     *)
(***************************************************************************)
EXTENDS Sequences, Naturals

CONSTANTS Keys, Values, None, CHECKPOINT_BOUND

VARIABLES dict, snapshots

vars == <<dict, snapshots>>

Dicts == [Keys -> Values \cup {None}]

Init ==
    /\ dict = [k \in Keys |-> None]
    /\ snapshots = <<>>

Insert(k, v) ==
    /\ dict' = [dict EXCEPT ![k] = v]
    /\ UNCHANGED snapshots

Remove(k) ==
    /\ dict' = [dict EXCEPT ![k] = None]
    /\ UNCHANGED snapshots

Checkpoint ==
    /\ Len(snapshots) < CHECKPOINT_BOUND
    /\ snapshots' = Append(snapshots, dict)
    /\ UNCHANGED dict

Rollback(i) ==
    /\ dict' = snapshots[i]
    /\ snapshots' = SubSeq(snapshots, 1, i)

Next ==
    \/ \E k \in Keys, v \in Values : Insert(k, v)
    \/ \E k \in Keys : Remove(k)
    \/ Checkpoint
    \/ \E i \in DOMAIN snapshots : Rollback(i)

Spec == Init /\ [][Next]_vars
=============================================================================
