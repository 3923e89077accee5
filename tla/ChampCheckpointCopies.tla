------------------------ MODULE ChampCheckpointCopies ------------------------
(***************************************************************************)
(* ChampMapSync with a caller that keeps copies of its checkpoints.        *)
(* ChampCheckpoint is Copy (lib.rs), so `let c = map.checkpoint();`        *)
(* leaves the caller free to pass c to rollback any number of times, also *)
(* after a rollback to an older checkpoint has truncated the arenas below *)
(* c's marks and new calls have allocated over them.  rollback            *)
(* (map_sync.rs) trusts the checkpoint it is given.  Each copy carries,   *)
(* as a history variable, the dictionary the map held when it was taken.  *)
(***************************************************************************)
EXTENDS ChampOps

CONSTANTS ARENA_BOUND, CHECKPOINT_BOUND

VARIABLES store, root, size, adhash, cps, copies

mapVars == <<store, root, size, adhash, cps>>
vars    == <<mapVars, copies>>

M == INSTANCE ChampMap

Init == M!Init /\ copies = {}

(* Any call of the map; the caller keeps no copy. *)
Call == M!Next /\ UNCHANGED copies

(* checkpoint, with the returned value copied and kept by the caller *)
KeepCopy ==
    /\ M!Checkpoint
    /\ copies' = copies \cup
         {[cp   |-> M!ChampCheckpoint(store, root, size, adhash),
           dict |-> M!LookupDict(store, root)]}

(* The arenas can truncate to the copy's marks: none lies beyond the      *)
(* current length.  What the arena does with a mark beyond its length is *)
(* decided by safe_bump, which is not in the repository.                  *)
Truncatable(c) ==
    /\ c.cp.store.nodes <= Len(store.nodes)
    /\ c.cp.store.entries <= Len(store.entries)
    /\ c.cp.store.children <= Len(store.children)

(* rollback(c) with a kept copy: the store truncates to c's marks and the *)
(* root, size and adhash fields are taken from c.  From then on the       *)
(* caller reuses checkpoints only through its copies: cps, the stack it   *)
(* uses by the rules, is emptied.                                          *)
RollbackCopy(c) ==
    /\ Truncatable(c)
    /\ store' = StoreRollback(store, c.cp.store)
    /\ root' = c.cp.root
    /\ size' = c.cp.size
    /\ adhash' = c.cp.adhash
    /\ cps' = <<>>
    /\ UNCHANGED copies

Next ==
    \/ Call
    \/ KeepCopy
    \/ \E c \in copies : RollbackCopy(c)

Spec == Init /\ [][Next]_vars

-----------------------------------------------------------------------------
(* lib.rs documents ChampCheckpoint as "Restoring via rollback discards   *)
(* all changes made after the checkpoint", and spec.md section 8 says     *)
(* that after rollback(cp) every get returns what it returned when cp was *)
(* taken.  A rollback to any checkpoint the caller holds a copy of        *)
(* restores the dictionary the map held at that checkpoint.               *)
RollbackRestoresCheckpoint ==
    [][\A c \in copies : RollbackCopy(c) => M!LookupDict(store', root') = c.dict]_vars
=============================================================================
