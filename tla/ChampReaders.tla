---------------------------- MODULE ChampReaders ----------------------------
(***************************************************************************)
(* One ChampMapSync shared by reader threads.  The map is Send + Sync      *)
(* (map_sync.rs): threads may hold &map at once, and each reader runs a   *)
(* `for (k, v) in map.iter()` loop.  Iter::new collects every entry       *)
(* eagerly (iter.rs collect) and next hands them out one by one.  Every   *)
(* mutation takes &mut self, so the borrow checker lets a call of the     *)
(* writer happen only while no reader holds an iterator (Iter<'a> borrows *)
(* the store for 'a).                                                       *)
(***************************************************************************)
EXTENDS ChampOps

CONSTANTS
    ARENA_BOUND, CHECKPOINT_BOUND,
    Readers,    \* the reader threads
    NoIter      \* a reader that holds no iterator

VARIABLES store, root, size, adhash, cps, iters

mapVars == <<store, root, size, adhash, cps>>
vars    == <<mapVars, iters>>

M == INSTANCE ChampMap

(* Iter { entries, pos } *)
IterState == [entries : Seq(Keys \X Values), pos : Nat]

Borrowing(r) == iters[r] # NoIter

Init == M!Init /\ iters = [r \in Readers |-> NoIter]

(* A call through &mut self: no shared borrow is alive. *)
Write ==
    /\ \A r \in Readers : ~Borrowing(r)
    /\ M!Next
    /\ UNCHANGED iters

(* map.iter() = Iter::new(&self.store, self.root) *)
IterNew(r) ==
    /\ ~Borrowing(r)
    /\ iters' = [iters EXCEPT ![r] = [entries |-> M!Items, pos |-> 0]]
    /\ UNCHANGED mapVars

(* next, Some branch: yield entries[pos] and advance. *)
IterNext(r) ==
    /\ Borrowing(r)
    /\ iters[r].pos < Len(iters[r].entries)
    /\ iters' = [iters EXCEPT ![r].pos = @ + 1]
    /\ UNCHANGED mapVars

(* next, None branch: the for loop ends and drops the iterator, which     *)
(* releases the borrow of the map.                                          *)
IterExhausted(r) ==
    /\ Borrowing(r)
    /\ ~(iters[r].pos < Len(iters[r].entries))
    /\ iters' = [iters EXCEPT ![r] = NoIter]
    /\ UNCHANGED mapVars

(* size_hint: both bounds are the number of items not yet yielded. *)
SizeHint(r) == Len(iters[r].entries) - iters[r].pos

(* The pairs a reader has been handed so far. *)
Yielded(r) == SubSeq(iters[r].entries, 1, iters[r].pos)

Next ==
    \/ Write
    \/ \E r \in Readers : IterNew(r) \/ IterNext(r) \/ IterExhausted(r)

Spec == Init /\ [][Next]_vars

-----------------------------------------------------------------------------
(* ExactSizeIterator and the reader's view: while a reader iterates, what *)
(* it has been handed plus size_hint is map.len(), it has seen no key     *)
(* twice, and every pair it has seen is what get returns for the key.    *)
(* This ties collect's DFS over the store to the facade's cached size and *)
(* to get_recursive, at every point of the reader's loop.                 *)
IterExact ==
    \A r \in Readers : Borrowing(r) =>
        LET y == Yielded(r) IN
        /\ Len(y) + SizeHint(r) = M!MapLen
        /\ \A j \in 1 .. Len(y) : M!Get(y[j][1]) = y[j][2]
        /\ \A j1, j2 \in 1 .. Len(y) : j1 # j2 => y[j1][1] # y[j2][1]

(* The shared map stays canonical (ChampMap CanonicalForm): whatever     *)
(* sequence of inserts and removes the writer made between iterations,   *)
(* the trie is the one its entries determine.                             *)
MapCanonical == M!CanonicalForm

=============================================================================
