------------------------------ MODULE ChampMap ------------------------------
(***************************************************************************)
(* The map facade ChampMapSync (src/src/map_sync.rs) over the store and   *)
(* the trie algorithms: root, size, AdHash and the store, plus the stack  *)
(* of checkpoints the caller holds and the last call's return value.      *)
(* Every call is one atomic step: mutation needs &mut self, so nothing    *)
(* interleaves with it.                                                    *)
(***************************************************************************)
EXTENDS ChampOps
LOCAL INSTANCE Functions

CONSTANTS
    ARENA_BOUND,       \* no insert/remove starts once this many nodes exist
    CHECKPOINT_BOUND   \* most checkpoints the caller holds at once

VARIABLES store, root, size, adhash, cps

vars == <<store, root, size, adhash, cps>>

(* ChampMapSync::new *)
Init ==
    /\ store = EmptyStore
    /\ root = None
    /\ size = 0
    /\ adhash = 0
    /\ cps = <<>>

(* A mutation may start while the node arena is below its bound. *)
Room == Len(store.nodes) < ARENA_BOUND

NewEntry(k, v) == [hash |-> KeyHash[k], key |-> k, value |-> v]

(* insert_recursive from the root, and remove_recursive from the root *)
InsertOutcomeOf(k, v) == InsertRecursive(store, root, NewEntry(k, v), 0)
RemoveOutcomeOf(k)    == RemoveRecursive(store, root, KeyHash[k], k, 0)

(* What insert, remove and get return in the current state. *)
InsertResultOf(k, v) ==
    IF root = None \/ InsertOutcomeOf(k, v).inserted THEN "Inserted" ELSE "Updated"
RemoveResultOf(k) == root # None /\ RemoveOutcomeOf(k).found
GetAt(st, r, k) == IF r = None THEN None ELSE GetRecursive(st, r, KeyHash[k], k, 0)
Get(k) == GetAt(store, root, k)

(* len(): the cached entry count *)
MapLen == size

(* insert into an empty map: one entry under a fresh root *)
InsertFirst(k, v) ==
    LET entry == NewEntry(k, v)
        a1    == AllocEntries(store, <<entry>>)
        a2    == AllocNode(a1.store, Inner({Fragment(entry.hash, 0)}, {},
                                        Expect(a1.idx), 0, Contrib(entry)))
    IN  /\ Room
        /\ root = None
        /\ store' = a2.store
        /\ root' = a2.idx
        /\ size' = 1
        /\ adhash' = Contrib(entry)
        /\ UNCHANGED cps

(* Defect: size counted up on an update as well. *)
InsertNonEmptyCountsUpdates(k, v) ==
    LET o == InsertOutcomeOf(k, v)
    IN  /\ Room
        /\ root # None
        /\ ~o.panic
        /\ store' = o.store
        /\ root' = o.node
        /\ adhash' = WrappingAdd(adhash, o.delta)
        /\ size' = size + 1
        /\ UNCHANGED cps

(* insert into a non-empty map: adopt the new root, add the deltas *)
InsertNonEmpty(k, v) ==
    LET o == InsertOutcomeOf(k, v)
    IN  /\ Room
        /\ root # None
        /\ ~o.panic
        /\ store' = o.store
        /\ root' = o.node
        /\ adhash' = WrappingAdd(adhash, o.delta)
        /\ size' = IF o.inserted THEN size + 1 ELSE size
        /\ UNCHANGED cps

(* insert whose recursion panics on collision overflow: the unwinding      *)
(* skips every assignment of insert; a caller that catches it keeps the   *)
(* map with whatever the recursion had allocated                          *)
InsertPanics(k, v) ==
    LET o == InsertOutcomeOf(k, v)
    IN  /\ Room
        /\ root # None
        /\ o.panic
        /\ store' = o.store
        /\ UNCHANGED <<root, size, adhash, cps>>

(* remove of a present key; remove on an empty map, and NotFound, return *)
(* false and change nothing, so they are no step of the state machine     *)
Remove(k) ==
    LET o == RemoveOutcomeOf(k)
    IN  /\ Room
        /\ root # None
        /\ o.found
        /\ store' = o.store
        /\ root' = o.node
        /\ size' = size - 1
        /\ adhash' = WrappingSub(adhash, o.delta)
        /\ UNCHANGED cps

(* ChampCheckpoint: arena marks and the three scalars, no K or V data.   *)
(* It is Copy, so the caller may roll back to the same one again.         *)
ChampCheckpoint(st, r, sz, ah) ==
    [store |-> StoreCheckpoint(st), root |-> r, size |-> sz, adhash |-> ah]

(* checkpoint: the caller keeps the returned ChampCheckpoint *)
Checkpoint ==
    /\ Len(cps) < CHECKPOINT_BOUND
    /\ cps' = Append(cps, ChampCheckpoint(store, root, size, adhash))
    /\ UNCHANGED <<store, root, size, adhash>>

(* rollback to the i-th held checkpoint; later ones become invalid *)
Rollback(i) ==
    /\ store' = StoreRollback(store, cps[i].store)
    /\ root' = cps[i].root
    /\ size' = cps[i].size
    /\ adhash' = cps[i].adhash
    /\ cps' = SubSeq(cps, 1, i)

Next ==
    \/ \E k \in Keys, v \in Values : InsertFirst(k, v) \/ InsertNonEmpty(k, v)
    \/ \E k \in Keys, v \in Values : InsertPanics(k, v)
    \/ \E k \in Keys : Remove(k)
    \/ Checkpoint
    \/ \E i \in DOMAIN cps : Rollback(i)

Spec == Init /\ [][Next]_vars

-----------------------------------------------------------------------------
(* What the trie under a root holds, as the iterator yields it. *)
ItemsAt(st, r) == IF r = None THEN <<>> ELSE Collect(st, r)
Items == ItemsAt(store, root)

(* The key-to-value function a sequence of yielded pairs denotes. *)
DictOf(items) ==
    [k \in Keys |-> LET at == {i \in DOMAIN items : items[i][1] = k}
                    IN  IF at = {} THEN None
                        ELSE items[CHOOSE i \in at : TRUE][2]]

(* The key-to-value function get denotes under a root; LookupsAgree      *)
(* shows it is the one the iterator yields.                               *)
LookupDict(st, r) == [k \in Keys |-> GetAt(st, r, k)]

(* phi: the wrapping sum of entry contributions *)
Phi(items) ==
    SumFunction([pos \in DOMAIN items |->
                    EntryAdhash(KeyHash[items[pos][1]], ValueHash[items[pos][2]])])
      % 2^ADHASH_BITS

(* The nodes reachable from a root. *)
RECURSIVE ReachableFrom(_, _)
ReachableFrom(st, n) ==
    LET node == GetNode(st, n)
    IN  {n} \cup UNION {ReachableFrom(st, GetChild(st, node.children_start + i))
                        : i \in 0 .. ChildrenLen(node) - 1}

(* A trie as a value, arena indices left out: an Inner node maps the      *)
(* fragments of its data_map to entries and of its node_map to subtrees.  *)
RECURSIVE Decode(_, _)
Decode(st, n) ==
    LET node == GetNode(st, n)
    IN  IF IsInner(node)
        THEN [kind |-> "inner",
              data |-> [f \in node.data_map |->
                          GetEntry(st, node.data_start + Index(node.data_map, f))],
              children |-> [f \in node.node_map |->
                          Decode(st, GetChild(st, node.children_start
                                                + Index(node.node_map, f)))]]
        ELSE [kind |-> "collision", hash |-> node.hash, len |-> node.entries_len,
              entries |-> {GetEntry(st, node.entries_start + i)
                            : i \in 0 .. node.entries_len - 1}]

(* The canonical trie of a set of entries at a shift (spec.md section 3): *)
(* a fragment shared by one entry holds it inline, one shared by several  *)
(* holds their subtree one level down, and below the last level all      *)
(* remaining entries share the whole hash and sit in one Collision node. *)
RECURSIVE Canon(_, _)
Canon(E, shift) ==
    LET Group(f) == {e \in E : Fragment(e.hash, shift) = f}
        used     == {f \in Frags : Group(f) # {}}
        single   == {f \in used : Cardinality(Group(f)) = 1}
    IN  IF shift > MAX_SHIFT
        THEN [kind |-> "collision", hash |-> (CHOOSE e \in E : TRUE).hash,
              len |-> Cardinality(E), entries |-> E]
        ELSE [kind |-> "inner",
              data |-> [f \in single |-> CHOOSE e \in Group(f) : TRUE],
              children |-> [f \in used \ single |->
                              Canon(Group(f), shift + BITS_PER_LEVEL)]]

EntrySet == {[hash |-> KeyHash[it[1]], key |-> it[1], value |-> it[2]]
              : it \in {Items[i] : i \in DOMAIN Items}}

-----------------------------------------------------------------------------
Nodes ==
    [kind : {"inner"}, data_map : SUBSET Frags, node_map : SUBSET Frags,
     data_start : Nat, children_start : Nat, adhash : AdHashes]
      \cup [kind : {"collision"}, hash : Hashes, entries_start : Nat,
             entries_len : 2 .. ENTRIES_LEN_MAX, adhash : AdHashes]

TypeOK ==
    /\ store \in [nodes : Seq(Nodes), entries : Seq(Entries), children : Seq(Nat)]
    /\ root \in Nat \cup {None}
    /\ size \in Nat
    /\ adhash \in AdHashes
    /\ cps \in Seq([store : [nodes : Nat, entries : Nat, children : Nat],
                    root : Nat \cup {None}, size : Nat, adhash : AdHashes])

(* Canonical form (spec.md sections 1, 3, 9): after any sequence of       *)
(* inserts, removes and rollbacks the trie under the root is exactly the  *)
(* canonical trie of its entries, and an empty map has no root.  This is  *)
(* what the inlining of remove.rs (should_inline/inline_child), the       *)
(* promotion of a two-entry Collision node and create_subtree's descent   *)
(* must together maintain.                                                *)
CanonicalForm ==
    IF root = None THEN TRUE
    ELSE EntrySet # {} /\ Decode(store, root) = Canon(EntrySet, 0)

(* The facade's cached size and AdHash (map_sync.rs insert/remove adding  *)
(* and subtracting the deltas the recursion returns) equal the count and *)
(* the wrapping sum of contributions of the entries the trie holds.      *)
MetadataConsistent ==
    /\ size = Len(Items)
    /\ adhash = Phi(Items)

(* Every node's own adhash field, maintained by wrapping add/sub along    *)
(* each copied path, equals the phi of the entries of its subtree.        *)
SubtreeAdhashExact ==
    root # None =>
        \A n \in ReachableFrom(store, root) :
            GetNode(store, n).adhash = Phi(Collect(store, n))

(* ChampMapSync implements a dictionary with checkpoints: the entries the *)
(* iterator yields follow insert and remove, and the contents of every    *)
(* checkpoint the caller holds stay readable under its saved root (path- *)
(* copying never changes an allocated item) until rollback restores them. *)
KV == INSTANCE KVMap WITH
        dict <- LookupDict(store, root),
        snapshots <- [i \in DOMAIN cps |-> LookupDict(store, cps[i].root)]

KVRefinement == KV!Spec

(* A value to insert when only the Inserted/Updated report matters. *)
AnyValue == CHOOSE v \in Values : TRUE

(* The lookups agree with the iteration: in every state, get (get.rs      *)
(* following fragments, then scanning a Collision node) finds exactly the *)
(* value the iterator yields for the key, insert would report Inserted    *)
(* exactly for an absent key, and remove would report true exactly for a *)
(* present one; each of the three walks the trie its own way.  Whether   *)
(* insert reports Inserted depends on key equality only, never on the     *)
(* value, so one value stands for all.                                    *)
LookupsAgree ==
    LET iterated == DictOf(Items)
    IN  \A k \in Keys :
            /\ Get(k) = iterated[k]
            /\ RemoveResultOf(k) = (iterated[k] # None)
            /\ InsertResultOf(k, AnyValue) = IF iterated[k] = None THEN "Inserted"
                                                                    ELSE "Updated"

(* spec.md section 3, invariant 5, and the remove propagation rule of     *)
(* section 4.7: no non-root Inner node has no data and exactly one child.  *)
(* create_subtree (insert.rs) builds exactly such a node for every level  *)
(* two hashes still share, above a Collision node or a split pair.        *)
SpecNoSingleChildInner ==
    root # None =>
        \A n \in ReachableFrom(store, root) \ {root} :
            LET node == GetNode(store, n)
            IN  IsInner(node) => ~(node.data_map = {} /\ Cardinality(node.node_map) = 1)
(* Collision overflow (spec.md section 7, insert.rs checked_add): insert *)
(* panics exactly when the key is absent and ENTRIES_LEN_MAX present keys *)
(* already share its whole hash; an update of a key in a full Collision   *)
(* node, or an insert of a key with another hash, never panics.           *)
PanicExactlyAtCap ==
    LET iterated == DictOf(Items)
        Sharing(k) == {j \in Keys : KeyHash[j] = KeyHash[k] /\ iterated[j] # None}
    IN  \A k \in Keys :
            root # None =>
                (InsertOutcomeOf(k, AnyValue).panic
                    <=> iterated[k] = None /\ Cardinality(Sharing(k)) = ENTRIES_LEN_MAX)

(* A panicking insert has allocated nothing when it unwinds: the overflow *)
(* check precedes the new entries block, and every ancestor frame on the  *)
(* path allocates only after its recursive call returns, so a caller that *)
(* catches the panic sees arena_len unchanged.                            *)
PanicAllocatesNothing ==
    \A k \in Keys :
        root # None /\ InsertOutcomeOf(k, AnyValue).panic
            => InsertOutcomeOf(k, AnyValue).store = store

(* spec.md section 8, scenario 6: one insert or remove grows the arenas   *)
(* by an amount bounded by the trie's depth.  Path copying in insert.rs   *)
(* and remove.rs allocates one node per level it rebuilds, after the     *)
(* recursive call returns, and create_subtree one per level the two      *)
(* hashes still share, so no call adds more nodes than a path holds,     *)
(* whatever the history of dead copies.                                   *)
AllocationBoundedByDepth ==
    [][Len(store'.nodes) <= Len(store.nodes) + PathNodes]_vars
=============================================================================
