# TLA+ models of champ-trie

This directory holds TLA+ models of the persistent CHAMP hash map in
`src/src/`: the node layout, the arena store with checkpoints, the insert,
remove, get and iterate algorithms, and the `ChampMapSync` facade. The TLC
runs check that canonical form, the cached metadata and the lookups survive
every sequence of calls within the bounds. A refinement run checks that the
map implements a plain dictionary with checkpoints.

## The system and its parts

| Part | Source | What it does |
|---|---|---|
| Nodes | `node.rs` | `Node::Inner` (two 32-bit bitmaps, `data_start`, `children_start`, subtree `adhash`) and `Node::Collision` (`hash`, `entries_start`, `entries_len: u8`, `adhash`). Also `fragment`, `mask` and `index` (popcount). |
| AdHash | `adhash.rs` | `hash_one` (SipHash) and `entry_adhash(kh, vh) = kh*SEED_1 ^ vh*SEED_2` in wrapping u64 arithmetic. |
| Store | `store.rs`, `arena_sync.rs` | Three append-only arenas: nodes, entries and child indices. `alloc_*` returns the index of a new block, and `None` for an empty one. `checkpoint` saves the three lengths; `rollback` truncates back to them. |
| Algorithms | `ops/insert.rs`, `ops/remove.rs`, `ops/get.rs` | Recursive path copying. Insert updates, pushes down (`create_subtree`), descends or adds. Remove deletes an inline entry, then inlines, replaces or prunes the child, and promotes a two-entry Collision node. |
| Iterator | `iter.rs` | An eager DFS (`collect`). For each Inner node it yields the inline entries, then recurses into the children. Collision entries come out in storage order. |
| Facade | `map_sync.rs` | `ChampMapSync { store, root, size, adhash }`. `insert` and `remove` adopt the new root and apply the deltas; `checkpoint` and `rollback` save and restore all four fields. |

The facade calls the algorithms. The algorithms only append to the store and
never change an allocated item; a checkpoint relies on exactly that.

## Modules

| Module | Models | State / operators |
|---|---|---|
| `ChampNode` | `node.rs`, `adhash.rs` | Constants for the widths. `Fragment`, `Index` (a bitmap is a set of fragments, so `index` is the count of smaller members), `Inner`, `Collision`, wrapping arithmetic, `EntryAdhash`. |
| `ChampStore` | `arena_sync.rs`, `store.rs`, block helpers of `ops` | The store is a record of three sequences. `AllocNode`, `AllocEntries`, `AllocChildren`, `Get*`, `StoreCheckpoint`, `StoreRollback`, `AllocOrSentinel`, `Expect`. |
| `ChampOps` | `ops/*.rs`, `iter.rs` | One operator per branch of the code: `InnerUpdate`, `InnerPushDown`, `InnerDescend`, `InnerAdd`, `CollisionUpdate`, `CollisionAppend`, `CreateSubtree`, `RemoveInlineEntry`, `InlineChild`, `ReplaceChild`, `PruneChild`, `RemoveFromCollision`, `GetRecursive`, `Collect`. Each one takes the store and returns the new store with the code's outcome struct. Allocation follows the code's order. |
| `ChampMap` | `map_sync.rs` | VARIABLES `store, root, size, adhash`, plus `cps`, the checkpoints the caller holds. Actions: `InsertFirst` (empty-map branch), `InsertNonEmpty`, `InsertPanics` (a caught overflow panic), `Remove`, `Checkpoint`, `Rollback(i)`. The module also holds the properties. |
| `KVMap` | spec.md 4.9, 6 | The abstract map: `dict` and a stack of `snapshots`. |
| `ChampTwoMaps` | `map_sync.rs` | Two independent `ChampMap` instances, used to compare the iteration order of maps with equal entries. |
| `ChampReaders` | `iter.rs`, `map_sync.rs` | The map plus reader threads. Each reader holds no iterator (`NoIter`) or an `Iter { entries, pos }`. Actions: `Write` (any `ChampMap` step, allowed only while no reader borrows the map), `IterNew` (`Iter::new`), `IterNext` (`next`, Some branch) and `IterExhausted` (`next` returns None and the loop drops the iterator). |
| `ChampCheckpointCopies` | `map_sync.rs`, `lib.rs`, `arena_sync.rs` | The map plus `copies`, the checkpoints a caller keeps by value (`ChampCheckpoint` is `Copy`), each with the dictionary the map held when it was taken. Actions: `Call` (any `ChampMap` step), `KeepCopy` (checkpoint and keep a copy), `RollbackCopy(c)` (`rollback` with a kept copy whose marks are all within the arenas, `Truncatable`). |
| `MCChampMap`, `MCChampTwoMaps`, `MCChampReadersFour`, `MCChampCheckpointCopies` | | Model values and the hash functions used in the runs. |

How the modules correspond to the code:

- Every public call is one atomic step, because mutation takes `&mut self`.
- A `remove` that finds nothing, or runs on an empty map, returns `false` and changes nothing. It is therefore no step.
- `get`, `contains_key` and `iter` only read. They are state functions (`Get`, `Items`) that the properties evaluate in every state.
- `extend` and `from_iter` are loops of `insert`, so they are sequences of insert steps.

## Scaling

The code uses 64-bit hashes, 5 bits per level and `MAX_SHIFT = 60`. The last
level therefore sees only 4 bits, and a Collision node sits at shift 65. The
models keep that shape with `HASH_BITS = 3`, `BITS_PER_LEVEL = 2` and
`MAX_SHIFT = 2`: levels sit at shifts 0 and 2, the last level sees one bit,
and Collision nodes sit at shift 4.

AdHash arithmetic runs modulo 2^8 with the low bytes of the code's seeds
(21, 149). The low bits of a wrapping product, xor or sum depend only on the
low bits of the operands, so the model computes the code's values exactly,
reduced mod 2^8.

`hash_one` is the one abstraction of data. `KeyHash` and `ValueHash` are
constant functions, chosen so that the interesting shapes arise:

| Run | Key hashes | What they produce |
|---|---|---|
| structure, refinement | k1 → 0, k2 → 4, k3 → 4 | All three keys share the fragment at shift 0. k1 splits from the others at shift 2. k2 and k3 share the full hash and end in a Collision node under a chain. |
| collision, overflow | every key → 1, with `MAX_SHIFT = 0`, `HASH_BITS = 2` | A Collision node under the root that grows to three entries, shrinks, and is promoted. With `ENTRIES_LEN_MAX = 2` the third key overflows it. |
| nested_checkpoints | as structure, one value | Two checkpoints held at once. |
| four_keys | k1, k4 → 1 and k2, k3 → 2, with `MAX_SHIFT = 0`, `HASH_BITS = 2` | The root holds two Collision children at once. Removing from one promotes its survivor and inlines it next to the other child. |

Two values with different hashes make updates change the AdHash.

## Bounds

`ARENA_BOUND` guards the start of a mutation: no insert or remove begins once
that many nodes have been allocated. Dead copies count, as in the code. The
value 5 lets the map reach all three keys in the Collision-under-chain
shape: the third insert starts with 3 nodes allocated. A remove from the
three-key map needs a sixth node first, so these runs remove only from
one- and two-key maps, which already covers inline, promotion and the
empty-root branch. The collision run uses 6, which lets it remove from a
Collision node of three entries. `CHECKPOINT_BOUND = 1`:
the caller holds at most one checkpoint, except in nested_checkpoints, which
holds two. That run has one value, to stay at 39,237 states. With
`ARENA_BOUND = 6` it takes over 2 minutes alone.

`ENTRIES_LEN_MAX` stands for `u8::MAX` (255). It is 255 everywhere except the
overflow run, where 2 lets three keys of one hash hit the cap. The code's
check is `entries_len.checked_add(1)`, which fails exactly at the cap, so
lowering the cap keeps the control flow the same.

## The overflow panic

`insert_into_collision` panics through `checked_add(..).expect(..)` when a new
key would be the 256th of one full hash. The model returns a `Panicked`
outcome carrying the store as it stood when the panic was raised. Every
ancestor frame (`InnerDescend`) passes it up before allocating, which is
what unwinding does. The facade's `InsertPanics` step is a caller catching
the unwind: none of `insert`'s assignments ran, and the store is whatever
the recursion allocated. In the code that is nothing, so the step changes
no state.

## Runs

| Run | Cfg | Expect | Shows |
|---|---|---|---|
| structure | `MCChampMap.cfg` | pass (179,096 states, under 1 min) | `TypeOK`. `CanonicalForm`: the decoded trie equals the canonical trie of its entries (built by `Canon`, a reference definition written from the spec's rules, not the code's), so shape never depends on history. `SubtreeAdhashExact`: every node's adhash equals the phi of its subtree. |
| lookups | `MCChampMapLookups.cfg` | pass (same states, about 2 min) | `MetadataConsistent`: the cached `size` and `adhash` equal the count and phi of the entries. `LookupsAgree`: get, insert's Inserted/Updated, remove's result and the iterator agree on every key. The two are split from the structure run because evaluating insert and remove for every key in every state dominates the cost. |
| refinement | `MCChampMapRefine.cfg` | pass | `KVRefinement`. `ChampMap` implements `KVMap` under the mapping `dict = get` on the current root and `snapshots = get` under each held checkpoint's root. Path copying never disturbs what a checkpoint reads, and rollback restores it. |
| collision | `MCChampMapCollision.cfg` | pass (28,472 states) | The same invariants through Collision append, update, shrink and promotion to an Inner node. The promoted node is keyed by its fragment at shift 0 and inlined into the parent. |
| overflow | `MCChampMapOverflow.cfg` | pass (27,650 states) | `PanicExactlyAtCap`: insert panics exactly when the key is absent and the cap is full. An update of a key in a full node does not panic. `PanicAllocatesNothing`: a panicking insert leaves the store unchanged, so `arena_len` and the map survive a caught panic. |
| nested_checkpoints | `MCChampMapNested.cfg` | pass (39,237 states) | `KVRefinement` with two checkpoints held at once. Rolling back to the inner one (again and again), or to the outer one (discarding the inner), restores the dictionary of that checkpoint. `AllocationBoundedByDepth` (spec.md section 8, scenario 6): no call allocates more nodes than a root-to-Collision path holds (`PathNodes`, 3 here, 14 for the code's widths). The bound is reached, so it is tight. Its mutant copies the parent on the way down as well as on the way up, a leak nothing functional notices. |
| four_keys | `MCChampReadersFour.cfg` | pass (124,486 states with symmetry, under 30 s) | `MapCanonical` (`CanonicalForm` of the shared map) and `IterExact` in the shape the three-key runs never reach. `inline_child` drops `child_pos` from a parent that keeps another child, and the iterator walks two Collision nodes. One reader is there because the map alone stops at the arena bound without a checkpoint, and a checkpoint multiplies the states beyond the time limit (430,100 states). With the reader the run never deadlocks. Keys of equal hash are interchangeable, so the run uses symmetry (safety only). Its `MapCanonical` mutant (`InlineChildWrongSlot`) drops the child slot at the entry's data position; only this shape tells the two apart. |
| spec_inline | `MCChampMapSpecInline.cfg` | violation | spec.md section 3, invariant 5 (no non-root Inner node with no data and one child) is false of the code. Inserting k2 and then k3 makes `create_subtree` build exactly such a chain node above the Collision node, as section 4.6 prescribes. The code is canonical (`CanonicalForm` holds); the invariant as written is too strong. |
| iteration_order | `MCChampTwoMaps.cfg` | violation | Two maps with equal entries iterate differently when a Collision node got its keys in different orders. Insert appends (`insert.rs:245`) and the iterator yields storage order, while spec.md section 5 promises equal order for equal entry sets. |
| stale_checkpoint | `MCChampCheckpointCopies.cfg` | violation (7 states) | `RollbackRestoresCheckpoint`: a rollback to a kept copy leaves the map holding what it held when the copy was taken, as the `lib.rs` docs say ("discards all changes made after the checkpoint"). It is false for a copy that an earlier rollback to an older checkpoint invalidated. Sequence: checkpoint at the empty map, insert k1, keep copy c, roll back to the first checkpoint, insert k2, roll back to c. The arenas again have c's lengths, so truncation does nothing, but node 0 is now k2's node. The map ends with `get(k1) = None`, `get(k2) = Some(v1)`, and k1's adhash (191) on a node whose entries have 235. spec.md section 7 does not list this case as an invalid rollback, and the code does not detect it. |

All Next disjuncts fire in the passing runs. Some branches inside operators
are reachable only in some runs:

- `CollisionAppend` and the Collision shrink branch fire only in the collision and overflow runs.
- The overflow branch and `InsertPanics` fire only in the overflow run. `InsertPanics` is enabled in 594 states and never leads to a new state, as `PanicAllocatesNothing` requires.
- `PruneChild` (a child removal returning no node) is unreachable whenever the trie is canonical. Only an Inner node with a single entry can become empty, and such a child is always inlined into its parent. The branch is modelled for faithfulness.

Each property of each passing run has a mutant in `PROJECT.json`: an operator
with a plausible defect, defined just before the one it replaces, that TLC
catches under the run's cfg. The refinement mutant (`InnerUpdateInPlace`)
overwrites the shared entries block instead of copying it. No state invariant
of the current map can see that defect; only the held checkpoint changes.
The nested run's mutant (`InnerDescendInPlace`) does the same to the
children block on the descend path.

## Fairness

`ChampMap` is safety-only (`[][Next]_vars`). Every call is a terminating
recursion over a finite trie, and each is one atomic step, so there is
nothing to wait for. Deadlock is checked: with a held checkpoint, `Rollback`
is always enabled.

`ChampReaders` is safety-only too. A reader's loop is `pos += 1` over a
vector collected up front (`iter.rs`), so it ends by construction. No
fairness is assumed and no liveness property is checked: none of the
code's steps can wait on another.

## Performance notes

- The refinement mapping is built from `get` (`LookupDict`), not from the iterator, because TLC does not cache primed operator arguments.
- Store blocks are taken with `SubSeq`, and allocation results are explicit records.

## Not modelled

- `map.rs` (`ChampMap` over the `safe_bump` bump arenas) depends on `crate::arena`, which is not in the sources. It also reads `outcome.old_value` and a `removed_value` field that the outcome types of `ops` do not have, so it cannot be built as given.
- `hash_one` (SipHash) is abstracted, as described under Scaling.
- `extend` and `from_iter` are loops of `insert` and add no behaviour of their own. If one insert panics, the earlier inserts remain, as with separate calls.
- A composition run in which two maps with equal entries have equal size, AdHash and trie (up to Collision order) is beyond 5 minutes for two stores. Per map, it follows from `CanonicalForm` and `MetadataConsistent`.
- Formatting, `Index` and `Default` impls only read.
- A rollback to a checkpoint whose marks exceed the arenas' lengths: what `safe_bump` does then is not in the repository.
- Shared readers are modelled at the granularity of `next` calls. `collect` itself is one step: it runs under a shared borrow, and no write can interleave with it.

## Plan for later work

1. A checkpoint reused after a rollback to an older one is now the stale_checkpoint run. It explores only copies whose marks lie within the arenas (`Truncatable`). There, `rollback` truncates nothing and `map_sync.rs` adopts the stored root, so the outcome follows from the code alone. A mark beyond an arena's length is handled by the external `safe_bump` crate, so that case stays out of the model.
2. `adhash` returning to 0 after every key is inserted and removed (spec.md section 8) needs no run of its own. `MetadataConsistent` states that `adhash` is the phi of the current entries in every state, and the phi of no entries is 0.
