------------------------------ MODULE ChampOps ------------------------------
(***************************************************************************)
(* The trie algorithms of src/src/ops (insert.rs, remove.rs, get.rs) and   *)
(* the DFS of src/src/iter.rs, as recursive operators over a store value.  *)
(* Each operator returns the new store together with the code's outcome   *)
(* struct, allocating in the order the code does: children before their   *)
(* parent, the entries block before the children block before the node.   *)
(***************************************************************************)
EXTENDS ChampStore
LOCAL INSTANCE SequencesExt

CONSTANTS
    Keys, Values,   \* K and V: model values
    KeyHash,        \* hash_one on K: Keys -> Hashes
    ValueHash       \* hash_one on V: Values -> AdHashes (low bits suffice)

ASSUME /\ KeyHash \in [Keys -> Hashes]
       /\ ValueHash \in [Values -> AdHashes]
       /\ None \notin Keys \cup Values

Entries == [hash : Hashes, key : Keys, value : Values]

(* entry_adhash(e.hash, hash_one(&e.value)) *)
Contrib(e) == EntryAdhash(e.hash, ValueHash[e.value])

LOCAL FirstOf(S) == Min(S)

(* The block builders of insert.rs and remove.rs: a fresh copy of a block *)
(* (entries cloned, child indices copied) with one slot inserted,         *)
(* replaced or left out.  Positions are 1-based here, 0-based in the code. *)
BuildEntriesInserting(block, at, e)     == InsertAt(block, at, e)
BuildEntriesReplacing(block, at, e)     == ReplaceAt(block, at, e)
BuildEntriesRemoving(block, at)         == RemoveAt(block, at)
BuildChildrenInserting(block, at, c)    == InsertAt(block, at, c)
BuildChildrenReplacing(block, at, c)    == ReplaceAt(block, at, c)
BuildChildrenRemoving(block, at)        == RemoveAt(block, at)

-----------------------------------------------------------------------------
(* InsertOutcome { node, adhash_delta, inserted } plus the store; panic   *)
(* marks an insert unwinding from the collision overflow expect, carrying *)
(* the store as it stood when the panic was raised                        *)
InsertOutcome(a, delta, inserted) ==
    [store |-> a.store, node |-> a.idx, delta |-> delta, inserted |-> inserted,
     panic |-> FALSE]

Panicked(st) ==
    [store |-> st, node |-> None, delta |-> 0, inserted |-> FALSE, panic |-> TRUE]

(* create_subtree: two entries sharing a fragment at shift - BITS_PER_LEVEL *)
RECURSIVE CreateSubtree(_, _, _, _)
CreateSubtree(st, e1, e2, shift) ==
    IF shift > MAX_SHIFT
    THEN LET a1 == AllocEntries(st, <<e1, e2>>)
         IN  AllocNode(a1.store, Collision(e1.hash, Expect(a1.idx), 2,
                                        WrappingAdd(Contrib(e1), Contrib(e2))))
    ELSE LET f1 == Fragment(e1.hash, shift)
             f2 == Fragment(e2.hash, shift)
         IN  IF f1 = f2
             THEN LET child == CreateSubtree(st, e1, e2, shift + BITS_PER_LEVEL)
                      a1    == AllocChildren(child.store, <<child.idx>>)
                  IN  AllocNode(a1.store, Inner({}, {f1}, 0, Expect(a1.idx),
                                       GetNode(child.store, child.idx).adhash))
             ELSE LET a1 == AllocEntries(st, IF f1 < f2 THEN <<e1, e2>>
                                                       ELSE <<e2, e1>>)
                  IN  AllocNode(a1.store, Inner({f1, f2}, {}, Expect(a1.idx), 0,
                                       WrappingAdd(Contrib(e1), Contrib(e2))))

(* Defect: the value is overwritten in the shared entries block instead of *)
(* in a fresh copy, so every older root that shares the block sees it.   *)
InnerUpdateInPlace(st, node, entry, frag) ==
    LET pos   == Index(node.data_map, frag)
        at    == node.data_start + pos + 1
        data  == EntriesBlock(st, node.data_start, Cardinality(node.data_map))
        delta == WrappingSub(Contrib(entry), Contrib(data[pos + 1]))
        st1   == [nodes |-> st.nodes, children |-> st.children,
                  entries |-> SubSeq(st.entries, 1, at - 1) \o <<entry>>
                                \o SubSeq(st.entries, at + 1, Len(st.entries))]
        a2    == AllocNode(st1, Inner(node.data_map, node.node_map,
                               node.data_start, node.children_start,
                               WrappingAdd(node.adhash, delta)))
    IN  InsertOutcome(a2, delta, FALSE)

(* insert_into_inner, same key at the entry's slot: replace the value *)
InnerUpdate(st, node, entry, frag) ==
    LET pos   == Index(node.data_map, frag)
        data  == EntriesBlock(st, node.data_start, Cardinality(node.data_map))
        delta == WrappingSub(Contrib(entry), Contrib(data[pos + 1]))
        a1    == AllocEntries(st, BuildEntriesReplacing(data, pos + 1, entry))
        a2    == AllocNode(a1.store, Inner(node.data_map, node.node_map,
                               Expect(a1.idx), node.children_start,
                               WrappingAdd(node.adhash, delta)))
    IN  InsertOutcome(a2, delta, FALSE)

(* insert_into_inner, another key at the entry's slot: push both down *)
InnerPushDown(st, node, entry, frag, shift) ==
    LET pos        == Index(node.data_map, frag)
        data       == EntriesBlock(st, node.data_start, Cardinality(node.data_map))
        children   == ChildrenBlock(st, node.children_start,
                                     Cardinality(node.node_map))
        sub        == CreateSubtree(st, data[pos + 1], entry,
                                    shift + BITS_PER_LEVEL)
        newNodeMap == node.node_map \cup {frag}
        a1         == AllocEntries(sub.store, BuildEntriesRemoving(data, pos + 1))
        a2         == AllocChildren(a1.store, BuildChildrenInserting(children,
                                    Index(newNodeMap, frag) + 1, sub.idx))
        a3         == AllocNode(a2.store, Inner(node.data_map \ {frag}, newNodeMap,
                                    AllocOrSentinel(a1.idx), Expect(a2.idx),
                                    WrappingAdd(node.adhash, Contrib(entry))))
    IN  InsertOutcome(a3, Contrib(entry), TRUE)

(* insert_into_inner, empty slot: add an inline entry *)
InnerAdd(st, node, entry, frag) ==
    LET newDataMap == node.data_map \cup {frag}
        data       == EntriesBlock(st, node.data_start, Cardinality(node.data_map))
        a1         == AllocEntries(st, BuildEntriesInserting(data, Index(newDataMap, frag) + 1,
                                               entry))
        a2         == AllocNode(a1.store, Inner(newDataMap, node.node_map,
                                    Expect(a1.idx), node.children_start,
                                    WrappingAdd(node.adhash, Contrib(entry))))
    IN  InsertOutcome(a2, Contrib(entry), TRUE)

(* insert_into_collision, key present: replace the value *)
CollisionUpdate(st, node, entry, pos) ==
    LET block == EntriesBlock(st, node.entries_start, node.entries_len)
        delta == WrappingSub(Contrib(entry), Contrib(block[pos]))
        a1    == AllocEntries(st, BuildEntriesReplacing(block, pos, entry))
        a2    == AllocNode(a1.store, Collision(node.hash, Expect(a1.idx),
                               node.entries_len, WrappingAdd(node.adhash, delta)))
    IN  InsertOutcome(a2, delta, FALSE)

(* Defects of the append: entries_len not incremented, the node's adhash *)
(* not advanced by the new contribution, and the overflow checked only    *)
(* after the new entries block is allocated.                             *)
CollisionAppendNoLenBump(st, node, entry) ==
    LET a1 == AllocEntries(st, Append(EntriesBlock(st, node.entries_start,
                                                   node.entries_len), entry))
        a2 == AllocNode(a1.store, Collision(node.hash, Expect(a1.idx),
                            node.entries_len, WrappingAdd(node.adhash, Contrib(entry))))
    IN  InsertOutcome(a2, Contrib(entry), TRUE)

CollisionAppendStaleAdhash(st, node, entry) ==
    LET a1 == AllocEntries(st, Append(EntriesBlock(st, node.entries_start,
                                                   node.entries_len), entry))
        a2 == AllocNode(a1.store, Collision(node.hash, Expect(a1.idx),
                            node.entries_len + 1, node.adhash))
    IN  InsertOutcome(a2, Contrib(entry), TRUE)

CollisionAppendCheckLate(st, node, entry) ==
    LET a1 == AllocEntries(st, Append(EntriesBlock(st, node.entries_start,
                                                   node.entries_len), entry))
        a2 == AllocNode(a1.store, Collision(node.hash, Expect(a1.idx),
                            node.entries_len + 1, WrappingAdd(node.adhash, Contrib(entry))))
    IN  IF node.entries_len = ENTRIES_LEN_MAX THEN Panicked(a1.store)
                                            ELSE InsertOutcome(a2, Contrib(entry), TRUE)

(* insert_into_collision, key absent: append.  entries_len.checked_add(1) *)
(* .expect(..) panics at u8::MAX before anything is allocated.            *)
CollisionAppend(st, node, entry) ==
    LET block == EntriesBlock(st, node.entries_start, node.entries_len)
        a1    == AllocEntries(st, Append(block, entry))
        a2    == AllocNode(a1.store, Collision(node.hash, Expect(a1.idx),
                               node.entries_len + 1,
                               WrappingAdd(node.adhash, Contrib(entry))))
    IN  IF node.entries_len = ENTRIES_LEN_MAX THEN Panicked(st)
                                            ELSE InsertOutcome(a2, Contrib(entry), TRUE)

(* Defects: appending without searching for the key first, and the      *)
(* overflow check hoisted above the search, so that an update of a key in *)
(* a full node panics.                                                    *)
InsertIntoCollisionAlwaysAppend(st, node, entry) == CollisionAppend(st, node, entry)

InsertIntoCollisionCheckFirst(st, node, entry) ==
    LET block == EntriesBlock(st, node.entries_start, node.entries_len)
        match == {j \in 1 .. node.entries_len : block[j].key = entry.key}
    IN  CASE node.entries_len = ENTRIES_LEN_MAX -> Panicked(st)
          [] match # {} -> CollisionUpdate(st, node, entry, FirstOf(match))
          [] OTHER -> CollisionAppend(st, node, entry)

(* insert_into_collision: linear search for the key, first match *)
InsertIntoCollision(st, node, entry) ==
    LET block == EntriesBlock(st, node.entries_start, node.entries_len)
        match == {j \in 1 .. node.entries_len : block[j].key = entry.key}
    IN  IF match # {} THEN CollisionUpdate(st, node, entry, FirstOf(match))
                      ELSE CollisionAppend(st, node, entry)

RECURSIVE InsertRecursive(_, _, _, _)

(* Defect: the new child pointer is written into the shared children     *)
(* block instead of a fresh copy, so older roots see the new subtree.    *)
InnerDescendInPlace(st, node, entry, frag, shift) ==
    LET childPos == Index(node.node_map, frag)
        at       == node.children_start + childPos + 1
        o        == InsertRecursive(st, GetChild(st, at - 1), entry,
                                    shift + BITS_PER_LEVEL)
        st1      == [nodes |-> o.store.nodes, entries |-> o.store.entries,
                     children |-> SubSeq(o.store.children, 1, at - 1) \o <<o.node>>
                                   \o SubSeq(o.store.children, at + 1,
                                             Len(o.store.children))]
        a2       == AllocNode(st1, Inner(node.data_map, node.node_map,
                                  node.data_start, node.children_start,
                                  WrappingAdd(node.adhash, o.delta)))
    IN  IF o.panic THEN o ELSE InsertOutcome(a2, o.delta, o.inserted)

(* A defective descend that copies the parent on the way down as well as *)
(* on the way up: the first copy is dead as soon as it is allocated.     *)
InnerDescendCopyOnDescent(st, node, entry, frag, shift) ==
    LET a0       == AllocNode(st, node)
        childPos == Index(node.node_map, frag)
        children == ChildrenBlock(a0.store, node.children_start,
                                  Cardinality(node.node_map))
        o        == InsertRecursive(a0.store, children[childPos + 1], entry,
                                    shift + BITS_PER_LEVEL)
        a1       == AllocChildren(o.store, BuildChildrenReplacing(children, childPos + 1, o.node))
        a2       == AllocNode(a1.store, Inner(node.data_map, node.node_map,
                                  node.data_start, Expect(a1.idx),
                                  WrappingAdd(node.adhash, o.delta)))
    IN  IF o.panic THEN o ELSE InsertOutcome(a2, o.delta, o.inserted)

(* insert_into_inner, slot holds a child: recurse and replace the pointer; *)
(* a panic below unwinds through this frame before it allocates           *)
InnerDescend(st, node, entry, frag, shift) ==
    LET childPos == Index(node.node_map, frag)
        children == ChildrenBlock(st, node.children_start,
                                  Cardinality(node.node_map))
        o        == InsertRecursive(st, children[childPos + 1], entry,
                                    shift + BITS_PER_LEVEL)
        a1       == AllocChildren(o.store, BuildChildrenReplacing(children, childPos + 1, o.node))
        a2       == AllocNode(a1.store, Inner(node.data_map, node.node_map,
                                  node.data_start, Expect(a1.idx),
                                  WrappingAdd(node.adhash, o.delta)))
    IN  IF o.panic THEN o ELSE InsertOutcome(a2, o.delta, o.inserted)

(* insert_into_inner: dispatch on the entry's fragment at this level *)
InsertIntoInner(st, node, entry, shift) ==
    LET frag == Fragment(entry.hash, shift)
        e    == GetEntry(st, node.data_start + Index(node.data_map, frag))
    IN  CASE frag \in node.data_map /\ e.hash = entry.hash /\ e.key = entry.key
                 -> InnerUpdate(st, node, entry, frag)
          [] frag \in node.data_map
                 -> InnerPushDown(st, node, entry, frag, shift)
          [] frag \in node.node_map
                 -> InnerDescend(st, node, entry, frag, shift)
          [] OTHER
                 -> InnerAdd(st, node, entry, frag)

(* insert_recursive *)
InsertRecursive(st, nodeIdx, entry, shift) ==
    LET node == GetNode(st, nodeIdx)
    IN  IF IsInner(node) THEN InsertIntoInner(st, node, entry, shift)
                         ELSE InsertIntoCollision(st, node, entry)

-----------------------------------------------------------------------------
(* RemoveOutcome: NotFound, or Removed { node: Option<Idx>, adhash_delta } *)
NotFound(st) == [found |-> FALSE, store |-> st, node |-> None, delta |-> 0]
Removed(st, node, delta) == [found |-> TRUE, store |-> st, node |-> node, delta |-> delta]

(* Defect: an inline entry matched on its hash alone, key not compared. *)
RemoveInlineEntryHashOnly(st, node, hash, key, frag) ==
    LET pos  == Index(node.data_map, frag)
        data == EntriesBlock(st, node.data_start, Cardinality(node.data_map))
        a1   == AllocEntries(st, BuildEntriesRemoving(data, pos + 1))
        a2   == AllocNode(a1.store, Inner(node.data_map \ {frag}, node.node_map,
                              AllocOrSentinel(a1.idx), node.children_start,
                              WrappingSub(node.adhash, Contrib(data[pos + 1]))))
    IN  CASE data[pos + 1].hash # hash -> NotFound(st)
          [] node.data_map = {frag} /\ node.node_map = {}
                -> Removed(st, None, Contrib(data[pos + 1]))
          [] OTHER -> Removed(a2.store, a2.idx, Contrib(data[pos + 1]))

(* remove_from_inner, the key's slot holds an inline entry *)
RemoveInlineEntry(st, node, hash, key, frag) ==
    LET pos        == Index(node.data_map, frag)
        data       == EntriesBlock(st, node.data_start, Cardinality(node.data_map))
        removed    == Contrib(data[pos + 1])
        newDataMap == node.data_map \ {frag}
        a1         == AllocEntries(st, BuildEntriesRemoving(data, pos + 1))
        a2         == AllocNode(a1.store, Inner(newDataMap, node.node_map,
                                    AllocOrSentinel(a1.idx), node.children_start,
                                    WrappingSub(node.adhash, removed)))
    IN  CASE ~(data[pos + 1].hash = hash /\ data[pos + 1].key = key) -> NotFound(st)
          [] newDataMap = {} /\ node.node_map = {} -> Removed(st, None, removed)
          [] OTHER -> Removed(a2.store, a2.idx, removed)

(* Defect: a child is never inlined. *)
ShouldInlineNever(node) == FALSE

(* should_inline: a child with exactly one entry and no children *)
ShouldInline(node) ==
    IsInner(node) /\ Cardinality(node.data_map) = 1 /\ node.node_map = {}

(* Defect: the parent that takes the inlined entry keeps its old adhash. *)
InlineChildStaleAdhash(st, node, frag, childPos, childIdx, delta) ==
    LET inlined    == GetEntry(st, GetNode(st, childIdx).data_start)
        newDataMap == node.data_map \cup {frag}
        data       == EntriesBlock(st, node.data_start, Cardinality(node.data_map))
        children   == ChildrenBlock(st, node.children_start,
                                    Cardinality(node.node_map))
        a1         == AllocEntries(st, BuildEntriesInserting(data, Index(newDataMap, frag) + 1,
                                               inlined))
        a2         == AllocChildren(a1.store, BuildChildrenRemoving(children, childPos + 1))
        a3         == AllocNode(a2.store, Inner(newDataMap, node.node_map \ {frag},
                                    Expect(a1.idx), AllocOrSentinel(a2.idx),
                                    node.adhash))
    IN  Removed(a3.store, a3.idx, delta)

(* Defect: the child slot to drop is taken from the data position of the *)
(* inlined entry (data_insert_at) instead of child_pos.                   *)
InlineChildWrongSlot(st, node, frag, childPos, childIdx, delta) ==
    LET inlined    == GetEntry(st, GetNode(st, childIdx).data_start)
        newDataMap == node.data_map \cup {frag}
        data       == EntriesBlock(st, node.data_start, Cardinality(node.data_map))
        children   == ChildrenBlock(st, node.children_start,
                                    Cardinality(node.node_map))
        a1         == AllocEntries(st, BuildEntriesInserting(data, Index(newDataMap, frag) + 1,
                                               inlined))
        a2         == AllocChildren(a1.store, BuildChildrenRemoving(children,
                                                  Index(newDataMap, frag) + 1))
        a3         == AllocNode(a2.store, Inner(newDataMap, node.node_map \ {frag},
                                    Expect(a1.idx), AllocOrSentinel(a2.idx),
                                    WrappingSub(node.adhash, delta)))
    IN  Removed(a3.store, a3.idx, delta)

(* inline_child: move the child's single entry into this node's data *)
InlineChild(st, node, frag, childPos, childIdx, delta) ==
    LET inlined    == GetEntry(st, GetNode(st, childIdx).data_start)
        newDataMap == node.data_map \cup {frag}
        data       == EntriesBlock(st, node.data_start, Cardinality(node.data_map))
        children   == ChildrenBlock(st, node.children_start,
                                    Cardinality(node.node_map))
        a1         == AllocEntries(st, BuildEntriesInserting(data, Index(newDataMap, frag) + 1,
                                               inlined))
        a2         == AllocChildren(a1.store, BuildChildrenRemoving(children, childPos + 1))
        a3         == AllocNode(a2.store, Inner(newDataMap, node.node_map \ {frag},
                                    Expect(a1.idx), AllocOrSentinel(a2.idx),
                                    WrappingSub(node.adhash, delta)))
    IN  Removed(a3.store, a3.idx, delta)

(* remove_from_inner, child still there and not inlined: new pointer *)
ReplaceChild(st, node, childPos, childIdx, delta) ==
    LET children == ChildrenBlock(st, node.children_start,
                                  Cardinality(node.node_map))
        a1       == AllocChildren(st, BuildChildrenReplacing(children, childPos + 1, childIdx))
        a2       == AllocNode(a1.store, Inner(node.data_map, node.node_map,
                                  node.data_start, Expect(a1.idx),
                                  WrappingSub(node.adhash, delta)))
    IN  Removed(a2.store, a2.idx, delta)

(* remove_from_inner, child became empty: drop its slot *)
PruneChild(st, node, frag, childPos, delta) ==
    LET newNodeMap == node.node_map \ {frag}
        children   == ChildrenBlock(st, node.children_start,
                                    Cardinality(node.node_map))
        a1         == AllocChildren(st, BuildChildrenRemoving(children, childPos + 1))
        a2         == AllocNode(a1.store, Inner(node.data_map, newNodeMap,
                                    node.data_start, AllocOrSentinel(a1.idx),
                                    WrappingSub(node.adhash, delta)))
    IN  IF node.data_map = {} /\ newNodeMap = {}
        THEN Removed(st, None, delta)
        ELSE Removed(a2.store, a2.idx, delta)

(* Defect: a two-entry Collision node shrinks to a one-entry one instead *)
(* of promoting the survivor.                                             *)
RemoveFromCollisionNoPromotion(st, node, hash, key) ==
    LET block   == EntriesBlock(st, node.entries_start, node.entries_len)
        match   == {j \in 1 .. node.entries_len : block[j].key = key}
        at      == FirstOf(match)
        removed == Contrib(block[at])
        c1      == AllocEntries(st, BuildEntriesRemoving(block, at))
        c2      == AllocNode(c1.store, Collision(node.hash, Expect(c1.idx),
                                 node.entries_len - 1,
                                 WrappingSub(node.adhash, removed)))
    IN  IF hash # node.hash \/ match = {} THEN NotFound(st)
        ELSE Removed(c2.store, c2.idx, removed)

(* remove_from_collision: with two entries the survivor is promoted to an *)
(* Inner node keyed by its fragment at shift 0                            *)
RemoveFromCollision(st, node, hash, key) ==
    LET block   == EntriesBlock(st, node.entries_start, node.entries_len)
        match   == {j \in 1 .. node.entries_len : block[j].key = key}
        at      == FirstOf(match)
        removed == Contrib(block[at])
        rest    == block[3 - at]
        p1      == AllocEntries(st, <<rest>>)
        p2      == AllocNode(p1.store, Inner({Fragment(rest.hash, 0)}, {},
                                 Expect(p1.idx), 0, Contrib(rest)))
        c1      == AllocEntries(st, BuildEntriesRemoving(block, at))
        c2      == AllocNode(c1.store, Collision(node.hash, Expect(c1.idx),
                                 node.entries_len - 1,
                                 WrappingSub(node.adhash, removed)))
    IN  CASE hash # node.hash \/ match = {} -> NotFound(st)
          [] node.entries_len = 2 -> Removed(p2.store, p2.idx, removed)
          [] OTHER -> Removed(c2.store, c2.idx, removed)

RECURSIVE RemoveRecursive(_, _, _, _, _)

(* remove_from_inner, the key's slot holds a child: recurse, then inline, *)
(* replace or prune                                                        *)
RemoveFromChild(st, node, hash, key, frag, shift) ==
    LET childPos == Index(node.node_map, frag)
        o        == RemoveRecursive(st, GetChild(st, node.children_start + childPos),
                                    hash, key, shift + BITS_PER_LEVEL)
    IN  CASE ~o.found -> NotFound(st)
          [] o.node = None -> PruneChild(o.store, node, frag, childPos, o.delta)
          [] ShouldInline(GetNode(o.store, o.node))
                -> InlineChild(o.store, node, frag, childPos, o.node, o.delta)
          [] OTHER -> ReplaceChild(o.store, node, childPos, o.node, o.delta)

(* remove_from_inner *)
RemoveFromInner(st, node, hash, key, shift) ==
    LET frag == Fragment(hash, shift)
    IN  CASE frag \in node.data_map -> RemoveInlineEntry(st, node, hash, key, frag)
          [] frag \in node.node_map -> RemoveFromChild(st, node, hash, key, frag, shift)
          [] OTHER -> NotFound(st)

(* remove_recursive *)
RemoveRecursive(st, nodeIdx, hash, key, shift) ==
    LET node == GetNode(st, nodeIdx)
    IN  IF IsInner(node) THEN RemoveFromInner(st, node, hash, key, shift)
                         ELSE RemoveFromCollision(st, node, hash, key)

-----------------------------------------------------------------------------
(* get_recursive: the value stored under key, or None *)
RECURSIVE GetRecursive(_, _, _, _, _)
GetRecursive(st, nodeIdx, hash, key, shift) ==
    LET node  == GetNode(st, nodeIdx)
        frag  == Fragment(hash, shift)
        e     == GetEntry(st, node.data_start + Index(node.data_map, frag))
        block == EntriesBlock(st, node.entries_start, node.entries_len)
        match == {j \in 1 .. node.entries_len : block[j].key = key}
    IN  CASE IsInner(node) /\ frag \in node.data_map
                -> IF e.hash = hash /\ e.key = key THEN e.value ELSE None
          [] IsInner(node) /\ frag \in node.node_map
                -> GetRecursive(st, GetChild(st, node.children_start
                                              + Index(node.node_map, frag)),
                                hash, key, shift + BITS_PER_LEVEL)
          [] IsInner(node) -> None
          [] hash # node.hash \/ match = {} -> None
          [] OTHER -> block[FirstOf(match)].value

(* iter.rs collect: DFS, a node's inline entries (ascending fragment) then *)
(* its children (ascending fragment); collision entries in storage order  *)
RECURSIVE Collect(_, _)
Collect(st, nodeIdx) ==
    LET node == GetNode(st, nodeIdx)
        Pair(e) == <<e.key, e.value>>
    IN  IF IsInner(node)
        THEN [slot \in 1 .. Cardinality(node.data_map)
                 |-> Pair(GetEntry(st, node.data_start + slot - 1))]
             \o FlattenSeq([slot \in 1 .. Cardinality(node.node_map)
                 |-> Collect(st, GetChild(st, node.children_start + slot - 1))])
        ELSE [slot \in 1 .. node.entries_len
                 |-> Pair(GetEntry(st, node.entries_start + slot - 1))]
=============================================================================
