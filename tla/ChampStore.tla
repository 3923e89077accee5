----------------------------- MODULE ChampStore -----------------------------
(***************************************************************************)
(* The store: three bump arenas (nodes, entries, child indices) under one  *)
(* checkpoint (src/src/store.rs, src/src/arena_sync.rs).  An arena is a    *)
(* sequence; an index is a 0-based offset into it, so item i is at         *)
(* position i + 1.  The bump arena itself (crate safe_bump) is not part of *)
(* this repository: alloc appends, alloc_extend appends a contiguous batch *)
(* and returns None for an empty one, checkpoint is the length, rollback   *)
(* truncates to it.                                                        *)
(*                                                                         *)
(* Every allocation returns [store |-> new store, idx |-> index], so the   *)
(* trie algorithms thread the store through their calls in the order the  *)
(* code allocates.                                                         *)
(***************************************************************************)
EXTENDS ChampNode, Sequences, TLC

EmptyStore == [nodes |-> <<>>, entries |-> <<>>, children |-> <<>>]

(* get_node, get_entry, get_child *)
GetNode(st, idx)  == st.nodes[idx + 1]
GetEntry(st, idx) == st.entries[idx + 1]
GetChild(st, idx) == st.children[idx + 1]

(* alloc_node: appends one node *)
AllocNode(st, node) ==
    [store |-> [nodes    |-> Append(st.nodes, node),
                entries  |-> st.entries,
                children |-> st.children],
     idx |-> Len(st.nodes)]

(* alloc_entries / alloc_children: contiguous batch, None if empty *)
AllocEntries(st, block) ==
    [store |-> [nodes    |-> st.nodes,
                entries  |-> st.entries \o block,
                children |-> st.children],
     idx |-> IF block = <<>> THEN None ELSE Len(st.entries)]

AllocChildren(st, block) ==
    [store |-> [nodes    |-> st.nodes,
                entries  |-> st.entries,
                children |-> st.children \o block],
     idx |-> IF block = <<>> THEN None ELSE Len(st.children)]

(* insert.rs/remove.rs alloc_or_sentinel: None becomes Idx 0 *)
AllocOrSentinel(idx) == IF idx = None THEN 0 ELSE idx

(* Option::expect on an allocation the code knows to be non-empty *)
Expect(idx) == IF idx # None THEN idx ELSE Assert(FALSE, "expect on None")

(* The len items of a block starting at start, as a sequence. *)
EntriesBlock(st, start, len)  == SubSeq(st.entries, start + 1, start + len)
ChildrenBlock(st, start, len) == SubSeq(st.children, start + 1, start + len)

(* checkpoint: the three high-water marks *)
StoreCheckpoint(st) ==
    [nodes |-> Len(st.nodes), entries |-> Len(st.entries),
     children |-> Len(st.children)]

(* rollback: truncate all three arenas *)
StoreRollback(st, cp) ==
    [nodes    |-> SubSeq(st.nodes, 1, cp.nodes),
     entries  |-> SubSeq(st.entries, 1, cp.entries),
     children |-> SubSeq(st.children, 1, cp.children)]
=============================================================================
