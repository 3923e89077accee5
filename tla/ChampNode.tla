----------------------------- MODULE ChampNode -----------------------------
(***************************************************************************)
(* Node variants, bitmap helpers and the AdHash contribution of one entry *)
(* (src/src/node.rs, src/src/adhash.rs).                                   *)
(*                                                                         *)
(* Hash widths are parameters.  The code uses 64-bit key hashes, 5 bits    *)
(* per level and MAX_SHIFT = 60, so the last level (shift 60) sees only    *)
(* 4 bits and a Collision node sits at shift 65.  A model keeps the same   *)
(* shape with HASH_BITS = 3, BITS_PER_LEVEL = 2, MAX_SHIFT = 2: levels at  *)
(* shifts 0 and 2, the last one seeing 1 bit, Collision nodes at shift 4.  *)
(*                                                                         *)
(* AdHash arithmetic is modulo 2^ADHASH_BITS.  The low w bits of a         *)
(* wrapping product, xor and sum depend only on the low w bits of their    *)
(* operands, so with SEED_1, SEED_2 taken as the low w bits of the code's  *)
(* seeds the model computes exactly the low w bits of the code's u64.     *)
(***************************************************************************)
EXTENDS Integers, FiniteSets, Bitwise

CONSTANTS
    BITS_PER_LEVEL,   \* node.rs BITS_PER_LEVEL (5)
    MAX_SHIFT,        \* node.rs MAX_SHIFT (60)
    HASH_BITS,        \* width of a key hash (64)
    ADHASH_BITS,      \* width of AdHash arithmetic (64)
    SEED_1, SEED_2,   \* adhash.rs seeds, reduced mod 2^ADHASH_BITS
    ENTRIES_LEN_MAX,  \* u8::MAX, the bound of Collision::entries_len (255)
    None              \* Option::None, the absent index / value

ASSUME /\ BITS_PER_LEVEL \in Nat \ {0}
       /\ MAX_SHIFT \in Nat /\ MAX_SHIFT % BITS_PER_LEVEL = 0
       \* the last level (shift MAX_SHIFT) still sees at least one hash bit
       \* and no bit is left beyond it: 60 < 64 <= 65 in the code
       /\ MAX_SHIFT < HASH_BITS /\ HASH_BITS <= MAX_SHIFT + BITS_PER_LEVEL
       /\ ADHASH_BITS \in Nat \ {0}
       /\ ENTRIES_LEN_MAX \in Nat /\ ENTRIES_LEN_MAX >= 2

Hashes     == 0 .. 2^HASH_BITS - 1
AdHashes   == 0 .. 2^ADHASH_BITS - 1
Frags      == 0 .. 2^BITS_PER_LEVEL - 1

(* The most nodes a root-to-leaf path holds: one Inner node at each shift *)
(* 0, BITS_PER_LEVEL, ..., MAX_SHIFT and a Collision node below them (13 *)
(* Inner levels and a Collision node for the code's widths).              *)
PathNodes  == MAX_SHIFT \div BITS_PER_LEVEL + 2

(* Defect: the fragment without the & 0x1F mask. *)
FragmentUnmasked(hash, shift) == hash \div 2^shift

(* fragment(hash, shift) = (hash >> shift) & 0x1F *)
Fragment(hash, shift) == (hash \div 2^shift) % 2^BITS_PER_LEVEL

(* A u32 bitmap is the set of fragments whose bit is set; mask(frag) is    *)
(* then {frag}.  index(bitmap, bit) = popcount(bitmap & (bit - 1)).        *)
Index(bitmap, frag) == Cardinality({f \in bitmap : f < frag})

(* u64 wrapping arithmetic *)
WrappingAdd(a, b) == (a + b) % 2^ADHASH_BITS
WrappingSub(a, b) == (a + 2^ADHASH_BITS - b) % 2^ADHASH_BITS
WrappingMul(a, b) == (a * b) % 2^ADHASH_BITS

(* entry_adhash(key_hash, value_hash) = kh * SEED_1 xor vh * SEED_2 *)
EntryAdhash(keyHash, valueHash) ==
    WrappingMul(keyHash, SEED_1) ^^ WrappingMul(valueHash, SEED_2)

(* Node::Inner and Node::Collision.  Bitmaps are sets of fragments; the    *)
(* start fields are arena indices (0-based, 0 doubling as the sentinel).  *)
Inner(dataMap, nodeMap, dataStart, childrenStart, adhash) ==
    [kind |-> "inner", data_map |-> dataMap, node_map |-> nodeMap,
     data_start |-> dataStart, children_start |-> childrenStart,
     adhash |-> adhash]

Collision(hash, entriesStart, entriesLen, adhash) ==
    [kind |-> "collision", hash |-> hash, entries_start |-> entriesStart,
     entries_len |-> entriesLen, adhash |-> adhash]

IsInner(node) == node.kind = "inner"

(* Node::data_len *)
DataLen(node) ==
    IF IsInner(node) THEN Cardinality(node.data_map) ELSE node.entries_len

(* Node::children_len *)
ChildrenLen(node) == IF IsInner(node) THEN Cardinality(node.node_map) ELSE 0
=============================================================================
