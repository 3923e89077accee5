CONSTANTS
    k1 = k1
    k2 = k2
    k3 = k3
    k4 = k4
    v1 = v1
    r1 = r1
    None = None
    NoIter = NoIter
    Keys <- MCKeys
    Values <- MCValues
    KeyHash <- MCKeyHash
    ValueHash <- MCValueHash
    Readers <- MCReaders
    BITS_PER_LEVEL = 2
    MAX_SHIFT = 0
    HASH_BITS = 2
    ADHASH_BITS = 8
    SEED_1 <- MCSeed1
    SEED_2 <- MCSeed2
    ENTRIES_LEN_MAX = 255
    ARENA_BOUND = 7
    CHECKPOINT_BOUND = 0

SPECIFICATION Spec
SYMMETRY MCSymmetry

INVARIANT IterExact
INVARIANT MapCanonical
