CONSTANTS
    k1 = k1
    k2 = k2
    k3 = k3
    v1 = v1
    v2 = v2
    None = None
    Keys <- MCKeys
    Values <- MCValues
    KeyHash <- MCKeyHash
    ValueHash <- MCValueHash
    BITS_PER_LEVEL = 2
    MAX_SHIFT = 2
    HASH_BITS = 3
    ADHASH_BITS = 8
    SEED_1 <- MCSeed1
    SEED_2 <- MCSeed2
    ENTRIES_LEN_MAX = 255
    ARENA_BOUND = 5
    CHECKPOINT_BOUND = 1

SPECIFICATION Spec

PROPERTY KVRefinement
