SPECIFICATION Spec
CONSTANTS
    A = A
    B = B
    None = None
    Nodes = {A, B}
    Edges <- Pair
    Hashes = {0, 1, 2, 3, 4, 5, 6}
    GENESIS = 0
    prev <- ForkPrev
    work <- ForkWork
    InitialTrees <- ForkTrees
    SYNC_BATCH = 1
    SERVE_RATE_MAX = 2
    BRANCH_MAX_ROUNDS = 4
    PEER_STRIKES_MAX = 1
    MAX_INFLIGHT_PER_PEER = 1
    PEER_TIPS_CAP = 4
    LOCATOR_TIPS = 4
    BAD_BLOCKS_CAP = 2
    LOCATOR_DENSE = 8
    TIPS_HEARTBEAT = 1
    PRUNE_AFTER = 2
    MaxFaults = 1
PROPERTY EveryBlockArrives
