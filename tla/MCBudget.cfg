CONSTANTS
    Arguments <- Automatic
    Checkpoints <- Wide
    Requests <- Sizes
    Handler = {h1}
    Shared <- OnChip
    Threads = 2
SPECIFICATION Spec
INVARIANT PoolWithinCacheBudget
CHECK_DEADLOCK FALSE
