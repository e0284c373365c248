CONSTANTS
    Threads = 8
    Lanes = 4
    BlockSize = 2
    MaxBlocks = 5
    HeadDim = 9
    NumHeads = 4
    KvHeads = 2
    Rows = 2
    BlockTable <- Tables
    Lengths = {0, 1, 6, 10}
    Query <- Queries
    KPool <- Pool
    VPool <- OtherPool
SPECIFICATION Spec
INVARIANTS
    OutputIsAttention
    NoRaces
PROPERTY EveryThreadReturns
\* The group is done.
CHECK_DEADLOCK FALSE
