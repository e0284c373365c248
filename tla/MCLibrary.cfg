CONSTANTS
    Nobody = Nobody
    b1 = b1
    b2 = b2
    Block = {b1, b2}
    BlockSize = 2
    Token = {1, 2}
    StopTokens = {2}
    Request = {1, 2}
    Prompts <- LongPrompts
    Outputs = {1, 3}
    MaxContext = 9
    MaxBatch = 2
    Chunks = {0, 2}
    PrefixCache = FALSE
SPECIFICATION Spec
SYMMETRY Symmetry
INVARIANTS
    EndsFitTheAnswer
\* The engine waits for good once every request has arrived and ended.
CHECK_DEADLOCK FALSE
