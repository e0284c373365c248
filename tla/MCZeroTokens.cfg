CONSTANTS
    Nobody = Nobody
    b1 = b1
    b2 = b2
    b3 = b3
    Block = {b1, b2, b3}
    BlockSize = 2
    Token = {1, 2}
    StopTokens = {2}
    Request = {1, 2, 3}
    Prompts <- TwoPrompts
    Outputs = {0}
    MaxContext = 6
    MaxBatch = 2
    Chunks = {3}
    PrefixCache = TRUE
SPECIFICATION CalmSpec
SYMMETRY Symmetry
INVARIANTS
    AnswerWithinMaxTokens
\* The engine waits for good once every request has arrived and ended.
CHECK_DEADLOCK FALSE
