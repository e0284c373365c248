CONSTANTS
    Nobody = Nobody
    b1 = b1
    b2 = b2
    Block = {b1, b2}
    BlockSize = 2
    Token = {1, 2}
    StopTokens = {2}
    Request = {1, 2, 3}
    Prompts <- ShortPrompts
    Outputs = {2, 3}
    MaxContext = 4
    MaxBatch = 3
    Chunks = {2}
    PrefixCache = TRUE
SPECIFICATION CalmFairSpec
INVARIANTS
    PassWithinChunk
    NoDecoderPassedOver
PROPERTIES
    EveryRequestEnds
\* The engine waits for good once every request has arrived and ended.
CHECK_DEADLOCK FALSE
