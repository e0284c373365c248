CONSTANTS
    Request = {1, 2}
    Bytes <- Vocabulary
    Mode <- Modes
    PromptTokens <- Prompts
    Limits = {2}
    MostSlices = 1
    StopTokens = {"stop"}
    MostTokens = 4
    MaxBatch = 2
SPECIFICATION Spec
INVARIANTS
    TypeOK
    ResponsesTellTheAnswer
    TextIsNeverTakenBack
    NoTextIsLost
    ClientsMatchSequences
PROPERTIES
    EveryHandlerReturns
    EngineStops
\* The server may stop.
CHECK_DEADLOCK FALSE
