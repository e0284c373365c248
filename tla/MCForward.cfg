CONSTANTS
    b1 = b1
    b2 = b2
    b3 = b3
    r1 = r1
    r2 = r2
    Block = {b1, b2, b3}
    BlockSize = 2
    Token = {1, 2, 3}
    Owner = {r1, r2}
    Prompt <- Prompts2
    MostTokens <- Lengths2
    Settings <- Settings2
    Stream <- Stream2
    Logits <- Turned
    Layers = 2
    KvHeads = 2
    Draws = 10
    MaxClock = 2
SPECIFICATION MCSpec
SYMMETRY Symmetry
CHECK_DEADLOCK FALSE
INVARIANTS
    AnswersAreTheirOwn
    TokensAreLikely
PROPERTY ImplementsPagedKV
