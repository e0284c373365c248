CONSTANTS
    b1 = b1
    b2 = b2
    b3 = b3
    r1 = r1
    r2 = r2
    Block = {b1, b2, b3}
    BlockSize = 2
    Token = {1, 2}
    Owner = {r1, r2}
    Prompts <- SharingPrompts
    MaxClock = 2
    MaxLength = 4
SPECIFICATION MCSpec
SYMMETRY Symmetry
INVARIANTS
    TypeOK
    HoldersCountTables
    IndexMatchesSlots
    TablesHoldTheirHistory
    NamedBlocksHoldTheirName
    UnnamedBlocksAreOwn
    FreeTableIsTheLoop
    PublishFullIsTheLoop
PROPERTY HeldContentIsStable
