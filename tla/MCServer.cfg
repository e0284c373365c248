CONSTANTS
    Arguments <- CommandLines
    Checkpoints <- Models
    Requests <- Bodies
    Handler = {h1, h2}
    Shared <- OnChip
    Threads = 2
SPECIFICATION Spec
SYMMETRY Symmetry
INVARIANTS
    TypeOK
    AdmittedSequencesFit
    TurnedAwayWouldNotFit
    HonouredOrRefused
\* The server may refuse to start.
CHECK_DEADLOCK FALSE
