SPECIFICATION SessSpec
CONSTANTS
    Cctx = {1, 2, 3, 4}
    Secret = {y1, y2}
    NULL = NULL
INVARIANTS
    SessTypeOK
    KeyAgreement
    NoOrphan
    OnlyAgreedKeyStays
PROPERTIES
    SetupEnds
CHECK_DEADLOCK FALSE
