SPECIFICATION FairUsbSpec
CONSTANTS
    Ctx = {c1, c2}
    Dev = {kbd, mouse}
    NULL = NULL
    MaxPos = 2
    MaxDone = 2
INVARIANTS
    UsbTypeOK
    CipherOnly
    InStep
PROPERTIES
    Unblocks
