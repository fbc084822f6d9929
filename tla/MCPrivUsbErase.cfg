SPECIFICATION FairUsbSpec
CONSTANTS
    Ctx = {c1}
    Dev = {kbd}
    NULL = NULL
    MaxPos = 2
    MaxDone = 2
PROPERTIES
    ErasedOrEncrypted
