SPECIFICATION NetSpec
CONSTANTS
    Qemu = {q1, q2}
    NULL = NULL
    TunCap = 1
    MaxFrames = 3
INVARIANTS
    NetTypeOK
    Intelligible
    Sealed
    FramesErased
PROPERTY
    Drains
