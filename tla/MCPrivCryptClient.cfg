SPECIFICATION FairSpec
CONSTANTS
    Ctx = {1, 2}
    Dev = {d1, d2}
    File = {f1, f2}
    Proc = {p1, p2}
    Removable = {d1}
    NULL = NULL
    MaxCount = 2
INVARIANTS
    TypeOK
    NoFault
    ExclusiveUse
    DeadLeaveNothing
PROPERTIES
    DeathCompletes
    KeepsPromise
