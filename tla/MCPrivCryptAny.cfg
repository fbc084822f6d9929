SPECIFICATION Spec
CONSTANTS
    Ctx = {1, 2}
    Dev = {d1}
    File = {f1}
    Proc = {p1}
    Removable = {d1}
    NULL = NULL
    MaxCount = 3
INVARIANTS
    RemovedIsUnusable
CHECK_DEADLOCK FALSE
