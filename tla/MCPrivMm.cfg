CONSTANTS
  p1 = p1
  p2 = p2
  a1 = a1
  a2 = a2
  c1 = c1
  c2 = c2
  Proc = {p1, p2}
  Area = {a1, a2}
  Ctx = {c1, c2}
  NULL = NULL
  None = None
  MaxEntries = 2
  MaxDrift = 2
SPECIFICATION MmSpec
SYMMETRY Symmetric
INVARIANTS
  MmTypeOK
  KeyLives
  KeyDies
  SafeFree
CHECK_DEADLOCK FALSE
