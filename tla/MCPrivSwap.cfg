CONSTANTS
  p1 = p1
  p2 = p2
  s1 = s1
  Proc = {p1, p2}
  Private = {p1, p2}
  Slot = {s1}
  NULL = NULL
  MaxVer = 2
  MaxGen = 2
SPECIFICATION SwapSpec
SYMMETRY ProcSymmetry
INVARIANTS
  SwapTypeOK
  ReadBack
  ClearOnlyIfExcused
  EntryIsUsers
CHECK_DEADLOCK FALSE
