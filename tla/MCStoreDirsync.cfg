CONSTANTS
  v1 = v1
  v2 = v2
  v3 = v3
  NoValue = NoValue
  Values = {v1, v2, v3}
  Importable = {v1, v2, v3}
  Size <- MCSize
  MaxRecord = 4
  MaxWal = 3
  Threshold = 2
  MaxSeq = 4
  Faults = {"dirsync", "reopen"}
SPECIFICATION Spec
INVARIANT NoRollback
CHECK_DEADLOCK FALSE
