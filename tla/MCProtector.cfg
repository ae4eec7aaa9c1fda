CONSTANTS
  a = a
  b = b
  None = None
  Peers <- MCPeers
  Versions = {v1, v2, v3}
  Roster <- MCRoster
  Retain = 2
  WINDOW = 2
  EPOCH = 2
  MAX_EPOCH_JUMP = 1
  MaxCounter = 5
  MaxFrames <- MCFrames
  MaxInstalls = 1
SPECIFICATION Spec
SYMMETRY Symmetry
INVARIANTS TypeOK Importable IndexUnique OpensExactly
CHECK_DEADLOCK FALSE
