CONSTANTS
  a = a
  b = b
  c = c
  Peers = {a, b, c}
  Founder = a
  Faulty = c
  MaxMoves = 1
  MaxFalse = 1
  Sessions = {1}
  MAX_CHECKPOINT_SIGNERS = 3
  MaxRecords = 1
SPECIFICATION CFairSpec
INVARIANTS CTypeOK GuiltProven ViewCurrent SameVerdict ExclusionProven SignedInState
PROPERTIES GuiltSpreads RekeyCompletes Certified
CHECK_DEADLOCK FALSE
