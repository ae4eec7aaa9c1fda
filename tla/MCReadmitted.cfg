CONSTANTS
  a = a
  b = b
  c = c
  Peers = {a, b}
  Founder = a
  Admins = {a}
  Quorum = 1
  MaxOps = 8
  MaxPending = 1
  Rank <- MCRank
SPECIFICATION PairSpec
INVARIANT Reconcilable
CHECK_DEADLOCK FALSE
